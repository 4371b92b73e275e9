---------------------------- MODULE RecordFields ----------------------------
(***************************************************************************)
(* One step of the record form, field by field, on the way from the input  *)
(* to the database and back: the form state, the payload the store builds, *)
(* the rules of the DTO, what the service writes, and what a reload shows. *)
(*                                                                         *)
(* A value is empty, an ordinary text, a text no format rule accepts, or a *)
(* text another record already uses.  An empty value stands for '', null   *)
(* and a switch that is off.  Steps 1..5; step 6 is the module             *)
(* DocumentRows.                                                           *)
(***************************************************************************)
EXTENDS Naturals, Sequences, SequencesExt, Orders

CONSTANTS MaxEdits,  \* what the user changes, over the whole behaviour
          MaxFieldRows    \* rows of a table step

ASSUME BoundsAssumption == MaxEdits \in Nat /\ MaxFieldRows \in Nat \ {0}

Steps == 1 .. 5

Values == {"", "text", "odd", "used"}

Absent == "absent"  \* undefined: JSON.stringify leaves the property out

Cipher == "cipher"  \* the ciphertext of "text"

VARIABLES
    fieldStep,        \* the step this behaviour is about
    routed,      \* the route names the record: the form is in edit mode
    made,        \* records this form has created
    stored,      \* the record's columns that belong to the step
    storedRows,  \* the step's child rows, in order
    form,        \* the step's own fields in the form
    formRows,    \* the step's rows in the form
    touched,     \* changed since the form was loaded or opened
    edits,
    fieldOutcome      \* of the last save: "none", "loaded", "accepted", "refused"

fieldsVars == <<fieldStep, routed, made, stored, storedRows, form, formRows, touched,
          edits, fieldOutcome>>

-----------------------------------------------------------------------------
(* What the steps show: the inputs of the template. *)

AddressInputs == {"addressLine1", "addressLine2", "city", "state",
                  "postalCode", "country"}

StepOneInputs == {"profileImage", "firstName", "lastName", "email", "dateOfBirth",
                  "gender", "mobileNumber", "whatsappNumber"} \cup AddressInputs

StepTwoInputs == {"type", "number"}

StepThreeInputs == {"job", "retirementDate", "isRedirected", "isAbroad",
                    "redirectedAddressLine1", "redirectedAddressLine2"}

StepThreeRowInputs == AddressInputs \cup {"locationType"}

StepFourInputs == {"marriageDate", "previousAddress"}

StepFourRowInputs == {"name", "dateOfBirth", "gender"}

StepFiveInputs == {"type", "provider", "number"}

Inputs == <<StepOneInputs, {}, StepThreeInputs, StepFourInputs, {}>>

RowInputs == <<{}, StepTwoInputs, StepThreeRowInputs, StepFourRowInputs, StepFiveInputs>>

\* Selects, switches and date inputs offer no text of the user's own.
Picked == {"dateOfBirth", "gender", "country", "retirementDate", "isRedirected",
           "isAbroad", "marriageDate", "locationType", "profileImage"}

\* Values a user can put into a field.
Offered(field) ==
    IF field \in Picked THEN {"", "text"}
    ELSE IF field \in {"email", "mobileNumber"} THEN Values
    ELSE {"", "text", "odd"}

\* The rules the step's v-form evaluates; phone numbers only show a warning.
ClientValid ==
    /\ fieldStep = 1 => /\ form["firstName"] # ""
                   /\ form["email"] \notin {"", "odd"}
                   /\ form["postalCode"] # "odd"
    /\ fieldStep = 3 => \A i \in DOMAIN formRows : formRows[i].cells["postalCode"] # "odd"

Blank(fields) == [f \in fields |-> ""]

\* A row the user adds, or the one an empty form starts with.
NewFormRow(s) == [cells |-> Blank(RowInputs[s]), loaded |-> FALSE]

-----------------------------------------------------------------------------
(* The columns. *)

RecordColumns == <<StepOneInputs, {}, StepThreeInputs \cup {"redirectionAddress"},
                   StepFourInputs, {}>>

IdentityColumns == {"type", "number"}

AddressColumns == {"addressLine1", "addressLine2", "city", "state", "postalCode",
                   "country", "locationType"}

ChildColumns == {"name", "dateOfBirth", "gender"}

AccountColumns == {"type", "provider", "number"}

RowColumns == <<{}, IdentityColumns, AddressColumns, ChildColumns, AccountColumns>>

Sensitive == {"number"}

-----------------------------------------------------------------------------
(* EncryptionUtility. A text no rule accepts includes what looks encrypted. *)

IsEncrypted(value) == value \in {"odd", Cipher}

EncryptIfNeeded(value) ==
    IF value \in {"", Absent} THEN ""
    ELSE IF IsEncrypted(value) THEN value
    ELSE Cipher

\* A text that only looks encrypted decrypts to something else, or to nothing.
Decrypt(value) ==
    IF ~IsEncrypted(value) THEN value
    ELSE IF value = Cipher THEN "text"
    ELSE ""

Serialised(row) == [f \in DOMAIN row |-> IF f \in Sensitive THEN Decrypt(row[f]) ELSE row[f]]

-----------------------------------------------------------------------------
(* The payloads. *)

SentAsIs == {"redirectionAddress", "isAbroad", "isRedirected"}  \* without "|| undefined"

Sent(field, value) == IF value = "" /\ field \notin SentAsIs THEN Absent ELSE value

PayloadOneWithoutWhatsapp ==  \* mutant of PayloadOne
    StepOneInputs \ {"whatsappNumber"}

PayloadOne == {"profileImage", "firstName", "lastName", "email", "gender", "addressLine1",
               "addressLine2", "city", "state", "postalCode", "country",
               "mobileNumber", "whatsappNumber", "dateOfBirth"}

PayloadThree == {"redirectionAddress", "isAbroad", "redirectedAddressLine1",
                 "redirectedAddressLine2", "job", "retirementDate", "isRedirected"}

PayloadFour == {"marriageDate", "previousAddress"}

Payload == LET fields == <<PayloadOne, {}, PayloadThree, PayloadFour, {}>>[fieldStep]
           IN [f \in fields |-> Sent(f, form[f])]

PayloadRowTwo == {"type", "number"}

PayloadRowThree == {"id", "addressLine1", "addressLine2", "city", "state", "postalCode",
                    "country", "locationType"}

PayloadRowFour == {"id", "name", "dateOfBirth", "gender"}

PayloadRowFive == {"type", "number", "provider"}

\* One row of the payload: the id only of a row that was loaded.
PayloadRow(row) ==
    LET fields == <<{}, PayloadRowTwo, PayloadRowThree, PayloadRowFour, PayloadRowFive>>[fieldStep]
    IN [f \in {g \in fields : g # "id" \/ row.loaded} |->
          IF f = "id" THEN "id" ELSE Sent(f, row.cells[f])]

-----------------------------------------------------------------------------
(* The DTOs behind a ValidationPipe that forbids properties they lack. *)

\* The id step one sends along: the record's own values are no duplicates.
IgnoredId == IF routed THEN {"own"} ELSE {}

\* ExistsRule: some row other than the ignored one has this value.
AlreadyExists(field, value) ==
    \/ value = "used"
    \/ made > 0 /\ stored[field] = value /\ IgnoredId = {}

StepOneRefused(p) ==
    \/ p["firstName"] = Absent
    \/ p["email"] = Absent
    \/ \E f \in DOMAIN p \cap {"email", "postalCode", "country", "mobileNumber",
                              "whatsappNumber", "dateOfBirth", "gender"} : p[f] = "odd"
    \/ \E f \in {"email", "mobileNumber"} : p[f] # Absent /\ AlreadyExists(f, p[f])

IdentityDocumentDto == [known |-> {"type", "number"}, formatted |-> {"number"}]

OccupationDto == [known |-> PayloadThree, formatted |-> {"retirementDate"}]

AddressDto == [known |-> {"id", "addressLine1", "addressLine2", "city", "state",
                          "postalCode", "country", "locationType"},
               formatted |-> {"postalCode", "country"}]

FamilyDto == [known |-> {"marriageDate", "previousAddress"}, formatted |-> {"marriageDate"}]

ChildDto == [known |-> {"name", "dateOfBirth", "gender"},
             formatted |-> {"dateOfBirth", "gender"}]

FinancialAccountDto == [known |-> {"type", "number", "provider"}, formatted |-> {"number"}]

Breaks(values, dto) ==
    \/ ~(DOMAIN values \subseteq dto.known)
    \/ \E f \in dto.formatted \cap DOMAIN values : values[f] = "odd"

Refused ==
    CASE fieldStep = 1 -> StepOneRefused(Payload)
      [] fieldStep = 2 -> \E i \in DOMAIN formRows : Breaks(PayloadRow(formRows[i]), IdentityDocumentDto)
      [] fieldStep = 3 -> \/ Breaks(Payload, OccupationDto)
                     \/ \E i \in DOMAIN formRows : Breaks(PayloadRow(formRows[i]), AddressDto)
      [] fieldStep = 4 -> \/ Breaks(Payload, FamilyDto)
                     \/ \E i \in DOMAIN formRows : Breaks(PayloadRow(formRows[i]), ChildDto)
      [] fieldStep = 5 -> \E i \in DOMAIN formRows : Breaks(PayloadRow(formRows[i]), FinancialAccountDto)

-----------------------------------------------------------------------------
(* What the service writes. *)

\* A property the payload lacks is undefined to the service.
Get(sent, f) == IF f \in DOMAIN sent THEN sent[f] ELSE Absent

\* mutant of Column: the date of nothing is today
TodayForNoDate(field, sent, current) ==
    IF sent # Absent THEN sent ELSE IF field = "retirementDate" THEN "text" ELSE current

\* TypeORM's update skips undefined; promoteProfileImage returns null for it.
Column(field, sent, current) ==
    IF sent # Absent THEN sent ELSE IF field = "profileImage" THEN "" ELSE current

Written(old) == [f \in RecordColumns[fieldStep] |-> Column(f, Get(Payload, f), old[f])]

\* A new row has the column defaults; gender defaults to "other".
InsertedColumns == [f \in RecordColumns[1] |-> IF f = "gender" THEN "text" ELSE ""]

Null(value) == IF value = Absent THEN "" ELSE value

Plain(row, fields) == [f \in fields |-> Null(Get(row, f))]

StepTwoRow(row) ==
    [Plain(row, IdentityColumns) EXCEPT !["number"] = EncryptIfNeeded(Get(row, "number"))]

StepThreeRow(row) == Plain(row, AddressColumns)

\* The insert leaves out what is undefined: the gender column has its default.
StepFourRow(row) ==
    [Plain(row, ChildColumns) EXCEPT !["gender"] = IF Get(row, "gender") = Absent THEN "text" ELSE @]

StepFiveRow(row) ==
    [Plain(row, AccountColumns) EXCEPT !["number"] = EncryptIfNeeded(Get(row, "number"))]

WrittenRow(row) ==
    CASE fieldStep = 2 -> StepTwoRow(row)
      [] fieldStep = 3 -> StepThreeRow(row)
      [] fieldStep = 4 -> StepFourRow(row)
      [] fieldStep = 5 -> StepFiveRow(row)

-----------------------------------------------------------------------------
(* setFormFields. *)

LoadedFields ==
    <<StepOneInputs, {}, StepThreeInputs \cup {"redirectionAddress"}, StepFourInputs, {}>>

\* Steps 2 and 5 show one blank row when the record has none.
ShownRows ==
    IF fieldStep \in {2, 5} /\ storedRows = <<>> THEN <<NewFormRow(fieldStep)>>
    ELSE [i \in DOMAIN storedRows |-> [cells |-> Serialised(storedRows[i]), loaded |-> TRUE]]

FormFields(s) == Inputs[s] \cup (IF s = 3 THEN {"redirectionAddress"} ELSE {})

ShownFields == [f \in FormFields(fieldStep) |->
                  IF f \in LoadedFields[fieldStep] THEN stored[f] ELSE form[f]]

-----------------------------------------------------------------------------

FieldsInit ==
    /\ fieldStep \in Steps
    /\ routed = (fieldStep # 1)
    /\ made = (IF fieldStep = 1 THEN 0 ELSE 1)
    /\ stored = IF fieldStep = 1 THEN InsertedColumns ELSE Blank(RecordColumns[fieldStep])
    /\ storedRows = <<>>
    /\ form = Blank(FormFields(fieldStep))
    /\ formRows = (IF fieldStep = 1 THEN <<>> ELSE <<NewFormRow(fieldStep)>>)
    /\ touched = FALSE
    /\ edits = 0
    /\ fieldOutcome = "none"

Edited ==
    /\ edits < MaxEdits
    /\ edits' = edits + 1
    /\ touched' = TRUE
    /\ fieldOutcome' = "none"
    /\ UNCHANGED <<fieldStep, routed, made, stored, storedRows>>

TypeField ==
    /\ \E f \in Inputs[fieldStep] : \E v \in Offered(f) \ {form[f]} : form' = [form EXCEPT ![f] = v]
    /\ UNCHANGED formRows
    /\ Edited

TypeCell ==
    /\ \E i \in DOMAIN formRows, f \in RowInputs[fieldStep] :
         \E v \in Offered(f) \ {formRows[i].cells[f]} :
            formRows' = [formRows EXCEPT ![i].cells[f] = v]
    /\ UNCHANGED form
    /\ Edited

AddRow ==
    /\ fieldStep # 1
    /\ Len(formRows) < MaxFieldRows
    /\ formRows' = Append(formRows, NewFormRow(fieldStep))
    /\ UNCHANGED form
    /\ Edited

\* The last row of steps 2 and 5 is emptied instead of removed.
RemoveRow ==
    /\ \E i \in DOMAIN formRows :
         formRows' = IF fieldStep \in {2, 5} /\ Len(formRows) = 1 THEN <<NewFormRow(fieldStep)>>
                     ELSE RemoveAt(formRows, i)
    /\ UNCHANGED form
    /\ Edited

\* The form is opened on the record, or follows the route to it.
LoadFields ==
    /\ made > 0
    /\ routed' = TRUE
    /\ form' = ShownFields
    /\ formRows' = ShownRows
    /\ touched' = FALSE
    /\ fieldOutcome' = "loaded"
    /\ UNCHANGED <<fieldStep, made, stored, storedRows, edits>>

FieldsRefused ==
    /\ Refused
    /\ fieldOutcome' = "refused"
    /\ UNCHANGED <<fieldStep, routed, made, stored, storedRows, form, formRows, touched, edits>>

\* Step one without an id inserts a record.
FieldsAccepted ==
    /\ ~Refused
    /\ fieldOutcome' = "accepted"
    /\ made' = IF routed THEN made ELSE made + 1
    /\ stored' = Written(IF routed THEN stored ELSE InsertedColumns)
    /\ storedRows' = [i \in DOMAIN formRows |-> WrittenRow(PayloadRow(formRows[i]))]
    /\ UNCHANGED <<fieldStep, routed, form, formRows, touched, edits>>

FieldsNext == TypeField \/ TypeCell \/ AddRow \/ RemoveRow \/ LoadFields \/ FieldsRefused \/ FieldsAccepted

FieldsSpec == FieldsInit /\ [][FieldsNext]_fieldsVars

-----------------------------------------------------------------------------
(* Properties. *)

\* Every variable has its type.
FieldsTypeOK ==
    /\ fieldStep \in Steps
    /\ routed \in BOOLEAN
    /\ made \in 0 .. MaxEdits + 1
    /\ stored \in [RecordColumns[fieldStep] -> Values]
    /\ \A i \in DOMAIN storedRows : DOMAIN storedRows[i] = RowColumns[fieldStep]
    /\ form \in [FormFields(fieldStep) -> Values]
    /\ Len(formRows) <= MaxFieldRows
    /\ \A i \in DOMAIN formRows : formRows[i] \in
          [cells : [RowInputs[fieldStep] -> Values], loaded : BOOLEAN]
    /\ touched \in BOOLEAN
    /\ edits \in 0 .. MaxEdits
    /\ fieldOutcome \in {"none", "loaded", "accepted", "refused"}

Same(shown, kept, f) == shown[f] = kept[f] \/ (f = "gender" /\ shown[f] = "")

\* An accepted save stores what every filled-in field shows, and the rows as
\* they are shown: nothing gets lost between the input, the payload of the
\* store, the DTO, the service and the column (an unset gender is "other").
FilledInIsStored ==
    fieldOutcome = "accepted" =>
      /\ \A f \in Inputs[fieldStep] : form[f] # "" => stored[f] = form[f]
      /\ Len(storedRows) = Len(formRows)
      /\ \A i \in DOMAIN formRows, f \in RowInputs[fieldStep] :
           Same(formRows[i].cells, Serialised(storedRows[i]), f)

\* The form shows everything the record has: setFormFields forgets no column,
\* and numbers come back as they were typed.
LoadShowsStored ==
    fieldOutcome = "loaded" =>
      /\ \A f \in Inputs[fieldStep] : form[f] = stored[f]
      /\ \A i \in DOMAIN storedRows : formRows[i].cells = Serialised(storedRows[i])

\* Document and account numbers are never stored in plain text, although
\* encryptIfNeeded takes a text of the right shape for a ciphertext: the
\* patterns of the DTOs refuse every such text first.
NumbersAreEncrypted ==
    \A i \in DOMAIN storedRows : \A f \in Sensitive \cap RowColumns[fieldStep] :
      storedRows[i][f] \in {"", Cipher}

\* What a user may have done to be refused.
Malformed ==
    \/ ~ClientValid
    \/ \E f \in Inputs[fieldStep] : form[f] \in {"odd", "used"}
    \/ \E i \in DOMAIN formRows, f \in RowInputs[fieldStep] : formRows[i].cells[f] = "odd"

\* A refusal always has a cause among the values in the form, with two
\* exceptions: children that were loaded with the record, whose id ChildDto
\* does not know, and a second "Save Draft" on the create page, which sends no
\* id and meets its own first record.
FieldRefusalHasACause ==
    fieldOutcome = "refused" =>
      \/ Malformed
      \/ fieldStep = 4 /\ \E i \in DOMAIN formRows : formRows[i].loaded
      \/ fieldStep = 1 /\ made > 0 /\ ~routed

Rows(rows) == Places(rows, {i \in DOMAIN rows : \E f \in DOMAIN rows[i] : rows[i][f] # ""})

\* Saving a form that was loaded and not touched changes no value of the record
\* (a blank row may be added, and blank rows mean nothing).
UntouchedSaveKeeps ==
    [][fieldOutcome' = "accepted" /\ ~touched /\ fieldOutcome = "loaded"
         => /\ stored' = stored
            /\ Rows(storedRows') = Rows(storedRows)]_fieldsVars

\* A field survives the way to the column and back, a number encrypted, or is refused for
\* a cause.
FieldsSafe ==
    FieldsTypeOK /\ FilledInIsStored /\ LoadShowsStored /\ NumbersAreEncrypted /\ FieldRefusalHasACause

=============================================================================
