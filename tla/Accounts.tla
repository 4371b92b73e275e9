------------------------------ MODULE Accounts ------------------------------
(***************************************************************************)
(* Accounts of the backend: sign-up, sign-in, the guard of every other      *)
(* request, the administrator's changes, and the default administrator made *)
(* at start-up.  Requests interleave at each await; the process may die.    *)
(* Addresses are lower-cased by sign-up and sign-in, and by nothing else.   *)
(***************************************************************************)
EXTENDS Naturals, FiniteSets

CONSTANTS Slots,        \* requests at a time
          Addresses, Passwords,
          MaxUsers, MaxRequests, MaxRestarts,
          Kinds         \* requests that come

ASSUME AccountsAssumption ==
    /\ MaxUsers \in Nat /\ MaxRequests \in Nat /\ MaxRestarts \in Nat
    /\ Kinds \subseteq {"signUp", "signIn", "create", "approve", "deactivate", "rename", "password", "remove", "read"}
    /\ {"ann", "admin"} \subseteq Addresses /\ "p" \in Passwords

Lower(e) == IF e = "Ann" THEN "ann" ELSE e

Hash(p) == <<"bcrypt", p>>

VARIABLES
    users,     \* id -> account; a row of the table
    lastId,
    server,    \* "down", "create" (the default administrator) or "up"
    requests,  \* slot -> the request in it, answered or not
    tokens,    \* ids of accounts that were given a token
    begun, restarts,
    chosen     \* id -> the password last chosen for it

accountsVars == <<users, lastId, server, requests, tokens, begun, restarts, chosen>>

Ids == 1 .. MaxUsers

NoAccount == [username |-> "none", password |-> Hash("none"), isActive |-> FALSE, role |-> "none"]

Free == [kind |-> "none", stage |-> "answered", answer |-> "none", by |-> 0, usable |-> FALSE,
         email |-> "none", password |-> "none", id |-> 0, found |-> NoAccount]

AccountsInit ==
    /\ users = [i \in Ids |-> NoAccount] /\ lastId = 0
    /\ server = "down"
    /\ requests = [s \in Slots |-> Free]
    /\ tokens = {} /\ begun = 0 /\ restarts = 0
    /\ chosen = [i \in Ids |-> "none"]

Row(i) == users[i] # NoAccount

Named(e) == {i \in Ids : Row(i) /\ users[i].username = e}

\* The unique index on username.
Insertable(e) == Named(e) = {}

\* repository.save of a new entity; BeforeInsert hashes.
Insert(e, p, active, role) ==
    /\ lastId < MaxUsers
    /\ lastId' = lastId + 1
    /\ users' = [users EXCEPT ![lastId + 1] =
                    [username |-> e, password |-> Hash(p), isActive |-> active, role |-> role]]
    /\ chosen' = [chosen EXCEPT ![lastId + 1] = p]

NoInsert == UNCHANGED <<users, lastId, chosen>>

Answered(r, code) == [r EXCEPT !.stage = "answered", !.answer = code]

-----------------------------------------------------------------------------
(* Start-up. *)

\* ensureDefaultAdminUser: existsBy, then save.
Boot ==
    /\ server = "down"
    /\ server' = IF Named("admin") # {} THEN "up" ELSE "create"
    /\ UNCHANGED <<users, lastId, requests, tokens, begun, restarts, chosen>>

CreateAdmin ==
    /\ server = "create"
    /\ Insert("admin", "p", TRUE, "ADMIN")
    /\ server' = "up"
    /\ UNCHANGED <<requests, tokens, begun, restarts>>

\* The process dies with the requests it has.
Restart ==
    /\ server # "down" /\ restarts < MaxRestarts
    /\ server' = "down" /\ restarts' = restarts + 1
    /\ requests' = [s \in Slots |-> Free]
    /\ UNCHANGED <<users, lastId, tokens, begun, chosen>>

-----------------------------------------------------------------------------
(* Requests. *)

Public == {"signUp", "signIn"}

Receive(s, kind, by, e, p, i) ==
    /\ server = "up" /\ requests[s].stage = "answered" /\ begun < MaxRequests
    /\ begun' = begun + 1
    /\ requests' = [requests EXCEPT ![s] =
         [kind |-> kind, stage |-> IF kind \in Public THEN "find" ELSE "guard", answer |-> "none",
          by |-> by, usable |-> by # 0 /\ users[by].isActive,
          email |-> e, password |-> p, id |-> i, found |-> NoAccount]]
    /\ UNCHANGED <<users, lastId, server, tokens, restarts, chosen>>

\* A body holds what its kind needs; sign-up and sign-in lower-case the address.
ReceiveSome(s) ==
    \/ \E kind \in Kinds \cap Public, e \in Addresses, p \in Passwords :
          Receive(s, kind, 0, Lower(e), p, 0)
    \/ \E by \in tokens :
          \/ "read" \in Kinds /\ Receive(s, "read", by, "none", "none", 0)
          \/ \E e \in Addresses : "create" \in Kinds /\ Receive(s, "create", by, e, "p", 0)
          \/ \E i \in 1 .. lastId :
                \/ \E kind \in Kinds \cap {"approve", "deactivate", "remove"} :
                      Receive(s, kind, by, "none", "none", i)
                \/ \E e \in Addresses : "rename" \in Kinds /\ Receive(s, "rename", by, e, "none", i)
                \/ \E p \in Passwords : "password" \in Kinds /\ Receive(s, "password", by, "none", p, i)

At(s, kind, stage) == server = "up" /\ requests[s].kind \in kind /\ requests[s].stage = stage

Becomes(s, r) == requests' = [requests EXCEPT ![s] = r]

SignUpFinds(s) ==
    /\ At(s, {"signUp"}, "find")
    /\ Becomes(s, IF Named(requests[s].email) # {} THEN Answered(requests[s], "conflict")
                                                   ELSE [requests[s] EXCEPT !.stage = "insert"])
    /\ UNCHANGED <<users, lastId, server, tokens, begun, restarts, chosen>>

\* usersService.create, for sign-up and the administrator; a username taken in between
\* breaks the unique index.
Create(s) ==
    /\ At(s, {"signUp", "create"}, "insert")
    /\ IF Insertable(requests[s].email)
       THEN Insert(requests[s].email, requests[s].password, FALSE, "USER")
            /\ Becomes(s, Answered(requests[s], "created"))
       ELSE NoInsert /\ Becomes(s, Answered(requests[s], "error"))
    /\ UNCHANGED <<server, tokens, begun, restarts>>

SignInFinds(s) ==
    /\ At(s, {"signIn"}, "find")
    /\ LET r == requests[s] IN
       IF Named(r.email) = {} THEN Becomes(s, Answered(r, "invalid"))
       ELSE \E i \in Named(r.email) : Becomes(s, [r EXCEPT !.stage = "compare", !.id = i, !.found = users[i]])
    /\ UNCHANGED <<users, lastId, server, tokens, begun, restarts, chosen>>

\* The account as it was found is what decides.
SignInAnswer(r) ==
    IF r.found.password # Hash(r.password) THEN "invalid" ELSE IF ~r.found.isActive THEN "pending" ELSE "token"

SignInCompares(s) ==
    /\ At(s, {"signIn"}, "compare")
    /\ LET answer == SignInAnswer(requests[s]) IN
       /\ Becomes(s, Answered(requests[s], answer))
       /\ tokens' = IF answer = "token" THEN tokens \cup {requests[s].id} ELSE tokens
    /\ UNCHANGED <<users, lastId, server, begun, restarts, chosen>>

AnyAccount(i) == Row(i)  \* mutant of Admitted: the guard without isActive

\* AuthGuard looks the account up anew, whatever its token says.
Admitted(i) == users[i].isActive

\* AuthGuard and RolesGuard.
Guard(s) ==
    /\ At(s, Kinds \ Public, "guard")
    /\ LET r == requests[s] IN
       Becomes(s, IF ~Admitted(r.by) THEN Answered(r, "unauthorized")
                  ELSE IF r.kind = "read" THEN Answered(r, "done")
                  ELSE IF users[r.by].role # "ADMIN" THEN Answered(r, "forbidden")
                  ELSE [r EXCEPT !.stage = IF r.kind \in {"create", "rename"} THEN "validate" ELSE "write"])
    /\ UNCHANGED <<users, lastId, server, tokens, begun, restarts, chosen>>

\* ExistsRule on username.
Validate(s) ==
    /\ At(s, {"create", "rename"}, "validate")
    /\ LET r == requests[s] IN
       Becomes(s, IF Named(r.email) # {} THEN Answered(r, "bad")
                  ELSE [r EXCEPT !.stage = IF r.kind = "create" THEN "insert" ELSE "write"])
    /\ UNCHANGED <<users, lastId, server, tokens, begun, restarts, chosen>>

NewPassword(p) == Hash(p)

Changed(r, u) ==
    CASE r.kind = "approve"    -> [u EXCEPT !.isActive = TRUE]
      [] r.kind = "deactivate" -> [u EXCEPT !.isActive = FALSE]
      [] r.kind = "rename"     -> [u EXCEPT !.username = r.email]
      [] r.kind = "password"   -> [u EXCEPT !.password = NewPassword(r.password)]

\* repository.update changes the rows there are.
Updated(i) == Row(i)

\* update: of a row that is gone it changes nothing, and answers so.
Update(s) ==
    /\ At(s, {"approve", "deactivate", "rename", "password"}, "write")
    /\ LET r == requests[s]  i == r.id
           taken == r.kind = "rename" /\ Named(r.email) \ {i} # {}
           answered == [requests EXCEPT ![s] = Answered(r, IF Updated(i) /\ taken THEN "error" ELSE "done")]
       IN IF ~Updated(i) \/ taken
          THEN requests' = answered /\ UNCHANGED <<users, chosen>>
          ELSE /\ users' = [users EXCEPT ![i] = Changed(r, @)]
               /\ chosen' = [chosen EXCEPT ![i] = IF r.kind = "password" THEN r.password ELSE @]
               /\ requests' = [t \in Slots |-> [answered[t] EXCEPT !.usable =
                                  @ \/ (r.kind = "approve" /\ answered[t].by = i)]]
    /\ UNCHANGED <<lastId, server, tokens, begun, restarts>>

Remove(s) ==
    /\ At(s, {"remove"}, "write")
    /\ users' = [users EXCEPT ![requests[s].id] = NoAccount]
    /\ Becomes(s, Answered(requests[s], "done"))
    /\ UNCHANGED <<lastId, server, tokens, begun, restarts, chosen>>

AccountsNext ==
    \/ Boot \/ CreateAdmin \/ Restart
    \/ \E s \in Slots :
         \/ ReceiveSome(s)
         \/ SignUpFinds(s) \/ Create(s) \/ SignInFinds(s) \/ SignInCompares(s)
         \/ Guard(s) \/ Validate(s) \/ Update(s) \/ Remove(s)

AccountsSpec == AccountsInit /\ [][AccountsNext]_accountsVars

-----------------------------------------------------------------------------
(* Properties. *)

\* Every variable has its type; only what was made has a row, and no change brings back a
\* row that was removed meanwhile.
AccountsTypeOK ==
    /\ server \in {"down", "create", "up"} /\ lastId \in 0 .. MaxUsers
    /\ \A i \in Ids : Row(i) => i <= lastId /\ users[i].username \in Addresses
    /\ tokens \subseteq 1 .. lastId

\* However sign-ups, an administrator's new accounts and renames interleave, each of which
\* looks for the address first, an address has one account.
OneAccountPerAddress == \A e \in Addresses : Cardinality(Named(e)) <= 1

\* "Checked after the password, so only the account's owner learns it is pending."
\* (AuthService.signIn): the answer tells of a pending account only to who gave the
\* password that the account had when it was found.
OnlyTheOwnerLearns ==
    \A s \in Slots : requests[s].kind = "signIn" /\ requests[s].answer = "pending" =>
      requests[s].found.password = Hash(requests[s].password)

\* "also rejects inactive users" (auth/README.md): a request with a token from before is
\* not admitted when its account was not active at any time since the request came.
DeactivationHolds ==
    \A s \in Slots : requests[s].by # 0 /\ ~requests[s].usable =>
      requests[s].answer \in {"none", "unauthorized"} /\ requests[s].stage \in {"guard", "answered"}

\* A password that was chosen, at sign-up, by an administrator or for the default
\* administrator, is the one that signs in: the account that sign-in finds has it.
ChosenPasswordSignsIn ==
    \A i \in Ids : Row(i) =>
      SignInAnswer([Free EXCEPT !.password = chosen[i], !.found = users[i]]) # "invalid"

\* One account per address, open to who knows its password and to nobody while it is inactive.
AccountsSafe ==
    /\ AccountsTypeOK /\ OneAccountPerAddress /\ OnlyTheOwnerLearns
    /\ DeactivationHolds /\ ChosenPasswordSignsIn

=============================================================================
