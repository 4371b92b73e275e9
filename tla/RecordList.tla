----------------------------- MODULE RecordList -----------------------------
(***************************************************************************)
(* The list of records in one administrator's tab: a filter that reloads    *)
(* after a delay, pages appended while scrolling, deletion and reopening of *)
(* rows, and answers that come in any order, or not at all, to a list that  *)
(* has changed meanwhile.  Search text and status are one filter here; the  *)
(* page size is fixed.                                                      *)
(***************************************************************************)
EXTENDS Naturals, Sequences, FiniteSets, SequencesExt, Orders

CONSTANTS MaxRecord,  \* records 1 .. MaxRecord, in the order of their creation
          Mine,       \* those of the administrator
          Limit,      \* rows per page
          MaxListMoves,   \* what the user does
          MaxFetches  \* pages asked for and not yet shown

ASSUME ListAssumption ==
    /\ MaxRecord \in Nat /\ Mine \subseteq 1 .. MaxRecord
    /\ Limit \in Nat \ {0} /\ MaxListMoves \in Nat /\ MaxFetches \in Nat \ {0}

ListedRecords == 1 .. MaxRecord

Filters == {"ALL", "DRAFT", "COMPLETED"}

VARIABLES
    live,      \* records in the database
    status,    \* their status
    listRows,      \* serverItems: id and status as shown
    total,     \* totalItems
    listPage,      \* currentPage
    filter,    \* what the toolbar shows
    debounce,  \* the delayed reload is pending
    store,     \* recordStore.records: the last page that was received
    fetches,   \* pages on their way
    loadingMore,
    dialog,    \* the delete dialog is open
    edited,    \* editedIndex, and the id of the row it was set for
    deletes,   \* deletions on their way: the id, and the id confirmed
    reopening, \* reopeningRecordId: the last one asked for, 0 after any answer
    reopens,   \* reopenings on their way: the id, and whether its row object is still shown
    shown,     \* the filter the rows were loaded with
    taken,     \* rows taken out since the first page
    gap,       \* those of them taken out before the last page was appended
    mixed,     \* there is no first page yet, or an answer met other rows than it was asked for
    listMoves

list == <<listRows, total, listPage, store, loadingMore, shown, taken, gap, mixed>>

reopened == <<reopening, reopens>>

listVars == <<live, status, list, filter, debounce, fetches, dialog, edited, deletes, reopened, listMoves>>

-----------------------------------------------------------------------------
(* RecordsService.findAll, for an administrator. *)

Visible(r) == r \in live /\ (status[r] # "DRAFT" \/ r \in Mine)

\* All that match, newest first.
Listed(f) == Descending({r \in ListedRecords : Visible(r) /\ f \in {"ALL", status[r]}})

SkipWholePages(p) == p * Limit  \* mutant of Skip: pages counted from zero

Skip(p) == (p - 1) * Limit

PageOf(f, p) ==
    LET all == Listed(f)
        slice == SubSeq(all, Skip(p) + 1, IF Skip(p) + Limit < Len(all) THEN Skip(p) + Limit ELSE Len(all))
    IN [data |-> [i \in DOMAIN slice |-> [id |-> slice[i], status |-> status[slice[i]]]],
        total |-> Len(all)]

-----------------------------------------------------------------------------

\* fetchPage: the page is asked for; what else is on its way may cross it.
Asked(p, append) ==
    [page |-> p, append |-> append, filter |-> filter, served |-> FALSE,
     answer |-> [data |-> <<>>, total |-> 0], clean |-> fetches = {}]

Crossed(fs) == {[f EXCEPT !.clean = FALSE] : f \in fs}

ListInit ==
    /\ live = ListedRecords
    /\ status \in [ListedRecords -> {"DRAFT", "COMPLETED"}]
    /\ listRows = <<>> /\ total = 0 /\ listPage = 1
    /\ filter = "ALL" /\ shown = "ALL"
    /\ debounce = FALSE
    /\ store = [data |-> <<>>, total |-> 0]
    /\ fetches = {[page |-> 1, append |-> FALSE, filter |-> "ALL", served |-> FALSE,
                   answer |-> [data |-> <<>>, total |-> 0], clean |-> TRUE]}
    /\ loadingMore = FALSE
    /\ dialog = FALSE /\ edited = [index |-> 0, id |-> 0]
    /\ deletes = {} /\ reopening = 0 /\ reopens = {}
    /\ taken = 0 /\ gap = 0 /\ mixed = TRUE
    /\ listMoves = 0

ListMove ==
    /\ listMoves < MaxListMoves
    /\ listMoves' = listMoves + 1
    /\ UNCHANGED <<live, status>>

\* The watch of search and status starts the delay anew.
Watched(f) == debounce' = TRUE

ChooseFilter(f) ==
    /\ ListMove
    /\ ~dialog
    /\ f # filter
    /\ filter' = f
    /\ Watched(f)
    /\ UNCHANGED <<list, fetches, dialog, edited, deletes, reopened>>

\* The delay is over: resetAndLoad.
ResetAndLoad ==
    /\ debounce
    /\ Cardinality(fetches) < MaxFetches
    /\ debounce' = FALSE
    /\ fetches' = Crossed(fetches) \cup {Asked(1, FALSE)}
    /\ UNCHANGED <<live, status, list, filter, dialog, edited, deletes, reopened, listMoves>>

HasMore == Len(listRows) < total

\* The sentinel comes into view.
LoadMore ==
    /\ ListMove
    /\ ~dialog
    /\ HasMore /\ ~loadingMore
    /\ Cardinality(fetches) < MaxFetches
    /\ loadingMore' = TRUE
    /\ fetches' = Crossed(fetches) \cup {Asked(listPage + 1, TRUE)}
    /\ UNCHANGED <<listRows, total, listPage, store, shown, taken, gap, mixed, filter, debounce, dialog,
                   edited, deletes, reopened>>

\* The server reads the page.
Serve(f) ==
    /\ f \in fetches /\ ~f.served
    /\ fetches' = (fetches \ {f}) \cup
                    {[f EXCEPT !.served = TRUE, !.answer = PageOf(f.filter, f.page)]}
    /\ UNCHANGED <<live, status, list, filter, debounce, dialog, edited, deletes, reopened, listMoves>>

StoredIds == {store.data[i].id : i \in DOMAIN store.data}

\* What fetchPage makes of the store's page; one that was shown before has the same row objects.
Show(f, answer, trouble) ==
    /\ listPage' = f.page
    /\ listRows' = IF f.append THEN listRows \o answer.data ELSE answer.data
    /\ total' = answer.total
    /\ loadingMore' = FALSE
    /\ shown' = IF f.append THEN shown ELSE f.filter
    /\ taken' = IF f.append THEN taken ELSE 0
    /\ gap' = IF f.append THEN taken ELSE 0
    /\ mixed' = (trouble \/ ~f.clean \/ (f.append /\ (mixed \/ f.filter # shown)))
    /\ reopens' = IF f.append THEN reopens
                  ELSE {[q EXCEPT !.attached = @ /\ trouble /\ q.id \in StoredIds] : q \in reopens}
    /\ fetches' = fetches \ {f}
    /\ UNCHANGED reopening

Received(f) ==
    /\ f \in fetches /\ f.served
    /\ store' = f.answer
    /\ Show(f, f.answer, FALSE)
    /\ UNCHANGED <<live, status, filter, debounce, dialog, edited, deletes, listMoves>>

\* fetchAllRecords swallows the error; fetchPage goes on with the page before it.
Failed(f) ==
    /\ f \in fetches
    /\ Show(f, store, TRUE)
    /\ UNCHANGED <<store, live, status, filter, debounce, dialog, edited, deletes, listMoves>>

-----------------------------------------------------------------------------
(* Deletion and reopening. *)

\* canDeleteRecord; the dialog covers the list.
DeleteItem(i) ==
    /\ ListMove
    /\ ~dialog
    /\ listRows[i].id \in Mine
    /\ edited' = [index |-> i, id |-> listRows[i].id]
    /\ dialog' = TRUE
    /\ UNCHANGED <<list, filter, debounce, fetches, deletes, reopened>>

CloseDelete ==
    /\ ListMove
    /\ dialog
    /\ dialog' = FALSE
    /\ UNCHANGED <<list, filter, debounce, fetches, edited, deletes, reopened>>

\* deleteItemConfirm: whatever row has the index by now.
DeleteItemConfirm ==
    /\ ListMove
    /\ dialog /\ edited.index \in DOMAIN listRows
    /\ deletes' = deletes \cup {[id |-> listRows[edited.index].id, meant |-> edited.id]}
    /\ UNCHANGED <<list, filter, debounce, fetches, dialog, edited, reopened>>

Lowered == IF total = 0 THEN 0 ELSE total - 1

\* splice(): beyond the end it takes nothing out.
TakenOut(i) == IF i \in DOMAIN listRows THEN RemoveAt(listRows, i) ELSE listRows

\* A first page is the store's own array: what is taken out of the list is so in both.
StoreIsList == listPage = 1

\* remove() deletes own records only; then the row that has the index is taken out.
Deleted(d) ==
    /\ d \in deletes
    /\ d.id \in Mine \cap live
    /\ live' = live \ {d.id}
    /\ listRows' = TakenOut(edited.index)
    /\ total' = Lowered
    /\ dialog' = FALSE
    /\ deletes' = deletes \ {d}
    /\ fetches' = Crossed(fetches)
    /\ store' = [store EXCEPT !.data = IF StoreIsList THEN listRows' ELSE @]
    /\ taken' = taken + 1
    /\ mixed' = (mixed \/ ~(edited.index \in DOMAIN listRows /\ listRows[edited.index].id = d.id))
    /\ UNCHANGED <<status, listPage, loadingMore, shown, gap, filter, debounce, edited, reopened, listMoves>>

\* Not the user's record, gone already, or the network: a message.
DeleteFails(d) ==
    /\ d \in deletes
    /\ deletes' = deletes \ {d}
    /\ UNCHANGED <<live, status, list, filter, debounce, fetches, dialog, edited, reopened, listMoves>>

\* canReopenRecord, and the button of the record reopened last waits; another's does not, and
\* gives that one its own back.
ReopenItem(i) ==
    /\ ListMove
    /\ ~dialog
    /\ listRows[i].status = "COMPLETED"
    /\ listRows[i].id # reopening
    /\ reopening' = listRows[i].id
    /\ reopens' = reopens \cup {[id |-> listRows[i].id, asked |-> listMoves, attached |-> TRUE]}
    /\ UNCHANGED <<list, filter, debounce, fetches, dialog, edited, deletes>>

\* Under the filter COMPLETED the first row of that id leaves the list.
WithoutReopened(r) ==
    LET first == SelectInSeq(listRows, LAMBDA row : row.id = r)
    IN IF filter = "COMPLETED" /\ first # 0 THEN RemoveAt(listRows, first) ELSE listRows

Assigned(rows, q) ==
    [i \in DOMAIN rows |->
       IF rows[i].id = q.id /\ q.attached THEN [rows[i] EXCEPT !.status = "DRAFT"] ELSE rows[i]]

\* Object.assign to the row object, shown or not, and the splice by id.
Reopened(q) ==
    /\ q \in reopens
    /\ q.id \in live
    /\ status' = [status EXCEPT ![q.id] = "DRAFT"]
    /\ listRows' = Assigned(WithoutReopened(q.id), q)
    /\ total' = IF Len(listRows') < Len(listRows) THEN Lowered ELSE total
    /\ store' = [store EXCEPT !.data = IF StoreIsList THEN listRows' ELSE Assigned(@, q)]
    /\ reopens' = reopens \ {q}
    /\ reopening' = 0
    /\ fetches' = Crossed(fetches)
    /\ taken' = IF Len(listRows') < Len(listRows) THEN taken + 1 ELSE taken
    /\ mixed' = (\/ mixed
                 \/ filter # shown
                 \/ shown = "DRAFT"
                 \/ q.id \notin Mine
                 \/ ~q.attached)
    /\ UNCHANGED <<live, listPage, loadingMore, shown, gap, filter, debounce, dialog, edited, deletes, listMoves>>

ReopenFails(q) ==
    /\ q \in reopens
    /\ reopens' = reopens \ {q}
    /\ reopening' = 0
    /\ UNCHANGED <<live, status, list, filter, debounce, fetches, dialog, edited, deletes, listMoves>>

-----------------------------------------------------------------------------

ListUser ==
    \/ \E f \in Filters : ChooseFilter(f)
    \/ LoadMore
    \/ \E i \in DOMAIN listRows : DeleteItem(i) \/ ReopenItem(i)
    \/ CloseDelete
    \/ DeleteItemConfirm

ListAnswer ==
    \/ \E f \in fetches : Serve(f) \/ Received(f) \/ Failed(f)
    \/ \E d \in deletes : Deleted(d) \/ DeleteFails(d)
    \/ \E q \in reopens : Reopened(q) \/ ReopenFails(q)

ListNext == ListUser \/ ListAnswer \/ ResetAndLoad

\* The delay ends and every request is answered or fails.
ListSpec == ListInit /\ [][ListNext]_listVars /\ WF_listVars(ListAnswer) /\ WF_listVars(ResetAndLoad)

-----------------------------------------------------------------------------
(* Properties. *)

Row == [id : ListedRecords, status : {"DRAFT", "COMPLETED"}]

\* Every variable has its type; the counter never falls below zero.
ListTypeOK ==
    /\ live \subseteq ListedRecords
    /\ status \in [ListedRecords -> {"DRAFT", "COMPLETED"}]
    /\ listRows \in Seq(Row)
    /\ total \in 0 .. MaxRecord
    /\ listPage \in Nat \ {0}
    /\ {filter, shown} \subseteq Filters
    /\ {debounce, loadingMore, mixed} \subseteq BOOLEAN
    /\ gap \in Nat /\ taken \in Nat /\ gap <= taken
    /\ reopening \in {0} \cup ListedRecords
    /\ store.data \in Seq(Row) /\ store.total \in 0 .. MaxRecord
    /\ \A f \in fetches : f.answer.data \in Seq(Row) /\ f.filter \in Filters
    /\ edited.index \in Nat /\ dialog \in BOOLEAN
    /\ listMoves \in 0 .. MaxListMoves

Ids == [i \in DOMAIN listRows |-> listRows[i].id]

\* Every record newer than the last row is shown, but at most as many as rows were taken out
\* before the last page was appended: LoadMore asks by page number, and what was taken out
\* has moved the server's pages up by as much.  The rows are in the server's order without a
\* repetition, and the counter is the server's.  Said of a list that is not mixed: answers
\* did not cross and none failed; a deletion took out the row it was confirmed for; and a
\* reopening was of the user's own record, in rows loaded with the toolbar's filter since.
SkipsOnlyWhatMovedUp ==
    ~mixed =>
      /\ total = Len(Listed(shown))
      /\ \A i, k \in DOMAIN listRows : i < k => Ids[i] > Ids[k]
      /\ \A i \in DOMAIN listRows :
           \E j \in i .. i + gap : j \in DOMAIN Listed(shown) /\ Ids[i] = Listed(shown)[j]

\* So long as no page was appended after a row was taken out, such a list is the first rows of
\* what the server lists, without a gap, through appended pages, deletions and reopenings.
RowsAreAPrefix ==
    ~mixed /\ gap = 0 =>
      /\ Len(listRows) <= Len(Listed(shown))
      /\ Ids = SubSeq(Listed(shown), 1, Len(listRows))

\* A list of completed records never shows a draft: what is reopened leaves it.
NoDraftAmongCompleted ==
    ~mixed /\ filter = "COMPLETED" /\ shown = "COMPLETED" =>
      \A i \in DOMAIN listRows : listRows[i].status = "COMPLETED"

\* The list follows the server's under every filter.
ListSafe == ListTypeOK /\ SkipsOnlyWhatMovedUp /\ RowsAreAPrefix /\ NoDraftAmongCompleted

=============================================================================
