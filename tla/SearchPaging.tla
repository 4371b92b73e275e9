---------------------------- MODULE SearchPaging ----------------------------
(***************************************************************************)
(* Record searches of the assistant and paging through them: one user, any  *)
(* number of tabs, one search context in Redis for all of them.  An ask     *)
(* reads the context, queries, writes the context, then waits for the model *)
(* to narrate the list, and may be given up on meanwhile.  Records are      *)
(* created, completed, reopened and removed between its steps.              *)
(***************************************************************************)
EXTENDS Naturals, Sequences, FiniteSets, SequencesExt, FiniteSetsExt, Orders

CONSTANTS MaxRecords, MaxAsks, MaxOpen, MaxChanges,  \* bounds of a run
          Initial,                       \* records there are at first
          DefaultLimit, MaxLimit,        \* 10 and 50 in the code
          Requested,                     \* limits the model may find; 0 is none
          Admin,                         \* the user is an administrator
          Directions                     \* kinds of paging asked for

ASSUME PagingAssumption ==
    /\ MaxRecords \in Nat /\ Initial \in 0 .. MaxRecords
    /\ MaxLimit \in Nat /\ DefaultLimit \in 1 .. MaxLimit
    /\ Requested \subseteq Nat /\ Admin \in BOOLEAN
    /\ Directions \subseteq {"next", "previous"}

Records == 1 .. MaxRecords  \* a later createdAt is a larger number

Asks == 1 .. MaxAsks

Filters == {"all", "draft"}

None == [filters |-> "none", limit |-> 0, offset |-> 0]

VARIABLES
    status,    \* of each record: "absent", "draft", "completed" or "removed"
    mine,      \* the user's own records
    context,   \* the search context of the user, or None
    asks,      \* each ask, how far it is and what it knows
    shown,     \* what answers showed since a search was asked for, oldest first
    disturbed, \* since then records changed, or an ask overlapped or was given up on
    latest,    \* the filters of the search that was stored last
    changes

pagingVars == <<status, mine, context, asks, shown, disturbed, latest, changes>>

NoAsk == [kind |-> "none", filters |-> "none", requested |-> 0, stage |-> "new",
          offset |-> 0, limit |-> 0, page |-> <<>>]

Ended == [NoAsk EXCEPT !.stage = "ended"]

PagingInit ==
    /\ status = [r \in Records |-> IF r <= Initial THEN "draft" ELSE "absent"]
    /\ mine \in {s \in SUBSET Records : Admin \/ s = Records}
    /\ context = None
    /\ asks = [a \in Asks |-> NoAsk]
    /\ shown = <<>>
    /\ disturbed = FALSE
    /\ latest = "none"
    /\ changes = 0

-----------------------------------------------------------------------------
(* RecordQueryService. *)

Present(r) == status[r] \in {"draft", "completed"}

\* guardQueryAccess.
Accessible(r) == r \in mine \/ (Admin /\ status[r] # "draft")

\* What a search with filters f finds.
Found(r, f) == Present(r) /\ Accessible(r) /\ (f = "draft" => status[r] = "draft")

Matching(f) == Descending({r \in Records : Found(r, f)})

\* skip and take.
PageOf(s, offset, limit) == SubSeq(s, offset + 1, Min({offset + limit, Len(s)}))

\* getRecordLimit.
RecordLimit(limit) == IF limit = 0 THEN DefaultLimit ELSE Min({limit, MaxLimit})

-----------------------------------------------------------------------------
(* An ask. *)

Open == {a \in Asks : asks[a].stage \notin {"new", "ended"}}

\* A second tab, or a new ask after giving up, finds another one under way.
Ask(a, kind, f, requested) ==
    /\ asks[a].stage = "new" /\ \A b \in Asks : b < a => asks[b].stage # "new"
    /\ Cardinality(Open) < MaxOpen
    /\ asks' = [asks EXCEPT ![a] = [NoAsk EXCEPT !.kind = kind, !.filters = f, !.requested = requested,
                                               !.stage = IF kind = "search" THEN "query" ELSE "read"]]
    /\ IF kind = "search"
       THEN shown' = <<>> /\ disturbed' = (Open # {})
       ELSE UNCHANGED shown /\ disturbed' = (disturbed \/ Open # {})
    /\ UNCHANGED <<status, mine, context, latest, changes>>

OwnLimit(c, limit) == c.offset + limit  \* mutant of NextOffset: steps by the limit of the new page

\* A next page begins where the page of the context ends.
NextOffset(c, limit) == c.offset + c.limit

PreviousOffset(c, limit) == IF c.offset > limit THEN c.offset - limit ELSE 0

\* Without a context the answer is ready-made and nothing changes.
ReadContext(a) ==
    /\ asks[a].stage = "read"
    /\ LET limit == IF asks[a].requested = 0 THEN context.limit ELSE RecordLimit(asks[a].requested)
           offset == IF asks[a].kind = "next" THEN NextOffset(context, limit)
                                              ELSE PreviousOffset(context, limit)
       IN asks' = [asks EXCEPT ![a] =
                     IF context = None THEN Ended
                     ELSE [@ EXCEPT !.stage = "query", !.filters = context.filters, !.limit = limit, !.offset = offset]]
    /\ UNCHANGED <<status, mine, context, shown, disturbed, latest, changes>>

\* searchAccessibleRecords.
Query(a) ==
    /\ asks[a].stage = "query"
    /\ LET found == Matching(asks[a].filters)
           limit == IF asks[a].kind = "search" THEN RecordLimit(asks[a].requested) ELSE asks[a].limit
       IN asks' = [asks EXCEPT ![a].stage = "store", ![a].limit = limit,
                               ![a].page = PageOf(found, asks[a].offset, limit)]
    /\ UNCHANGED <<status, mine, context, shown, disturbed, latest, changes>>

\* The total is stored too, but nothing reads it.
ContextOf(a) == [filters |-> asks[a].filters, limit |-> asks[a].limit, offset |-> asks[a].offset]

\* setContext, before the narration.
SetContext(a) ==
    /\ asks[a].stage = "store"
    /\ context' = ContextOf(a)
    /\ latest' = IF asks[a].kind = "search" THEN asks[a].filters ELSE latest
    /\ asks' = [asks EXCEPT ![a].stage = "narrate"]
    /\ UNCHANGED <<status, mine, shown, disturbed, changes>>

\* getPageAnswer and getSearchAnswer, as far as they make a claim.
Claim(a) ==
    IF asks[a].page # <<>> THEN "page"
    ELSE CASE asks[a].kind = "search" -> "nothing"
           [] asks[a].kind = "next" -> "no more"
           [] asks[a].kind = "previous" -> "beginning"

\* The answer reaches the user.
AnswerPage(a) ==
    /\ asks[a].stage = "narrate"
    /\ shown' = Append(shown, [kind |-> asks[a].kind, filters |-> asks[a].filters,
                               requested |-> asks[a].requested, offset |-> asks[a].offset,
                               limit |-> asks[a].limit, page |-> asks[a].page, claim |-> Claim(a)])
    /\ asks' = [asks EXCEPT ![a] = Ended]
    /\ UNCHANGED <<status, mine, context, disturbed, latest, changes>>

\* The client gives up on a narration that takes too long.
GiveUpAsk(a) ==
    /\ asks[a].stage = "narrate"
    /\ asks' = [asks EXCEPT ![a] = Ended]
    /\ disturbed' = TRUE
    /\ UNCHANGED <<status, mine, context, shown, latest, changes>>

\* The database or Redis fails: nothing is written.
Fail(a) ==
    /\ asks[a].stage \in {"read", "query", "store"}
    /\ asks' = [asks EXCEPT ![a] = Ended]
    /\ UNCHANGED <<status, mine, context, shown, disturbed, latest, changes>>

\* SEARCH_CONTEXT_TTL_SECONDS after the last write, or a value that does not parse.
Expire ==
    /\ context # None
    /\ context' = None
    /\ UNCHANGED <<status, mine, asks, shown, disturbed, latest, changes>>

\* Records are created, completed, reopened and removed by other requests.
Change(r, s) ==
    /\ changes < MaxChanges
    /\ \/ status[r] = "absent" /\ (\A q \in Records : q < r => status[q] # "absent") /\ s = "draft"
       \/ status[r] = "draft" /\ s \in {"completed", "removed"}
       \/ status[r] = "completed" /\ s \in {"draft", "removed"}
    /\ status' = [status EXCEPT ![r] = s]
    /\ changes' = changes + 1
    /\ disturbed' = TRUE
    /\ UNCHANGED <<mine, context, asks, shown, latest>>

PagingNext ==
    \/ \E a \in Asks :
         \/ \E f \in Filters, n \in Requested : Ask(a, "search", f, n)
         \/ \E kind \in Directions, n \in Requested : Ask(a, kind, "none", n)
         \/ ReadContext(a) \/ Query(a) \/ SetContext(a) \/ AnswerPage(a) \/ GiveUpAsk(a) \/ Fail(a)
    \/ Expire
    \/ \E r \in Records, s \in {"draft", "completed", "removed"} : Change(r, s)

PagingSpec == PagingInit /\ [][PagingNext]_pagingVars

-----------------------------------------------------------------------------
(* Properties. *)

\* Every variable has its type, and a stored context is a place in a search: its limit
\* is one getRecordLimit gives.
PagingTypeOK ==
    /\ status \in [Records -> {"absent", "draft", "completed", "removed"}]
    /\ context = None \/ (/\ context.filters \in Filters /\ context.limit \in 1 .. MaxLimit
                          /\ context.offset \in Nat)
    /\ \A a \in Asks : Len(asks[a].page) <= asks[a].limit

OnlyForward ==
    shown # <<>> /\ \A i \in DOMAIN shown : shown[i].kind = IF i = 1 THEN "search" ELSE "next"

SearchFilters == IF context = None THEN latest ELSE context.filters

\* Nothing is skipped and nothing is shown twice (getNextOrPreviousRecords): while the
\* records stay as they are and one ask follows the other, the pages of a search, of
\* whatever sizes the user asks for, put together are the beginning of its list.
PagesFollowOn ==
    ~disturbed /\ OnlyForward =>
        IsPrefix(FlattenSeq([i \in DOMAIN shown |-> shown[i].page]), Matching(SearchFilters))

\* "Previous" takes back "next" (getNextOrPreviousRecords), past the end of the list too:
\* the page after it is the page before it.
PreviousTakesBackNext ==
    ~disturbed => \A i \in 1 .. Len(shown) - 2 :
        ( /\ shown[i + 1].kind = "next" /\ shown[i + 1].requested = 0
          /\ shown[i + 2].kind = "previous" /\ shown[i + 2].requested = 0 )
        => shown[i + 2].page = shown[i].page

\* What is shown matches the filters and is the user's to see at the moment of the query
\* (searchAccessibleRecords): an administrator's own drafts, nobody else's.
ShowsOnlyOnesOwn ==
    [][\A a \in Asks : asks'[a].page # asks[a].page =>
         \A i \in DOMAIN asks'[a].page :
           LET r == asks'[a].page[i]
           IN /\ Admin \/ r \in mine
              /\ status[r] = "draft" => r \in mine
              /\ status[r] = "completed" => asks'[a].filters = "all"]_pagingVars

\* Pages follow on, and back again.
PagingSafe == PagingTypeOK /\ PagesFollowOn /\ PreviousTakesBackNext

=============================================================================
