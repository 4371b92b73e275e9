-------------------------- MODULE RecordLifecycle --------------------------
(***************************************************************************)
(* What the record workflow promises, whatever the requests, transactions  *)
(* and failures behind it: a record is a DRAFT that may be edited until a  *)
(* final submission completes it; a COMPLETED record only changes by being *)
(* reopened, which changes nothing but its status; a removed record never  *)
(* comes back.                                                             *)
(***************************************************************************)
VARIABLES
    phase,    \* "unborn", "DRAFT", "COMPLETED" or "gone"
    content   \* what the forms stored: progress, image and child rows

vars == <<phase, content>>

Init == phase \in {"unborn", "DRAFT"}

Create == phase = "unborn" /\ phase' = "DRAFT"

Edit == phase = "DRAFT" /\ phase' = "DRAFT"

Complete == phase = "DRAFT" /\ phase' = "COMPLETED"

Reopen == phase = "COMPLETED" /\ phase' = "DRAFT" /\ UNCHANGED content

\* With the owner's account, even a record that was not created yet.
Remove == phase # "gone" /\ phase' = "gone"

Next == Create \/ Edit \/ Complete \/ Reopen \/ Remove

Spec == Init /\ [][Next]_vars
=============================================================================
