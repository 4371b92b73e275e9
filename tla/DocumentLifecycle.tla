------------------------- MODULE DocumentLifecycle -------------------------
(***************************************************************************)
(* What the ingestion promises, whatever the jobs, retries and failures    *)
(* behind it: what a search can find of a document only changes while its  *)
(* status says PROCESSING; the status leaves PROCESSING with READY, and    *)
(* then there is something to find, with FAILED, or with UNSUPPORTED, and  *)
(* then there is nothing; a removed document takes everything with it for  *)
(* good.                                                                   *)
(***************************************************************************)
CONSTANT Documents

VARIABLES
    status,   \* extraction status of each document, or "removed"
    content   \* its searchable chunks

vars == <<status, content>>

Init == \A d \in Documents : status[d] = "PENDING" /\ content[d] = {}

\* The status of a document goes from one value to another.
Moves(d, from, to) == status[d] \in from /\ status'[d] = to

Start(d) ==
    /\ Moves(d, {"PENDING", "PROCESSING", "READY", "FAILED", "UNSUPPORTED"}, "PROCESSING")
    /\ UNCHANGED content[d]

Process(d) == Moves(d, {"PROCESSING"}, "PROCESSING")

Ready(d) == Moves(d, {"PROCESSING"}, "READY") /\ content[d] # {} /\ UNCHANGED content[d]

Fail(d) == Moves(d, {"PROCESSING"}, "FAILED") /\ UNCHANGED content[d]

Refuse(d) == Moves(d, {"PROCESSING"}, "UNSUPPORTED") /\ content[d] = {} /\ UNCHANGED content[d]

Remove(d) == status[d] # "removed" /\ status'[d] = "removed" /\ content'[d] = {}

Stay(d) == UNCHANGED <<status[d], content[d]>>

Next ==
    \A d \in Documents :
        Start(d) \/ Process(d) \/ Ready(d) \/ Fail(d) \/ Refuse(d) \/ Remove(d) \/ Stay(d)

Spec == Init /\ [][Next]_vars
=============================================================================
