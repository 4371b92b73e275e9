------------------------------- MODULE MCUsers -------------------------------
(***************************************************************************)
(* The accounts at the server and the sessions of the browser's tabs, on    *)
(* small instances.  Session takes any answer of a server for the answer    *)
(* of a request, so the two run side by side: a behaviour is a behaviour    *)
(* of one of them while the other one rests.                                *)
(***************************************************************************)
EXTENDS Accounts, Session

VARIABLE side

usersVars == <<side, accountsVars, sessionVars>>

UsersInit == side \in {"server", "browser"} /\ AccountsInit /\ SessionInit

UsersNext ==
    \/ side = "server" /\ AccountsNext /\ UNCHANGED <<side, sessionVars>>
    \/ side = "browser" /\ SessionNext /\ UNCHANGED <<side, accountsVars>>

\* The fairness of SessionFairSpec: the server answers what a tab has sent.
UsersSpec ==
    /\ UsersInit /\ [][UsersNext]_usersVars
    /\ \A t \in Tabs, s \in Lines :
         /\ WF_sessionVars(side = "browser" /\ Serve(t, s))
         /\ WF_sessionVars(side = "browser" /\ AnswerArrives(t, s))

=============================================================================
