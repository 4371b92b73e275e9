------------------------------ MODULE Session -------------------------------
(***************************************************************************)
(* The session of the browser application: the user and the token in        *)
(* localStorage, which all tabs share, the copy of the user that each tab    *)
(* keeps, the router's guard, and what the interceptors make of answers.     *)
(* Answers come in any order and after other tabs have signed in or out.    *)
(***************************************************************************)
EXTENDS Naturals

CONSTANTS Tabs, Users,
          Lines,      \* requests of a tab at a time
          MaxLogins, MaxSent

ASSUME SessionAssumption == MaxLogins \in Nat /\ MaxSent \in Nat /\ "none" \notin Users

Tokens == 1 .. MaxLogins  \* 0: none

VARIABLES
    owner,    \* token -> its user; the server's
    accepted, \* tokens the server accepts
    stored,   \* localStorage: [user, token]
    user,     \* tab -> the auth store's user
    page,     \* tab -> "login" or "restricted"
    loading,  \* tab -> isLoading
    message,  \* tab -> what the snackbar shows
    calls, \* tab -> slot -> the request in it
    sent

sessionVars == <<owner, accepted, stored, user, page, loading, message, calls, sent>>

Nobody == [user |-> "none", token |-> 0]

Idle == [kind |-> "none", token |-> 0, user |-> "none", answer |-> "none"]

SessionInit ==
    /\ owner = [n \in Tokens |-> "none"] /\ accepted = {}
    /\ stored = Nobody
    /\ user = [t \in Tabs |-> "none"] /\ page = [t \in Tabs |-> "login"]
    /\ loading = [t \in Tabs |-> FALSE]
    /\ message = [t \in Tabs |-> "none"]
    /\ calls = [t \in Tabs |-> [s \in Lines |-> Idle]]
    /\ sent = 0

CallKinds == {"login", "get", "image", "chat"}

\* beforeEach, for a restricted page.
PageFor(u) == IF u = "none" THEN "login" ELSE "restricted"

\* The tab is opened or loaded anew, at the login page or another.
Load(t, to) ==
    /\ user' = [user EXCEPT ![t] = stored.user]
    /\ page' = [page EXCEPT ![t] = IF to = "login" THEN to ELSE PageFor(stored.user)]
    /\ loading' = [loading EXCEPT ![t] = FALSE] /\ message' = [message EXCEPT ![t] = "none"]
    /\ calls' = [calls EXCEPT ![t] = [s \in Lines |-> Idle]]
    /\ UNCHANGED <<owner, accepted, stored, sent>>

\* A link, the address of the login page, or back; the guard of a restricted page.
Navigate(t, to) ==
    /\ page' = [page EXCEPT ![t] = IF to = "login" THEN to ELSE PageFor(user[t])]
    /\ UNCHANGED <<owner, accepted, stored, user, loading, message, calls, sent>>

\* The request interceptor; the chat's fetch takes the token itself and shows no loader.
Send(t, s, kind, u) ==
    /\ calls[t][s] = Idle /\ sent < MaxSent
    /\ page[t] = (IF kind = "login" THEN "login" ELSE "restricted")
    /\ calls' = [calls EXCEPT ![t][s] = [kind |-> kind, token |-> stored.token, user |-> u, answer |-> "none"]]
    /\ loading' = [loading EXCEPT ![t] = @ \/ kind # "chat"]
    /\ sent' = sent + 1
    /\ UNCHANGED <<owner, accepted, stored, user, page, message>>

\* The server's answer sets out: sign-in with a right or a wrong password, or anything else
\* with a token that is accepted or not.
Serve(t, s) ==
    LET r == calls[t][s]  new == CHOOSE n \in Tokens : owner[n] = "none" IN
    /\ r.kind # "none" /\ r.answer = "none"
    /\ \/ /\ r.kind = "login" /\ \E n \in Tokens : owner[n] = "none"
          /\ owner' = [owner EXCEPT ![new] = r.user] /\ accepted' = accepted \cup {new}
          /\ calls' = [calls EXCEPT ![t][s].answer = "ok", ![t][s].token = new]
       \/ /\ r.kind = "login" \/ r.token \notin accepted
          /\ calls' = [calls EXCEPT ![t][s].answer = "401"]
          /\ UNCHANGED <<owner, accepted>>
       \/ /\ r.kind # "login" /\ r.token \in accepted
          /\ calls' = [calls EXCEPT ![t][s].answer = "ok"]
          /\ UNCHANGED <<owner, accepted>>
       \/ /\ calls' = [calls EXCEPT ![t][s].answer = "failed"]
          /\ UNCHANGED <<owner, accepted>>
    /\ UNCHANGED <<stored, user, page, loading, message, sent>>

LeavesLoader(r) == r.kind = "chat"

\* What every answer does: the request ends, and the loader with it, whatever else runs.
Ends(t, s) ==
    /\ calls' = [calls EXCEPT ![t][s] = Idle]
    /\ loading' = [loading EXCEPT ![t] = @ /\ LeavesLoader(calls[t][s])]

TokenOnly == [user |-> stored.user, token |-> 0]  \* mutant of LoggedOut: the user's item stays

LoggedOut == Nobody

\* logout, from the menu and on a 401.
Logout(t) ==
    /\ user' = [user EXCEPT ![t] = "none"]
    /\ stored' = LoggedOut
    /\ page' = [page EXCEPT ![t] = "login"]

\* login keeps the answer's user and token and goes on to a restricted page.
LoginSucceeds(t, s) ==
    LET r == calls[t][s] IN
    /\ r.kind = "login" /\ r.answer = "ok"
    /\ user' = [user EXCEPT ![t] = r.user]
    /\ stored' = [user |-> r.user, token |-> r.token]
    /\ page' = [page EXCEPT ![t] = "restricted"]
    /\ Ends(t, s)
    /\ UNCHANGED <<owner, accepted, message, sent>>

Succeeds(t, s) ==
    /\ calls[t][s].kind # "login" /\ calls[t][s].answer = "ok"
    /\ Ends(t, s)
    /\ UNCHANGED <<owner, accepted, stored, user, page, message, sent>>

\* suppressErrorSnackbar: an image that fails, for whatever reason, says nothing.
FailsQuietly(t, s) ==
    /\ calls[t][s].kind = "image" /\ calls[t][s].answer \in {"401", "failed"}
    /\ Ends(t, s)
    /\ UNCHANGED <<owner, accepted, stored, user, page, message, sent>>

Unauthorized(t, s) ==
    /\ calls[t][s].kind # "image" /\ calls[t][s].answer = "401"
    /\ message' = [message EXCEPT ![t] = "expired"]
    /\ Logout(t)
    /\ Ends(t, s)
    /\ UNCHANGED <<owner, accepted, sent>>

\* Another status, a timeout or no answer.
Fails(t, s) ==
    /\ calls[t][s].kind # "image" /\ calls[t][s].answer = "failed"
    /\ message' = [message EXCEPT ![t] = IF calls[t][s].kind = "chat" THEN @ ELSE "error"]
    /\ Ends(t, s)
    /\ UNCHANGED <<owner, accepted, stored, user, page, sent>>

LogoutClicked(t) ==
    /\ page[t] = "restricted"
    /\ Logout(t)
    /\ UNCHANGED <<owner, accepted, loading, message, calls, sent>>

CloseSnackbar(t) ==
    /\ message[t] # "none"
    /\ message' = [message EXCEPT ![t] = "none"]
    /\ UNCHANGED <<owner, accepted, stored, user, page, loading, calls, sent>>

\* The token expires, or its account is deactivated.
Refuse(n) ==
    /\ n \in accepted
    /\ accepted' = accepted \ {n}
    /\ UNCHANGED <<owner, stored, user, page, loading, message, calls, sent>>

QuietFailsLost(t, s) ==  \* mutant of AnswerArrives: the quiet path never comes to its end
    LoginSucceeds(t, s) \/ Succeeds(t, s) \/ Unauthorized(t, s) \/ Fails(t, s)

AnswerArrives(t, s) ==
    \/ LoginSucceeds(t, s) \/ Succeeds(t, s) \/ FailsQuietly(t, s) \/ Unauthorized(t, s) \/ Fails(t, s)

SessionNext ==
    \/ \E t \in Tabs :
         \/ LogoutClicked(t) \/ CloseSnackbar(t)
         \/ \E to \in {"login", "restricted"} : Load(t, to) \/ Navigate(t, to)
         \/ \E s \in Lines :
              \/ \E kind \in CallKinds \ {"login"} : Send(t, s, kind, "none")
              \/ \E u \in Users : Send(t, s, "login", u)
              \/ Serve(t, s) \/ AnswerArrives(t, s)
    \/ \E n \in Tokens : Refuse(n)

SessionSpec == SessionInit /\ [][SessionNext]_sessionVars

\* The server answers or the client's ten seconds pass, and answers are handled.
SessionFairSpec == SessionSpec /\ \A t \in Tabs, s \in Lines : WF_sessionVars(Serve(t, s)) /\ WF_sessionVars(AnswerArrives(t, s))

-----------------------------------------------------------------------------
(* Properties. *)

\* Whatever tabs sign in and out meanwhile: a tab that shows a restricted page has a user
\* (router.beforeEach, logout).
RestrictedHasUser == \A t \in Tabs : page[t] = "restricted" => user[t] # "none"

\* The two items in localStorage are always of one sign-in.
StoredBelongsTogether ==
    IF stored.token = 0 THEN stored.user = "none" ELSE owner[stored.token] = stored.user

\* The loader is shown only while a request of the tab is under way, in whatever order
\* answers come, the quiet ones included.
LoaderHasRequest ==
    \A t \in Tabs : loading[t] => \E s \in Lines : calls[t][s].kind \notin {"none", "chat"}

\* So the loader always disappears.
LoaderEnds == \A t \in Tabs : loading[t] ~> ~loading[t]

\* Tabs, storage and loader agree, in whatever order answers come.
SessionSafe == RestrictedHasUser /\ StoredBelongsTogether /\ LoaderHasRequest

=============================================================================
