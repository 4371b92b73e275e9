----------------------------- MODULE UsersProofs -----------------------------
(***************************************************************************)
(* At the server, for any number of accounts, requests at a time and        *)
(* restarts: an address has one account, a deactivated account is refused,  *)
(* and a chosen password signs in.  In the browser, for any number of tabs, *)
(* users and requests: a restricted page has a user, the stored items       *)
(* belong together, and a loader has its request.                           *)
(***************************************************************************)
EXTENDS Accounts, Session, FiniteSetTheorems, TLAPS

-----------------------------------------------------------------------------
(* The accounts: Accounts. *)

Texts == Passwords \cup {"none"}

Account == [username : Addresses \cup {"none"}, password : {Hash(p) : p \in Texts},
            isActive : BOOLEAN, role : {"ADMIN", "USER", "none"}]

Answers == {"none", "conflict", "created", "error", "invalid", "pending", "token", "unauthorized",
            "forbidden", "bad", "done"}

Request == [kind : Kinds \cup {"none"},
            stage : {"answered", "find", "insert", "compare", "guard", "validate", "write"},
            answer : Answers, by : 0 .. MaxUsers, usable : BOOLEAN,
            email : Addresses \cup {"none"}, password : Texts, id : 0 .. MaxUsers, found : Account]

AccountsTyped ==
    /\ users \in [Ids -> Account] /\ lastId \in 0 .. MaxUsers
    /\ requests \in [Slots -> Request]
    /\ tokens \subseteq 1 .. lastId
    /\ chosen \in [Ids -> Texts]

\* A request names accounts that were made; only some kinds need no account.
Made(r) ==
    /\ r.by <= lastId /\ r.id <= lastId
    /\ r.id = 0 => r.stage # "compare" /\ r.kind \in {"none", "signUp", "signIn", "create", "read"}

UniqueNames ==
    \A i, j \in Ids : Row(i) /\ Row(j) /\ users[i].username = users[j].username => i = j

\* The default administrator is made while nothing else runs.
NobodyIsAdmin == server = "create" => Named("admin") = {}

\* Accounts that were made have their chosen passwords.
ChosenStored == \A i \in Ids : Row(i) => i <= lastId /\ users[i].password = Hash(chosen[i])

\* A request that may not be admitted waits at the guard or was refused there.
Kept(r) ==
    r.by # 0 /\ ~r.usable =>
      /\ ~users[r.by].isActive
      /\ (r.stage = "guard" /\ r.answer = "none") \/ (r.stage = "answered" /\ r.answer = "unauthorized")

AccountsInvariant ==
    /\ AccountsTyped /\ UniqueNames /\ NobodyIsAdmin /\ ChosenStored
    /\ \A s \in Slots : Made(requests[s]) /\ Kept(requests[s])

-----------------------------------------------------------------------------

LEMMA EmptyTyped == NoAccount \in Account /\ Free \in Request
  BY AccountsAssumption DEF NoAccount, Free, Account, Request, Texts, Answers

LEMMA AccountsInitially == AccountsInit => AccountsInvariant
<1> SUFFICES ASSUME AccountsInit PROVE AccountsInvariant
  OBVIOUS
<1> USE DEF AccountsInit
<1>1. AccountsTyped
  BY EmptyTyped, AccountsAssumption DEF AccountsTyped, Texts
<1>2. UniqueNames /\ ChosenStored
  BY DEF UniqueNames, ChosenStored, Row
<1>3. NobodyIsAdmin
  BY DEF NobodyIsAdmin
<1>4. \A s \in Slots : Made(requests[s]) /\ Kept(requests[s])
  BY DEF Made, Kept, Free
<1> QED
  BY <1>1, <1>2, <1>3, <1>4 DEF AccountsInvariant

LEMMA NamedMade == ASSUME AccountsInvariant, NEW e, NEW i \in Named(e) PROVE i <= lastId
  BY DEF AccountsInvariant, ChosenStored, Named

\* A step of one request that changes no account.
LEMMA RequestMoves ==
    ASSUME AccountsInvariant, NEW s \in Slots, NEW q \in Request,
           requests' = [requests EXCEPT ![s] = q],
           UNCHANGED <<users, lastId, server, chosen>>,
           tokens' \subseteq 1 .. lastId, Made(q), Kept(q)
    PROVE  AccountsInvariant'
<1>1. AccountsTyped'
  BY DEF AccountsInvariant, AccountsTyped
<1>2. UniqueNames' /\ ChosenStored'
  BY DEF AccountsInvariant, UniqueNames, ChosenStored, Row
<1>3. NobodyIsAdmin'
  BY DEF AccountsInvariant, NobodyIsAdmin, Named, Row
<1>4. \A t \in Slots : requests'[t] = IF t = s THEN q ELSE requests[t]
  BY DEF AccountsInvariant, AccountsTyped
<1>5. \A t \in Slots : Made(requests[t])' /\ Kept(requests[t])'
  BY <1>4 DEF AccountsInvariant, Made, Kept
<1> QED
  BY <1>1, <1>2, <1>3, <1>5 DEF AccountsInvariant

\* The request at a stage past the guard was usable, or has no account.
LEMMA PastTheGuard ==
    ASSUME AccountsInvariant, NEW s \in Slots
    PROVE  /\ requests[s] \in Request /\ Made(requests[s])
           /\ requests[s].stage \notin {"guard", "answered"} =>
                requests[s].by = 0 \/ requests[s].usable
  BY DEF AccountsInvariant, AccountsTyped, Kept

\* An account is added: its address was free.
LEMMA InsertKeeps ==
    ASSUME AccountsInvariant, NEW e \in Addresses \cup {"none"}, NEW p \in Texts, NEW active \in BOOLEAN,
           NEW role \in {"ADMIN", "USER"}, Insert(e, p, active, role), Named(e) = {}
    PROVE  /\ users' \in [Ids -> Account] /\ lastId' = lastId + 1 /\ lastId' \in 0 .. MaxUsers
           /\ chosen' \in [Ids -> Texts]
           /\ UniqueNames' /\ ChosenStored'
           /\ \A r \in Request : Made(r) => Made(r)'
           /\ \A r \in Request : Made(r) /\ Kept(r) => Kept(r)'
<1> DEFINE new == [username |-> e, password |-> Hash(p), isActive |-> active, role |-> role]
           n == lastId + 1
<1>1. /\ users \in [Ids -> Account] /\ lastId \in 0 .. MaxUsers /\ chosen \in [Ids -> Texts]
      /\ MaxUsers \in Nat
  BY AccountsAssumption DEF AccountsInvariant, AccountsTyped
<1>2. lastId < MaxUsers /\ lastId' = n /\ users' = [users EXCEPT ![n] = new] /\ chosen' = [chosen EXCEPT ![n] = p]
  BY DEF Insert
<1>3. n \in Ids /\ lastId' \in 0 .. MaxUsers
  BY <1>1, <1>2 DEF Ids
<1>4. new \in Account /\ new.username = e /\ new.password = Hash(p)
  BY DEF Account
<1> HIDE DEF new
<1>5. /\ users' \in [Ids -> Account] /\ chosen' \in [Ids -> Texts]
      /\ \A i \in Ids : users'[i] = IF i = n THEN new ELSE users[i]
      /\ \A i \in Ids : chosen'[i] = IF i = n THEN p ELSE chosen[i]
  BY <1>1, <1>2, <1>4
<1>6. UniqueNames'
  BY <1>4, <1>5 DEF AccountsInvariant, UniqueNames, Row, Named
<1>7. ChosenStored'
  <2> SUFFICES ASSUME NEW i \in Ids, users'[i] # NoAccount
               PROVE  i <= lastId' /\ users'[i].password = Hash(chosen'[i])
    BY DEF ChosenStored, Row, Ids
  <2>1. CASE i = n
    BY <1>1, <1>2, <1>4, <1>5, <2>1
  <2>2. CASE i # n
    <3>1. users'[i] = users[i] /\ chosen'[i] = chosen[i]
      BY <1>5, <2>2
    <3>2. i <= lastId /\ users[i].password = Hash(chosen[i])
      BY <3>1 DEF AccountsInvariant, ChosenStored, Row
    <3> QED
      BY <1>1, <1>2, <3>1, <3>2 DEF Ids
  <2> QED
    BY <2>1, <2>2
<1>8. \A r \in Request : Made(r) => Made(r)'
  BY <1>1, <1>2 DEF Made, Request
<1>9. ASSUME NEW r \in Request, Made(r), Kept(r) PROVE Kept(r)'
  <2>1. r.by \in 0 .. MaxUsers /\ r.by <= lastId
    BY <1>9 DEF Request, Made
  <2>2. r.by # 0 => r.by \in Ids /\ r.by # n
    BY <1>1, <2>1 DEF Ids
  <2> QED
    BY <1>5, <1>9, <2>2 DEF Kept
<1> QED
  BY <1>2, <1>3, <1>5, <1>6, <1>7, <1>8, <1>9

LEMMA StartUpKeeps == AccountsInvariant /\ (Boot \/ CreateAdmin \/ Restart) => AccountsInvariant'
<1> SUFFICES ASSUME AccountsInvariant, Boot \/ CreateAdmin \/ Restart PROVE AccountsInvariant'
  OBVIOUS
<1>1. CASE Boot
  <2>1. UNCHANGED <<users, lastId, requests, tokens, chosen>>
    BY <1>1 DEF Boot
  <2>2. AccountsTyped' /\ UniqueNames' /\ ChosenStored'
    BY <2>1 DEF AccountsInvariant, AccountsTyped, UniqueNames, ChosenStored, Row
  <2>3. NobodyIsAdmin'
    BY <1>1 DEF Boot, NobodyIsAdmin, Named, Row
  <2>4. \A t \in Slots : Made(requests[t])' /\ Kept(requests[t])'
    BY <2>1 DEF AccountsInvariant, Made, Kept
  <2> QED
    BY <2>2, <2>3, <2>4 DEF AccountsInvariant
<1>2. CASE CreateAdmin
  <2>1. Insert("admin", "p", TRUE, "ADMIN") /\ UNCHANGED <<requests, tokens>> /\ server = "create" /\ server' = "up"
    BY <1>2 DEF CreateAdmin
  <2>2. "admin" \in Addresses /\ "p" \in Texts /\ Named("admin") = {}
    BY <2>1, AccountsAssumption DEF AccountsInvariant, NobodyIsAdmin, Texts
  <2>3. /\ users' \in [Ids -> Account] /\ lastId' = lastId + 1 /\ lastId' \in 0 .. MaxUsers
        /\ chosen' \in [Ids -> Texts] /\ UniqueNames' /\ ChosenStored'
        /\ \A r \in Request : Made(r) => Made(r)'
        /\ \A r \in Request : Made(r) /\ Kept(r) => Kept(r)'
    BY <2>1, <2>2, InsertKeeps
  <2>4. \A t \in Slots : requests[t] \in Request /\ Made(requests[t]) /\ Kept(requests[t])
    BY DEF AccountsInvariant, AccountsTyped
  <2>5. ASSUME NEW t \in Slots PROVE Made(requests[t])' /\ Kept(requests[t])'
    <3> DEFINE r == requests[t]
    <3>1. r \in Request /\ Made(r) /\ Kept(r) /\ requests'[t] = r
      BY <2>1, <2>4
    <3>2. /\ r.by <= lastId' /\ r.id <= lastId'
          /\ r.id = 0 => r.stage # "compare" /\ r.kind \in {"none", "signUp", "signIn", "create", "read"}
          /\ r.by # 0 /\ ~r.usable =>
               /\ ~users'[r.by].isActive
               /\ (r.stage = "guard" /\ r.answer = "none") \/ (r.stage = "answered" /\ r.answer = "unauthorized")
      <4> HIDE DEF r
      <4> QED
        BY <2>3, <3>1 DEF Made, Kept
    <3> QED
      BY <3>1, <3>2 DEF Made, Kept
  <2>6. AccountsTyped'
    BY <2>1, <2>3 DEF AccountsInvariant, AccountsTyped
  <2> QED
    BY <2>1, <2>3, <2>5, <2>6 DEF AccountsInvariant, NobodyIsAdmin
<1>3. CASE Restart
  <2>1. UNCHANGED <<users, lastId, tokens, chosen>> /\ server' = "down" /\ requests' = [s \in Slots |-> Free]
    BY <1>3 DEF Restart
  <2>2. AccountsTyped' /\ UniqueNames' /\ ChosenStored' /\ NobodyIsAdmin'
    BY <2>1, EmptyTyped DEF AccountsInvariant, AccountsTyped, UniqueNames, ChosenStored, NobodyIsAdmin, Row
  <2>3. \A t \in Slots : Made(requests[t])' /\ Kept(requests[t])'
    BY <2>1 DEF AccountsInvariant, AccountsTyped, Made, Kept, Free
  <2> QED
    BY <2>2, <2>3 DEF AccountsInvariant
<1> QED
  BY <1>1, <1>2, <1>3

LEMMA ReceiveKeeps ==
    ASSUME AccountsInvariant, NEW s \in Slots, NEW kind \in Kinds, NEW by \in 0 .. lastId,
           NEW e \in Addresses \cup {"none"}, NEW p \in Texts, NEW i \in 0 .. lastId,
           kind \in Public => by = 0, i = 0 => kind \in Public \cup {"create", "read"}, Receive(s, kind, by, e, p, i)
    PROVE  AccountsInvariant'
<1> DEFINE q == [kind |-> kind, stage |-> IF kind \in Public THEN "find" ELSE "guard", answer |-> "none",
                 by |-> by, usable |-> by # 0 /\ users[by].isActive,
                 email |-> e, password |-> p, id |-> i, found |-> NoAccount]
<1>1. requests' = [requests EXCEPT ![s] = q] /\ UNCHANGED <<users, lastId, server, chosen, tokens>>
  BY DEF Receive
<1>2. /\ users \in [Ids -> Account] /\ lastId \in 0 .. MaxUsers /\ MaxUsers \in Nat /\ tokens \subseteq 1 .. lastId
  BY AccountsAssumption DEF AccountsInvariant, AccountsTyped
<1>3. by \in 0 .. MaxUsers /\ i \in 0 .. MaxUsers /\ by <= lastId /\ i <= lastId /\ (by # 0 => by \in Ids)
  BY <1>2 DEF Ids
<1>4. (by # 0 /\ users[by].isActive) \in BOOLEAN
  OBVIOUS
<1>5. /\ q \in Request /\ q.by = by /\ q.id = i /\ q.answer = "none"
      /\ q.kind = kind /\ q.stage = (IF kind \in Public THEN "find" ELSE "guard")
      /\ q.usable = (by # 0 /\ users[by].isActive)
  BY <1>3, <1>4, EmptyTyped DEF Request, Answers
<1> HIDE DEF q
<1>6. Made(q) /\ Kept(q)
  BY <1>3, <1>5 DEF Made, Kept, Public
<1> QED
  BY <1>1, <1>2, <1>5, <1>6, RequestMoves

LEMMA ReceiveSomeKeeps ==
    ASSUME AccountsInvariant, NEW s \in Slots, ReceiveSome(s)
    PROVE  AccountsInvariant'
<1>1. /\ tokens \subseteq 1 .. lastId /\ lastId \in Nat /\ 0 \in 0 .. lastId
      /\ "none" \in Addresses \cup {"none"} /\ "none" \in Texts /\ "p" \in Texts
  BY AccountsAssumption DEF AccountsInvariant, AccountsTyped, Texts
<1>2. CASE \E kind \in Kinds \cap Public, e \in Addresses, p \in Passwords : Receive(s, kind, 0, Lower(e), p, 0)
  <2>1. PICK kind \in Kinds \cap Public, e \in Addresses, p \in Passwords : Receive(s, kind, 0, Lower(e), p, 0)
    BY <1>2
  <2>2. Lower(e) \in Addresses \cup {"none"} /\ p \in Texts
    BY AccountsAssumption DEF Lower, Texts
  <2> QED
    BY <1>1, <2>1, <2>2, ReceiveKeeps DEF Public
<1>3. ASSUME NEW by \in tokens, NEW kind \in Kinds \ Public, NEW e \in Addresses \cup {"none"}, NEW p \in Texts,
             NEW i \in 0 .. lastId, i = 0 => kind \in {"create", "read"}, Receive(s, kind, by, e, p, i)
      PROVE  AccountsInvariant'
  <2>1. by \in 0 .. lastId
    BY <1>1
  <2> QED
    BY <1>3, <2>1, ReceiveKeeps
<1>4. \A i \in 1 .. lastId : i \in 0 .. lastId /\ i # 0
  BY <1>1
<1>5. \A p \in Passwords : p \in Texts
  BY DEF Texts
<1>6. CASE \E by \in tokens : "read" \in Kinds /\ Receive(s, "read", by, "none", "none", 0)
  BY <1>1, <1>3, <1>6 DEF Public
<1>7. CASE \E by \in tokens, e \in Addresses : "create" \in Kinds /\ Receive(s, "create", by, e, "p", 0)
  BY <1>1, <1>3, <1>7 DEF Public
<1>8. CASE \E by \in tokens, i \in 1 .. lastId, kind \in Kinds \cap {"approve", "deactivate", "remove"} :
             Receive(s, kind, by, "none", "none", i)
  BY <1>1, <1>3, <1>4, <1>8 DEF Public
<1>9. CASE \E by \in tokens, i \in 1 .. lastId, e \in Addresses : "rename" \in Kinds /\ Receive(s, "rename", by, e, "none", i)
  BY <1>1, <1>3, <1>4, <1>9 DEF Public
<1>10. CASE \E by \in tokens, i \in 1 .. lastId, p \in Passwords :
              "password" \in Kinds /\ Receive(s, "password", by, "none", p, i)
  BY <1>1, <1>3, <1>4, <1>5, <1>10 DEF Public
<1> QED
  BY <1>2, <1>6, <1>7, <1>8, <1>9, <1>10 DEF ReceiveSome

Stages == {"insert", "validate", "write"}

\* What answering a request, or moving it on, leaves of it.
LEMMA Edits ==
    ASSUME NEW r \in Request, NEW code \in Answers, NEW stage \in Stages
    PROVE  /\ Answered(r, code) \in Request /\ [r EXCEPT !.stage = stage] \in Request
           /\ Answered(r, code).by = r.by /\ Answered(r, code).id = r.id
           /\ Answered(r, code).usable = r.usable /\ Answered(r, code).kind = r.kind
           /\ Answered(r, code).stage = "answered" /\ Answered(r, code).answer = code
           /\ [r EXCEPT !.stage = stage].by = r.by /\ [r EXCEPT !.stage = stage].id = r.id
           /\ [r EXCEPT !.stage = stage].usable = r.usable /\ [r EXCEPT !.stage = stage].kind = r.kind
           /\ [r EXCEPT !.stage = stage].stage = stage /\ [r EXCEPT !.stage = stage].answer = r.answer
  BY DEF Answered, Request, Stages

\* A request that may be admitted is answered, or moved on.
LEMMA Onward ==
    ASSUME NEW r \in Request, Made(r), r.by = 0 \/ r.usable,
           NEW code \in Answers, NEW stage \in Stages
    PROVE  /\ Answered(r, code) \in Request /\ Made(Answered(r, code)) /\ Kept(Answered(r, code))
           /\ [r EXCEPT !.stage = stage] \in Request
           /\ Made([r EXCEPT !.stage = stage]) /\ Kept([r EXCEPT !.stage = stage])
<1> DEFINE a == Answered(r, code)
           m == [r EXCEPT !.stage = stage]
<1>1. /\ a \in Request /\ a.by = r.by /\ a.id = r.id /\ a.usable = r.usable /\ a.kind = r.kind
      /\ a.stage = "answered"
      /\ m \in Request /\ m.by = r.by /\ m.id = r.id /\ m.usable = r.usable /\ m.kind = r.kind
      /\ m.stage = stage
  BY Edits
<1> HIDE DEF a, m
<1>2. Made(a) /\ Kept(a) /\ Made(m) /\ Kept(m)
  BY <1>1 DEF Made, Kept, Stages
<1> QED
  BY <1>1, <1>2 DEF a, m

LEMMA SignUpFindsKeeps ==
    ASSUME AccountsInvariant, NEW s \in Slots, SignUpFinds(s)
    PROVE  AccountsInvariant'
<1> DEFINE q == IF Named(requests[s].email) # {} THEN Answered(requests[s], "conflict")
                                                ELSE [requests[s] EXCEPT !.stage = "insert"]
<1>1. /\ requests[s].stage = "find" /\ requests' = [requests EXCEPT ![s] = q]
      /\ UNCHANGED <<users, lastId, server, chosen, tokens>>
  BY DEF SignUpFinds, At, Becomes
<1>2. q \in Request /\ Made(q) /\ Kept(q)
  BY <1>1, PastTheGuard, Onward DEF Answers, Stages
<1>3. tokens' \subseteq 1 .. lastId
  BY <1>1 DEF AccountsInvariant, AccountsTyped
<1> HIDE DEF q
<1> QED
  BY <1>1, <1>2, <1>3, RequestMoves

LEMMA SignInFindsKeeps ==
    ASSUME AccountsInvariant, NEW s \in Slots, SignInFinds(s)
    PROVE  AccountsInvariant'
<1>1. /\ requests[s].stage = "find" /\ UNCHANGED <<users, lastId, server, chosen, tokens>>
      /\ tokens' \subseteq 1 .. lastId
  BY DEF SignInFinds, At, AccountsInvariant, AccountsTyped
<1>2. CASE Becomes(s, Answered(requests[s], "invalid"))
  <2>1. /\ Answered(requests[s], "invalid") \in Request
        /\ Made(Answered(requests[s], "invalid")) /\ Kept(Answered(requests[s], "invalid"))
    BY <1>1, PastTheGuard, Onward DEF Answers, Stages
  <2> QED
    BY <1>1, <1>2, <2>1, RequestMoves DEF Becomes
<1>3. CASE \E i \in Named(requests[s].email) :
             Becomes(s, [requests[s] EXCEPT !.stage = "compare", !.id = i, !.found = users[i]])
  <2>1. PICK i \in Named(requests[s].email) :
               Becomes(s, [requests[s] EXCEPT !.stage = "compare", !.id = i, !.found = users[i]])
    BY <1>3
  <2> DEFINE r == requests[s]
             q == [r EXCEPT !.stage = "compare", !.id = i, !.found = users[i]]
  <2>2. /\ i \in Ids /\ i \in 0 .. MaxUsers /\ i # 0 /\ i <= lastId /\ users[i] \in Account
    BY AccountsAssumption, NamedMade DEF Named, Ids, AccountsInvariant, AccountsTyped
  <2>3. r \in Request /\ Made(r) /\ (r.by = 0 \/ r.usable)
    BY <1>1, PastTheGuard
  <2> HIDE DEF r
  <2>4. q \in Request /\ q.by = r.by /\ q.id = i /\ q.usable = r.usable
    BY <2>2, <2>3 DEF Request
  <2>5. Made(q) /\ Kept(q)
    BY <2>2, <2>3, <2>4 DEF Made, Kept
  <2>6. requests' = [requests EXCEPT ![s] = q]
    BY <2>1 DEF Becomes, r
  <2> HIDE DEF q
  <2> QED
    BY <1>1, <2>4, <2>5, <2>6, RequestMoves
<1> QED
  BY <1>2, <1>3 DEF SignInFinds

LEMMA SignInComparesKeeps ==
    ASSUME AccountsInvariant, NEW s \in Slots, SignInCompares(s)
    PROVE  AccountsInvariant'
<1> DEFINE r == requests[s]
           q == Answered(r, SignInAnswer(r))
<1>1. /\ r.stage = "compare" /\ requests' = [requests EXCEPT ![s] = q]
      /\ UNCHANGED <<users, lastId, server, chosen>>
      /\ tokens' = IF SignInAnswer(r) = "token" THEN tokens \cup {r.id} ELSE tokens
  BY DEF SignInCompares, At, Becomes
<1>2. q \in Request /\ Made(q) /\ Kept(q)
  <2>1. SignInAnswer(r) \in Answers
    BY DEF SignInAnswer, Answers
  <2> QED
    BY <1>1, <2>1, PastTheGuard, Onward DEF Stages
<1>3. r.id \in 1 .. lastId /\ tokens \subseteq 1 .. lastId
  BY <1>1, PastTheGuard, AccountsAssumption DEF Made, Request, AccountsInvariant, AccountsTyped
<1>4. tokens' \subseteq 1 .. lastId
  BY <1>1, <1>3
<1> HIDE DEF q
<1> QED
  BY <1>1, <1>2, <1>4, RequestMoves

LEMMA GuardKeeps ==
    ASSUME AccountsInvariant, NEW s \in Slots, Guard(s)
    PROVE  AccountsInvariant'
<1> DEFINE r == requests[s]
           on == [r EXCEPT !.stage = IF r.kind \in {"create", "rename"} THEN "validate" ELSE "write"]
           q == IF ~Admitted(r.by) THEN Answered(r, "unauthorized")
                ELSE IF r.kind = "read" THEN Answered(r, "done")
                ELSE IF users[r.by].role # "ADMIN" THEN Answered(r, "forbidden")
                ELSE on
<1>1. /\ requests' = [requests EXCEPT ![s] = q]
      /\ UNCHANGED <<users, lastId, server, chosen, tokens>>
  BY DEF Guard, Becomes
<1>2. r \in Request /\ Made(r) /\ Kept(r) /\ tokens \subseteq 1 .. lastId
  BY DEF AccountsInvariant, AccountsTyped
<1>3. CASE ~Admitted(r.by)
  <2>1. "unauthorized" \in Answers /\ "write" \in Stages
    BY DEF Answers, Stages
  <2>2. q \in Request /\ Made(q) /\ Kept(q)
    BY <1>2, <1>3, <2>1, Edits DEF Made, Kept, Admitted
  <2> HIDE DEF q
  <2> QED
    BY <1>1, <1>2, <2>2, RequestMoves
<1>4. CASE Admitted(r.by)
  <2>1. r.by = 0 \/ r.usable
    BY <1>2, <1>4 DEF Kept, Admitted
  <2>2. {"done", "forbidden"} \subseteq Answers /\ {"validate", "write"} \subseteq Stages
    BY DEF Answers, Stages
  <2>3. \A code \in {"done", "forbidden"} :
           Answered(r, code) \in Request /\ Made(Answered(r, code)) /\ Kept(Answered(r, code))
    BY <1>2, <2>1, <2>2, Onward
  <2>4. on \in Request /\ Made(on) /\ Kept(on)
    BY <1>2, <2>1, <2>2, Onward
  <2> HIDE DEF on
  <2>5. q \in Request /\ Made(q) /\ Kept(q)
    BY <1>4, <2>3, <2>4
  <2> HIDE DEF q
  <2> QED
    BY <1>1, <1>2, <2>5, RequestMoves
<1> QED
  BY <1>3, <1>4

LEMMA ValidateKeeps ==
    ASSUME AccountsInvariant, NEW s \in Slots, Validate(s)
    PROVE  AccountsInvariant'
<1> DEFINE r == requests[s]
           on == [r EXCEPT !.stage = IF r.kind = "create" THEN "insert" ELSE "write"]
           q == IF Named(r.email) # {} THEN Answered(r, "bad") ELSE on
<1>1. /\ r.stage = "validate" /\ requests' = [requests EXCEPT ![s] = q]
      /\ UNCHANGED <<users, lastId, server, chosen, tokens>>
  BY DEF Validate, At, Becomes
<1>2. q \in Request /\ Made(q) /\ Kept(q)
  <2>1. "bad" \in Answers /\ {"insert", "write"} \subseteq Stages
    BY DEF Answers, Stages
  <2>2. Answered(r, "bad") \in Request /\ Made(Answered(r, "bad")) /\ Kept(Answered(r, "bad"))
    BY <1>1, <2>1, PastTheGuard, Onward
  <2>3. on \in Request /\ Made(on) /\ Kept(on)
    BY <1>1, <2>1, PastTheGuard, Onward
  <2> HIDE DEF on
  <2> QED
    BY <2>2, <2>3
<1>3. tokens' \subseteq 1 .. lastId
  BY <1>1 DEF AccountsInvariant, AccountsTyped
<1> HIDE DEF q
<1> QED
  BY <1>1, <1>2, <1>3, RequestMoves

LEMMA CreateKeeps ==
    ASSUME AccountsInvariant, NEW s \in Slots, Create(s)
    PROVE  AccountsInvariant'
<1> DEFINE r == requests[s]
           q == Answered(r, IF Insertable(r.email) THEN "created" ELSE "error")
<1>1. /\ r.stage = "insert" /\ server = "up" /\ UNCHANGED <<server, tokens>> /\ requests' = [requests EXCEPT ![s] = q]
  BY DEF Create, At, Becomes
<1>2. r \in Request /\ q \in Request /\ Made(q) /\ Kept(q)
  BY <1>1, PastTheGuard, Onward DEF Answers, Stages
<1>3. CASE ~Insertable(r.email)
  <2>1. UNCHANGED <<users, lastId, chosen>> /\ tokens' \subseteq 1 .. lastId
    BY <1>1, <1>3 DEF Create, NoInsert, AccountsInvariant, AccountsTyped
  <2> HIDE DEF q
  <2> QED
    BY <1>1, <1>2, <2>1, RequestMoves
<1>4. CASE Insertable(r.email)
  <2>1. Insert(r.email, r.password, FALSE, "USER") /\ Named(r.email) = {}
    BY <1>4 DEF Create, Insertable
  <2>2. r.email \in Addresses \cup {"none"} /\ r.password \in Texts
    BY <1>2 DEF Request
  <2> HIDE DEF r, q
  <2>3. /\ users' \in [Ids -> Account] /\ lastId' = lastId + 1 /\ lastId' \in 0 .. MaxUsers
        /\ chosen' \in [Ids -> Texts] /\ UniqueNames' /\ ChosenStored'
        /\ \A x \in Request : Made(x) => Made(x)'
        /\ \A x \in Request : Made(x) /\ Kept(x) => Kept(x)'
    BY <2>1, <2>2, InsertKeeps
  <2>4. AccountsTyped'
    <3>1. requests' \in [Slots -> Request] /\ tokens' \subseteq 1 .. lastId'
      BY <1>1, <1>2, <2>3 DEF AccountsInvariant, AccountsTyped
    <3> QED
      BY <2>3, <3>1 DEF AccountsTyped
  <2>5. ASSUME NEW t \in Slots PROVE Made(requests[t])' /\ Kept(requests[t])'
    <3>1. PICK x \in Request : x = requests'[t] /\ Made(x) /\ Kept(x)
      BY <1>1, <1>2 DEF AccountsInvariant, AccountsTyped
    <3>2. Made(x)' /\ Kept(x)'
      BY <2>3, <3>1
    <3> QED
      BY <3>1, <3>2 DEF Made, Kept
  <2> QED
    BY <1>1, <2>3, <2>4, <2>5 DEF AccountsInvariant, NobodyIsAdmin
<1> QED
  BY <1>3, <1>4

\* What an administrator's change leaves of an account.
LEMMA ChangedAccount ==
    ASSUME NEW r \in Request, NEW u \in Account, NEW k,
           r.kind \in {"approve", "deactivate", "rename", "password"}, u.password = Hash(k)
    PROVE  /\ Changed(r, u) \in Account
           /\ Changed(r, u).username = IF r.kind = "rename" THEN r.email ELSE u.username
           /\ Changed(r, u).password = Hash(IF r.kind = "password" THEN r.password ELSE k)
           /\ r.kind # "approve" /\ ~u.isActive => ~Changed(r, u).isActive
<1>1. /\ u.username \in Addresses \cup {"none"} /\ r.email \in Addresses \cup {"none"} /\ r.password \in Texts
  BY DEF Account, Request
<1>2. Hash(r.password) \in {Hash(p) : p \in Texts}
  BY <1>1
<1>3. CASE r.kind = "approve"
  BY <1>1, <1>3 DEF Changed, Account
<1>4. CASE r.kind = "deactivate"
  BY <1>1, <1>4 DEF Changed, Account
<1>5. CASE r.kind = "rename"
  BY <1>1, <1>5 DEF Changed, Account
<1>6. CASE r.kind = "password"
  BY <1>1, <1>2, <1>6 DEF Changed, NewPassword, Account
<1> QED
  BY <1>3, <1>4, <1>5, <1>6

LEMMA UpdateKeeps ==
    ASSUME AccountsInvariant, NEW s \in Slots, Update(s)
    PROVE  AccountsInvariant'
<1> DEFINE r == requests[s]
           i == r.id
           taken == r.kind = "rename" /\ Named(r.email) \ {i} # {}
           q == Answered(r, IF Row(i) /\ taken THEN "error" ELSE "done")
           answered == [requests EXCEPT ![s] = q]
           now(t) == [answered[t] EXCEPT !.usable = @ \/ (r.kind = "approve" /\ answered[t].by = i)]
<1>1. /\ r.stage = "write" /\ r.kind \in {"approve", "deactivate", "rename", "password"} /\ server = "up"
      /\ UNCHANGED <<lastId, server, tokens>>
  BY DEF Update, Updated, At
<1>2. r \in Request /\ q \in Request /\ Made(q) /\ Kept(q) /\ Made(r)
  <2>1. PICK code \in Answers : code = IF Row(i) /\ taken THEN "error" ELSE "done"
    BY DEF Answers
  <2>2. PICK u \in Request : u = r /\ Made(u) /\ (u.by = 0 \/ u.usable)
    BY <1>1, PastTheGuard
  <2>3. PICK stage \in Stages : TRUE
    BY DEF Stages
  <2>4. Answered(u, code) \in Request /\ Made(Answered(u, code)) /\ Kept(Answered(u, code))
    BY <2>2, <2>3, Onward
  <2>5. q = Answered(u, code)
    BY <2>1, <2>2
  <2> HIDE DEF q, r
  <2> QED
    BY <2>2, <2>4, <2>5
<1>3. tokens' \subseteq 1 .. lastId /\ users \in [Ids -> Account] /\ chosen \in [Ids -> Texts] /\ lastId \in 0 .. MaxUsers
  BY <1>1 DEF AccountsInvariant, AccountsTyped
<1>4. i \in Ids
  BY <1>1, <1>2, <1>3, AccountsAssumption DEF Made, Request, Ids
<1>5. CASE ~Row(i) \/ taken
  <2>1. requests' = answered /\ UNCHANGED <<users, chosen>>
    BY <1>5 DEF Update, Updated
  <2> HIDE DEF q
  <2> QED
    BY <1>1, <1>2, <1>3, <2>1, RequestMoves
<1>6. CASE Row(i) /\ ~taken
  <2>1. /\ users' = [users EXCEPT ![i] = Changed(r, @)]
        /\ chosen' = [chosen EXCEPT ![i] = IF r.kind = "password" THEN r.password ELSE @]
        /\ requests' = [t \in Slots |-> now(t)]
    BY <1>6 DEF Update, Updated
  <2>2. users[i].password = Hash(chosen[i]) /\ users[i] \in Account /\ i <= lastId
    BY <1>3, <1>4, <1>6 DEF AccountsInvariant, ChosenStored
  <2> DEFINE u == Changed(r, users[i])
  <2>3. /\ u \in Account /\ u.username = (IF r.kind = "rename" THEN r.email ELSE users[i].username)
        /\ u.password = Hash(IF r.kind = "password" THEN r.password ELSE chosen[i])
        /\ r.kind # "approve" /\ ~users[i].isActive => ~u.isActive
    BY <1>1, <1>2, <2>2, ChangedAccount
  <2>4. /\ users' \in [Ids -> Account] /\ \A j \in Ids : users'[j] = IF j = i THEN u ELSE users[j]
    BY <1>3, <2>1, <2>3
  <2> HIDE DEF u
  <2>5. /\ chosen' \in [Ids -> Texts]
        /\ \A j \in Ids : chosen'[j] = IF j = i /\ r.kind = "password" THEN r.password ELSE chosen[j]
    BY <1>2, <1>3, <2>1 DEF Request
  <2>6. UniqueNames'
    <3> SUFFICES ASSUME NEW j \in Ids, NEW k \in Ids, users'[j] # NoAccount, users'[k] # NoAccount,
                        users'[j].username = users'[k].username
                 PROVE  j = k
      BY DEF UniqueNames, Row, Ids
    <3>1. \A j1, k1 \in Ids : users[j1] # NoAccount /\ users[k1] # NoAccount
                               /\ users[j1].username = users[k1].username => j1 = k1
      BY DEF AccountsInvariant, UniqueNames, Row
    <3>2. CASE r.kind = "rename"
      <4>1. \A j1 \in Ids : users[j1] # NoAccount /\ users[j1].username = r.email => j1 = i
        BY <1>6, <3>2 DEF Named, Row
      <4> QED
        BY <2>3, <2>4, <3>1, <3>2, <4>1
    <3>3. CASE r.kind # "rename"
      BY <1>6, <2>3, <2>4, <3>1, <3>3 DEF Row
    <3> QED
      BY <3>2, <3>3
  <2>7. ChosenStored'
    <3> SUFFICES ASSUME NEW j \in Ids, users'[j] # NoAccount
                 PROVE  j <= lastId' /\ users'[j].password = Hash(chosen'[j])
      BY DEF ChosenStored, Row, Ids
    <3>1. CASE j = i
      BY <1>1, <2>2, <2>3, <2>4, <2>5, <3>1
    <3>2. CASE j # i
      BY <1>1, <2>4, <2>5, <3>2 DEF AccountsInvariant, ChosenStored, Row
    <3> QED
      BY <3>1, <3>2
  <2>8. ASSUME NEW t \in Slots
        PROVE  requests'[t] \in Request /\ Made(requests[t])' /\ Kept(requests[t])'
    <3> DEFINE a == answered[t]
    <3>1. a \in Request /\ Made(a) /\ Kept(a)
      BY <1>2 DEF AccountsInvariant, AccountsTyped
    <3> HIDE DEF a
    <3> DEFINE b == [a EXCEPT !.usable = @ \/ (r.kind = "approve" /\ a.by = i)]
    <3>2. requests'[t] = b
      BY <2>1 DEF a
    <3>3. /\ b \in Request /\ b.by = a.by /\ b.id = a.id /\ b.kind = a.kind /\ b.stage = a.stage /\ b.answer = a.answer
          /\ b.usable = (a.usable \/ (r.kind = "approve" /\ a.by = i))
      BY <3>1 DEF Request
    <3> HIDE DEF b
    <3>4. a.by # 0 => a.by \in Ids
      BY <1>3, <3>1, AccountsAssumption DEF Made, Request, Ids
    <3>5. b.by # 0 /\ ~b.usable => ~users'[b.by].isActive
      BY <2>3, <2>4, <3>1, <3>3, <3>4 DEF Kept
    <3>6. Kept(requests[t])'
      BY <3>1, <3>2, <3>3, <3>5 DEF Kept
    <3>7. Made(requests[t])'
      BY <1>1, <3>1, <3>2, <3>3 DEF Made
    <3> QED
      BY <3>2, <3>3, <3>6, <3>7
  <2>9. AccountsTyped'
    <3>1. requests' \in [Slots -> Request]
      BY <2>1, <2>8
    <3> QED
      BY <1>1, <1>3, <2>4, <2>5, <3>1 DEF AccountsTyped
  <2> QED
    BY <1>1, <2>6, <2>7, <2>8, <2>9 DEF AccountsInvariant, NobodyIsAdmin
<1> QED
  BY <1>5, <1>6

LEMMA RemoveKeeps ==
    ASSUME AccountsInvariant, NEW s \in Slots, Remove(s)
    PROVE  AccountsInvariant'
<1> DEFINE r == requests[s]
           q == Answered(r, "done")
<1>1. /\ r.stage = "write" /\ server = "up" /\ UNCHANGED <<lastId, server, tokens, chosen>>
      /\ users' = [users EXCEPT ![r.id] = NoAccount] /\ requests' = [requests EXCEPT ![s] = q]
  BY DEF Remove, At, Becomes
<1>2. q \in Request /\ Made(q) /\ Kept(q)
  BY <1>1, PastTheGuard, Onward DEF Answers, Stages
<1> HIDE DEF q
<1>3. tokens' \subseteq 1 .. lastId /\ users \in [Ids -> Account] /\ chosen \in [Ids -> Texts] /\ lastId \in 0 .. MaxUsers
  BY <1>1 DEF AccountsInvariant, AccountsTyped
<1>4. users' \in [Ids -> Account] /\ \A j \in Ids : users'[j] = users[j] \/ users'[j] = NoAccount
  BY <1>1, <1>3, EmptyTyped
<1>5. UniqueNames' /\ ChosenStored'
  BY <1>1, <1>4 DEF AccountsInvariant, UniqueNames, ChosenStored, Row
<1>6. ASSUME NEW t \in Slots PROVE requests'[t] \in Request /\ Made(requests[t])' /\ Kept(requests[t])'
  <2>1. PICK a \in Request : a = requests'[t] /\ Made(a) /\ Kept(a)
    BY <1>1, <1>2 DEF AccountsInvariant, AccountsTyped
  <2>2. a.by # 0 => a.by \in Ids
    BY <1>3, <2>1, AccountsAssumption DEF Made, Request, Ids
  <2>3. a.by # 0 /\ ~a.usable => ~users'[a.by].isActive
    BY <1>4, <2>1, <2>2 DEF Kept, NoAccount
  <2>4. Kept(requests[t])'
    BY <2>1, <2>3 DEF Kept
  <2>5. Made(requests[t])'
    BY <1>1, <2>1 DEF Made
  <2> QED
    BY <2>1, <2>4, <2>5
<1>7. AccountsTyped'
  <2>1. requests' \in [Slots -> Request]
    BY <1>1, <1>2 DEF AccountsInvariant, AccountsTyped
  <2> QED
    BY <1>1, <1>3, <1>4, <2>1 DEF AccountsTyped
<1> QED
  BY <1>1, <1>5, <1>6, <1>7 DEF AccountsInvariant, NobodyIsAdmin

-----------------------------------------------------------------------------

LEMMA AccountsKeep == AccountsInvariant /\ [AccountsNext]_accountsVars => AccountsInvariant'
<1> SUFFICES ASSUME AccountsInvariant, [AccountsNext]_accountsVars PROVE AccountsInvariant'
  OBVIOUS
<1>1. CASE Boot \/ CreateAdmin \/ Restart
  BY <1>1, StartUpKeeps
<1>2. ASSUME NEW s \in Slots,
             \/ ReceiveSome(s) \/ SignUpFinds(s) \/ Create(s) \/ SignInFinds(s) \/ SignInCompares(s)
             \/ Guard(s) \/ Validate(s) \/ Update(s) \/ Remove(s)
      PROVE  AccountsInvariant'
  BY <1>2, ReceiveSomeKeeps, SignUpFindsKeeps, CreateKeeps, SignInFindsKeeps, SignInComparesKeeps, GuardKeeps,
     ValidateKeeps, UpdateKeeps, RemoveKeeps
<1>3. CASE UNCHANGED accountsVars
  <2>1. UNCHANGED <<users, lastId, server, requests, tokens, chosen>>
    BY <1>3 DEF accountsVars
  <2>2. AccountsTyped' /\ UniqueNames' /\ ChosenStored' /\ NobodyIsAdmin'
    BY <2>1 DEF AccountsInvariant, AccountsTyped, UniqueNames, ChosenStored, NobodyIsAdmin, Named, Row
  <2>3. \A t \in Slots : Made(requests[t])' /\ Kept(requests[t])'
    BY <2>1 DEF AccountsInvariant, Made, Kept
  <2> QED
    BY <2>2, <2>3 DEF AccountsInvariant
<1> QED
  BY <1>1, <1>2, <1>3 DEF AccountsNext

LEMMA AccountsCorrect == AccountsSpec => []AccountsInvariant
<1> QED
  BY AccountsInitially, AccountsKeep, PTL DEF AccountsSpec

\* However sign-ups, new accounts, renames and removals interleave, an address has at most
\* one account.
THEOREM AddressesAreUnique == AccountsSpec => []OneAccountPerAddress
<1>1. AccountsInvariant => OneAccountPerAddress
  <2> SUFFICES ASSUME AccountsInvariant, NEW e \in Addresses PROVE Cardinality(Named(e)) <= 1
    BY DEF OneAccountPerAddress
  <2>1. \A i, j \in Named(e) : i = j
    BY DEF AccountsInvariant, UniqueNames, Named
  <2>2. CASE Named(e) = {}
    BY <2>2, FS_EmptySet
  <2>3. CASE Named(e) # {}
    <3>1. PICK i : Named(e) = {i}
      BY <2>1, <2>3
    <3>2. Cardinality({i}) = 1
      BY FS_Singleton
    <3> QED
      BY <3>1, <3>2
  <2> QED
    BY <2>2, <2>3
<1> QED
  BY <1>1, AccountsCorrect, PTL

\* A request whose account was not active at any time since it came waits at the guard or
\* was refused there, whatever its token says.
THEOREM DeactivatedIsRefused == AccountsSpec => []DeactivationHolds
<1>1. AccountsInvariant => DeactivationHolds
  BY DEF AccountsInvariant, Kept, DeactivationHolds
<1> QED
  BY <1>1, AccountsCorrect, PTL

\* The password last chosen for an account is the one that signs in, whether it came from
\* sign-up, from an administrator or from the default administrator.
THEOREM ChosenPasswordWorks == AccountsSpec => []ChosenPasswordSignsIn
<1>1. AccountsInvariant => ChosenPasswordSignsIn
  <2> SUFFICES ASSUME AccountsInvariant, NEW i \in Ids, Row(i)
               PROVE  SignInAnswer([Free EXCEPT !.password = chosen[i], !.found = users[i]]) # "invalid"
    BY DEF ChosenPasswordSignsIn
  <2> DEFINE r == [Free EXCEPT !.password = chosen[i], !.found = users[i]]
  <2>1. users[i].password = Hash(chosen[i])
    BY DEF AccountsInvariant, ChosenStored
  <2>2. r.password = chosen[i] /\ r.found = users[i]
    BY DEF Free
  <2> HIDE DEF r
  <2>3. SignInAnswer(r) # "invalid"
    BY <2>1, <2>2 DEF SignInAnswer
  <2> QED
    BY <2>3 DEF r
<1> QED
  BY <1>1, AccountsCorrect, PTL

-----------------------------------------------------------------------------
(* What rests on the invariant and on nothing else. *)

\* A request that names an address names a real one, has no answer before it is answered,
\* and a sign-in is told "pending" only with the password that was found.
WellSaid(r) ==
    /\ r.kind \in {"signUp", "create", "rename"} => r.email \in Addresses
    /\ r.stage # "answered" => r.answer = "none"
    /\ r.kind = "signIn" /\ r.answer = "pending" => r.found.password = Hash(r.password)

Details ==
    /\ server \in {"down", "create", "up"}
    /\ \A i \in Ids : Row(i) => users[i].username \in Addresses
    /\ \A s \in Slots : WellSaid(requests[s])

LEMMA InitDetails == AccountsInit => Details
  BY DEF AccountsInit, Details, WellSaid, Row, Free

\* A step that answers a request, or moves it on, leaves it well said.
LEMMA EditsWellSaid ==
    ASSUME NEW r \in Request, WellSaid(r), r.stage # "answered",
           NEW code \in Answers \ {"pending"}, NEW stage \in Stages
    PROVE  WellSaid(Answered(r, code)) /\ WellSaid([r EXCEPT !.stage = stage])
  BY DEF WellSaid, Answered, Request

\* A step of one request that leaves the accounts alone.
LEMMA MoveKeepsDetails ==
    ASSUME AccountsInvariant, Details, NEW s \in Slots, NEW q, WellSaid(q),
           requests' = [requests EXCEPT ![s] = q], UNCHANGED <<users, server>>
    PROVE  Details'
<1>1. \A t \in Slots : requests'[t] = IF t = s THEN q ELSE requests[t]
  BY DEF AccountsInvariant, AccountsTyped
<1> QED
  BY <1>1 DEF Details, WellSaid, Row

LEMMA StartUpKeepsDetails ==
    AccountsInvariant /\ Details /\ (Boot \/ CreateAdmin \/ Restart) => Details'
<1> SUFFICES ASSUME AccountsInvariant, Details, Boot \/ CreateAdmin \/ Restart PROVE Details'
  OBVIOUS
<1>1. CASE Boot
  BY <1>1 DEF Boot, Details, WellSaid, Row
<1>2. CASE CreateAdmin
  <2>1. /\ users' = [users EXCEPT ![lastId + 1] =
                       [username |-> "admin", password |-> Hash("p"), isActive |-> TRUE, role |-> "ADMIN"]]
        /\ UNCHANGED requests /\ server' = "up" /\ users \in [Ids -> Account]
    BY <1>2 DEF CreateAdmin, Insert, AccountsInvariant, AccountsTyped
  <2>2. \A i \in Ids : Row(i)' => users'[i].username \in Addresses
    BY <2>1, AccountsAssumption DEF Details, Row
  <2> QED
    BY <2>1, <2>2 DEF Details, WellSaid
<1>3. CASE Restart
  BY <1>3 DEF Restart, Details, WellSaid, Row, Free
<1> QED
  BY <1>1, <1>2, <1>3

LEMMA ReceiveKeepsDetails ==
    ASSUME AccountsInvariant, Details, NEW s \in Slots, ReceiveSome(s)
    PROVE  Details'
<1>1. ASSUME NEW kind, NEW by, NEW e, NEW p, NEW i, Receive(s, kind, by, e, p, i),
             kind \in {"signUp", "create", "rename"} => e \in Addresses
      PROVE  Details'
  <2> DEFINE q == [kind |-> kind, stage |-> IF kind \in Public THEN "find" ELSE "guard", answer |-> "none",
                   by |-> by, usable |-> by # 0 /\ users[by].isActive,
                   email |-> e, password |-> p, id |-> i, found |-> NoAccount]
  <2>1. requests' = [requests EXCEPT ![s] = q] /\ UNCHANGED <<users, server>>
    BY <1>1 DEF Receive
  <2>2. WellSaid(q)
    BY <1>1 DEF WellSaid
  <2> HIDE DEF q
  <2> QED
    BY <2>1, <2>2, MoveKeepsDetails
<1>2. CASE \E kind \in Kinds \cap Public, e \in Addresses, p \in Passwords : Receive(s, kind, 0, Lower(e), p, 0)
  <2>1. \A e \in Addresses : Lower(e) \in Addresses
    BY AccountsAssumption DEF Lower
  <2> QED
    BY <1>1, <1>2, <2>1
<1>3. CASE \E by \in tokens : "read" \in Kinds /\ Receive(s, "read", by, "none", "none", 0)
  BY <1>1, <1>3
<1>4. CASE \E by \in tokens, e \in Addresses : "create" \in Kinds /\ Receive(s, "create", by, e, "p", 0)
  BY <1>1, <1>4
<1>5. CASE \E by \in tokens, i \in 1 .. lastId, kind \in Kinds \cap {"approve", "deactivate", "remove"} :
             Receive(s, kind, by, "none", "none", i)
  BY <1>1, <1>5
<1>6. CASE \E by \in tokens, i \in 1 .. lastId, e \in Addresses : "rename" \in Kinds /\ Receive(s, "rename", by, e, "none", i)
  BY <1>1, <1>6
<1>7. CASE \E by \in tokens, i \in 1 .. lastId, p \in Passwords :
              "password" \in Kinds /\ Receive(s, "password", by, "none", p, i)
  BY <1>1, <1>7
<1> QED
  BY <1>2, <1>3, <1>4, <1>5, <1>6, <1>7 DEF ReceiveSome

\* The steps of a request that leave the accounts as they are.
LEMMA SayKeepsDetails ==
    ASSUME AccountsInvariant, Details, NEW s \in Slots,
           SignUpFinds(s) \/ SignInFinds(s) \/ SignInCompares(s) \/ Guard(s) \/ Validate(s)
    PROVE  Details'
<1> DEFINE r == requests[s]
<1>1. r \in Request /\ WellSaid(r) /\ r.stage # "answered" /\ UNCHANGED <<users, server>>
  BY DEF AccountsInvariant, AccountsTyped, Details, SignUpFinds, SignInFinds, SignInCompares, Guard, Validate, At
<1>2. /\ \A code \in Answers \ {"pending"} : WellSaid(Answered(r, code))
      /\ \A stage \in Stages : WellSaid([r EXCEPT !.stage = stage])
  <2>1. "none" \in Answers \ {"pending"} /\ "write" \in Stages
    BY DEF Answers, Stages
  <2> QED
    BY <1>1, <2>1, EditsWellSaid
<1>3. SUFFICES \E q : WellSaid(q) /\ Becomes(s, q)
  BY <1>1, MoveKeepsDetails DEF Becomes
<1>4. CASE SignUpFinds(s)
  BY <1>2, <1>4 DEF SignUpFinds, Answers, Stages
<1>5. CASE SignInFinds(s)
  <2>1. CASE Becomes(s, Answered(r, "invalid"))
    BY <1>2, <2>1 DEF Answers
  <2>2. ASSUME NEW i \in Ids, Becomes(s, [r EXCEPT !.stage = "compare", !.id = i, !.found = users[i]])
        PROVE  \E q : WellSaid(q) /\ Becomes(s, q)
    <3>1. WellSaid([r EXCEPT !.stage = "compare", !.id = i, !.found = users[i]])
      BY <1>1 DEF WellSaid, Request
    <3> QED
      BY <2>2, <3>1
  <2> QED
    BY <1>5, <2>1, <2>2 DEF SignInFinds, Named
<1>6. CASE SignInCompares(s)
  <2>1. Becomes(s, Answered(r, SignInAnswer(r)))
    BY <1>6 DEF SignInCompares
  <2>2. WellSaid(Answered(r, SignInAnswer(r)))
    BY <1>1 DEF WellSaid, Answered, SignInAnswer, Request
  <2> QED
    BY <2>1, <2>2
<1>7. CASE Guard(s)
  BY <1>2, <1>7 DEF Guard, Answers, Stages
<1>8. CASE Validate(s)
  BY <1>2, <1>8 DEF Validate, Answers, Stages
<1> QED
  BY <1>4, <1>5, <1>6, <1>7, <1>8

\* The steps that write to the table.
LEMMA WriteKeepsDetails ==
    ASSUME AccountsInvariant, Details, NEW s \in Slots, Create(s) \/ Update(s) \/ Remove(s)
    PROVE  Details'
<1> DEFINE r == requests[s]
<1>1. /\ r \in Request /\ WellSaid(r) /\ r.stage # "answered" /\ UNCHANGED server
      /\ users \in [Ids -> Account] /\ requests \in [Slots -> Request]
  BY DEF AccountsInvariant, AccountsTyped, Details, Create, Update, Remove, At
<1>2. \A code \in {"created", "error", "done"} : WellSaid(Answered(r, code)) /\ Answered(r, code) \in Request
  <2>1. {"created", "error", "done"} \subseteq Answers \ {"pending"} /\ "write" \in Stages
    BY DEF Answers, Stages
  <2> QED
    BY <1>1, <2>1, EditsWellSaid, Edits
<1>3. SUFFICES /\ \A i \in Ids : Row(i)' => users'[i].username \in Addresses
               /\ \A t \in Slots : WellSaid(requests'[t])
  BY <1>1 DEF Details, WellSaid
<1>4. CASE Create(s)
  <2>1. \A t \in Slots : WellSaid(requests'[t])
    <3>1. PICK code \in {"created", "error"} : Becomes(s, Answered(r, code))
      BY <1>4 DEF Create
    <3> QED
      BY <1>1, <1>2, <3>1 DEF Becomes, Details
  <2>2. r.email \in Addresses
    BY <1>1, <1>4 DEF Create, At, WellSaid
  <2>3. \A i \in Ids : Row(i)' => users'[i].username \in Addresses
    BY <1>1, <1>4, <2>2 DEF Create, Insert, NoInsert, Details, Row
  <2> QED
    BY <2>1, <2>3
<1>5. CASE Update(s)
  <2>1. PICK code \in {"error", "done"}, f \in [Slots -> Request] :
          /\ f = [requests EXCEPT ![s] = Answered(r, code)]
          /\ \/ requests' = f
             \/ requests' = [t \in Slots |-> [f[t] EXCEPT !.usable =
                                @ \/ (r.kind = "approve" /\ f[t].by = r.id)]]
    <3>1. \A code \in {"error", "done"} : [requests EXCEPT ![s] = Answered(r, code)] \in [Slots -> Request]
      BY <1>1, <1>2
    <3> DEFINE code == IF Updated(r.id) /\ r.kind = "rename" /\ Named(r.email) \ {r.id} # {} THEN "error" ELSE "done"
               f == [requests EXCEPT ![s] = Answered(r, code)]
    <3>2. \/ requests' = f
          \/ requests' = [t \in Slots |-> [f[t] EXCEPT !.usable =
                              @ \/ (r.kind = "approve" /\ f[t].by = r.id)]]
      <4>1. CASE ~Updated(r.id)
        BY <1>5, <4>1 DEF Update
      <4>2. CASE Updated(r.id) /\ r.kind = "rename" /\ Named(r.email) \ {r.id} # {}
        BY <1>5, <4>2 DEF Update
      <4>3. CASE Updated(r.id) /\ ~(r.kind = "rename" /\ Named(r.email) \ {r.id} # {})
        <5>1. f = [requests EXCEPT ![s] = Answered(requests[s], "done")]
          BY <4>3
        <5> HIDE DEF f
        <5>2. requests' = [t \in Slots |-> [f[t] EXCEPT !.usable =
                              @ \/ (requests[s].kind = "approve" /\ f[t].by = requests[s].id)]]
          BY <1>5, <4>3, <5>1 DEF Update
        <5> QED
          BY <5>2
      <4> QED
        BY <4>1, <4>2, <4>3
    <3>3. code \in {"error", "done"}
      OBVIOUS
    <3> HIDE DEF code
    <3>4. f \in [Slots -> Request]
      BY <3>1, <3>3
    <3> QED
      BY <3>2, <3>3, <3>4
  <2>2. \A t \in Slots : WellSaid(f[t]) /\ f[t] \in Request
    BY <1>1, <1>2, <2>1 DEF Details
  <2>3. \A t \in Slots : WellSaid(requests'[t])
    <3>1. ASSUME NEW t \in Slots, NEW b PROVE WellSaid([f[t] EXCEPT !.usable = b])
      BY <2>2 DEF WellSaid, Request
    <3>2. CASE requests' = f
      BY <2>2, <3>2
    <3>3. CASE requests' = [t \in Slots |-> [f[t] EXCEPT !.usable = @ \/ (r.kind = "approve" /\ f[t].by = r.id)]]
      <4> TAKE t \in Slots
      <4>1. requests'[t] = [f[t] EXCEPT !.usable = @ \/ (r.kind = "approve" /\ f[t].by = r.id)]
        BY <3>3
      <4>2. PICK b : requests'[t] = [f[t] EXCEPT !.usable = b]
        BY <4>1, Zenon
      <4> QED
        BY <3>1, <4>2
    <3> QED
      BY <2>1, <3>2, <3>3
  <2>4. \A i \in Ids : Row(i)' => users'[i].username \in Addresses
    <3>1. CASE UNCHANGED users
      BY <3>1 DEF Details, Row
    <3>2. CASE Updated(r.id) /\ users' = [users EXCEPT ![r.id] = Changed(r, @)]
      <4>1. r.kind \in {"approve", "deactivate", "rename", "password"}
        BY <1>5 DEF Update, At
      <4>2. r.id \in Ids => Changed(r, users[r.id]).username \in {users[r.id].username, r.email}
        BY <1>1, <4>1 DEF Changed, Account
      <4>3. r.kind # "rename" /\ r.id \in Ids => Changed(r, users[r.id]).username = users[r.id].username
        BY <1>1, <4>1 DEF Changed, Account
      <4>4. r.id \in Ids => Changed(r, users[r.id]).username \in Addresses
        BY <1>1, <3>2, <4>2, <4>3 DEF WellSaid, Details, Updated
      <4> QED
        BY <1>1, <3>2, <4>4 DEF Details, Row
    <3> QED
      BY <1>5, <3>1, <3>2 DEF Update
  <2> QED
    BY <2>3, <2>4
<1>6. CASE Remove(s)
  <2>1. \A t \in Slots : WellSaid(requests'[t])
    BY <1>1, <1>2, <1>6 DEF Remove, Becomes, Details
  <2>2. \A i \in Ids : Row(i)' => users'[i].username \in Addresses
    BY <1>1, <1>6 DEF Remove, Details, Row
  <2> QED
    BY <2>1, <2>2
<1> QED
  BY <1>4, <1>5, <1>6

LEMMA DetailsCorrect == AccountsSpec => []Details
<1>1. AccountsInvariant /\ Details /\ [AccountsNext]_accountsVars => Details'
  <2> SUFFICES ASSUME AccountsInvariant, Details, [AccountsNext]_accountsVars PROVE Details'
    OBVIOUS
  <2>1. CASE UNCHANGED accountsVars
    BY <2>1 DEF accountsVars, Details, WellSaid, Row
  <2>2. CASE AccountsNext
    BY <2>2, StartUpKeepsDetails, ReceiveKeepsDetails, SayKeepsDetails, WriteKeepsDetails DEF AccountsNext
  <2> QED
    BY <2>1, <2>2
<1> QED
  BY <1>1, InitDetails, AccountsCorrect, PTL DEF AccountsSpec

\* A pending account is told of only to who gave the password it had when it was found,
\* and types are kept: no change brings back a row that was removed meanwhile.
THEOREM OwnerAloneLearns == AccountsSpec => [](OnlyTheOwnerLearns /\ AccountsTypeOK)
<1>1. AccountsInvariant /\ Details => OnlyTheOwnerLearns /\ AccountsTypeOK
  BY DEF AccountsInvariant, AccountsTyped, ChosenStored, Details, WellSaid, OnlyTheOwnerLearns, AccountsTypeOK
<1> QED
  BY <1>1, AccountsCorrect, DetailsCorrect, PTL

\* One account per address, open to who knows its password and to nobody while it is
\* inactive: the five together.
THEOREM AccountsAreSafe == AccountsSpec => []AccountsSafe
<1>1. OnlyTheOwnerLearns /\ AccountsTypeOK /\ OneAccountPerAddress /\ DeactivationHolds /\ ChosenPasswordSignsIn
        => AccountsSafe
  BY DEF AccountsSafe
<1> QED
  BY <1>1, OwnerAloneLearns, AddressesAreUnique, DeactivatedIsRefused, ChosenPasswordWorks, PTL

-----------------------------------------------------------------------------
(* The sessions of the tabs: Session. *)

TabRequest == [kind : CallKinds \cup {"none"}, token : Tokens \cup {0}, user : Users \cup {"none"},
            answer : {"none", "ok", "401", "failed"}]

SessionTyped ==
    /\ owner \in [Tokens -> Users \cup {"none"}]
    /\ stored \in [user : Users \cup {"none"}, token : Tokens \cup {0}]
    /\ user \in [Tabs -> Users \cup {"none"}]
    /\ page \in [Tabs -> {"login", "restricted"}]
    /\ loading \in [Tabs -> BOOLEAN]
    /\ calls \in [Tabs -> [Lines -> TabRequest]]

\* A sign-in is somebody's, and its answer's token is that user's.
SignInsBelong ==
    \A t \in Tabs, s \in Lines :
      LET r == calls[t][s] IN
      r.kind = "login" =>
        /\ r.user # "none"
        /\ r.answer = "ok" => r.token # 0 /\ owner[r.token] = r.user

\* StoredBelongsTogether, and a token that is stored has an owner.
StoredBelongs == StoredBelongsTogether /\ (stored.token # 0 => stored.user # "none")

SessionInvariant ==
    SessionTyped /\ SignInsBelong /\ StoredBelongs /\ RestrictedHasUser /\ LoaderHasRequest

-----------------------------------------------------------------------------

LEMMA SessionInitially == SessionInit => SessionInvariant
<1> SUFFICES ASSUME SessionInit PROVE SessionInvariant
  OBVIOUS
<1> USE DEF SessionInit
<1>1. SessionTyped
  BY DEF SessionTyped, TabRequest, Idle, Nobody
<1>2. SignInsBelong
  BY DEF SignInsBelong, Idle
<1>3. StoredBelongs
  BY DEF StoredBelongs, StoredBelongsTogether, Nobody
<1>4. RestrictedHasUser /\ LoaderHasRequest
  BY DEF RestrictedHasUser, LoaderHasRequest
<1> QED
  BY <1>1, <1>2, <1>3, <1>4 DEF SessionInvariant

\* A request that ends takes the loader with it, or leaves it to another.
LEMMA EndsKeeps ==
    ASSUME SessionInvariant, NEW t \in Tabs, NEW s \in Lines, Ends(t, s)
    PROVE  /\ calls' \in [Tabs -> [Lines -> TabRequest]] /\ loading' \in [Tabs -> BOOLEAN]
           /\ owner' = owner => SignInsBelong'
           /\ LoaderHasRequest'
<1>1. calls \in [Tabs -> [Lines -> TabRequest]] /\ loading \in [Tabs -> BOOLEAN] /\ Idle \in TabRequest
  BY DEF SessionInvariant, SessionTyped, TabRequest, Idle
<1>2. /\ calls' = [calls EXCEPT ![t][s] = Idle]
      /\ loading' = [loading EXCEPT ![t] = loading[t] /\ LeavesLoader(calls[t][s])]
  BY DEF Ends
<1>3. calls' \in [Tabs -> [Lines -> TabRequest]]
  BY <1>1, <1>2
<1>4. loading' \in [Tabs -> BOOLEAN]
  <2>1. (loading[t] /\ LeavesLoader(calls[t][s])) \in BOOLEAN
    OBVIOUS
  <2> QED
    BY <1>1, <1>2, <2>1, Zenon
<1>5. \A u \in Tabs, q \in Lines :
        calls'[u][q] = IF u = t /\ q = s THEN Idle ELSE calls[u][q]
  BY <1>1, <1>2
<1>6. owner' = owner => SignInsBelong'
  BY <1>5 DEF SessionInvariant, SignInsBelong, Idle
<1>7. LoaderHasRequest'
  <2>1. SUFFICES ASSUME NEW u \in Tabs, loading'[u]
                 PROVE \E q \in Lines : calls'[u][q].kind \notin {"none", "chat"}
    BY DEF LoaderHasRequest
  <2>2. loading[u] /\ (u = t => calls[t][s].kind = "chat")
    BY <1>1, <1>2, <2>1 DEF LeavesLoader
  <2>3. PICK q \in Lines : calls[u][q].kind \notin {"none", "chat"}
    BY <2>2 DEF SessionInvariant, LoaderHasRequest
  <2>4. ~(u = t /\ q = s)
    BY <2>2, <2>3
  <2> QED
    BY <1>5, <2>3, <2>4
<1> QED
  BY <1>3, <1>4, <1>6, <1>7

\* A tab that signs out shows the login page; the others keep what they have.
LEMMA LogoutKeeps ==
    ASSUME SessionInvariant, NEW t \in Tabs, Logout(t), owner' = owner
    PROVE  /\ user' \in [Tabs -> Users \cup {"none"}] /\ page' \in [Tabs -> {"login", "restricted"}]
           /\ stored' \in [user : Users \cup {"none"}, token : Tokens \cup {0}]
           /\ StoredBelongs' /\ RestrictedHasUser'
<1>1. /\ user' = [user EXCEPT ![t] = "none"] /\ page' = [page EXCEPT ![t] = "login"]
      /\ stored' = [user |-> "none", token |-> 0]
  BY DEF Logout, LoggedOut, Nobody
<1>2. user \in [Tabs -> Users \cup {"none"}] /\ page \in [Tabs -> {"login", "restricted"}]
  BY DEF SessionInvariant, SessionTyped
<1>3. RestrictedHasUser'
  BY <1>1, <1>2 DEF SessionInvariant, RestrictedHasUser
<1>4. StoredBelongs'
  BY <1>1 DEF StoredBelongs, StoredBelongsTogether
<1> QED
  BY <1>1, <1>2, <1>3, <1>4

LEMMA LoadKeeps ==
    ASSUME SessionInvariant, NEW t \in Tabs, NEW to \in {"login", "restricted"}, Load(t, to)
    PROVE  SessionInvariant'
<1> USE DEF SessionInvariant
<1>1. /\ user' = [user EXCEPT ![t] = stored.user]
      /\ page' = [page EXCEPT ![t] = IF to = "login" THEN to ELSE PageFor(stored.user)]
      /\ loading' = [loading EXCEPT ![t] = FALSE]
      /\ calls' = [calls EXCEPT ![t] = [s \in Lines |-> Idle]]
      /\ owner' = owner /\ stored' = stored
  BY DEF Load
<1>2. stored.user \in Users \cup {"none"} /\ PageFor(stored.user) \in {"login", "restricted"}
  BY DEF SessionTyped, PageFor
<1>3. [s \in Lines |-> Idle] \in [Lines -> TabRequest]
  BY DEF Idle, TabRequest
<1>4. SessionTyped'
  BY <1>1, <1>2, <1>3 DEF SessionTyped
<1>5. SignInsBelong'
  BY <1>1 DEF SessionTyped, SignInsBelong, Idle
<1>6. StoredBelongs'
  BY <1>1 DEF StoredBelongs, StoredBelongsTogether
<1>7. RestrictedHasUser'
  BY <1>1 DEF SessionTyped, RestrictedHasUser, PageFor
<1>8. LoaderHasRequest'
  BY <1>1 DEF SessionTyped, LoaderHasRequest
<1> QED
  BY <1>4, <1>5, <1>6, <1>7, <1>8

LEMMA NavigateKeeps ==
    ASSUME SessionInvariant, NEW t \in Tabs, NEW to \in {"login", "restricted"}, Navigate(t, to)
    PROVE  SessionInvariant'
<1> USE DEF SessionInvariant, Navigate
<1>1. SessionTyped'
  BY DEF SessionTyped, PageFor
<1>2. RestrictedHasUser'
  BY DEF SessionTyped, RestrictedHasUser, PageFor
<1>3. SignInsBelong' /\ StoredBelongs' /\ LoaderHasRequest'
  BY DEF SignInsBelong, StoredBelongs, StoredBelongsTogether, LoaderHasRequest
<1> QED
  BY <1>1, <1>2, <1>3

LEMMA SendKeeps ==
    ASSUME SessionInvariant, NEW t \in Tabs, NEW s \in Lines, NEW kind \in CallKinds,
           NEW u \in Users \cup {"none"}, kind = "login" => u # "none", Send(t, s, kind, u)
    PROVE  SessionInvariant'
<1> DEFINE r == [kind |-> kind, token |-> stored.token, user |-> u, answer |-> "none"]
<1>1. /\ calls[t][s] = Idle /\ calls' = [calls EXCEPT ![t][s] = r]
      /\ loading' = [loading EXCEPT ![t] = loading[t] \/ kind # "chat"]
      /\ owner' = owner /\ stored' = stored /\ user' = user /\ page' = page
  BY DEF Send
<1>2. r \in TabRequest
  BY DEF SessionInvariant, SessionTyped, TabRequest
<1>3. r.kind = kind /\ r.user = u /\ r.answer = "none" /\ kind # "none"
  BY DEF CallKinds
<1> HIDE DEF r
<1>4. calls \in [Tabs -> [Lines -> TabRequest]] /\ loading \in [Tabs -> BOOLEAN]
  BY DEF SessionInvariant, SessionTyped
<1>5. \A v \in Tabs, q \in Lines : calls'[v][q] = IF v = t /\ q = s THEN r ELSE calls[v][q]
  BY <1>1, <1>4
<1>6. SessionTyped'
  <2>1. loading' \in [Tabs -> BOOLEAN]
    <3>1. (loading[t] \/ kind # "chat") \in BOOLEAN
      OBVIOUS
    <3> QED
      BY <1>1, <1>4, <3>1, Zenon
  <2>2. calls' \in [Tabs -> [Lines -> TabRequest]]
    BY <1>1, <1>2, <1>4
  <2> QED
    BY <1>1, <2>1, <2>2 DEF SessionInvariant, SessionTyped
<1>7. SignInsBelong'
  BY <1>1, <1>3, <1>5 DEF SessionInvariant, SignInsBelong
<1>8. StoredBelongs' /\ RestrictedHasUser'
  BY <1>1 DEF SessionInvariant, StoredBelongs, StoredBelongsTogether, RestrictedHasUser
<1>9. LoaderHasRequest'
  <2>1. SUFFICES ASSUME NEW v \in Tabs, loading'[v]
                 PROVE \E q \in Lines : calls'[v][q].kind \notin {"none", "chat"}
    BY DEF LoaderHasRequest
  <2>2. CASE loading[v]
    <3>1. PICK q \in Lines : calls[v][q].kind \notin {"none", "chat"}
      BY <2>2 DEF SessionInvariant, LoaderHasRequest
    <3>2. ~(v = t /\ q = s)
      BY <1>1, <3>1 DEF Idle
    <3> QED
      BY <1>5, <3>1, <3>2
  <2>3. CASE ~loading[v]
    <3>1. v = t /\ kind # "chat"
      BY <1>1, <1>4, <2>1, <2>3
    <3> QED
      BY <1>3, <1>5, <3>1
  <2> QED
    BY <2>2, <2>3
<1> QED
  BY <1>6, <1>7, <1>8, <1>9 DEF SessionInvariant

LEMMA ServeKeeps ==
    ASSUME SessionInvariant, NEW t \in Tabs, NEW s \in Lines, Serve(t, s)
    PROVE  SessionInvariant'
<1> DEFINE r == calls[t][s]
<1>1. /\ r.kind # "none" /\ r.answer = "none"
      /\ stored' = stored /\ user' = user /\ page' = page /\ loading' = loading
  BY DEF Serve
<1>2. /\ calls \in [Tabs -> [Lines -> TabRequest]] /\ r \in TabRequest
      /\ owner \in [Tokens -> Users \cup {"none"}]
  BY DEF SessionInvariant, SessionTyped
\* The answered request has the kind and the user it had; owner only grows.
<1>3. \E q \in TabRequest :
        /\ calls' = [calls EXCEPT ![t][s] = q]
        /\ q.kind = r.kind /\ q.user = r.user
        /\ \/ owner' = owner /\ (q.kind = "login" => q.answer # "ok")
           \/ \E n \in Tokens : /\ owner[n] = "none" /\ owner' = [owner EXCEPT ![n] = r.user]
                                /\ q.token = n
  <2>1. CASE /\ r.kind = "login" /\ \E n \in Tokens : owner[n] = "none"
             /\ LET new == CHOOSE n \in Tokens : owner[n] = "none" IN
                /\ owner' = [owner EXCEPT ![new] = r.user]
                /\ calls' = [calls EXCEPT ![t][s].answer = "ok", ![t][s].token = new]
    <3> DEFINE new == CHOOSE n \in Tokens : owner[n] = "none"
               q == [r EXCEPT !.answer = "ok", !.token = new]
    <3>1. new \in Tokens /\ owner[new] = "none"
      BY <2>1
    <3>2. q \in TabRequest /\ q.kind = r.kind /\ q.user = r.user /\ q.token = new
      BY <1>2, <3>1 DEF TabRequest
    <3>3. calls' = [calls EXCEPT ![t][s] = q]
      BY <1>2, <2>1
    <3> QED
      BY <2>1, <3>1, <3>2, <3>3
  <2>2. CASE \E a \in {"401", "ok", "failed"} :
               /\ calls' = [calls EXCEPT ![t][s].answer = a]
               /\ owner' = owner /\ (r.kind = "login" => a # "ok")
    <3>1. PICK a \in {"401", "ok", "failed"} :
               /\ calls' = [calls EXCEPT ![t][s].answer = a]
               /\ owner' = owner /\ (r.kind = "login" => a # "ok")
      BY <2>2
    <3> DEFINE q == [r EXCEPT !.answer = a]
    <3>2. q \in TabRequest /\ q.kind = r.kind /\ q.user = r.user /\ q.answer = a
      BY <1>2 DEF TabRequest
    <3>3. calls' = [calls EXCEPT ![t][s] = q]
      BY <1>2, <3>1
    <3> QED
      BY <3>1, <3>2, <3>3
  <2> QED
    BY <2>1, <2>2 DEF Serve
<1>4. PICK q \in TabRequest :
        /\ calls' = [calls EXCEPT ![t][s] = q]
        /\ q.kind = r.kind /\ q.user = r.user
        /\ \/ owner' = owner /\ (q.kind = "login" => q.answer # "ok")
           \/ \E n \in Tokens : /\ owner[n] = "none" /\ owner' = [owner EXCEPT ![n] = r.user]
                                /\ q.token = n
  BY <1>3
<1>5. \A v \in Tabs, p \in Lines : calls'[v][p] = IF v = t /\ p = s THEN q ELSE calls[v][p]
  BY <1>2, <1>4
<1>6. /\ owner' \in [Tokens -> Users \cup {"none"}]
      /\ \A n \in Tokens : owner[n] # "none" => owner'[n] = owner[n]
  BY <1>2, <1>4 DEF TabRequest
<1>7. SessionTyped'
  <2>1. calls' \in [Tabs -> [Lines -> TabRequest]]
    BY <1>2, <1>4
  <2> QED
    BY <1>1, <1>6, <2>1 DEF SessionInvariant, SessionTyped
<1>8. SignInsBelong'
  <2>1. SUFFICES ASSUME NEW v \in Tabs, NEW p \in Lines, calls'[v][p].kind = "login"
                 PROVE /\ calls'[v][p].user # "none"
                       /\ calls'[v][p].answer = "ok" =>
                            /\ calls'[v][p].token # 0
                            /\ owner'[calls'[v][p].token] = calls'[v][p].user
    BY DEF SignInsBelong
  <2>2. CASE v = t /\ p = s
    <3>1. calls'[v][p] = q /\ q.user # "none"
      BY <1>4, <1>5, <2>1, <2>2 DEF SessionInvariant, SignInsBelong
    <3>2. 0 \notin Tokens
      BY SessionAssumption DEF Tokens
    <3> QED
      BY <1>2, <1>4, <2>1, <3>1, <3>2
  <2>3. CASE ~(v = t /\ p = s)
    <3>1. calls'[v][p] = calls[v][p] /\ calls[v][p] \in TabRequest
      BY <1>2, <1>5, <2>3
    <3>2. calls[v][p].token \in Tokens \cup {0}
      BY <3>1 DEF TabRequest
    <3> QED
      BY <1>6, <2>1, <3>1, <3>2 DEF SessionInvariant, SignInsBelong
  <2> QED
    BY <2>2, <2>3
<1>9. StoredBelongs'
  BY <1>1, <1>6 DEF SessionInvariant, SessionTyped, StoredBelongs, StoredBelongsTogether
<1>10. RestrictedHasUser'
  BY <1>1 DEF SessionInvariant, RestrictedHasUser
<1>11. LoaderHasRequest'
  BY <1>1, <1>4, <1>5 DEF SessionInvariant, LoaderHasRequest
<1> QED
  BY <1>7, <1>8, <1>9, <1>10, <1>11 DEF SessionInvariant

LEMMA AnsweredKeeps ==
    ASSUME SessionInvariant, NEW t \in Tabs, NEW s \in Lines, AnswerArrives(t, s)
    PROVE  SessionInvariant'
<1>1. calls[t][s] \in TabRequest
  BY DEF SessionInvariant, SessionTyped
<1>2. CASE LoginSucceeds(t, s)
  <2> DEFINE r == calls[t][s]
  <2>1. /\ r.kind = "login" /\ r.answer = "ok" /\ Ends(t, s) /\ owner' = owner
        /\ user' = [user EXCEPT ![t] = r.user]
        /\ stored' = [user |-> r.user, token |-> r.token]
        /\ page' = [page EXCEPT ![t] = "restricted"]
    BY <1>2 DEF LoginSucceeds
  <2>2. /\ r.user \in Users \cup {"none"} /\ r.token \in Tokens \cup {0}
        /\ r.user # "none" /\ r.token # 0 /\ owner[r.token] = r.user
    BY <1>1, <2>1 DEF SessionInvariant, SignInsBelong, TabRequest
  <2>3. /\ calls' \in [Tabs -> [Lines -> TabRequest]] /\ loading' \in [Tabs -> BOOLEAN]
        /\ SignInsBelong' /\ LoaderHasRequest'
    BY <2>1, EndsKeeps
  <2>4. SessionTyped'
    BY <2>1, <2>2, <2>3 DEF SessionInvariant, SessionTyped
  <2>5. StoredBelongs'
    BY <2>1, <2>2 DEF StoredBelongs, StoredBelongsTogether
  <2>6. RestrictedHasUser'
    BY <2>1, <2>2 DEF SessionInvariant, SessionTyped, RestrictedHasUser
  <2> QED
    BY <2>3, <2>4, <2>5, <2>6 DEF SessionInvariant
<1>3. CASE Unauthorized(t, s)
  <2>1. Ends(t, s) /\ Logout(t) /\ owner' = owner
    BY <1>3 DEF Unauthorized
  <2> QED
    BY <2>1, EndsKeeps, LogoutKeeps DEF SessionInvariant, SessionTyped
<1>4. CASE Succeeds(t, s) \/ FailsQuietly(t, s) \/ Fails(t, s)
  <2>1. /\ Ends(t, s) /\ owner' = owner /\ stored' = stored /\ user' = user /\ page' = page
    BY <1>4 DEF Succeeds, FailsQuietly, Fails
  <2> QED
    BY <2>1, EndsKeeps DEF SessionInvariant, SessionTyped, StoredBelongs, StoredBelongsTogether, RestrictedHasUser
<1> QED
  BY <1>2, <1>3, <1>4 DEF AnswerArrives

LEMMA LogoutClickedKeeps ==
    ASSUME SessionInvariant, NEW t \in Tabs, LogoutClicked(t)
    PROVE  SessionInvariant'
<1>1. Logout(t) /\ owner' = owner /\ loading' = loading /\ calls' = calls
  BY DEF LogoutClicked
<1>2. SignInsBelong' /\ LoaderHasRequest'
  BY <1>1 DEF SessionInvariant, SignInsBelong, LoaderHasRequest
<1> QED
  BY <1>1, <1>2, LogoutKeeps DEF SessionInvariant, SessionTyped

LEMMA OtherKeeps ==
    ASSUME SessionInvariant,
           UNCHANGED <<owner, stored, user, page, loading, calls>>
    PROVE  SessionInvariant'
<1>1. SessionTyped'
  BY DEF SessionInvariant, SessionTyped
<1>2. SignInsBelong'
  BY DEF SessionInvariant, SignInsBelong
<1>3. StoredBelongs' /\ RestrictedHasUser'
  BY DEF SessionInvariant, StoredBelongs, StoredBelongsTogether, RestrictedHasUser
<1>4. LoaderHasRequest'
  BY DEF SessionInvariant, LoaderHasRequest
<1> QED
  BY <1>1, <1>2, <1>3, <1>4 DEF SessionInvariant

LEMMA SessionKeeps == SessionInvariant /\ [SessionNext]_sessionVars => SessionInvariant'
<1> SUFFICES ASSUME SessionInvariant, [SessionNext]_sessionVars PROVE SessionInvariant'
  OBVIOUS
<1>1. CASE \E t \in Tabs : LogoutClicked(t)
  BY <1>1, LogoutClickedKeeps
<1>2. CASE \E t \in Tabs : CloseSnackbar(t)
  BY <1>2, OtherKeeps DEF CloseSnackbar
<1>3. CASE \E t \in Tabs : \E to \in {"login", "restricted"} : Load(t, to) \/ Navigate(t, to)
  BY <1>3, LoadKeeps, NavigateKeeps
<1>4. CASE \E t \in Tabs : \E s \in Lines : \E kind \in CallKinds \ {"login"} : Send(t, s, kind, "none")
  BY <1>4, SendKeeps
<1>5. CASE \E t \in Tabs : \E s \in Lines : \E u \in Users : Send(t, s, "login", u)
  BY <1>5, SendKeeps, SessionAssumption DEF CallKinds
<1>6. CASE \E t \in Tabs : \E s \in Lines : Serve(t, s) \/ AnswerArrives(t, s)
  BY <1>6, ServeKeeps, AnsweredKeeps
<1>7. CASE \E n \in Tokens : Refuse(n)
  BY <1>7, OtherKeeps DEF Refuse
<1>8. CASE UNCHANGED sessionVars
  BY <1>8, OtherKeeps DEF sessionVars
<1> QED
  BY <1>1, <1>2, <1>3, <1>4, <1>5, <1>6, <1>7, <1>8 DEF SessionNext

LEMMA SessionCorrect == SessionSpec => []SessionInvariant
  BY SessionInitially, SessionKeeps, PTL DEF SessionSpec

\* The user and the token in localStorage are of one sign-in, whatever tabs sign in and out
\* and in whatever order their answers come (login, logout).
THEOREM StoredAlwaysBelongs == SessionSpec => []StoredBelongsTogether
<1>1. SessionInvariant => StoredBelongsTogether
  BY DEF SessionInvariant, StoredBelongs
<1> QED
  BY SessionCorrect, <1>1, PTL

\* No tab shows a restricted page without a user (router.beforeEach, logout).
THEOREM RestrictedGuarded == SessionSpec => []RestrictedHasUser
<1>1. SessionInvariant => RestrictedHasUser
  BY DEF SessionInvariant
<1> QED
  BY SessionCorrect, <1>1, PTL

\* Every path of the interceptors that ends a request hides the loader.
THEOREM LoaderNeverLeft == SessionSpec => []LoaderHasRequest
<1>1. SessionInvariant => LoaderHasRequest
  BY DEF SessionInvariant
<1> QED
  BY SessionCorrect, <1>1, PTL

\* What a browser stores, shows and waits for stays in step, the three together.
THEOREM SessionIsSafe == SessionSpec => []SessionSafe
<1>1. RestrictedHasUser /\ StoredBelongsTogether /\ LoaderHasRequest => SessionSafe
  BY DEF SessionSafe
<1> QED
  BY <1>1, StoredAlwaysBelongs, RestrictedGuarded, LoaderNeverLeft, PTL

=============================================================================
