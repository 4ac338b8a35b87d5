--------------------------- MODULE SessionProofs ---------------------------
(***************************************************************************)
(* The safety properties of Session for any number of workers, cookies     *)
(* and restarts.                                                           *)
(***************************************************************************)
EXTENDS Session, TLAPS

(* The mutex is held across a login by the worker that logs in.            *)
Mutex == \A w \in Workers : At(w, "login") <=> lock = w

(* A worker that has had a cookie has left one in memory, and one that was *)
(* rejected was rejected for good: Deckbox issues no cookie twice.         *)
Holding ==
    \A w \in Workers :
        /\ At(w, "fetch") \/ At(w, "refresh") \/ At(w, "unauthenticated")
              => cookie # 0 /\ worker[w].has \in 1 .. issued
        /\ At(w, "login") /\ worker[w].retried => cookie # 0 /\ cookie \notin valid
        /\ At(w, "login") /\ ~worker[w].retried => Found = 0
        /\ At(w, "cookie") => ~worker[w].retried
        /\ At(w, "refresh") => worker[w].has \notin valid /\ ~worker[w].retried

(* A cookie that replaced the one a worker began with was issued after its *)
(* call began, so if it is not valid any more, it was dropped since.       *)
Healing ==
    \A w \in Workers :
        /\ worker[w].since <= expiries
        /\ /\ At(w, "fetch") \/ At(w, "refresh")
           /\ ~worker[w].retried /\ cookie # worker[w].has /\ cookie \notin valid
           => expiries > worker[w].since
        /\ At(w, "fetch") /\ worker[w].retried /\ worker[w].has \notin valid
           => expiries > worker[w].since
        /\ At(w, "unauthenticated") => expiries > worker[w].since

IInv == TypeOK /\ Mutex /\ Holding /\ Healing

LEMMA InitInv == Init => IInv
<1>. SUFFICES ASSUME Init PROVE IInv
  OBVIOUS
<1>1. IdleWorker \in Worker
  BY DEF IdleWorker, Worker, Steps
<1>2. issued \in {0, 1} /\ override \in 0 .. issued /\ file \in 0 .. issued
  BY DEF Init
<1>3. TypeOK
  BY <1>1, <1>2, MaxIssuedAssumption DEF Init, TypeOK
<1>4. \A w \in Workers : worker[w] = IdleWorker
  BY DEF Init
<1>5. Mutex /\ Holding /\ Healing
  BY <1>4, FreeAssumption DEF Init, Mutex, Holding, Healing, At, IdleWorker
<1>. QED  BY <1>3, <1>5 DEF IInv

LEMMA NextInv == IInv /\ [Next]_vars => IInv'
<1>. SUFFICES ASSUME IInv, [Next]_vars PROVE IInv'
  OBVIOUS
<1>. USE DEF IInv
<1>. /\ IdleWorker \in Worker /\ IdleWorker.step = "idle" /\ IdleWorker.since = 0
  BY DEF IdleWorker, Worker, Steps
<1>0. \A w \in Workers : worker[w] \in Worker
  BY DEF TypeOK
<1>. /\ cookie \in Nat /\ issued \in Nat /\ issued + 1 \in Nat /\ expiries \in Nat
     /\ override \in 0 .. issued /\ file \in 0 .. issued /\ cookie \in 0 .. issued
  BY MaxIssuedAssumption DEF TypeOK
<1>1. ASSUME NEW w \in Workers, Call(w)
      PROVE  IInv'
  <2>. DEFINE new == [IdleWorker EXCEPT !.step = "cookie", !.since = expiries]
  <2>1. new \in Worker /\ new.step = "cookie" /\ new.since = expiries /\ ~new.retried
    BY DEF IdleWorker, Worker, Steps
  <2>2. worker' = [worker EXCEPT ![w] = new]
    BY <1>1 DEF Call, Set
  <2>. HIDE DEF new
  <2>. QED  BY <1>1, <2>1, <2>2, FreeAssumption
            DEF Call, TypeOK, Mutex, Holding, Healing, At, Found, deckbox
<1>2. ASSUME NEW w \in Workers, Cookie(w)
      PROVE  IInv'
  <2>1. CASE Found # 0 /\ lock' = lock
    <3>. DEFINE new == [worker[w] EXCEPT !.step = "fetch", !.has = Found]
    <3>1. Found \in 1 .. issued
      BY <2>1 DEF Found
    <3>. Found \in Nat
      BY <3>1
    <3>2. /\ new \in Worker /\ new.step = "fetch" /\ new.has = Found
          /\ new.since = worker[w].since /\ ~new.retried
      <4>. HIDE DEF Found
      <4>. QED  BY <1>0, <1>2 DEF Worker, Steps, Cookie, Holding
    <3>3. worker' = [worker EXCEPT ![w] = new] /\ cookie' = Found
      BY <1>2, <2>1, FreeAssumption DEF Cookie, Set
    <3>. HIDE DEF new
    <3>4. cookie # 0 => cookie' = cookie
      BY <3>3 DEF Found
    <3>. QED  BY <1>2, <2>1, <3>1, <3>2, <3>3, <3>4, FreeAssumption
              DEF Cookie, TypeOK, Mutex, Holding, Healing, At, Found, deckbox
  <2>2. CASE Found = 0 /\ lock' = w /\ cookie' = cookie
    <3>. DEFINE new == [worker[w] EXCEPT !.step = "login"]
    <3>1. new \in Worker /\ new.step = "login" /\ new.since = worker[w].since /\ ~new.retried
      BY <1>0, <1>2 DEF Worker, Steps, Cookie, Holding
    <3>2. worker' = [worker EXCEPT ![w] = new]
      BY <1>2, <2>2 DEF Cookie, Set
    <3>. HIDE DEF new
    <3>. QED  BY <1>2, <2>2, <3>1, <3>2, FreeAssumption
              DEF Cookie, TypeOK, Mutex, Holding, Healing, At, Found, deckbox
  <2>. QED  BY <1>2, <2>1, <2>2 DEF Cookie
<1>3. ASSUME NEW w \in Workers, Refresh(w)
      PROVE  IInv'
  <2>1. CASE cookie # 0 /\ cookie # worker[w].has /\ lock' = lock
    <3>. DEFINE new == [worker[w] EXCEPT !.step = "fetch", !.has = cookie, !.retried = TRUE]
    <3>1. /\ new \in Worker /\ new.step = "fetch" /\ new.has = cookie
          /\ new.since = worker[w].since /\ new.retried
      BY <1>0 DEF Worker, Steps
    <3>2. worker' = [worker EXCEPT ![w] = new]
      BY <1>3, <2>1, FreeAssumption DEF Refresh, Set
    <3>. HIDE DEF new
    <3>. QED  BY <1>3, <2>1, <3>1, <3>2, FreeAssumption
              DEF Refresh, TypeOK, Mutex, Holding, Healing, At, Found, deckbox
  <2>2. CASE (cookie = 0 \/ cookie = worker[w].has) /\ lock' = w
    <3>. DEFINE new == [worker[w] EXCEPT !.step = "login", !.retried = TRUE]
    <3>1. new \in Worker /\ new.step = "login" /\ new.since = worker[w].since /\ new.retried
      BY <1>0 DEF Worker, Steps
    <3>2. worker' = [worker EXCEPT ![w] = new]
      BY <1>3, <2>2, FreeAssumption DEF Refresh, Set
    <3>. HIDE DEF new
    <3>. QED  BY <1>3, <2>2, <3>1, <3>2, FreeAssumption
              DEF Refresh, TypeOK, Mutex, Holding, Healing, At, Found, deckbox
  <2>. QED  BY <1>3, <2>1, <2>2 DEF Refresh
<1>4. ASSUME NEW w \in Workers, LoginSucceeds(w)
      PROVE  IInv'
  <2>. DEFINE new == [worker[w] EXCEPT !.step = "fetch", !.has = issued + 1]
  <2>1. /\ new \in Worker /\ new.step = "fetch" /\ new.has = issued + 1
        /\ new.since = worker[w].since
    BY <1>0 DEF Worker, Steps
  <2>2. worker' = [worker EXCEPT ![w] = new]
    BY <1>4 DEF LoginSucceeds, Set
  <2>3. lock = w /\ \A v \in Workers \ {w} : ~At(v, "login")
    BY <1>4 DEF LoginSucceeds, Mutex
  <2>4. file' \in {file, 0, issued + 1}
    BY <1>4 DEF LoginSucceeds
  <2>. HIDE DEF new
  <2>5. TypeOK'
    <3>1. issued' = issued + 1 /\ issued' \in 0 .. MaxIssued /\ cookie' = issued'
      BY <1>4, MaxIssuedAssumption DEF LoginSucceeds, TypeOK
    <3>2. file' \in 0 .. issued' /\ valid' \subseteq 1 .. issued'
      BY <1>4, <2>4, <3>1 DEF LoginSucceeds, TypeOK
    <3>3. worker' \in [Workers -> Worker]
      BY <2>1, <2>2 DEF TypeOK
    <3>. QED  BY <1>4, <3>1, <3>2, <3>3 DEF LoginSucceeds, TypeOK
  <2>. QED  BY <1>4, <2>1, <2>2, <2>3, <2>5, FreeAssumption
            DEF LoginSucceeds, TypeOK, Mutex, Holding, Healing, At, Found
<1>5. ASSUME NEW w \in Workers,
             LoginFails(w) \/ Fetch(w) \/ GiveUp(w)
      PROVE  IInv'
  <2>1. worker' = [worker EXCEPT ![w] = IdleWorker] /\ UNCHANGED <<cookie, override, file, deckbox>>
    BY <1>5 DEF LoginFails, Fetch, GiveUp, Set
  <2>2. lock' = IF lock = w THEN Free ELSE lock
    BY <1>5 DEF LoginFails, Fetch, GiveUp, Mutex, At
  <2>. QED  BY <2>1, <2>2, FreeAssumption
            DEF TypeOK, Mutex, Holding, Healing, At, Found, deckbox
<1>6. ASSUME NEW w \in Workers, Rejected(w)
      PROVE  IInv'
  <2>. DEFINE new == [worker[w] EXCEPT !.step = IF worker[w].retried THEN "unauthenticated" ELSE "refresh"]
  <2>1. /\ new \in Worker /\ new.has = worker[w].has /\ new.since = worker[w].since
        /\ new.retried = worker[w].retried
        /\ new.step = IF worker[w].retried THEN "unauthenticated" ELSE "refresh"
    BY <1>0 DEF Worker, Steps
  <2>2. worker' = [worker EXCEPT ![w] = new]
    BY <1>6 DEF Rejected, Set
  <2>. HIDE DEF new
  <2>. QED  BY <1>6, <2>1, <2>2, FreeAssumption
            DEF Rejected, TypeOK, Mutex, Holding, Healing, At, Found, deckbox
<1>7. ASSUME NEW c \in valid, Expire(c)
      PROVE  IInv'
  BY <1>0, <1>7
     DEF Expire, TypeOK, Mutex, Holding, Healing, At, Found, Worker
<1>8. CASE Restart
  BY <1>8, FreeAssumption
     DEF Restart, TypeOK, Mutex, Holding, Healing, At, deckbox
<1>9. CASE UNCHANGED vars
  BY <1>9 DEF vars, TypeOK, Mutex, Holding, Healing, At, Found
<1>. QED  BY <1>1, <1>2, <1>3, <1>4, <1>5, <1>6, <1>7, <1>8, <1>9 DEF Next, Step

(* Cookies are ones that Deckbox issued, in memory, override and file.     *)
THEOREM Typing == Spec => []TypeOK
<1>1. IInv => TypeOK
  BY DEF IInv
<1>. QED  BY InitInv, NextInv, <1>1, PTL DEF Spec

(* A login only runs when no good cookie is at hand, however many workers  *)
(* are rejected at once.                                                   *)
THEOREM LoginsAreNeeded == Spec => []LoginOnlyWhenNeeded
<1>1. IInv => LoginOnlyWhenNeeded
  BY DEF IInv, TypeOK, Mutex, Holding, LoginOnlyWhenNeeded
<1>. QED  BY InitInv, NextInv, <1>1, PTL DEF Spec

(* An expiry that is over when a fetch begins never fails it.              *)
THEOREM ExpiriesHeal == Spec => []SelfHeals
<1>1. IInv => SelfHeals
  BY DEF IInv, Healing, SelfHeals
<1>. QED  BY InitInv, NextInv, <1>1, PTL DEF Spec
=============================================================================
