------------------------------ MODULE Session ------------------------------
(***************************************************************************)
(* The Deckbox session cookie (internal/deckbox/session.go) and the        *)
(* workers that fetch Card Lists with it (FetchCardList in scrapper.go).   *)
(* Everything session does under its mutex is one step, except a login:    *)
(* the mutex is held while it talks to Deckbox, and the others wait.       *)
(* Deckbox numbers the cookies it issues and may drop one at any time; a   *)
(* request with a dropped cookie gets the login page.                      *)
(***************************************************************************)
EXTENDS Naturals

CONSTANTS
    Workers,      \* goroutines fetching Card Lists
    Free,         \* the mutex is held by nobody
    MaxIssued     \* bound on the cookies Deckbox issues

ASSUME FreeAssumption == Free \notin Workers
ASSUME MaxIssuedAssumption == MaxIssued \in Nat \ {0}

VARIABLES
    cookie,    \* session.cookie; 0 is ""
    override,  \* DECKBOX_SESSION_COOKIE; 0 is unset
    file,      \* the cookie file; 0 is missing, or no file is configured
    lock,      \* who holds session.mu across a login
    worker,    \* the FetchCardList call of each worker
    issued,    \* Deckbox: cookies issued so far, 1 .. issued
    valid,     \* Deckbox: the cookies it accepts
    expiries   \* cookies dropped so far

vars == <<cookie, override, file, lock, worker, issued, valid, expiries>>
deckbox == <<issued, valid, expiries>>

(* has: the cookie of the call; retried: it was replaced once; since: the  *)
(* expiries there had been when the call began.                            *)
Steps == {"idle", "cookie", "refresh", "login", "fetch", "unauthenticated"}
Worker == [step : Steps, has : Nat, retried : BOOLEAN, since : Nat]
IdleWorker == [step |-> "idle", has |-> 0, retried |-> FALSE, since |-> 0]

TypeOK ==
    /\ cookie \in 0 .. issued /\ override \in 0 .. issued /\ file \in 0 .. issued
    /\ lock \in Workers \union {Free}
    /\ worker \in [Workers -> Worker]
    /\ issued \in 0 .. MaxIssued /\ valid \subseteq 1 .. issued
    /\ expiries \in Nat

(* A file or an override from an earlier run may have expired long ago.    *)
Init ==
    /\ cookie = 0
    /\ issued \in {0, 1}
    /\ override \in 0 .. issued /\ file \in 0 .. issued
    /\ valid \in SUBSET (1 .. issued)
    /\ lock = Free
    /\ worker = [w \in Workers |-> IdleWorker]
    /\ expiries = 0

At(w, step) == worker[w].step = step
Set(w, new) == worker' = [worker EXCEPT ![w] = new]

Call(w) ==
    /\ At(w, "idle")
    /\ Set(w, [IdleWorker EXCEPT !.step = "cookie", !.since = expiries])
    /\ UNCHANGED <<cookie, override, file, lock, deckbox>>

(* What Cookie finds without a login: memory, then override, then file.    *)
Found == IF cookie # 0 THEN cookie ELSE IF override # 0 THEN override ELSE file

Cookie(w) ==
    /\ At(w, "cookie")
    /\ lock = Free
    /\ \/ /\ Found # 0
          /\ cookie' = Found
          /\ Set(w, [worker[w] EXCEPT !.step = "fetch", !.has = Found])
          /\ UNCHANGED lock
       \/ /\ Found = 0
          /\ lock' = w
          /\ Set(w, [worker[w] EXCEPT !.step = "login"])
          /\ UNCHANGED cookie
    /\ UNCHANGED <<override, file, deckbox>>

(* Mutant: every rejected worker logs in, whoever else has done so. *)
RefreshAlways(w) ==
    /\ At(w, "refresh")
    /\ lock = Free
    /\ lock' = w
    /\ Set(w, [worker[w] EXCEPT !.step = "login", !.retried = TRUE])
    /\ UNCHANGED <<cookie, override, file, deckbox>>

(* Mutant: the cached cookie is returned even when it is the rejected one. *)
RefreshFromCache(w) ==
    /\ At(w, "refresh")
    /\ lock = Free
    /\ \/ /\ cookie # 0
          /\ Set(w, [worker[w] EXCEPT !.step = "fetch", !.has = cookie, !.retried = TRUE])
          /\ UNCHANGED lock
       \/ /\ cookie = 0
          /\ lock' = w
          /\ Set(w, [worker[w] EXCEPT !.step = "login", !.retried = TRUE])
    /\ UNCHANGED <<cookie, override, file, deckbox>>

(* Refresh(previous), previous being the cookie that was rejected.         *)
Refresh(w) ==
    /\ At(w, "refresh")
    /\ lock = Free
    /\ \/ /\ cookie # 0 /\ cookie # worker[w].has
          /\ Set(w, [worker[w] EXCEPT !.step = "fetch", !.has = cookie, !.retried = TRUE])
          /\ UNCHANGED lock
       \/ /\ cookie = 0 \/ cookie = worker[w].has
          /\ lock' = w
          /\ Set(w, [worker[w] EXCEPT !.step = "login", !.retried = TRUE])
    /\ UNCHANGED <<cookie, override, file, deckbox>>

(* The cookie is cached, and persisted if a file is configured and the     *)
(* write works; a write that fails may already have emptied the file.      *)
LoginSucceeds(w) ==
    /\ At(w, "login")
    /\ issued < MaxIssued
    /\ issued' = issued + 1
    /\ valid' = valid \union {issued + 1}
    /\ cookie' = issued + 1
    /\ file' \in {file, 0, issued + 1}
    /\ lock' = Free
    /\ Set(w, [worker[w] EXCEPT !.step = "fetch", !.has = issued + 1])
    /\ UNCHANGED <<override, expiries>>

(* Mutant: the error return leaves the mutex locked. *)
LoginFailsLocked(w) ==
    /\ At(w, "login")
    /\ Set(w, IdleWorker)
    /\ UNCHANGED <<cookie, override, file, lock, deckbox>>

(* Mutant: a refused login caches the anonymous cookie it was answered with. *)
LoginFailsCached(w) ==
    /\ At(w, "login")
    /\ cookie' = issued + 1
    /\ lock' = Free
    /\ Set(w, IdleWorker)
    /\ UNCHANGED <<override, file, deckbox>>

(* Bad credentials, a transport error or an expired context: nothing is    *)
(* cached, and the call returns the error.                                 *)
LoginFails(w) ==
    /\ At(w, "login")
    /\ lock' = Free
    /\ Set(w, IdleWorker)
    /\ UNCHANGED <<cookie, override, file, deckbox>>

(* An export, "not found" or a transport error: the call returns.          *)
Fetch(w) ==
    /\ At(w, "fetch")
    /\ Set(w, IdleWorker)
    /\ UNCHANGED <<cookie, override, file, lock, deckbox>>

(* The login page: re-login once, then give up.                            *)
Rejected(w) ==
    /\ At(w, "fetch")
    /\ worker[w].has \notin valid
    /\ Set(w, [worker[w] EXCEPT !.step = IF worker[w].retried THEN "unauthenticated" ELSE "refresh"])
    /\ UNCHANGED <<cookie, override, file, lock, deckbox>>

GiveUp(w) ==
    /\ At(w, "unauthenticated")
    /\ Set(w, IdleWorker)
    /\ UNCHANGED <<cookie, override, file, lock, deckbox>>

Expire(c) ==
    /\ c \in valid
    /\ valid' = valid \ {c}
    /\ expiries' = expiries + 1
    /\ UNCHANGED <<cookie, override, file, lock, worker, issued>>

(* The next process may be given another override. *)
Restart ==
    /\ cookie' = 0
    /\ override' \in 0 .. issued
    /\ lock' = Free
    /\ worker' = [w \in Workers |-> IdleWorker]
    /\ UNCHANGED <<file, deckbox>>

Step(w) ==
    \/ Cookie(w) \/ Refresh(w) \/ LoginSucceeds(w) \/ LoginFails(w)
    \/ Fetch(w) \/ Rejected(w) \/ GiveUp(w)

Next ==
    \/ \E w \in Workers : Call(w) \/ Step(w)
    \/ \E c \in valid : Expire(c)
    \/ Restart

Spec == Init /\ [][Next]_vars

(* A goroutine that can run does.  sync.Mutex hands the lock to a waiter   *)
(* that has starved for a millisecond, so nobody waits for ever.           *)
Fairness ==
    \A w \in Workers : /\ WF_vars(Step(w))
                       /\ SF_vars(Cookie(w)) /\ SF_vars(Refresh(w))

FairSpec == Spec /\ Fairness

-----------------------------------------------------------------------------
(* A login runs only while there is no good cookie to use: none in memory, *)
(* override or file, or the one in memory was dropped by Deckbox.  However *)
(* many workers are rejected at once, the first login serves them all.     *)
LoginOnlyWhenNeeded ==
    lock # Free => Found = 0 \/ (cookie # 0 /\ cookie \notin valid)

(* A fetch gives up as unauthenticated only if Deckbox dropped a cookie    *)
(* after the fetch began: an expiry that is over by then heals itself,     *)
(* whether the cookie came from memory, override or file, and whoever      *)
(* replaced it.                                                            *)
SelfHeals ==
    \A w \in Workers : At(w, "unauthenticated") => expiries > worker[w].since

(* Every fetch returns: no worker waits for ever on the login of another.  *)
FetchReturns == \A w \in Workers : At(w, "cookie") ~> At(w, "idle")
=============================================================================
