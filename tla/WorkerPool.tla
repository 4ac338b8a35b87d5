----------------------------- MODULE WorkerPool -----------------------------
(***************************************************************************)
(* The goroutines and channels of refreshUsers                             *)
(* (internal/deckbox/handler.go): a sender fills jobs, workers take jobs   *)
(* and put outcomes into results, a closer closes results after the last   *)
(* worker, and the caller drains results.  Logins are known by their       *)
(* position, so the jobs channel, a FIFO, holds taken + 1 .. sent; the     *)
(* order of the outcomes is of no concern to a caller.  What a refresh     *)
(* does is in module Refresh.                                              *)
(***************************************************************************)
EXTENDS Naturals, FiniteSets

CONSTANTS
    Count,    \* len(logins)
    Workers   \* the numWorkers goroutines

ASSUME CountAssumption == Count \in Nat
ASSUME WorkersAssumption == Workers # {} /\ IsFiniteSet(Workers)

Positions == 1 .. Count

VARIABLES
    sent, taken,      \* jobs holds taken + 1 .. sent
    jobsClosed,
    results,          \* outcomes in the results channel
    resultsClosed,
    worker,           \* step and position of each worker
    cancelled,        \* ctx is done
    collected,        \* collectedResults of the caller
    reported,         \* what the caller got when the call returned
    returned

sender == <<sent, jobsClosed>>
caller == <<collected, reported, returned>>
vars == <<sender, taken, results, resultsClosed, worker, cancelled, caller>>

(* Mutant: the channels hold one element. *)
CapacityOne == 1

(* make(chan ..., len(logins)), for jobs and for results. *)
Capacity == Count

Worker == [step : {"select", "refresh", "send", "exited"}, job : 0 .. Count]
Selecting == [step |-> "select", job |-> 0]
Exited == [step |-> "exited", job |-> 0]

TypeOK ==
    /\ sent \in 0 .. Count /\ taken \in 0 .. sent
    /\ jobsClosed \in BOOLEAN /\ resultsClosed \in BOOLEAN
    /\ results \subseteq Positions
    /\ worker \in [Workers -> Worker]
    /\ cancelled \in BOOLEAN
    /\ collected \subseteq Positions /\ reported \subseteq Positions
    /\ returned \in BOOLEAN

Init ==
    /\ sent = 0 /\ taken = 0 /\ jobsClosed = FALSE
    /\ results = {} /\ resultsClosed = FALSE
    /\ worker = [w \in Workers |-> Selecting]
    /\ cancelled \in BOOLEAN
    /\ collected = {} /\ reported = {} /\ returned = FALSE

-----------------------------------------------------------------------------
(* Mutant: one login too many. *)
SendJobTooMany ==
    /\ sent <= Count
    /\ sent - taken <= Capacity
    /\ sent' = sent + 1
    /\ UNCHANGED <<jobsClosed, taken, results, resultsClosed, worker, cancelled, caller>>

SendJob ==
    /\ sent < Count
    /\ sent - taken < Capacity
    /\ sent' = sent + 1
    /\ UNCHANGED <<jobsClosed, taken, results, resultsClosed, worker, cancelled, caller>>

CloseJobs ==
    /\ sent = Count
    /\ ~jobsClosed
    /\ jobsClosed' = TRUE
    /\ UNCHANGED <<sent, taken, results, resultsClosed, worker, cancelled, caller>>

(* select picks at random when a job and a cancellation are both there.    *)
TakeJob(w) ==
    /\ worker[w].step = "select"
    /\ taken < sent
    /\ taken' = taken + 1
    /\ worker' = [worker EXCEPT ![w] = [step |-> "refresh", job |-> taken + 1]]
    /\ UNCHANGED <<sender, results, resultsClosed, cancelled, caller>>

(* refreshUser and record, which return under any context. *)
RefreshAndRecord(w) ==
    /\ worker[w].step = "refresh"
    /\ worker' = [worker EXCEPT ![w].step = "send"]
    /\ UNCHANGED <<sender, taken, results, resultsClosed, cancelled, caller>>

(* A send on a closed channel would panic: see NoSendOnClosed. *)
SendOutcome(w) ==
    /\ worker[w].step = "send"
    /\ Cardinality(results) < Capacity
    /\ results' = results \union {worker[w].job}
    /\ worker' = [worker EXCEPT ![w] = Selecting]
    /\ UNCHANGED <<sender, taken, resultsClosed, cancelled, caller>>

(* Mutant: the send of an outcome gives up on cancellation as well. *)
ExitDroppingOutcome(w) ==
    /\ worker[w].step \in {"select", "send"}
    /\ cancelled \/ (jobsClosed /\ taken = sent /\ worker[w].step = "select")
    /\ worker' = [worker EXCEPT ![w] = Exited]
    /\ UNCHANGED <<sender, taken, results, resultsClosed, cancelled, caller>>

Exit(w) ==
    /\ worker[w].step = "select"
    /\ cancelled \/ (jobsClosed /\ taken = sent)
    /\ worker' = [worker EXCEPT ![w] = Exited]
    /\ UNCHANGED <<sender, taken, results, resultsClosed, cancelled, caller>>

(* Mutant: results is closed after the first worker. *)
CloseResultsEarly ==
    /\ \E w \in Workers : worker[w] = Exited
    /\ ~resultsClosed
    /\ resultsClosed' = TRUE
    /\ UNCHANGED <<sender, taken, results, worker, cancelled, caller>>

CloseResults ==
    /\ \A w \in Workers : worker[w] = Exited
    /\ ~resultsClosed
    /\ resultsClosed' = TRUE
    /\ UNCHANGED <<sender, taken, results, worker, cancelled, caller>>

Collect ==
    /\ ~returned
    /\ \E p \in results : /\ results' = results \ {p}
                          /\ collected' = collected \union {p}
    /\ UNCHANGED <<sender, taken, resultsClosed, worker, cancelled, reported, returned>>

Return ==
    /\ ~returned
    /\ resultsClosed /\ results = {}
    /\ reported' = collected
    /\ returned' = TRUE
    /\ UNCHANGED <<sender, taken, results, resultsClosed, worker, cancelled, collected>>

Cancel ==
    /\ ~cancelled
    /\ cancelled' = TRUE
    /\ UNCHANGED <<sender, taken, results, resultsClosed, worker, caller>>

WorkerStep(w) == TakeJob(w) \/ RefreshAndRecord(w) \/ SendOutcome(w) \/ Exit(w)

(* The bot goes on after the call, whether or not the sender is done. *)
Done == returned /\ cancelled /\ UNCHANGED vars

Next ==
    \/ SendJob \/ CloseJobs
    \/ \E w \in Workers : WorkerStep(w)
    \/ CloseResults \/ Collect \/ Return \/ Cancel
    \/ Done

Spec == Init /\ [][Next]_vars

(* A goroutine that can run does. *)
Fairness ==
    /\ WF_vars(SendJob \/ CloseJobs)
    /\ \A w \in Workers : WF_vars(WorkerStep(w))
    /\ WF_vars(CloseResults) /\ WF_vars(Collect \/ Return)

FairSpec == Spec /\ Fairness

-----------------------------------------------------------------------------
(* The refreshes recorded so far: sending, sent or collected. *)
Recorded ==
    results \union collected
      \union {worker[w].job : w \in {v \in Workers : worker[v].step = "send"}}

Promise == INSTANCE Batch WITH recorded <- Recorded

(* refreshUsers keeps the promise of Batch: in any order of its goroutines *)
(* and whenever it is cancelled, each login is refreshed at most once, all *)
(* of them unless cancelled, every recorded outcome reaches the caller,    *)
(* and no refresh outlives the call.                                       *)
KeepsPromise == Promise!Spec

(* results is closed only when nobody can send to it any more: a send on a *)
(* closed channel panics and takes the whole bot down.                     *)
NoSendOnClosed ==
    resultsClosed => \A w \in Workers : worker[w].step = "exited"

(* No goroutine is left behind: the call returns and, even if cancelled    *)
(* with most jobs unsent, the sender finishes too.                         *)
NoGoroutineLeft == <>(returned /\ jobsClosed /\ \A w \in Workers : worker[w].step = "exited")
=============================================================================
