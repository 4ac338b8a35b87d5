-------------------------- MODULE WorkerPoolProofs --------------------------
(***************************************************************************)
(* WorkerPool implements Batch, and never sends on a closed channel, for   *)
(* any number of logins and of workers.                                    *)
(***************************************************************************)
EXTENDS WorkerPool, TLAPS

Working(w) == worker[w].step \in {"refresh", "send"}

(* A login taken from jobs is in one place only: with one worker, in       *)
(* results or collected.                                                   *)
OnePlace ==
    /\ results \union collected \subseteq 1 .. taken
    /\ results \cap collected = {}
    /\ \A w \in Workers : Working(w) =>
         /\ worker[w].job \in (1 .. taken) \ (results \union collected)
         /\ \A v \in Workers \ {w} : Working(v) => worker[v].job # worker[w].job

(* Nothing taken is lost.                                                  *)
NothingLost ==
    \A p \in 1 .. taken :
        \/ p \in results \union collected
        \/ \E w \in Workers : Working(w) /\ worker[w].job = p

Closing ==
    /\ \A w \in Workers : worker[w].step = "select" \/ worker[w].step = "exited"
                          \/ Working(w)
    /\ \A w \in Workers : worker[w].step = "exited" =>
          cancelled \/ (taken = sent /\ jobsClosed)
    /\ jobsClosed => sent = Count
    /\ resultsClosed => \A w \in Workers : worker[w].step = "exited"
    /\ returned => resultsClosed /\ results = {} /\ reported = collected
    /\ ~returned => reported = {}

IInv == TypeOK /\ OnePlace /\ NothingLost /\ Closing

LEMMA InitInv == Init => IInv
<1>. SUFFICES ASSUME Init PROVE IInv
  OBVIOUS
<1>0. Selecting \in Worker
  BY CountAssumption DEF Worker, Selecting
<1>1. TypeOK
  <2>1. worker \in [Workers -> Worker]
    BY <1>0 DEF Init
  <2>2. sent \in 0 .. Count /\ taken \in 0 .. sent
    BY CountAssumption DEF Init
  <2>3. jobsClosed \in BOOLEAN /\ resultsClosed \in BOOLEAN /\ cancelled \in BOOLEAN /\ returned \in BOOLEAN
    BY Zenon DEF Init
  <2>4. results = {} /\ collected = {} /\ reported = {}
    BY DEF Init
  <2>. QED  BY <2>1, <2>2, <2>3, <2>4 DEF TypeOK
<1>2. OnePlace /\ NothingLost /\ Closing
  BY DEF Init, OnePlace, NothingLost, Closing, Working, Selecting
<1>. QED  BY <1>1, <1>2 DEF IInv

LEMMA NextInv == IInv /\ [Next]_vars => IInv'
<1>. SUFFICES ASSUME IInv, [Next]_vars PROVE IInv'
  OBVIOUS
<1>. USE CountAssumption DEF IInv
<1>. sent \in 0 .. Count /\ taken \in 0 .. sent /\ worker \in [Workers -> Worker]
  BY DEF TypeOK
<1>1. CASE SendJob
  BY <1>1 DEF SendJob, caller, TypeOK, OnePlace, NothingLost, Closing, Working
<1>2. CASE CloseJobs
  BY <1>2 DEF CloseJobs, caller, TypeOK, OnePlace, NothingLost, Closing, Working
<1>3. ASSUME NEW w \in Workers, TakeJob(w)
      PROVE  IInv'
  <2>. DEFINE new == [step |-> "refresh", job |-> taken + 1]
  <2>1. new \in Worker /\ new.step = "refresh" /\ new.job = taken + 1
    BY <1>3 DEF TakeJob, Worker
  <2>2. worker' = [worker EXCEPT ![w] = new]
    BY <1>3 DEF TakeJob
  <2>. HIDE DEF new
  <2>3. TypeOK'
    BY <1>3, <2>1, <2>2 DEF TakeJob, sender, caller, TypeOK
  <2>4. worker'[w] = new /\ \A v \in Workers \ {w} : worker'[v] = worker[v]
    BY <2>2
  <2>5. OnePlace'
    BY <1>3, <2>1, <2>4 DEF TakeJob, caller, OnePlace, Working
  <2>6. NothingLost'
    BY <1>3, <2>1, <2>4 DEF TakeJob, caller, NothingLost, Working
  <2>7. Closing'
    BY <1>3, <2>1, <2>4 DEF TakeJob, sender, caller, Closing, Working
  <2>. QED  BY <2>3, <2>5, <2>6, <2>7
<1>4. ASSUME NEW w \in Workers, RefreshAndRecord(w)
      PROVE  IInv'
  <2>. DEFINE new == [worker[w] EXCEPT !.step = "send"]
  <2>1. new \in Worker /\ new.step = "send" /\ new.job = worker[w].job
    BY DEF Worker
  <2>2. worker' = [worker EXCEPT ![w] = new]
    BY <1>4 DEF RefreshAndRecord
  <2>. HIDE DEF new
  <2>3. TypeOK'
    BY <1>4, <2>1, <2>2 DEF RefreshAndRecord, sender, caller, TypeOK
  <2>4. worker'[w] = new /\ \A v \in Workers \ {w} : worker'[v] = worker[v]
    BY <2>2
  <2>. QED  BY <1>4, <2>1, <2>3, <2>4
            DEF RefreshAndRecord, sender, caller, OnePlace, NothingLost, Closing, Working
<1>5. ASSUME NEW w \in Workers, SendOutcome(w)
      PROVE  IInv'
  <2>1. worker' = [worker EXCEPT ![w] = Selecting] /\ Selecting \in Worker /\ Selecting.step = "select"
    BY <1>5 DEF SendOutcome, Selecting, Worker
  <2>2. worker[w].job \in 1 .. taken /\ worker[w].job \in Positions
    BY <1>5 DEF SendOutcome, OnePlace, Working, Positions
  <2>3. TypeOK'
    BY <1>5, <2>1, <2>2 DEF SendOutcome, sender, caller, TypeOK
  <2>4. worker'[w] = Selecting /\ \A v \in Workers \ {w} : worker'[v] = worker[v]
    BY <2>1
  <2>5. OnePlace'
    BY <1>5, <2>1, <2>2, <2>4 DEF SendOutcome, caller, OnePlace, Working
  <2>6. NothingLost'
    BY <1>5, <2>1, <2>4 DEF SendOutcome, caller, NothingLost, Working
  <2>7. Closing'
    BY <1>5, <2>1, <2>4 DEF SendOutcome, sender, caller, Closing, Working
  <2>. QED  BY <2>3, <2>5, <2>6, <2>7
<1>6. ASSUME NEW w \in Workers, Exit(w)
      PROVE  IInv'
  <2>1. worker' = [worker EXCEPT ![w] = Exited] /\ Exited \in Worker /\ Exited.step = "exited"
    BY <1>6 DEF Exit, Exited, Worker
  <2>2. TypeOK'
    BY <1>6, <2>1 DEF Exit, sender, caller, TypeOK
  <2>. QED  BY <1>6, <2>1, <2>2
            DEF Exit, sender, caller, OnePlace, NothingLost, Closing, Working
<1>7. CASE CloseResults
  BY <1>7 DEF CloseResults, sender, caller, TypeOK, OnePlace, NothingLost, Closing, Working, Exited
<1>8. CASE Collect
  <2>1. PICK p \in results : results' = results \ {p} /\ collected' = collected \union {p}
    BY <1>8 DEF Collect
  <2>. QED  BY <1>8, <2>1
            DEF Collect, sender, TypeOK, OnePlace, NothingLost, Closing, Working
<1>9. CASE Return
  BY <1>9 DEF Return, sender, TypeOK, OnePlace, NothingLost, Closing, Working
<1>10. CASE Cancel
  BY <1>10 DEF Cancel, sender, caller, TypeOK, OnePlace, NothingLost, Closing, Working
<1>11. CASE UNCHANGED vars
  BY <1>11 DEF vars, sender, caller, TypeOK, OnePlace, NothingLost, Closing, Working
<1>. QED  BY <1>1, <1>2, <1>3, <1>4, <1>5, <1>6, <1>7, <1>8, <1>9, <1>10, <1>11
          DEF Next, WorkerStep, Done

(* Workers and channels hold positions of the batch only.                  *)
THEOREM Typing == Spec => []TypeOK
<1>1. IInv => TypeOK
  BY DEF IInv
<1>. QED  BY InitInv, NextInv, <1>1, PTL DEF Spec

(* The channels are well used in every order of the goroutines: results is *)
(* closed only when no worker can send to it any more.                     *)
THEOREM ChannelsAreSafe == Spec => []NoSendOnClosed
<1>1. IInv => NoSendOnClosed
  BY DEF IInv, Closing, NoSendOnClosed
<1>. QED  BY InitInv, NextInv, <1>1, PTL DEF Spec

LEMMA StepKeepsPromise == IInv /\ [Next]_vars => [Promise!Next]_(Promise!vars)
<1>. SUFFICES ASSUME IInv, [Next]_vars PROVE [Promise!Next]_(Promise!vars)
  OBVIOUS
<1>. USE CountAssumption DEF IInv
<1>. sent \in 0 .. Count /\ taken \in 0 .. sent /\ worker \in [Workers -> Worker]
  BY DEF TypeOK
<1>. DEFINE Sending == {worker[w].job : w \in {v \in Workers : worker[v].step = "send"}}
<1>0. Recorded = results \union collected \union Sending
  BY DEF Recorded
<1>1. CASE SendJob
  BY <1>1 DEF SendJob, caller, Promise!vars, Recorded
<1>2. CASE CloseJobs
  BY <1>2 DEF CloseJobs, caller, Promise!vars, Recorded
<1>3. ASSUME NEW w \in Workers, TakeJob(w)
      PROVE  UNCHANGED Promise!vars
  <2>1. \A v \in Workers : worker'[v].step = "send" <=> worker[v].step = "send"
    BY <1>3 DEF TakeJob
  <2>2. \A v \in Workers : worker[v].step = "send" => worker'[v] = worker[v]
    BY <1>3 DEF TakeJob
  <2>3. Sending' = Sending
    BY <2>1, <2>2
  <2>. QED  BY <1>0, <1>3, <2>3 DEF TakeJob, caller, Promise!vars, Recorded
<1>4. ASSUME NEW w \in Workers, RefreshAndRecord(w)
      PROVE  Promise!Next
  <2>. DEFINE p == worker[w].job
  <2>1. worker' = [worker EXCEPT ![w].step = "send"] /\ worker[w] \in Worker
    BY <1>4 DEF RefreshAndRecord
  <2>2. worker'[w].step = "send" /\ worker'[w].job = p
    BY <2>1 DEF Worker
  <2>3. \A v \in Workers \ {w} : worker'[v] = worker[v]
    BY <2>1
  <2>4. worker[w].step = "refresh"
    BY <1>4 DEF RefreshAndRecord
  <2>5. Sending' = Sending \union {p}
    BY <2>2, <2>3, <2>4
  <2>6. p \in Positions /\ p \notin Recorded
    BY <2>4 DEF OnePlace, Working, Positions, Recorded
  <2>7. Recorded' = Recorded \union {p}
    BY <1>4, <2>5 DEF RefreshAndRecord, caller, Recorded
  <2>8. ~returned
    BY <2>4 DEF Closing
  <2>9. Promise!RefreshAndRecord(p)
    BY <1>4, <2>7, <2>8 DEF RefreshAndRecord, caller, Promise!RefreshAndRecord
  <2>. QED  BY <2>6, <2>9 DEF Promise!Next, Positions, Promise!Positions
<1>5. ASSUME NEW w \in Workers, SendOutcome(w)
      PROVE  UNCHANGED Promise!vars
  <2>1. \A v \in Workers \ {w} : worker'[v] = worker[v]
    BY <1>5 DEF SendOutcome
  <2>2. worker[w].step = "send" /\ worker'[w].step = "select"
    BY <1>5 DEF SendOutcome, Selecting
  <2>3. Sending = Sending' \union {worker[w].job}
    BY <2>1, <2>2
  <2>4. Recorded' = Recorded
    BY <1>5, <2>3 DEF SendOutcome, caller, Recorded
  <2>. QED  BY <1>5, <2>4 DEF SendOutcome, caller, Promise!vars
<1>6. ASSUME NEW w \in Workers, Exit(w)
      PROVE  UNCHANGED Promise!vars
  <2>1. \A v \in Workers : worker'[v].step = "send" <=> worker[v].step = "send"
    BY <1>6 DEF Exit, Exited
  <2>2. \A v \in Workers : worker[v].step = "send" => worker'[v] = worker[v]
    BY <1>6 DEF Exit
  <2>3. Sending' = Sending
    BY <2>1, <2>2
  <2>. QED  BY <1>6, <2>3 DEF Exit, caller, Promise!vars, Recorded
<1>7. CASE CloseResults
  BY <1>7 DEF CloseResults, caller, Promise!vars, Recorded
<1>8. CASE Collect
  <2>1. PICK p \in results : results' = results \ {p} /\ collected' = collected \union {p}
    BY <1>8 DEF Collect
  <2>. QED  BY <1>8, <2>1 DEF Collect, Promise!vars, Recorded
<1>9. CASE Return
  <2>1. \A w \in Workers : worker[w].step = "exited"
    BY <1>9 DEF Return, Closing
  <2>2. Recorded = collected
    BY <1>9, <2>1 DEF Return, Recorded
  <2>3. ASSUME ~cancelled PROVE collected = Positions
    <3>1. taken = Count
      BY <2>1, <2>3, WorkersAssumption DEF Closing
    <3>. QED  BY <1>9, <2>1, <3>1 DEF Return, NothingLost, OnePlace, Working, Positions
  <2>4. Recorded' = Recorded
    BY <1>9 DEF Return, Recorded
  <2>5. Promise!Return
    BY <1>9, <2>2, <2>3, <2>4 DEF Return, Promise!Return, Positions, Promise!Positions, TypeOK
  <2>. QED  BY <2>5 DEF Promise!Next
<1>10. CASE Cancel
  <2>1. Recorded' = Recorded
    BY <1>10 DEF Cancel, caller, Recorded
  <2>. QED  BY <1>10, <2>1 DEF Cancel, caller, Promise!Next, Promise!Cancel
<1>11. CASE UNCHANGED vars
  BY <1>11 DEF vars, caller, Promise!vars, Recorded
<1>. QED  BY <1>1, <1>2, <1>3, <1>4, <1>5, <1>6, <1>7, <1>8, <1>9, <1>10, <1>11
          DEF Next, WorkerStep, Done

(* refreshUsers keeps the promise of Batch: every recorded refresh, and    *)
(* unless cancelled every login, is reported once when the call returns.   *)
THEOREM PoolKeepsPromise == Spec => KeepsPromise
<1>1. Init => Promise!Init
  BY DEF Init, Promise!Init, Recorded, Selecting
<1>. QED  BY <1>1, InitInv, NextInv, StepKeepsPromise, PTL DEF Spec, KeepsPromise, Promise!Spec
=============================================================================
