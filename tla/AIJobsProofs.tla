---------------------------- MODULE AIJobsProofs ----------------------------
(***************************************************************************)
(* The safety of module AIJobs, for any number of jobs and workers and any *)
(* bounds: Inv is inductive, it implies every invariant the runs check,    *)
(* and the job lifecycle implements Authorization.                         *)
(***************************************************************************)
EXTENDS AIJobs, FiniteSetTheorems, TLAPS

\* settle_reservations and the writes around it keep the types of the rows.
LEMMA SettleType ==
  ASSUME TypeOK, NEW j \in Jobs, NEW c \in Nat, NEW end \in Terminal, Settle(j, c, end)
  PROVE  /\ status' \in [Jobs -> {"none"} \cup Active \cup Terminal]
         /\ captured' \in [Jobs -> Nat \cup {Open}]
         /\ credits' \in [Jobs -> Nat]
         /\ row' \in [Jobs -> {"none", "waiting", "claimed"}]
         /\ old' \in [Jobs -> BOOLEAN]
         /\ UNCHANGED <<revision, maximum, usage, fresh>>
<1>1. status' \in [Jobs -> {"none"} \cup Active \cup Terminal]
  BY DEF TypeOK, Settle
<1>2. captured' \in [Jobs -> Nat \cup {Open}]
  BY DEF TypeOK, Settle, Capture
<1>3. credits' \in [Jobs -> Nat]
  BY DEF TypeOK, Settle
<1>4. row' \in [Jobs -> {"none", "waiting", "claimed"}]
  BY DEF TypeOK, Settle, Dequeue
<1>5. old' \in [Jobs -> BOOLEAN]
  BY DEF TypeOK, Settle, Dequeue
<1>6. QED
  BY <1>1, <1>2, <1>3, <1>4, <1>5 DEF Settle

\* So does the return of run_one of a worker's state.
LEMMA DoneType ==
  ASSUME TypeOK, NEW w \in Workers, Done(w)
  PROVE  /\ pc' \in [Workers -> Steps]
         /\ at' \in [Workers -> Jobs \cup {NoJob}]
         /\ seen' \in [Workers -> [revision : Nat, maximum : Nat]]
         /\ UNCHANGED stale
<1>1. NoRuntime \in [revision : Nat, maximum : Nat]
  BY DEF NoRuntime
<1>2. QED
  BY <1>1 DEF TypeOK, Done, Go, Steps

-----------------------------------------------------------------------------
(* The user.                                                               *)

\* A new job waits in the queue, reserved, and is the user's only active one.
LEMMA EnqueueStep ==
  ASSUME Inv, NEW j \in Jobs, NEW n \in 1 .. MaxCredits, Enqueue(j, n)
  PROVE  Inv'
<1> USE AIJobsAssumption DEF Inv
<1>1. TypeOK'
  BY DEF TypeOK, Active, Enqueue, Wait, workerVars
<1>2. QueueMatchesStatus'
  BY DEF TypeOK, QueueMatchesStatus, Enqueue, Wait
<1>3. WorkersHoldRealJobs'
  BY DEF WorkersHoldRealJobs, Enqueue, workerVars
<1>4. OwnedIsStarted'
  BY DEF OwnedIsStarted, Owns, Enqueue, Wait, workerVars
<1>5. EnqueuedIsReserved'
  BY DEF TypeOK, EnqueuedIsReserved, Enqueue
<1>6. ActiveIsUnique'
  BY DEF ActiveIsUnique, ActiveJobs, Enqueue
<1>7. SeenIsCurrent'
  BY DEF SeenIsCurrent, WorkersHoldRealJobs, Enqueue, Wait, workerVars
<1>8. UsageFits'
  BY DEF UsageFits, AtRisk, EnqueuedIsReserved, Enqueue, workerVars
<1>9. StopIsHonoured'
  BY DEF StopIsHonoured, Enqueue
<1>10. FinishedIsSettled'
  BY DEF FinishedIsSettled, Terminal, Enqueue
<1>11. (OneWorkerPerJob)'
  BY DEF OneWorkerPerJob, Owns, Enqueue, workerVars
<1>12. QED
  BY <1>1, <1>2, <1>3, <1>4, <1>5, <1>6, <1>7, <1>8, <1>9, <1>10, <1>11

\* A paused job waits again; no worker has it, so its reservation may grow.
LEMMA ContinueStep ==
  ASSUME Inv, NEW j \in Jobs, NEW n \in 1 .. MaxCredits, Continue(j, n)
  PROVE  Inv'
<1> USE AIJobsAssumption DEF Inv
<1>1. TypeOK'
  BY DEF TypeOK, Active, Continue, Wait, workerVars
<1>2. QueueMatchesStatus'
  BY DEF TypeOK, QueueMatchesStatus, Continue, Wait
<1>3. WorkersHoldRealJobs'
  BY DEF WorkersHoldRealJobs, Continue, workerVars
<1>4. OwnedIsStarted'
  BY DEF OwnedIsStarted, Owns, Continue, Wait, workerVars
<1>5. EnqueuedIsReserved'
  BY DEF EnqueuedIsReserved, Continue
<1>6. ActiveIsUnique'
  BY DEF ActiveIsUnique, ActiveJobs, Active, Continue
<1>7. SeenIsCurrent'
  BY DEF Steps, SeenIsCurrent, WorkersHoldRealJobs, OwnedIsStarted, Owns, Continue, Wait,
         workerVars
<1>8. UsageFits'
  BY DEF TypeOK, UsageFits, AtRisk, Continue, workerVars
<1>9. StopIsHonoured'
  BY DEF StopIsHonoured, Continue
<1>10. FinishedIsSettled'
  BY DEF FinishedIsSettled, Terminal, Continue
<1>11. (OneWorkerPerJob)'
  BY DEF OneWorkerPerJob, Owns, Continue, workerVars
<1>12. QED
  BY <1>1, <1>2, <1>3, <1>4, <1>5, <1>6, <1>7, <1>8, <1>9, <1>10, <1>11

\* A queued or paused job is settled for its usage, which its reservation covers.
LEMMA CancelStep ==
  ASSUME Inv, NEW j \in Jobs, Cancel(j)
  PROVE  Inv'
<1> USE AIJobsAssumption DEF Inv
<1>1. TypeOK'
  BY SettleType DEF TypeOK, Cancel, CancelSettlement, queueVars, workerVars, Terminal
<1>2. QueueMatchesStatus'
  BY DEF TypeOK, QueueMatchesStatus, Cancel, CancelSettlement, Settle, Dequeue, queueVars
<1>3. WorkersHoldRealJobs'
  BY DEF TypeOK, WorkersHoldRealJobs, Cancel, CancelSettlement, Settle, workerVars
<1>4. OwnedIsStarted'
  BY DEF TypeOK, OwnedIsStarted, Owns, Cancel, CancelSettlement, Settle, Dequeue, queueVars,
         workerVars
<1>5. EnqueuedIsReserved'
  BY DEF TypeOK, EnqueuedIsReserved, Active, Cancel, CancelSettlement, Settle
<1>6. ActiveIsUnique'
  BY DEF TypeOK, ActiveIsUnique, ActiveJobs, Cancel, CancelSettlement, Settle
<1>7. UsageFits'
  BY DEF TypeOK, UsageFits, AtRisk, Cancel, CancelSettlement, Settle, Capture, workerVars
<1>8. StopIsHonoured'
  BY DEF TypeOK, StopIsHonoured, Cancel, CancelSettlement, Settle
<1>9. FinishedIsSettled'
  BY DEF TypeOK, FinishedIsSettled, Open, Cancel, CancelSettlement, Settle, Capture
<1>10. (OneWorkerPerJob /\ SeenIsCurrent)'
  BY DEF OneWorkerPerJob, Owns, SeenIsCurrent, Cancel, CancelSettlement, Settle, workerVars
<1>11. QED
  BY <1>1, <1>2, <1>3, <1>4, <1>5, <1>6, <1>7, <1>8, <1>9, <1>10

-----------------------------------------------------------------------------
(* run_one.                                                                *)

\* Only a waiting row is claimed, and nobody owns a waiting row.
LEMMA ClaimStep ==
  ASSUME Inv, NEW w \in Workers, NEW j \in Jobs, Claim(w, j)
  PROVE  Inv'
<1> USE AIJobsAssumption DEF Inv
<1>1. TypeOK'
  BY DEF TypeOK, Steps, Claim, Go, jobVars
<1>2. OneWorkerPerJob'
  BY DEF TypeOK, OneWorkerPerJob, OwnedIsStarted, Owns, Claim, Claimable, Go
<1>3. QueueMatchesStatus'
  BY DEF QueueMatchesStatus, Claim, Claimable, jobVars
<1>4. WorkersHoldRealJobs'
  BY DEF TypeOK, WorkersHoldRealJobs, QueueMatchesStatus, Claim, Claimable, Go, jobVars
<1>5. OwnedIsStarted'
  BY DEF TypeOK, OwnedIsStarted, QueueMatchesStatus, Owns, Claim, Claimable, Go, jobVars
<1>6. SeenIsCurrent'
  BY DEF SeenIsCurrent, Claim, Go, jobVars
<1>7. UsageFits'
  BY DEF UsageFits, AtRisk, Claim, Go, jobVars
<1>8. (EnqueuedIsReserved /\ ActiveIsUnique /\ StopIsHonoured /\ FinishedIsSettled)'
  BY DEF EnqueuedIsReserved, ActiveIsUnique, ActiveJobs, StopIsHonoured, FinishedIsSettled,
         Claim, jobVars
<1>9. QED
  BY <1>1, <1>2, <1>3, <1>4, <1>5, <1>6, <1>7, <1>8

\* The worker's Runtime takes the maximum of a job that is still queued.
LEMMA StartReadStep ==
  ASSUME Inv, NEW w \in Workers, StartRead(w)
  PROVE  Inv'
<1> USE AIJobsAssumption DEF Inv
<1>1. TypeOK'
  <2>1. CASE status[at[w]] # "queued"
    BY <2>1, DoneType DEF TypeOK, StartRead, jobVars, queueVars
  <2>2. CASE status[at[w]] = "queued"
    <3>1. [revision |-> revision[at[w]], maximum |-> maximum[at[w]]] \in [revision : Nat, maximum : Nat]
      BY DEF TypeOK, WorkersHoldRealJobs, StartRead
    <3>2. pc' \in [Workers -> Steps] /\ seen' \in [Workers -> [revision : Nat, maximum : Nat]]
      BY <2>2, <3>1 DEF TypeOK, StartRead, Go, Steps
    <3>3. QED  BY <2>2, <3>2 DEF TypeOK, StartRead, jobVars, queueVars
  <2>3. QED  BY <2>1, <2>2
<1>2. OneWorkerPerJob'
  BY DEF TypeOK, Steps, OneWorkerPerJob, OwnedIsStarted, WorkersHoldRealJobs, Owns, StartRead,
         Go, Done, NoRuntime, jobVars, queueVars
<1>3. WorkersHoldRealJobs'
  BY DEF TypeOK, WorkersHoldRealJobs, StartRead, Go, Done, jobVars, queueVars
<1>4. OwnedIsStarted'
  BY DEF TypeOK, OwnedIsStarted, QueueMatchesStatus, Owns, Terminal, StartRead, Go, Done,
         jobVars, queueVars
<1>5. SeenIsCurrent'
  BY DEF TypeOK, Steps, SeenIsCurrent, WorkersHoldRealJobs, StartRead, Go, Done, jobVars,
         queueVars
<1>6. UsageFits'
  <2>1. \A i \in Jobs : AtRisk(i)' => AtRisk(i) \/ status[i] = "queued"
    BY DEF TypeOK, AtRisk, StartRead, Done, Go, jobVars
  <2>2. \A i \in Jobs : AtRisk(i)' => AtRisk(i)
    BY <2>1 DEF AtRisk, StartRead, jobVars
  <2>3. QED  BY <2>2 DEF UsageFits, StartRead, jobVars
<1>7. (QueueMatchesStatus /\ EnqueuedIsReserved /\ ActiveIsUnique /\ StopIsHonoured
       /\ FinishedIsSettled)'
  BY DEF QueueMatchesStatus, EnqueuedIsReserved, ActiveIsUnique, ActiveJobs, StopIsHonoured,
         FinishedIsSettled, StartRead, jobVars, queueVars
<1>8. QED
  BY <1>1, <1>2, <1>3, <1>4, <1>5, <1>6, <1>7

\* The unlocked write: the job may have been settled since the read.
LEMMA StartWriteStep ==
  ASSUME Inv, NEW w \in Workers, StartWrite(w)
  PROVE  Inv'
<1> USE AIJobsAssumption DEF Inv
<1>1. TypeOK'
  <2>1. status' \in [Jobs -> {"none"} \cup Active \cup Terminal] /\ fresh' \in [Jobs -> BOOLEAN]
    BY DEF TypeOK, StartWrite, Active
  <2>2. /\ pc' \in [Workers -> Steps] /\ at' \in [Workers -> Jobs \cup {NoJob}]
        /\ seen' \in [Workers -> [revision : Nat, maximum : Nat]] /\ UNCHANGED stale
    BY DoneType DEF TypeOK, StartWrite, Go, Steps
  <2>3. QED  BY <2>1, <2>2 DEF TypeOK, StartWrite, queueVars
<1>2. OneWorkerPerJob'
  BY DEF TypeOK, Steps, OneWorkerPerJob, WorkersHoldRealJobs, Owns, StartWrite, Go, Done,
         NoRuntime, IndexAllows, queueVars
<1>3. QueueMatchesStatus'
  BY DEF TypeOK, QueueMatchesStatus, StartWrite, queueVars
<1>4. WorkersHoldRealJobs'
  BY DEF TypeOK, Steps, WorkersHoldRealJobs, Terminal, StartWrite, Go, Done, IndexAllows,
         queueVars
<1>5. OwnedIsStarted'
  BY DEF TypeOK, Steps, OwnedIsStarted, WorkersHoldRealJobs, Owns, Active, Terminal,
         StartWrite, Go, Done, NoRuntime, IndexAllows, queueVars
<1>6. EnqueuedIsReserved'
  BY DEF TypeOK, EnqueuedIsReserved, WorkersHoldRealJobs, StartWrite, Done, NoRuntime,
         IndexAllows, queueVars
<1>7. ActiveIsUnique'
  BY DEF TypeOK, ActiveIsUnique, ActiveJobs, StartWrite, IndexAllows
<1>8. SeenIsCurrent'
  BY DEF TypeOK, Steps, SeenIsCurrent, Owns, StartWrite, Go, Done
<1>9. UsageFits'
  <2>1. \A i \in Jobs : AtRisk(i)' => AtRisk(i)
    BY DEF TypeOK, AtRisk, StartWrite, Done, Go
  <2>2. QED  BY <2>1 DEF UsageFits, StartWrite
<1>10. StopIsHonoured'
  BY DEF TypeOK, StopIsHonoured, StartWrite
<1>11. FinishedIsSettled'
  BY DEF TypeOK, FinishedIsSettled, Terminal, StartWrite
<1>12. QED
  BY <1>1, <1>2, <1>3, <1>4, <1>5, <1>6, <1>7, <1>8, <1>9, <1>10, <1>11

\* The workflow ends; the worker still owns the job.
LEMMA ConcludeStep ==
  ASSUME Inv, NEW w \in Workers, Conclude(w)
  PROVE  Inv'
<1> USE AIJobsAssumption DEF Inv
<1>1. TypeOK'
  BY DEF TypeOK, Steps, Conclude, Answer, Ask, Stop, Fail, Permitted, Leave, Go, jobVars,
         queueVars
<1>2. OneWorkerPerJob'
  <2>1. \A v \in Workers, i \in Jobs : Owns(v, i)' => Owns(v, i)
    BY DEF TypeOK, Owns, Conclude, Answer, Ask, Stop, Fail, Leave, Go
  <2>2. QED  BY <2>1 DEF OneWorkerPerJob
<1>3. WorkersHoldRealJobs'
  BY DEF TypeOK, WorkersHoldRealJobs, Conclude, Answer, Ask, Stop, Fail, Permitted, Leave, Go,
         jobVars, queueVars
<1>4. OwnedIsStarted'
  BY DEF TypeOK, Steps, OwnedIsStarted, WorkersHoldRealJobs, Owns, Terminal, Conclude, Answer,
         Ask, Stop, Fail, Permitted, Leave, Go, jobVars, queueVars
<1>5. SeenIsCurrent'
  BY DEF TypeOK, SeenIsCurrent, Owns, Conclude, Answer, Ask, Stop, Fail, Permitted, Leave, Go,
         jobVars
<1>6. UsageFits'
  BY DEF TypeOK, UsageFits, AtRisk, Conclude, Answer, Ask, Stop, Fail, Leave, Go, jobVars
<1>7. (QueueMatchesStatus /\ EnqueuedIsReserved /\ ActiveIsUnique /\ StopIsHonoured
       /\ FinishedIsSettled)'
  BY DEF QueueMatchesStatus, EnqueuedIsReserved, ActiveIsUnique, ActiveJobs, StopIsHonoured,
         FinishedIsSettled, Conclude, Answer, Ask, Stop, Fail, Leave, jobVars, queueVars
<1>8. QED
  BY <1>1, <1>2, <1>3, <1>4, <1>5, <1>6, <1>7

\* Usage grows under the one worker that has the job, and past its maximum the
\* worker can only fail.
LEMMA RecordStep ==
  ASSUME Inv, NEW w \in Workers, NEW n \in 1 .. MaxUsage, Record(w, n)
  PROVE  Inv'
<1> USE AIJobsAssumption DEF Inv
<1>1. TypeOK'
  <2>1. at[w] \in Jobs /\ usage[at[w]] \in Nat
    BY DEF TypeOK, WorkersHoldRealJobs, Record
  <2>2. usage' \in [Jobs -> 0 .. MaxUsage]
    BY <2>1 DEF TypeOK, Record
  <2>3. pc' \in [Workers -> Steps]
    BY DEF TypeOK, Record, Go, Steps
  <2>4. QED  BY <2>2, <2>3 DEF TypeOK, Record, queueVars
<1>2. OneWorkerPerJob'
  <2>1. \A v \in Workers, i \in Jobs : Owns(v, i)' => Owns(v, i)
    BY DEF TypeOK, Owns, Record, Go
  <2>2. QED  BY <2>1 DEF OneWorkerPerJob
<1>3. WorkersHoldRealJobs'
  BY DEF TypeOK, WorkersHoldRealJobs, Record, Go
<1>4. OwnedIsStarted'
  BY DEF TypeOK, OwnedIsStarted, OneWorkerPerJob, QueueMatchesStatus, Owns, Record, Go,
         queueVars
<1>5. EnqueuedIsReserved'
  BY DEF EnqueuedIsReserved, WorkersHoldRealJobs, Record
<1>6. SeenIsCurrent'
  BY DEF TypeOK, SeenIsCurrent, Record, Go
<1>7. UsageFits'
  <2>1. at[w] \in Jobs /\ Owns(w, at[w]) /\ status[at[w]] # "queued"
        /\ status[at[w]] # "awaiting_input"
    BY DEF WorkersHoldRealJobs, OwnedIsStarted, Owns, Record
  <2>2. seen[w].maximum = maximum[at[w]]
    BY DEF SeenIsCurrent, Record
  <2>3. SUFFICES ASSUME NEW i \in Jobs, AtRisk(i)'
                 PROVE  usage'[i] <= maximum'[i]
    BY DEF UsageFits
  <2>4. CASE i # at[w]
    <3>1. AtRisk(i)
      BY <2>3, <2>4 DEF TypeOK, AtRisk, Record, Go
    <3>2. usage'[i] = usage[i]
      BY <2>1, <2>4 DEF Record
    <3>3. QED  BY <3>1, <3>2 DEF UsageFits, Record
  <2>5. CASE i = at[w]
    <3>1. PICK v \in Workers :
            at[v] = i /\ pc'[v] \in {"starting", "working", "answered", "asking", "stopped"}
      BY <2>1, <2>3, <2>5 DEF AtRisk, Record
    <3>2. Owns(v, i)
      BY <3>1 DEF TypeOK, Owns, Record, Go
    <3>3. v = w
      BY <2>1, <2>5, <3>2 DEF OneWorkerPerJob
    <3>4. ~(n > seen[w].maximum)
      BY <3>1, <3>3 DEF TypeOK, Record, Go
    <3>5. QED  BY <2>1, <2>2, <2>5, <3>4 DEF TypeOK, Record
  <2>6. QED  BY <2>4, <2>5
<1>8. (QueueMatchesStatus /\ ActiveIsUnique /\ StopIsHonoured /\ FinishedIsSettled)'
  BY DEF QueueMatchesStatus, ActiveIsUnique, ActiveJobs, StopIsHonoured, FinishedIsSettled,
         Record, queueVars
<1>9. QED
  BY <1>1, <1>2, <1>3, <1>4, <1>5, <1>6, <1>7, <1>8

\* A heartbeat changes nothing the invariant reads.
LEMMA BeatStep ==
  ASSUME Inv, NEW w \in Workers, Beat(w)
  PROVE  Inv'
<1> USE AIJobsAssumption DEF Inv
<1>1. TypeOK'
  BY DEF TypeOK, Beat, queueVars, workerVars
<1>2. (OneWorkerPerJob /\ QueueMatchesStatus /\ WorkersHoldRealJobs /\ OwnedIsStarted
       /\ EnqueuedIsReserved /\ ActiveIsUnique /\ SeenIsCurrent /\ UsageFits
       /\ StopIsHonoured /\ FinishedIsSettled)'
  BY DEF OneWorkerPerJob, Owns, QueueMatchesStatus, WorkersHoldRealJobs, OwnedIsStarted,
         EnqueuedIsReserved, ActiveIsUnique, ActiveJobs, SeenIsCurrent, UsageFits, AtRisk,
         StopIsHonoured, FinishedIsSettled, Beat, queueVars, workerVars
<1>3. QED
  BY <1>1, <1>2

\* finish with a result, delivered or, if stopped meanwhile, only settled.
LEMMA FinishAnswerStep ==
  ASSUME Inv, NEW w \in Workers, FinishAnswer(w)
  PROVE  Inv'
<1> USE AIJobsAssumption DEF Inv
<1>1. TypeOK'
  <2>1. at[w] \in Jobs /\ usage[at[w]] \in Nat
    BY DEF TypeOK, WorkersHoldRealJobs, FinishAnswer
  <2>2. QED
    BY <2>1, SettleType, DoneType DEF TypeOK, FinishAnswer, FinishWithResult,
           CancelSettlement, Terminal, jobVars, queueVars
<1>2. OneWorkerPerJob'
  BY DEF OneWorkerPerJob, Owns, FinishAnswer, Go, Done
<1>3. QueueMatchesStatus'
  BY DEF TypeOK, QueueMatchesStatus, FinishAnswer, FinishWithResult, CancelSettlement, Settle,
         Dequeue, jobVars, queueVars
<1>4. WorkersHoldRealJobs'
  BY DEF TypeOK, WorkersHoldRealJobs, FinishAnswer, FinishWithResult, CancelSettlement,
         Settle, Go, Done, jobVars
<1>5. OwnedIsStarted'
  BY DEF TypeOK, OwnedIsStarted, Owns, FinishAnswer, FinishWithResult, CancelSettlement,
         Settle, Dequeue, Go, Done, jobVars, queueVars
<1>6. EnqueuedIsReserved'
  BY DEF TypeOK, EnqueuedIsReserved, WorkersHoldRealJobs, FinishAnswer, FinishWithResult,
         CancelSettlement, Settle, Capture, Go, Done, NoRuntime, jobVars, queueVars
<1>7. ActiveIsUnique'
  BY DEF TypeOK, ActiveIsUnique, ActiveJobs, WorkersHoldRealJobs, FinishAnswer,
         FinishWithResult, CancelSettlement, Settle, jobVars
<1>8. SeenIsCurrent'
  BY DEF TypeOK, SeenIsCurrent, FinishAnswer, FinishWithResult, CancelSettlement, Settle, Go,
         Done, jobVars
<1>9. UsageFits'
  BY DEF TypeOK, UsageFits, AtRisk, FinishAnswer, FinishWithResult, CancelSettlement, Settle,
         Capture, Go, Done, jobVars
<1>10. StopIsHonoured'
  BY DEF TypeOK, StopIsHonoured, FinishAnswer, FinishWithResult, CancelSettlement, Settle,
         jobVars
<1>11. FinishedIsSettled'
  BY DEF TypeOK, FinishedIsSettled, Open, FinishAnswer, FinishWithResult, CancelSettlement,
         Settle, Capture, jobVars
<1>12. QED
  BY <1>1, <1>2, <1>3, <1>4, <1>5, <1>6, <1>7, <1>8, <1>9, <1>10, <1>11

\* finish with an error settles at 0, whatever the usage.
LEMMA FinishFailureStep ==
  ASSUME Inv, NEW w \in Workers, FinishFailure(w)
  PROVE  Inv'
<1> USE AIJobsAssumption DEF Inv
<1>1. TypeOK'
  BY SettleType, DoneType DEF TypeOK, FinishFailure, FinishWithError, WorkersHoldRealJobs,
         Terminal, jobVars, queueVars
<1>2. OneWorkerPerJob'
  BY DEF OneWorkerPerJob, Owns, FinishFailure, Go, Done
<1>3. QueueMatchesStatus'
  BY DEF TypeOK, QueueMatchesStatus, FinishFailure, FinishWithError, Settle, Dequeue, jobVars,
         queueVars
<1>4. WorkersHoldRealJobs'
  BY DEF TypeOK, WorkersHoldRealJobs, FinishFailure, FinishWithError, Settle, Go, Done, jobVars
<1>5. OwnedIsStarted'
  BY DEF TypeOK, OwnedIsStarted, Owns, FinishFailure, FinishWithError, Settle, Dequeue, Go,
         Done, jobVars, queueVars
<1>6. EnqueuedIsReserved'
  BY DEF TypeOK, EnqueuedIsReserved, WorkersHoldRealJobs, FinishFailure, FinishWithError,
         Settle, NoRuntime, jobVars
<1>7. ActiveIsUnique'
  BY DEF TypeOK, ActiveIsUnique, ActiveJobs, WorkersHoldRealJobs, FinishFailure,
         FinishWithError, Settle, jobVars
<1>8. SeenIsCurrent'
  BY DEF SeenIsCurrent, FinishFailure, FinishWithError, Settle, Go, Done, jobVars
<1>9. UsageFits'
  BY DEF TypeOK, UsageFits, AtRisk, FinishFailure, FinishWithError, Settle, Capture, Go, Done,
         jobVars
<1>10. StopIsHonoured'
  BY DEF TypeOK, StopIsHonoured, FinishFailure, FinishWithError, Settle, jobVars
<1>11. FinishedIsSettled'
  BY DEF TypeOK, FinishedIsSettled, Open, FinishFailure, FinishWithError, Settle, Capture,
         jobVars
<1>12. QED
  BY <1>1, <1>2, <1>3, <1>4, <1>5, <1>6, <1>7, <1>8, <1>9, <1>10, <1>11

\* The row leaves the queue and its only owner lets go.
LEMMA PauseStep ==
  ASSUME Inv, NEW w \in Workers, Pause(w)
  PROVE  Inv'
<1> USE AIJobsAssumption DEF Inv
<1>1. TypeOK'
  <2>1. at[w] \in Jobs /\ usage[at[w]] \in Nat
    BY DEF TypeOK, WorkersHoldRealJobs, Pause
  <2>2. CASE UNCHANGED <<jobVars, queueVars>>
    BY <2>2, DoneType DEF TypeOK, Pause, jobVars, queueVars
  <2>3. CASE CancelSettlement(at[w]) /\ UNCHANGED cancelRequested
    BY <2>1, <2>3, SettleType, DoneType DEF TypeOK, Pause, CancelSettlement, Terminal
  <2>4. CASE /\ status' = [status EXCEPT ![at[w]] = "awaiting_input"]
             /\ fresh' = [fresh EXCEPT ![at[w]] = TRUE]
             /\ Dequeue(at[w])
             /\ UNCHANGED <<cancelRequested, revision, maximum, usage, credits, captured>>
    BY <2>4, DoneType DEF TypeOK, Pause, Dequeue, Active
  <2>5. QED  BY <2>2, <2>3, <2>4 DEF Pause
<1>2. OneWorkerPerJob'
  BY DEF OneWorkerPerJob, Owns, Pause, Go, Done
<1>3. QueueMatchesStatus'
  BY DEF TypeOK, QueueMatchesStatus, Pause, CancelSettlement, Settle, Dequeue, jobVars,
         queueVars
<1>4. WorkersHoldRealJobs'
  BY DEF TypeOK, WorkersHoldRealJobs, Pause, CancelSettlement, Settle, Go, Done, jobVars
<1>5. OwnedIsStarted'
  <2>1. \A v \in Workers, i \in Jobs : Owns(v, i)' => Owns(v, i) /\ i # at[w] /\ pc'[v] = pc[v]
    BY DEF TypeOK, OneWorkerPerJob, Owns, Pause, Done, Go
  <2>2. \A i \in Jobs : i # at[w] => row'[i] = row[i] /\ status'[i] = status[i]
    BY DEF TypeOK, Pause, CancelSettlement, Settle, Dequeue, jobVars, queueVars
  <2>3. QED  BY <2>1, <2>2 DEF OwnedIsStarted
<1>6. EnqueuedIsReserved'
  BY DEF TypeOK, EnqueuedIsReserved, Pause, CancelSettlement, Settle, jobVars
<1>7. ActiveIsUnique'
  BY DEF TypeOK, ActiveIsUnique, ActiveJobs, Active, Pause, CancelSettlement, Settle, jobVars
<1>8. SeenIsCurrent'
  BY DEF TypeOK, SeenIsCurrent, Pause, CancelSettlement, Settle, Go, Done, jobVars
<1>9. UsageFits'
  BY DEF TypeOK, UsageFits, AtRisk, Pause, CancelSettlement, Settle, Capture, Go, Done, jobVars
<1>10. StopIsHonoured'
  BY DEF TypeOK, StopIsHonoured, Pause, CancelSettlement, Settle, jobVars
<1>11. FinishedIsSettled'
  BY DEF TypeOK, FinishedIsSettled, Open, Terminal, Pause, CancelSettlement, Settle, Capture,
         jobVars
<1>12. QED
  BY <1>1, <1>2, <1>3, <1>4, <1>5, <1>6, <1>7, <1>8, <1>9, <1>10, <1>11

\* A stopped job is settled for its usage.
LEMMA FinishStopStep ==
  ASSUME Inv, NEW w \in Workers, FinishStop(w)
  PROVE  Inv'
<1> USE AIJobsAssumption DEF Inv
<1>1. TypeOK'
  <2>1. at[w] \in Jobs /\ usage[at[w]] \in Nat
    BY DEF TypeOK, WorkersHoldRealJobs, FinishStop
  <2>2. QED
    BY <2>1, SettleType, DoneType DEF TypeOK, FinishStop, CancelSettlement, Terminal, jobVars,
           queueVars
<1>2. OneWorkerPerJob'
  BY DEF OneWorkerPerJob, Owns, FinishStop, Go, Done
<1>3. QueueMatchesStatus'
  BY DEF TypeOK, QueueMatchesStatus, FinishStop, CancelSettlement, Settle, Dequeue, jobVars,
         queueVars
<1>4. WorkersHoldRealJobs'
  BY DEF TypeOK, WorkersHoldRealJobs, FinishStop, CancelSettlement, Settle, Go, Done, jobVars
<1>5. OwnedIsStarted'
  BY DEF TypeOK, OwnedIsStarted, Owns, FinishStop, CancelSettlement, Settle, Dequeue, Go,
         Done, jobVars, queueVars
<1>6. EnqueuedIsReserved'
  BY DEF TypeOK, EnqueuedIsReserved, WorkersHoldRealJobs, FinishStop, CancelSettlement,
         Settle, Done, NoRuntime, jobVars, queueVars
<1>7. ActiveIsUnique'
  BY DEF TypeOK, ActiveIsUnique, ActiveJobs, WorkersHoldRealJobs, FinishStop,
         CancelSettlement, Settle, jobVars
<1>8. SeenIsCurrent'
  BY DEF TypeOK, SeenIsCurrent, FinishStop, CancelSettlement, Settle, Go, Done, jobVars
<1>9. UsageFits'
  BY DEF TypeOK, UsageFits, AtRisk, FinishStop, CancelSettlement, Settle, Capture, Go, Done,
         jobVars
<1>10. StopIsHonoured'
  BY DEF TypeOK, StopIsHonoured, FinishStop, CancelSettlement, Settle, jobVars
<1>11. FinishedIsSettled'
  BY DEF TypeOK, FinishedIsSettled, Open, Terminal, FinishStop, CancelSettlement, Settle,
         Capture, jobVars
<1>12. QED
  BY <1>1, <1>2, <1>3, <1>4, <1>5, <1>6, <1>7, <1>8, <1>9, <1>10, <1>11

-----------------------------------------------------------------------------
(* expire_stale.                                                           *)

\* The rows expire_stale reads belong to enqueued jobs.
LEMMA SweepStep ==
  ASSUME Inv, NEW w \in Workers, Sweep(w)
  PROVE  Inv'
<1> USE AIJobsAssumption DEF Inv
<1>1. TypeOK'
  BY DEF TypeOK, Steps, Sweep, Go, OldRows, jobVars, queueVars
<1>2. OneWorkerPerJob'
  BY DEF OneWorkerPerJob, Owns, Sweep, Go
<1>3. WorkersHoldRealJobs'
  BY DEF WorkersHoldRealJobs, QueueMatchesStatus, Sweep, Go, OldRows, jobVars
<1>4. OwnedIsStarted'
  BY DEF OwnedIsStarted, Owns, Sweep, Go, jobVars, queueVars
<1>5. SeenIsCurrent'
  BY DEF SeenIsCurrent, Sweep, Go, jobVars
<1>6. UsageFits'
  BY DEF UsageFits, AtRisk, Sweep, Go, jobVars
<1>7. (QueueMatchesStatus /\ EnqueuedIsReserved /\ ActiveIsUnique /\ StopIsHonoured
       /\ FinishedIsSettled)'
  BY DEF QueueMatchesStatus, EnqueuedIsReserved, ActiveIsUnique, ActiveJobs, StopIsHonoured,
         FinishedIsSettled, Sweep, jobVars, queueVars
<1>8. QED
  BY <1>1, <1>2, <1>3, <1>4, <1>5, <1>6, <1>7

\* An expiring worker does not own the job it expires.
LEMMA SweepReadStep ==
  ASSUME Inv, NEW w \in Workers, NEW j \in Jobs, SweepRead(w, j)
  PROVE  Inv'
<1> USE AIJobsAssumption DEF Inv
<1>1. TypeOK'
  BY DEF TypeOK, Active, Terminal, Steps, Open, WorkersHoldRealJobs, FinishedIsSettled,
         SweepRead, Go, jobVars, queueVars
<1>2. OneWorkerPerJob'
  BY DEF TypeOK, OneWorkerPerJob, OwnedIsStarted, WorkersHoldRealJobs, Owns, SweepRead, Go,
         jobVars, queueVars
<1>3. WorkersHoldRealJobs'
  BY DEF TypeOK, WorkersHoldRealJobs, SweepRead, Go, jobVars
<1>4. OwnedIsStarted'
  BY DEF TypeOK, Steps, OwnedIsStarted, OneWorkerPerJob, QueueMatchesStatus, Owns, SweepRead,
         Go, jobVars, queueVars
<1>5. SeenIsCurrent'
  BY DEF TypeOK, SeenIsCurrent, SweepRead, Go, jobVars
<1>6. UsageFits'
  BY DEF TypeOK, UsageFits, AtRisk, SweepRead, Go, jobVars
<1>7. (QueueMatchesStatus /\ EnqueuedIsReserved /\ ActiveIsUnique /\ StopIsHonoured
       /\ FinishedIsSettled)'
  BY DEF QueueMatchesStatus, EnqueuedIsReserved, ActiveIsUnique, ActiveJobs, StopIsHonoured,
         FinishedIsSettled, SweepRead, jobVars, queueVars
<1>8. QED
  BY <1>1, <1>2, <1>3, <1>4, <1>5, <1>6, <1>7

\* Expiry settles at 0, also under another worker's feet.
LEMMA SweepFinishStep ==
  ASSUME Inv, NEW w \in Workers, SweepFinish(w)
  PROVE  Inv'
<1> USE AIJobsAssumption DEF Inv
<1>1. TypeOK'
  BY SettleType DEF TypeOK, SweepFinish, FinishWithError, Go, jobVars, queueVars, Steps,
         Terminal, WorkersHoldRealJobs
<1>2. OneWorkerPerJob'
  BY DEF OneWorkerPerJob, Owns, SweepFinish, Go
<1>3. QueueMatchesStatus'
  BY DEF TypeOK, QueueMatchesStatus, SweepFinish, FinishWithError, Settle, Dequeue, jobVars,
         queueVars
<1>4. WorkersHoldRealJobs'
  BY DEF TypeOK, WorkersHoldRealJobs, SweepFinish, FinishWithError, Settle, Go, jobVars
<1>5. OwnedIsStarted'
  BY DEF TypeOK, OwnedIsStarted, Owns, SweepFinish, FinishWithError, Settle, Dequeue, Go,
         jobVars, queueVars
<1>6. EnqueuedIsReserved'
  BY DEF TypeOK, EnqueuedIsReserved, WorkersHoldRealJobs, SweepFinish, FinishWithError,
         Settle, Go, jobVars, queueVars
<1>7. ActiveIsUnique'
  BY DEF TypeOK, ActiveIsUnique, ActiveJobs, WorkersHoldRealJobs, SweepFinish,
         FinishWithError, Settle, jobVars
<1>8. SeenIsCurrent'
  BY DEF SeenIsCurrent, SweepFinish, FinishWithError, Settle, Go, jobVars
<1>9. UsageFits'
  BY DEF TypeOK, UsageFits, AtRisk, SweepFinish, FinishWithError, Settle, Capture, Go, jobVars
<1>10. StopIsHonoured'
  BY DEF TypeOK, StopIsHonoured, SweepFinish, FinishWithError, Settle, jobVars
<1>11. FinishedIsSettled'
  BY DEF TypeOK, FinishedIsSettled, Open, Terminal, SweepFinish, FinishWithError, Settle,
         Capture, jobVars
<1>12. QED
  BY <1>1, <1>2, <1>3, <1>4, <1>5, <1>6, <1>7, <1>8, <1>9, <1>10, <1>11

\* The sweep is over.
LEMMA SweepEndStep ==
  ASSUME Inv, NEW w \in Workers, SweepEnd(w)
  PROVE  Inv'
<1> USE AIJobsAssumption DEF Inv
<1>1. TypeOK'
  BY DEF TypeOK, Steps, SweepEnd, Go, jobVars, queueVars
<1>2. OneWorkerPerJob'
  BY DEF OneWorkerPerJob, Owns, SweepEnd, Go
<1>3. WorkersHoldRealJobs'
  BY DEF WorkersHoldRealJobs, SweepEnd, Go, jobVars
<1>4. OwnedIsStarted'
  BY DEF OwnedIsStarted, Owns, SweepEnd, Go, jobVars, queueVars
<1>5. SeenIsCurrent'
  BY DEF SeenIsCurrent, SweepEnd, Go, jobVars
<1>6. UsageFits'
  BY DEF UsageFits, AtRisk, SweepEnd, Go, jobVars
<1>7. (QueueMatchesStatus /\ EnqueuedIsReserved /\ ActiveIsUnique /\ StopIsHonoured
       /\ FinishedIsSettled)'
  BY DEF QueueMatchesStatus, EnqueuedIsReserved, ActiveIsUnique, ActiveJobs, StopIsHonoured,
         FinishedIsSettled, SweepEnd, jobVars, queueVars
<1>8. QED
  BY <1>1, <1>2, <1>3, <1>4, <1>5, <1>6, <1>7

-----------------------------------------------------------------------------
(* The environment.                                                        *)

\* Three minutes without a heartbeat only allow an expiry.
LEMMA LapseStep ==
  ASSUME Inv, NEW j \in Jobs, Lapse(j)
  PROVE  Inv'
<1> USE AIJobsAssumption DEF Inv
<1>1. TypeOK'
  BY DEF TypeOK, Lapse, queueVars, workerVars
<1>2. (OneWorkerPerJob /\ QueueMatchesStatus /\ WorkersHoldRealJobs /\ OwnedIsStarted
       /\ EnqueuedIsReserved /\ ActiveIsUnique /\ SeenIsCurrent /\ UsageFits
       /\ StopIsHonoured /\ FinishedIsSettled)'
  BY DEF OneWorkerPerJob, Owns, QueueMatchesStatus, WorkersHoldRealJobs, OwnedIsStarted,
         EnqueuedIsReserved, ActiveIsUnique, ActiveJobs, SeenIsCurrent, UsageFits, AtRisk,
         StopIsHonoured, FinishedIsSettled, Lapse, queueVars, workerVars
<1>3. QED
  BY <1>1, <1>2

\* So does the age of a row.
LEMMA AgeStep ==
  ASSUME Inv, NEW j \in Jobs, Age(j)
  PROVE  Inv'
<1> USE AIJobsAssumption DEF Inv
<1>1. TypeOK'
  BY DEF TypeOK, Age, jobVars, workerVars
<1>2. (OneWorkerPerJob /\ QueueMatchesStatus /\ WorkersHoldRealJobs /\ OwnedIsStarted
       /\ EnqueuedIsReserved /\ ActiveIsUnique /\ SeenIsCurrent /\ UsageFits
       /\ StopIsHonoured /\ FinishedIsSettled)'
  BY DEF OneWorkerPerJob, Owns, QueueMatchesStatus, WorkersHoldRealJobs, OwnedIsStarted,
         EnqueuedIsReserved, ActiveIsUnique, ActiveJobs, SeenIsCurrent, UsageFits, AtRisk,
         StopIsHonoured, FinishedIsSettled, Age, jobVars, workerVars
<1>3. QED
  BY <1>1, <1>2

\* A crashed worker owns nothing; what it claimed stays claimed.
LEMMA CrashStep ==
  ASSUME Inv, NEW w \in Workers, Crash(w)
  PROVE  Inv'
<1> USE AIJobsAssumption DEF Inv
<1>1. TypeOK'
  BY DEF TypeOK, Steps, Crash, Go, NoRuntime, jobVars, queueVars
<1>2. OneWorkerPerJob'
  BY DEF OneWorkerPerJob, Owns, Crash, Go
<1>3. WorkersHoldRealJobs'
  BY DEF TypeOK, WorkersHoldRealJobs, Crash, Go, jobVars
<1>4. OwnedIsStarted'
  BY DEF OwnedIsStarted, Owns, Crash, Go, jobVars, queueVars
<1>5. SeenIsCurrent'
  BY DEF TypeOK, SeenIsCurrent, Crash, Go, jobVars
<1>6. UsageFits'
  BY DEF UsageFits, AtRisk, Crash, Go, jobVars
<1>7. (QueueMatchesStatus /\ EnqueuedIsReserved /\ ActiveIsUnique /\ StopIsHonoured
       /\ FinishedIsSettled)'
  BY DEF QueueMatchesStatus, EnqueuedIsReserved, ActiveIsUnique, ActiveJobs, StopIsHonoured,
         FinishedIsSettled, Crash, jobVars, queueVars
<1>8. QED
  BY <1>1, <1>2, <1>3, <1>4, <1>5, <1>6, <1>7

-----------------------------------------------------------------------------
(* The theorems.                                                           *)

\* The invariant holds at first.
LEMMA InitInv == Init => Inv
<1> SUFFICES ASSUME Init
             PROVE  Inv
  OBVIOUS
<1> USE AIJobsAssumption DEF Init
<1>1. TypeOK
  <2>1. seen \in [Workers -> [revision : Nat, maximum : Nat]]
    BY DEF NoRuntime
  <2>2. QED
    BY <2>1 DEF TypeOK, Steps
<1>2. OneWorkerPerJob /\ OwnedIsStarted /\ WorkersHoldRealJobs /\ SeenIsCurrent
  BY DEF OneWorkerPerJob, OwnedIsStarted, WorkersHoldRealJobs, SeenIsCurrent, Owns
<1>3. QueueMatchesStatus /\ EnqueuedIsReserved /\ StopIsHonoured /\ FinishedIsSettled
  BY DEF QueueMatchesStatus, EnqueuedIsReserved, StopIsHonoured, FinishedIsSettled, Terminal
<1>4. ActiveIsUnique
  BY DEF ActiveIsUnique, ActiveJobs, Active
<1>5. UsageFits
  BY DEF UsageFits
<1>6. QED
  BY <1>1, <1>2, <1>3, <1>4, <1>5 DEF Inv

\* A step of somebody else keeps it.
LEMMA StutterStep ==
  ASSUME Inv, UNCHANGED vars
  PROVE  Inv'
<1> USE DEF Inv, vars, jobVars, queueVars, workerVars
<1>1. TypeOK'
  BY DEF TypeOK
<1>2. (OneWorkerPerJob /\ OwnedIsStarted /\ WorkersHoldRealJobs /\ SeenIsCurrent)'
  BY DEF OneWorkerPerJob, OwnedIsStarted, WorkersHoldRealJobs, SeenIsCurrent, Owns
<1>3. (QueueMatchesStatus /\ EnqueuedIsReserved /\ StopIsHonoured /\ FinishedIsSettled)'
  BY DEF QueueMatchesStatus, EnqueuedIsReserved, StopIsHonoured, FinishedIsSettled
<1>4. (ActiveIsUnique /\ UsageFits)'
  BY DEF ActiveIsUnique, ActiveJobs, UsageFits, AtRisk
<1>5. QED
  BY <1>1, <1>2, <1>3, <1>4

\* Every step, of the user, a worker or the environment, preserves Inv.
LEMMA NextInv == Inv /\ [Next]_vars => Inv'
<1> SUFFICES ASSUME Inv, [Next]_vars
             PROVE  Inv'
  OBVIOUS
<1>1. CASE UNCHANGED vars
  BY <1>1, StutterStep
<1>2. CASE \E j \in Jobs : User(j) \/ Lapse(j) \/ Age(j)
  BY <1>2, EnqueueStep, ContinueStep, CancelStep, LapseStep, AgeStep DEF User
<1>3. ASSUME NEW w \in Workers, Work(w)
      PROVE  Inv'
  <2>1. CASE \E j \in Jobs : Claim(w, j)
    BY <2>1, ClaimStep
  <2>2. CASE Poll(w)
    BY <2>2, StutterStep DEF Poll
  <2>3. CASE Run(w)
    BY <2>3, StartReadStep, StartWriteStep, FinishAnswerStep, FinishFailureStep, PauseStep, FinishStopStep
       DEF Run
  <2>4. CASE Conclude(w) \/ Beat(w)
    BY <2>4, ConcludeStep, BeatStep
  <2>5. CASE \E n \in 1 .. MaxUsage : Record(w, n)
    BY <2>5, RecordStep
  <2>6. CASE Sweep(w) \/ Expire(w)
    BY <2>6, SweepStep, SweepReadStep, SweepFinishStep, SweepEndStep DEF Expire
  <2>7. CASE Crash(w)
    BY <2>7, CrashStep
  <2>8. QED
    BY <1>3, <2>1, <2>2, <2>3, <2>4, <2>5, <2>6, <2>7 DEF Work
<1>4. QED
  BY <1>1, <1>2, <1>3 DEF Next

\* The inductive invariant holds of every behaviour of the job lifecycle:
\* users, workers, expiry, crashes and time in any order.
THEOREM Invariance == Spec => []Inv
  BY InitInv, NextInv, PTL DEF Spec

\* Every column, queue row and worker keeps its type.
THEOREM TypeCorrect == Spec => []TypeOK
<1>1. Inv => TypeOK
  BY DEF Inv
<1>2. QED
  BY <1>1, Invariance, PTL

\* run_one: a claimed job has one worker, so no paid call is replayed.
THEOREM ClaimsAreExclusive == Spec => []OneWorkerPerJob
<1>1. Inv => OneWorkerPerJob
  BY DEF Inv
<1>2. QED
  BY <1>1, Invariance, PTL

\* No job is forgotten, and no finished one is claimed again.
THEOREM QueueIsAccurate == Spec => []QueueMatchesStatus
<1>1. Inv => QueueMatchesStatus
  BY DEF Inv
<1>2. QED
  BY <1>1, Invariance, PTL

\* A review the user asked to stop is never delivered as a success.
THEOREM StopsAreHonoured == Spec => []StopIsHonoured
<1>1. Inv => StopIsHonoured
  BY DEF Inv
<1>2. QED
  BY <1>1, Invariance, PTL

\* FinishedIsSettled: a review that is finished has a settlement.
THEOREM FinishSettles == Spec => []FinishedIsSettled
<1>1. Inv => FinishedIsSettled
  BY DEF Inv
<1>2. QED
  BY <1>1, Invariance, PTL

\* enqueue and the index one_active_ai_workflow: one active review at a time.
THEOREM ActiveJobsAreOne == Spec => []OneActiveJob
<1>1. ASSUME ActiveIsUnique
      PROVE  OneActiveJob
  <2>1. CASE ActiveJobs = {}
    BY <2>1, FS_EmptySet DEF OneActiveJob
  <2>2. CASE ActiveJobs # {}
    <3>1. PICK j : ActiveJobs = {j}
      BY <1>1, <2>2 DEF ActiveIsUnique
    <3>2. QED
      BY <3>1, FS_Singleton DEF OneActiveJob
  <2>3. QED
    BY <2>1, <2>2
<1>2. Inv => OneActiveJob
  BY <1>1 DEF Inv
<1>3. QED
  BY <1>2, Invariance, PTL

\* settle_reservations never refuses a stop, a pause or an answer.
THEOREM SettlementsFit == Spec => []SettlementFits
<1>1. Inv => SettlementFits
  BY DEF Inv, UsageFits, AtRisk, SettlementFits
<1>2. QED
  BY <1>1, Invariance, PTL

-----------------------------------------------------------------------------
(* The job lifecycle implements Authorization: a job's max_credits are     *)
(* what is authorized, its settle entry the outcome.                       *)

\* A settlement of an enqueued job charges within its reservation, once.
LEMMA SettleCharges ==
  ASSUME Inv, NEW j \in Jobs, status[j] # "none", NEW c \in Nat, NEW end \in Terminal,
         Settle(j, c, end)
  PROVE  [Authorized!Next]_<<maximum, captured>>
<1>1. maximum[j] > 0
  BY AIJobsAssumption DEF Inv, TypeOK, EnqueuedIsReserved
<1>2. UNCHANGED maximum
  BY DEF Settle
<1>3. CASE captured[j] # Open
  BY <1>2, <1>3 DEF Settle, Capture
<1>4. CASE captured[j] = Open
  <2>1. c \in 0 .. maximum[j]
    BY <1>4, AIJobsAssumption DEF Settle
  <2>2. Authorized!Charge(j, c)
    BY <1>1, <1>2, <1>4, <2>1 DEF Settle, Capture, Open, Authorized!Charge, Authorized!Open
  <2>3. QED
    BY <2>1, <2>2 DEF Authorized!Next
<1>5. QED
  BY <1>3, <1>4

\* Reserving more is an authorization; reserving as much again is none.
LEMMA ReservingAuthorizes ==
  ASSUME Inv, NEW j \in Jobs, NEW n \in 1 .. MaxCredits, Enqueue(j, n) \/ Continue(j, n)
  PROVE  [Authorized!Next]_<<maximum, captured>>
<1> DEFINE more == n - maximum[j]
<1>1. /\ more \in 0 .. MaxCredits
      /\ maximum' = [maximum EXCEPT ![j] = maximum[j] + more]
      /\ UNCHANGED captured
  BY AIJobsAssumption DEF Inv, TypeOK, EnqueuedIsReserved, Enqueue, Continue
<1>2. CASE more = 0
  BY <1>1, <1>2, AIJobsAssumption DEF Inv, TypeOK
<1>3. CASE more # 0
  <2>1. more \in 1 .. MaxCredits
    BY <1>1, <1>3, AIJobsAssumption
  <2>2. Authorized!Authorize(j, more)
    BY <1>1 DEF Authorized!Authorize
  <2>3. QED
    BY <2>1, <2>2 DEF Authorized!Next
<1>4. QED
  BY <1>2, <1>3

\* Every step authorizes, charges, or does neither.
LEMMA NextAuthorized == Inv /\ [Next]_vars => [Authorized!Next]_<<maximum, captured>>
<1> SUFFICES ASSUME Inv, [Next]_vars
             PROVE  [Authorized!Next]_<<maximum, captured>>
  OBVIOUS
<1> DEFINE Charged(j) == \E c \in Nat, end \in Terminal : Settle(j, c, end)
           Idle == UNCHANGED <<maximum, captured>>
<1>1. CASE UNCHANGED vars
  BY <1>1 DEF vars, jobVars
<1>2. ASSUME NEW j \in Jobs, User(j) \/ Lapse(j) \/ Age(j)
      PROVE  [Authorized!Next]_<<maximum, captured>>
  <2>1. CASE \E n \in 1 .. MaxCredits : Enqueue(j, n) \/ Continue(j, n)
    BY <2>1, ReservingAuthorizes
  <2>2. CASE Cancel(j)
    <3>1. status[j] # "none" /\ usage[j] \in Nat
      BY <2>2, AIJobsAssumption DEF Inv, TypeOK, Cancel, Active
    <3>2. Idle \/ Charged(j)
      BY <2>2, <3>1 DEF Cancel, CancelSettlement, Terminal
    <3>3. QED
      BY <3>1, <3>2, SettleCharges
  <2>3. CASE Lapse(j) \/ Age(j)
    BY <2>3 DEF Lapse, Age, jobVars
  <2>4. QED
    BY <1>2, <2>1, <2>2, <2>3 DEF User
<1>3. ASSUME NEW w \in Workers, Work(w)
      PROVE  [Authorized!Next]_<<maximum, captured>>
  <2>1. CASE FinishAnswer(w) \/ FinishFailure(w) \/ Pause(w) \/ FinishStop(w) \/ SweepFinish(w)
    <3>1. at[w] \in Jobs /\ status[at[w]] # "none" /\ usage[at[w]] \in Nat
      BY <2>1, AIJobsAssumption DEF Inv, TypeOK, WorkersHoldRealJobs, FinishAnswer,
             FinishFailure, Pause, FinishStop, SweepFinish
    <3>2. Idle \/ Charged(at[w])
      BY <2>1, <3>1 DEF FinishAnswer, FinishFailure, Pause, FinishStop, SweepFinish,
             FinishWithResult, FinishWithError, CancelSettlement, Terminal, jobVars
    <3>3. QED
      BY <3>1, <3>2, SettleCharges
  <2>2. CASE ~(FinishAnswer(w) \/ FinishFailure(w) \/ Pause(w) \/ FinishStop(w) \/ SweepFinish(w))
    <3>1. Idle
      BY <1>3, <2>2 DEF Work, Claim, Poll, Run, StartRead, StartWrite, Conclude, Answer, Ask,
             Stop, Fail, Leave, Beat, Record, Sweep, Expire, SweepRead, SweepEnd, Crash, vars,
             jobVars
    <3>2. QED
      BY <3>1
  <2>3. QED
    BY <2>1, <2>2
<1>4. QED
  BY <1>1, <1>2, <1>3 DEF Next

\* Whatever workers, expiry and the user do to a job, in whatever order, it is
\* charged at most once, within what had been authorized.
THEOREM ImplementsAuthorization == Spec => ChargesAsAuthorized
<1>1. Init => Authorized!Init
  BY DEF Init, Open, Authorized!Init, Authorized!Open
<1>2. QED
  BY <1>1, NextAuthorized, Invariance, PTL DEF Spec, ChargesAsAuthorized, Authorized!Spec
=============================================================================
