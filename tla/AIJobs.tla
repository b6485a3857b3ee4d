------------------------------- MODULE AIJobs -------------------------------
(***************************************************************************)
(* The AI jobs of one user, the job queue and the worker processes         *)
(* (src/backend/jobs.py, src/backend/worker.py).                           *)
(*                                                                         *)
(* One action is one database transaction, or one step of a worker between *)
(* two transactions.  enqueue, continue_job, cancel_job, pause_job, finish *)
(* and finish_cancel hold the lock on the user's profile and on the job's  *)
(* row from their first read to their commit; run_one's start does not, so *)
(* it is two steps, a read and a write.  Credits appear as what a job has  *)
(* reserved and what its settlement captured; the wallet itself is module  *)
(* Wallet.  Token usage appears as the credits charge() makes of it.       *)
(***************************************************************************)
EXTENDS Integers, FiniteSets

CONSTANTS Jobs, Workers,
          NoJob,         \* not a job: what an idle worker works on
          MaxCredits,    \* bound: a job's reservation (7 in the code)
          MaxUsage,      \* bound: what a job's usage would cost
          MaxRevision,   \* bound: continuations of a job
          MaxCrashes     \* bound: crashes of worker processes

ASSUME AIJobsAssumption ==
  /\ NoJob \notin Jobs
  /\ MaxCredits \in Nat /\ MaxUsage \in Nat
  /\ MaxRevision \in Nat /\ MaxCrashes \in Nat

VARIABLES
  \* the ai_jobs rows
  status, revision, cancelRequested, maximum, usage, credits,
  fresh,         \* heartbeat_at is less than three minutes ago
  \* the settle entry of the wallet: the credits captured, or Open
  captured,
  \* the job_queue rows
  row,           \* none, waiting (claimed_at is null) or claimed
  old,           \* the row is past its three or fifteen minutes
  \* the worker processes
  pc, at,        \* where a worker is, on which job
  seen,          \* the revision and maximum its Runtime was made with
  stale,         \* the rows its expire_stale has still to look at
  crashes

jobVars == <<status, revision, cancelRequested, maximum, usage, credits, fresh, captured>>
queueVars == <<row, old>>
workerVars == <<pc, at, seen, stale>>
vars == <<jobVars, queueVars, workerVars, crashes>>

Open == -1
Active == {"queued", "running", "awaiting_input"}
Terminal == {"succeeded", "failed", "cancelled"}

\* Where a worker can be: between calls; in run_one before its read, between
\* read and write, in the workflow, and with each of its outcomes; in
\* expire_stale between jobs, and about to fail one.
Steps == {"idle", "claimed", "starting", "working", "answered", "asking",
          "stopped", "failing", "sweeping", "expiring"}

NoRuntime == [revision |-> 0, maximum |-> 0]

ActiveJobs == {j \in Jobs : status[j] \in Active}
-----------------------------------------------------------------------------
Init ==
  /\ status = [j \in Jobs |-> "none"]
  /\ revision = [j \in Jobs |-> 0]
  /\ cancelRequested = [j \in Jobs |-> FALSE]
  /\ maximum = [j \in Jobs |-> 0]
  /\ usage = [j \in Jobs |-> 0]
  /\ credits = [j \in Jobs |-> 0]
  /\ fresh = [j \in Jobs |-> FALSE]
  /\ captured = [j \in Jobs |-> Open]
  /\ row = [j \in Jobs |-> "none"]
  /\ old = [j \in Jobs |-> FALSE]
  /\ pc = [w \in Workers |-> "idle"]
  /\ at = [w \in Workers |-> NoJob]
  /\ seen = [w \in Workers |-> NoRuntime]
  /\ stale = [w \in Workers |-> {}]
  /\ crashes = 0

-----------------------------------------------------------------------------
(* Transactions that several callers share.                                *)

Wait(j) == /\ row' = [row EXCEPT ![j] = "waiting"]
           /\ old' = [old EXCEPT ![j] = FALSE]

\* Seeded fault: the row of a settled or paused job stays in the queue.
KeepRow(j) == UNCHANGED <<row, old>>

Dequeue(j) == /\ row' = [row EXCEPT ![j] = "none"]
              /\ old' = [old EXCEPT ![j] = FALSE]

\* Seeded faults: a second settlement captures again; none captures at all.
CaptureAgain(j, charge) == [captured EXCEPT ![j] = charge]
CaptureNothing(j, charge) == captured

\* settle_reservations does nothing when the settle entry exists.
Capture(j, charge) ==
  IF captured[j] = Open THEN [captured EXCEPT ![j] = charge] ELSE captured

\* settle_reservations refuses more than is reserved; the job's own record is
\* written whether or not it captured anything.
Settle(j, charge, end) ==
  /\ captured[j] = Open => charge <= maximum[j]
  /\ captured' = Capture(j, charge)
  /\ credits' = [credits EXCEPT ![j] = charge]
  /\ status' = [status EXCEPT ![j] = end]
  /\ Dequeue(j)
  /\ UNCHANGED <<revision, maximum, usage, fresh>>

CancelSettlement(j) == Settle(j, usage[j], "cancelled")

\* Seeded fault: a job that is to be stopped is delivered.
DeliverStopped(j) ==
  IF status[j] \in Terminal THEN UNCHANGED <<jobVars, queueVars>>
  ELSE Settle(j, usage[j], "succeeded") /\ UNCHANGED cancelRequested

\* finish, for a job that is still open.
FinishWithError(j) ==
  IF status[j] \in Terminal THEN UNCHANGED <<jobVars, queueVars>>
  ELSE /\ Settle(j, 0, "failed")
       /\ UNCHANGED cancelRequested

FinishWithResult(j) ==
  IF status[j] \in Terminal THEN UNCHANGED <<jobVars, queueVars>>
  ELSE /\ IF cancelRequested[j] THEN CancelSettlement(j) ELSE Settle(j, usage[j], "succeeded")
       /\ UNCHANGED cancelRequested

-----------------------------------------------------------------------------
(* The user.                                                               *)

\* enqueue: one active review at a time.
Enqueue(j, n) ==
  /\ status[j] = "none"
  /\ ActiveJobs = {}
  /\ n \in 1 .. MaxCredits
  /\ status' = [status EXCEPT ![j] = "queued"]
  /\ maximum' = [maximum EXCEPT ![j] = n]
  /\ Wait(j)
  /\ UNCHANGED <<revision, cancelRequested, usage, credits, fresh, captured, workerVars, crashes>>

\* continue_job, for the revision the pause is at; a repeat of an earlier one
\* only reads.
Continue(j, n) ==
  /\ status[j] = "awaiting_input"
  /\ revision[j] < MaxRevision
  /\ n \in maximum[j] .. MaxCredits
  /\ status' = [status EXCEPT ![j] = "queued"]
  /\ revision' = [revision EXCEPT ![j] = @ + 1]
  /\ maximum' = [maximum EXCEPT ![j] = n]
  /\ cancelRequested' = [cancelRequested EXCEPT ![j] = FALSE]
  /\ Wait(j)
  /\ UNCHANGED <<usage, credits, fresh, captured, workerVars, crashes>>

\* cancel_job: a running job is only flagged.
Cancel(j) ==
  /\ status[j] \in Active
  /\ cancelRequested' = [cancelRequested EXCEPT ![j] = TRUE]
  /\ IF status[j] = "running"
     THEN UNCHANGED <<status, revision, maximum, usage, credits, fresh, captured, queueVars>>
     ELSE CancelSettlement(j)
  /\ UNCHANGED <<workerVars, crashes>>

-----------------------------------------------------------------------------
(* A worker: run_one.                                                      *)

Go(w, step) == pc' = [pc EXCEPT ![w] = step]

Done(w) == /\ Go(w, "idle")
           /\ at' = [at EXCEPT ![w] = NoJob]
           /\ seen' = [seen EXCEPT ![w] = NoRuntime]
           /\ UNCHANGED stale

\* Seeded fault: the queue's rows are not filtered by claimed_at.
AnyRow(j) == row[j] # "none"

Claimable(j) == row[j] = "waiting"

\* claim
Claim(w, j) ==
  /\ pc[w] = "idle"
  /\ Claimable(j)
  /\ row' = [row EXCEPT ![j] = "claimed"]
  /\ old' = [old EXCEPT ![j] = FALSE]
  /\ Go(w, "claimed")
  /\ at' = [at EXCEPT ![w] = j]
  /\ UNCHANGED <<jobVars, seen, stale, crashes>>

\* claim finds nothing, and main waits two seconds.
Poll(w) ==
  /\ pc[w] = "idle"
  /\ \A j \in Jobs : ~Claimable(j)
  /\ UNCHANGED vars

\* The read of the job, without a lock.
StartRead(w) ==
  /\ pc[w] = "claimed"
  /\ IF status[at[w]] # "queued" THEN Done(w)
     ELSE /\ Go(w, "starting")
          /\ seen' = [seen EXCEPT ![w] = [revision |-> revision[at[w]], maximum |-> maximum[at[w]]]]
          /\ UNCHANGED <<at, stale>>
  /\ UNCHANGED <<jobVars, queueVars, crashes>>

\* Seeded fault: the table has no index one_active_ai_workflow.
NoIndex(j) == TRUE

\* The unique index one_active_ai_workflow lets the job become running.
IndexAllows(j) == ActiveJobs \subseteq {j}

\* The commit: status and heartbeat_at are written whatever the row has
\* become meanwhile.
StartWrite(w) ==
  LET j == at[w] IN
  /\ pc[w] = "starting"
  /\ IF IndexAllows(j)
     THEN /\ status' = [status EXCEPT ![j] = "running"]
          /\ fresh' = [fresh EXCEPT ![j] = TRUE]
          /\ Go(w, "working")
          /\ UNCHANGED <<at, seen, stale>>
     ELSE /\ Done(w)
          /\ UNCHANGED <<status, fresh>>
  /\ UNCHANGED <<revision, cancelRequested, maximum, usage, credits, captured, queueVars, crashes>>

\* Runtime.active and Runtime.checkpoint let the workflow go on.
Permitted(w) == /\ at[w] \in Jobs
                /\ status[at[w]] = "running"
                /\ ~cancelRequested[at[w]]
                /\ revision[at[w]] = seen[w].revision

\* The workflow leaves its loop with one of the outcomes run_one handles; it
\* answers or asks only past a checkpoint, and stops only at one.
Leave(w, step) ==
  /\ pc[w] = "working"
  /\ Go(w, step)
  /\ UNCHANGED <<jobVars, queueVars, at, seen, stale, crashes>>

Answer(w) == Permitted(w) /\ Leave(w, "answered")
Ask(w) == Permitted(w) /\ Leave(w, "asking")
Stop(w) == ~Permitted(w) /\ Leave(w, "stopped")
Fail(w) == Leave(w, "failing")    \* an exception, the timeout, a shutdown

\* Seeded fault: an overrun of the Runtime's maximum is not noticed.
RecordUnchecked(w, n) ==
  /\ pc[w] = "working"
  /\ n \in usage[at[w]] .. MaxUsage
  /\ usage' = [usage EXCEPT ![at[w]] = n]
  /\ UNCHANGED <<status, revision, cancelRequested, maximum, credits, fresh, captured,
                 queueVars, workerVars, crashes>>

\* Runtime.record adds a call's usage, whatever the job has become; usage
\* beyond the Runtime's maximum is a failure.
Record(w, n) ==
  LET j == at[w] IN
  /\ pc[w] = "working"
  /\ n \in usage[j] .. MaxUsage
  /\ usage' = [usage EXCEPT ![j] = n]
  /\ IF n > seen[w].maximum THEN Go(w, "failing") ELSE UNCHANGED pc
  /\ UNCHANGED <<status, revision, cancelRequested, maximum, credits, fresh, captured,
                 queueVars, at, seen, stale, crashes>>

\* The heartbeat, emit and checkpoint, which write only to a running job.
Beat(w) ==
  /\ pc[w] = "working"
  /\ status[at[w]] = "running"
  /\ fresh' = [fresh EXCEPT ![at[w]] = TRUE]
  /\ UNCHANGED <<status, revision, cancelRequested, maximum, usage, credits, captured,
                 queueVars, workerVars, crashes>>

\* finish with a result; a settlement that does not fit raises, and run_one
\* then fails the job.
FinishAnswer(w) ==
  /\ pc[w] = "answered"
  /\ FinishWithResult(at[w])
  /\ Done(w)
  /\ UNCHANGED crashes

FinishFailure(w) ==
  /\ pc[w] = "failing"
  /\ FinishWithError(at[w])
  /\ Done(w)
  /\ UNCHANGED crashes

\* pause_job
Pause(w) ==
  LET j == at[w] IN
  /\ pc[w] = "asking"
  /\ \/ /\ status[j] # "running" \/ revision[j] # seen[w].revision
        /\ UNCHANGED <<jobVars, queueVars>>
     \/ /\ status[j] = "running" /\ revision[j] = seen[w].revision
        /\ UNCHANGED cancelRequested
        /\ IF cancelRequested[j] THEN CancelSettlement(j)
           ELSE /\ status' = [status EXCEPT ![j] = "awaiting_input"]
                /\ fresh' = [fresh EXCEPT ![j] = TRUE]
                /\ Dequeue(j)
                /\ UNCHANGED <<revision, maximum, usage, credits, captured>>
  /\ Done(w)
  /\ UNCHANGED crashes

\* finish_cancel
FinishStop(w) ==
  /\ pc[w] = "stopped"
  /\ IF status[at[w]] \in Terminal THEN UNCHANGED <<jobVars, queueVars>>
     ELSE CancelSettlement(at[w]) /\ UNCHANGED cancelRequested
  /\ Done(w)
  /\ UNCHANGED crashes

-----------------------------------------------------------------------------
(* A worker: expire_stale, three transactions for each job.                *)

\* Seeded fault: expire_stale looks only at rows nobody has claimed.
OldUnclaimedRows == {j \in Jobs : row[j] = "waiting" /\ old[j]}

OldRows == {j \in Jobs : row[j] # "none" /\ old[j]}

Sweep(w) ==
  /\ pc[w] = "idle"
  /\ OldRows # {}
  /\ stale' = [stale EXCEPT ![w] = OldRows]
  /\ Go(w, "sweeping")
  /\ UNCHANGED <<jobVars, queueVars, at, seen, crashes>>

\* The read of the heartbeat.
SweepRead(w, j) ==
  /\ pc[w] = "sweeping"
  /\ j \in stale[w]
  /\ stale' = [stale EXCEPT ![w] = @ \ {j}]
  /\ IF fresh[j] THEN UNCHANGED <<pc, at>>
     ELSE /\ Go(w, "expiring")
          /\ at' = [at EXCEPT ![w] = j]
  /\ UNCHANGED <<jobVars, queueVars, seen, crashes>>

SweepFinish(w) ==
  /\ pc[w] = "expiring"
  /\ FinishWithError(at[w])
  /\ Go(w, "sweeping")
  /\ at' = [at EXCEPT ![w] = NoJob]
  /\ UNCHANGED <<seen, stale, crashes>>

SweepEnd(w) ==
  /\ pc[w] = "sweeping"
  /\ stale[w] = {}
  /\ Go(w, "idle")
  /\ UNCHANGED <<jobVars, queueVars, at, seen, stale, crashes>>

-----------------------------------------------------------------------------
(* The environment: time, and workers that die.                            *)

\* Three minutes pass without a heartbeat.
Lapse(j) ==
  /\ fresh[j]
  /\ fresh' = [fresh EXCEPT ![j] = FALSE]
  /\ UNCHANGED <<status, revision, cancelRequested, maximum, usage, credits, captured,
                 queueVars, workerVars, crashes>>

\* A row waits fifteen minutes, or has been claimed for three.
Age(j) ==
  /\ row[j] # "none" /\ ~old[j]
  /\ old' = [old EXCEPT ![j] = TRUE]
  /\ UNCHANGED <<jobVars, row, workerVars, crashes>>

Crash(w) ==
  /\ pc[w] # "idle"
  /\ crashes < MaxCrashes
  /\ crashes' = crashes + 1
  /\ Go(w, "idle")
  /\ at' = [at EXCEPT ![w] = NoJob]
  /\ seen' = [seen EXCEPT ![w] = NoRuntime]
  /\ stale' = [stale EXCEPT ![w] = {}]
  /\ UNCHANGED <<jobVars, queueVars>>

User(j) == Cancel(j) \/ \E n \in 1 .. MaxCredits : Enqueue(j, n) \/ Continue(j, n)

Conclude(w) == Answer(w) \/ Ask(w) \/ Stop(w) \/ Fail(w)

Run(w) == \/ StartRead(w) \/ StartWrite(w)
          \/ FinishAnswer(w) \/ FinishFailure(w) \/ Pause(w) \/ FinishStop(w)

Expire(w) == (\E j \in Jobs : SweepRead(w, j)) \/ SweepFinish(w) \/ SweepEnd(w)

Work(w) == \/ \E j \in Jobs : Claim(w, j)
           \/ Poll(w)
           \/ Run(w) \/ Conclude(w) \/ Beat(w)
           \/ \E n \in 1 .. MaxUsage : Record(w, n)
           \/ Sweep(w) \/ Expire(w)
           \/ Crash(w)

Next == \/ \E j \in Jobs : User(j) \/ Lapse(j) \/ Age(j)
        \/ \E w \in Workers : Work(w)

Spec == Init /\ [][Next]_vars
-----------------------------------------------------------------------------
(* Fairness: main's loop keeps calling claim and expire_stale, the 1800-   *)
(* second limit ends every workflow, database calls return, and clocks     *)
(* run.  Users, provider calls, heartbeats and crashes are not fair.       *)

Unattended(j) == \A w \in Workers : at[w] # j

Fairness ==
  /\ \A w \in Workers : /\ WF_vars(\E j \in Jobs : Claim(w, j))
                        /\ WF_vars(Sweep(w))
                        /\ WF_vars(Run(w))
                        /\ WF_vars(Conclude(w))
                        /\ WF_vars(Expire(w))
  /\ \A j \in Jobs : WF_vars(Age(j)) /\ WF_vars(Unattended(j) /\ Lapse(j))

FairSpec == Spec /\ Fairness
-----------------------------------------------------------------------------
(* What holds.                                                             *)

TypeOK ==
  /\ status \in [Jobs -> {"none"} \cup Active \cup Terminal]
  /\ revision \in [Jobs -> Nat]
  /\ cancelRequested \in [Jobs -> BOOLEAN]
  /\ maximum \in [Jobs -> 0 .. MaxCredits]
  /\ usage \in [Jobs -> 0 .. MaxUsage]
  /\ credits \in [Jobs -> Nat]
  /\ fresh \in [Jobs -> BOOLEAN]
  /\ captured \in [Jobs -> Nat \cup {Open}]
  /\ row \in [Jobs -> {"none", "waiting", "claimed"}]
  /\ old \in [Jobs -> BOOLEAN]
  /\ pc \in [Workers -> Steps]
  /\ at \in [Workers -> Jobs \cup {NoJob}]
  /\ seen \in [Workers -> [revision : Nat, maximum : Nat]]
  /\ stale \in [Workers -> SUBSET Jobs]
  /\ crashes \in Nat

\* A worker owns the job it has claimed until run_one returns.
Owns(w, j) == at[w] = j /\ pc[w] \notin {"idle", "sweeping", "expiring"}

\* A claimed job is never run by two workers, so no paid call is replayed:
\* not after a crash, an expiry, or a pause and a continuation.
OneWorkerPerJob ==
  \A v, w \in Workers, j \in Jobs : Owns(v, j) /\ Owns(w, j) => v = w

\* A queued job is in the queue, and a paused or finished one is not: no job
\* is forgotten, and no finished one is claimed again.
QueueMatchesStatus ==
  \A j \in Jobs : /\ status[j] = "queued" => row[j] # "none"
                  /\ row[j] # "none" => status[j] \in {"queued", "running"}

\* A user has one active review, even when a worker's late write would make
\* it two.
OneActiveJob == Cardinality(ActiveJobs) <= 1

\* A review the user asked to stop is never delivered as a success.
StopIsHonoured == \A j \in Jobs : status[j] = "succeeded" => ~cancelRequested[j]

\* Stopping a queued or paused review, or finishing one, never asks
\* settle_reservations for more than it holds, which would raise and leave
\* the credits reserved.
SettlementFits ==
  \A j \in Jobs :
    captured[j] = Open /\ (\/ status[j] \in {"queued", "awaiting_input"}
                           \/ \E w \in Workers : at[w] = j /\ pc[w] \in {"answered", "asking", "stopped"})
      => usage[j] <= maximum[j]

\* A review that is finished has been settled, whoever finished it.  That no
\* credits are reserved for it afterwards is NothingReservedAfterSettlement.
FinishedIsSettled == \A j \in Jobs : status[j] \in Terminal => captured[j] # Open

Authorized == INSTANCE Authorization WITH
  Credits <- 1 .. MaxCredits, authorized <- maximum, outcome <- captured

\* Whatever workers, expiry and the user do to a job, it is charged at most
\* once, within what had been authorized.
ChargesAsAuthorized == Authorized!Spec

\* Every row of the queue is dealt with: its job is run, stopped or expired,
\* though workers crash.
QueueDrains == \A j \in Jobs : row[j] # "none" ~> row[j] = "none"

-----------------------------------------------------------------------------
(* Why it holds: the inductive invariant.                                  *)

\* Whatever a worker runs or expires has been enqueued.
WorkersHoldRealJobs ==
  \A w \in Workers :
    /\ pc[w] \notin {"idle", "sweeping"} => at[w] \in Jobs /\ status[at[w]] # "none"
    /\ \A j \in stale[w] : status[j] # "none"

\* A job does not wait, in the queue or for its user, while a worker has it.
OwnedIsStarted ==
  \A w \in Workers, j \in Jobs :
    Owns(w, j) => /\ row[j] # "waiting"
                  /\ status[j] \notin {"none", "awaiting_input"}
                  /\ status[j] = "queued" => pc[w] \in {"claimed", "starting"}

\* A job has a reservation from the moment it is enqueued, and no usage before.
EnqueuedIsReserved ==
  \A j \in Jobs : /\ status[j] = "none" <=> maximum[j] = 0
                  /\ status[j] = "none" => usage[j] = 0

ActiveIsUnique == \A i, j \in ActiveJobs : i = j

\* The reservation cannot grow under a worker that has started.
SeenIsCurrent ==
  \A w \in Workers : pc[w] \in {"starting", "working", "answered", "asking", "stopped"}
                       => seen[w].maximum = maximum[at[w]]

\* Usage exceeds the reservation of an unsettled job only on its way to fail.
AtRisk(j) ==
  /\ captured[j] = Open
  /\ \/ status[j] \in {"queued", "awaiting_input"}
     \/ \E w \in Workers : /\ at[w] = j
                           /\ pc[w] \in {"starting", "working", "answered", "asking", "stopped"}

UsageFits == \A j \in Jobs : AtRisk(j) => usage[j] <= maximum[j]

\* Everything the safety proofs need of a state; every step preserves it.
Inv ==
  /\ TypeOK /\ OneWorkerPerJob /\ QueueMatchesStatus /\ WorkersHoldRealJobs
  /\ OwnedIsStarted /\ EnqueuedIsReserved /\ ActiveIsUnique /\ SeenIsCurrent
  /\ UsageFits /\ StopIsHonoured /\ FinishedIsSettled

-----------------------------------------------------------------------------
(* What documents say of the program, and it does not do.                  *)

\* planning/README.md: `A stale worker cannot settle a completed or cancelled
\* job'.
TerminalIsFinal ==
  [][\A j \in Jobs : status[j] \in Terminal => status'[j] = status[j]]_vars

\* jobs.py, estimate: `unused credits are returned'.  A settled job, whose
\* settlement is never repeated, reserves nothing more.
NothingReservedAfterSettlement ==
  [][\A j \in Jobs : captured[j] # Open => maximum'[j] = maximum[j]]_vars

\* DEPLOYMENT.md: `abandoned running jobs refund after five minutes'.
AbandonedJobsEnd == \A j \in Jobs : status[j] = "running" ~> status[j] # "running"
=============================================================================
