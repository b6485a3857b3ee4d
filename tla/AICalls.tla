------------------------------ MODULE AICalls -------------------------------
(***************************************************************************)
(* The paid provider calls of one review (src/backend/ai_runtime.py) and   *)
(* the three nodes of the workflow that makes them (src/backend/ai.py).    *)
(*                                                                         *)
(* Module AIJobs sees the workflow as a step that adds usage.  Here it is  *)
(* opened: every checkpoint, every look at the job's status and every      *)
(* write of an ai_calls row is a transaction and an action of its own, and *)
(* the user, the expiry of another process and crashes come in between.    *)
(* Tokens are counted in units; the reservation allows Inputs and Outputs  *)
(* of them, and a call is not worth making for less than Floor.            *)
(***************************************************************************)
EXTENDS Integers, FiniteSets, Functions

CONSTANTS Inputs, Outputs,   \* the allowance of the reservation
          Floor,             \* 256 tokens of output, less than the answer is kept
          MaxRounds          \* bound: continuations after a clarification

VARIABLES
  \* the ai_jobs row; its usage is the sum over the ai_calls rows
  status, cancelRequested, revision, checkpoint,
  credits,       \* the calls the last settlement charged for
  queued,        \* the job_queue row: waiting, claimed or none
  calls,         \* the ai_calls rows, by key
  \* the worker process
  pc, state,     \* where it is, and the state its graph carries
  seen,          \* the revision its Runtime was made with
  attempt, identified, ceiling,     \* of the call it is making
  required,      \* _reasoning_required has the planner's model
  \* the provider
  opened,        \* the calls it has begun to answer, and will bill for
  late           \* those it began after the user had asked to stop

jobVars == <<status, cancelRequested, revision, checkpoint, credits, queued>>
callVars == <<attempt, identified, ceiling>>
providerVars == <<opened, late>>
vars == <<jobVars, calls, pc, state, seen, callVars, required, providerVars>>

Terminal == {"succeeded", "failed", "cancelled"}
Agents == {"coordinator", "writer"}
Keys == (0 .. MaxRounds + 1) \X Agents
Fresh == [node |-> "coordinate", counter |-> 0]
NoCall == [status |-> "none", ins |-> 0, outs |-> 0, ceiling |-> 0]

Agent == IF state.node = "coordinate" THEN "coordinator" ELSE "writer"
Key == <<state.counter, Agent>>

Recorded == {k \in Keys : calls[k].status \in {"completed", "incomplete"}}
Ins == [k \in Keys |-> calls[k].ins]
Outs == [k \in Keys |-> calls[k].outs]
Used == [ins |-> SumFunctionOnSet(Ins, Recorded), outs |-> SumFunctionOnSet(Outs, Recorded)]

Init ==
  /\ status = "queued" /\ cancelRequested = FALSE /\ revision = 0
  /\ checkpoint = Fresh
  /\ credits = {}
  /\ queued = "waiting"
  /\ calls = [k \in Keys |-> NoCall]
  /\ pc = "idle" /\ state = Fresh /\ seen = 0
  /\ attempt = 0 /\ identified = FALSE /\ ceiling = 0
  /\ required = FALSE
  /\ opened = {} /\ late = {}

-----------------------------------------------------------------------------
(* What the transactions look at.                                          *)

\* active(allow_stopping=True)
StillRunning == status = "running" /\ revision = seen

\* active and checkpoint
Permitted == StillRunning /\ ~cancelRequested

Go(step) == pc' = step
Quiet == UNCHANGED <<jobVars, calls, seen, callVars, required, providerVars>>

Settle(end, charged) ==
  /\ status' = end
  /\ credits' = charged
  /\ checkpoint' = Fresh
  /\ queued' = "none"
  /\ UNCHANGED <<cancelRequested, revision>>

-----------------------------------------------------------------------------
(* The user, and another process.                                          *)

\* cancel_job
Cancel ==
  /\ status \notin Terminal
  /\ IF status = "running"
     THEN /\ cancelRequested' = TRUE
          /\ UNCHANGED <<status, revision, checkpoint, credits, queued>>
     ELSE /\ status' = "cancelled" /\ credits' = Recorded /\ checkpoint' = Fresh
          /\ queued' = "none"
          /\ cancelRequested' = TRUE
          /\ UNCHANGED revision
  /\ UNCHANGED <<calls, pc, state, seen, callVars, required, providerVars>>

\* continue_job, with the answer to a clarification.
Continue ==
  /\ status = "awaiting_input"
  /\ revision < MaxRounds
  /\ status' = "queued"
  /\ revision' = revision + 1
  /\ checkpoint' = [checkpoint EXCEPT !.node = "coordinate"]
  /\ cancelRequested' = FALSE
  /\ queued' = "waiting"
  /\ UNCHANGED <<credits, calls, pc, state, seen, callVars, required, providerVars>>

\* expire_stale of another process finds the heartbeat old: this worker has
\* died or is stalled.
Expire ==
  /\ queued # "none"
  /\ status \notin Terminal
  /\ Settle("failed", {})
  /\ UNCHANGED <<calls, pc, state, seen, callVars, required, providerVars>>

-----------------------------------------------------------------------------
(* run_one: claim, the read of the job, the write of `running'.            *)

StartRead ==
  /\ pc = "idle" /\ queued = "waiting"
  /\ queued' = "claimed"
  /\ seen' = revision
  /\ state' = checkpoint
  /\ Go("starting")
  /\ UNCHANGED <<status, cancelRequested, revision, checkpoint, credits, calls, callVars,
                 required, providerVars>>

StartWrite ==
  /\ pc = "starting"
  /\ status' = "running"
  /\ Go("entering")
  /\ UNCHANGED <<cancelRequested, revision, checkpoint, credits, queued, calls, state, seen,
                 callVars, required, providerVars>>

\* A checkpoint that leads on, or stops the workflow.
Checkpoint(next) ==
  IF Permitted
  THEN /\ checkpoint' = state
       /\ Go(next)
       /\ UNCHANGED <<status, cancelRequested, revision, credits, queued>>
  ELSE Go("stopped") /\ UNCHANGED jobVars

\* guarded: the checkpoint before a node.
Enter ==
  /\ pc = "entering"
  /\ Checkpoint(IF state.node = "gather" THEN "gathering" ELSE "admitting")
  /\ UNCHANGED <<calls, state, seen, callVars, required, providerVars>>

\* gather reads the journal and calls nobody.
Gather ==
  /\ pc = "gathering"
  /\ state' = [state EXCEPT !.node = "write"]
  /\ Go("leaving")
  /\ Quiet

\* guarded: the checkpoint after a node.
Exit ==
  /\ pc = "leaving"
  /\ Checkpoint(IF state.node = "done" THEN "answered" ELSE "entering")
  /\ UNCHANGED <<calls, state, seen, callVars, required, providerVars>>

\* guarded: the checkpoint that keeps the counter of a workflow that asks.
Asked ==
  /\ pc = "asking"
  /\ Checkpoint("pausing")
  /\ UNCHANGED <<calls, state, seen, callVars, required, providerVars>>

-----------------------------------------------------------------------------
(* Runtime.call                                                            *)

\* Seeded fault: the planner may use all the output there is.
NoReserve == 0

\* The planner leaves three quarters of the output to the answer.
Reserve == IF Agent = "writer" THEN 0 ELSE (Outputs * 3) \div 4

Available == Outputs - Used.outs - Reserve

\* The lookup of a completed call, active, and the allowances.  The planner's
\* request holds the current time, so only a writer's can be found again.
Admit(estimate) ==
  /\ pc = "admitting"
  /\ IF calls[Key].status = "completed" /\ Agent = "writer" THEN Go("parsing") /\ UNCHANGED callVars
     ELSE IF ~Permitted THEN Go("stopped") /\ UNCHANGED callVars
     ELSE IF Used.ins + estimate > Inputs \/ Available < Floor
     THEN Go("failing") /\ UNCHANGED callVars
     ELSE /\ Go("checking")
          /\ attempt' = 0 /\ identified' = FALSE /\ ceiling' = Available
  /\ UNCHANGED <<jobVars, calls, state, seen, required, providerVars>>

\* prepare_call's own look at the job.
Check ==
  /\ pc = "checking"
  /\ Go(IF Permitted THEN "inserting" ELSE "stopped")
  /\ UNCHANGED state /\ Quiet

\* prepare_call's insertion, a transaction later.
Insert ==
  /\ pc = "inserting"
  /\ IF calls[Key] # NoCall THEN Go("failing") /\ UNCHANGED calls
     ELSE /\ calls' = [calls EXCEPT ![Key] = [NoCall EXCEPT !.status = "dispatched", !.ceiling = ceiling]]
          /\ Go("posting")
  /\ UNCHANGED <<jobVars, state, seen, callVars, required, providerVars>>

\* The provider refuses before it generates, as it cannot do without
\* reasoning: the only error after which the request is sent again.
Correct ==
  /\ pc = "posting" /\ attempt = 0
  /\ Agent = "coordinator" /\ ~required
  /\ attempt' = 1
  /\ required' = TRUE
  /\ UNCHANGED <<jobVars, calls, pc, state, seen, identified, ceiling, providerVars>>

\* It begins to answer.
Open ==
  /\ pc = "posting"
  /\ opened' = opened \cup {Key}
  /\ late' = IF cancelRequested THEN late \cup {Key} ELSE late
  /\ Go("streaming")
  /\ UNCHANGED <<jobVars, calls, state, seen, callVars, required>>

\* on_id, with the first chunk that names the generation.
Identify ==
  /\ pc = "streaming" /\ ~identified
  /\ identified' = TRUE
  /\ UNCHANGED <<jobVars, calls, pc, state, seen, attempt, ceiling, required, providerVars>>

\* Seeded fault: on_text stops for a request to stop.
AbandonStopping == ~Permitted

\* on_text gives up only a job that is no longer this worker's.
Abandon == ~StillRunning

Text ==
  /\ pc = "streaming" /\ Abandon
  /\ Go("stopped")
  /\ UNCHANGED state /\ Quiet

\* The stream ends; without a usage frame the receipt is asked for by the
\* generation's id, and without an id there is none.
End ==
  /\ pc = "streaming"
  /\ \/ Go("recording")
     \/ Go(IF identified THEN "fetching" ELSE "failing")
  /\ UNCHANGED state /\ Quiet

Fetch ==
  /\ pc = "fetching"
  /\ Go("recording")
  /\ UNCHANGED state /\ Quiet

\* record, and the two refusals that follow its commit.
Record(ins, outs, complete) ==
  /\ pc = "recording"
  /\ calls' = [calls EXCEPT ![Key].status = IF complete THEN "completed" ELSE "incomplete",
                            ![Key].ins = ins, ![Key].outs = outs]
  /\ Go(IF Used.ins + ins > Inputs \/ Used.outs + outs > Outputs \/ ~complete
        THEN "failing" ELSE "parsing")
  /\ UNCHANGED <<jobVars, state, seen, callVars, required, providerVars>>

\* What a node makes of its call's answer: the counter moves on.  What it
\* has asked for, in its prompt, is left out.
After(next, step) ==
  /\ pc = "parsing"
  /\ state' = [node |-> next, counter |-> state.counter + 1]
  /\ Go(step)
  /\ Quiet

\* coordinate: the user is asked, or the plan is carried out.
Coordinate(clarify, requests) ==
  /\ Agent = "coordinator"
  /\ IF clarify THEN After("coordinate", "asking")
     ELSE After(IF requests THEN "gather" ELSE "write", "leaving")

\* write: the answer is the result.
Write == Agent = "writer" /\ After("done", "leaving")

-----------------------------------------------------------------------------
(* How run_one ends.                                                       *)

\* An exception, the time limit or a shutdown, anywhere in the workflow.
Fail ==
  /\ pc \in {"gathering", "admitting", "posting", "streaming", "fetching", "parsing"}
  /\ Go("failing")
  /\ UNCHANGED state /\ Quiet

Return == /\ Go("idle")
          /\ state' = Fresh /\ seen' = 0
          /\ attempt' = 0 /\ identified' = FALSE /\ ceiling' = 0

\* finish with a result
FinishAnswer ==
  /\ pc = "answered"
  /\ IF status \in Terminal THEN UNCHANGED jobVars
     ELSE Settle(IF cancelRequested THEN "cancelled" ELSE "succeeded", Recorded)
  /\ Return
  /\ UNCHANGED <<calls, required, providerVars>>

\* finish with an error
FinishFailure ==
  /\ pc = "failing"
  /\ IF status \in Terminal THEN UNCHANGED jobVars ELSE Settle("failed", {})
  /\ Return
  /\ UNCHANGED <<calls, required, providerVars>>

\* finish_cancel
FinishStop ==
  /\ pc = "stopped"
  /\ IF status \in Terminal THEN UNCHANGED jobVars ELSE Settle("cancelled", Recorded)
  /\ Return
  /\ UNCHANGED <<calls, required, providerVars>>

\* pause_job, with the checkpoint just saved.
Pause ==
  /\ pc = "pausing"
  /\ IF ~StillRunning THEN UNCHANGED jobVars
     ELSE IF cancelRequested THEN Settle("cancelled", Recorded)
     ELSE /\ status' = "awaiting_input"
          /\ queued' = "none"
          /\ UNCHANGED <<cancelRequested, revision, checkpoint, credits>>
  /\ Return
  /\ UNCHANGED <<calls, required, providerVars>>

\* The process dies and another one starts.
Crash ==
  /\ pc # "idle"
  /\ Return
  /\ required' = FALSE
  /\ UNCHANGED <<jobVars, calls, providerVars>>

-----------------------------------------------------------------------------
\* A provider may count one unit more than was estimated or allowed.
Estimates == 1 .. Inputs
Receipt(i, o) == i \in 1 .. Inputs + 1 /\ o \in {1, ceiling, ceiling + 1}

Runtime ==
  \/ \E e \in Estimates : Admit(e)
  \/ Check \/ Insert
  \/ Correct \/ Open \/ Identify \/ Text \/ End \/ Fetch
  \/ \E i \in 1 .. Inputs + 1, o \in 1 .. Outputs + 1, c \in BOOLEAN : Receipt(i, o) /\ Record(i, o, c)

Workflow == \/ Enter \/ Gather \/ Exit \/ Asked
            \/ \E clarify, requests \in BOOLEAN : Coordinate(clarify, requests)
            \/ Write

Next == \/ Cancel \/ Continue \/ Expire
        \/ StartRead \/ StartWrite
        \/ Workflow \/ Runtime
        \/ Fail \/ FinishAnswer \/ FinishFailure \/ FinishStop \/ Pause \/ Crash

Spec == Init /\ [][Next]_vars
-----------------------------------------------------------------------------
(* What holds.                                                             *)

TypeOK ==
  /\ status \in {"queued", "running", "awaiting_input"} \cup Terminal
  /\ cancelRequested \in BOOLEAN /\ revision \in 0 .. MaxRounds
  /\ {checkpoint, state} \subseteq
       [node : {"coordinate", "gather", "write", "done"}, counter : 0 .. MaxRounds + 2]
  /\ queued \in {"waiting", "claimed", "none"}
  /\ calls \in [Keys -> [status : {"none", "dispatched", "completed", "incomplete"},
                         ins : Nat, outs : Nat, ceiling : Nat]]
  /\ seen \in 0 .. MaxRounds /\ attempt \in 0 .. 1
  /\ identified \in BOOLEAN /\ required \in BOOLEAN
  /\ {credits, opened, late} \subseteq SUBSET Keys

\* Every call the provider bills for is in the charge of a review that was
\* delivered or stopped: a stop lets the call in flight finish for its
\* receipt, and only a failure, which is refunded, leaves one out.
PaidIsCharged == status \in {"succeeded", "cancelled"} => opened \subseteq credits

\* However often a review pauses, crashes and goes on, it never comes to a
\* call whose row exists: no call is sent twice, and none is refused as
\* uncertain or changed.
CallsAreNew == pc \in {"admitting", "checking", "inserting"} => calls[Key] = NoCall

\* A stop lets through at most the one call that was being made.
OneCallAfterStop == Cardinality(late) <= 1

\* Unless the provider exceeded a call's ceiling, planning leaves the answer
\* enough output to be written, whatever the clarifications.
AnswerHasRoom ==
  pc = "admitting" /\ Agent = "writer" /\ (\A k \in Recorded : calls[k].outs <= calls[k].ceiling)
    => Available >= Floor

CallsAreSound == CallsAreNew /\ OneCallAfterStop /\ AnswerHasRoom
=============================================================================
