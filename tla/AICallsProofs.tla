--------------------------- MODULE AICallsProofs ----------------------------
(***************************************************************************)
(* What the provider bills for is charged, the calls of a review are       *)
(* sound, what a call is admitted with fits its bucket, and an answer      *)
(* rests on what was read: for any allowance, floor, number of             *)
(* continuations, plan, journal and context.                               *)
(*                                                                         *)
(* The invariant of the calls is Inv: where the worker may be in which     *)
(* status of the job (Lifecycle), which step of which round it is at       *)
(* (Placed), which rows there can be by then (Rows), which of the calls    *)
(* that the provider has begun to answer have their receipt (Paid), what a *)
(* stop let through (Stopped), and how much of the output planning may use *)
(* (Spare, Ceilings). That of an answer is EvidenceInv: the plan is bound  *)
(* to the number asked for (Planned), what has been read at which node of  *)
(* the graph (Gathered), and how many trades are chosen (Few).             *)
(***************************************************************************)
EXTENDS Services, SumTheorems, SequenceTheorems

-----------------------------------------------------------------------------
(* The paid calls.                                                         *)

\* What Runtime is made with: every bucket's output leaves room for an answer.
Bounds == /\ Inputs \in Nat /\ Outputs \in Nat /\ Floor \in Nat /\ MaxRounds \in Nat
          /\ Floor <= (Outputs * 3) \div 4

\* The sums and the sizes, of modules that Calls has instances of.
LEMMA CallsSum == \A f, S : Calls!SumFunctionOnSet(f, S) = SumFunctionOnSet(f, S)
  BY DEF Calls!SumFunctionOnSet, Calls!FoldFunctionOnSet, Calls!MapThenFoldSet,
         SumFunctionOnSet, FoldFunctionOnSet, MapThenFoldSet

\* ... and the size of a set.
LEMMA CallsCardinality == \A S : Calls!Cardinality(S) = Cardinality(S)
  BY DEF Calls!Cardinality, Cardinality

\* The provider's receipt is written down, whatever it says was used.
Recording == \E i \in 1 .. Inputs + 1, o \in 1 .. Outputs + 1, c \in BOOLEAN :
               Calls!Receipt(i, o) /\ Calls!Record(i, o, c)

\* Where a job can wait, and where a call can be.
Waiting == {"queued", "awaiting_input"}
Calling == {"posting", "streaming", "fetching", "recording", "parsing"}
AtProvider == {"streaming", "fetching", "recording"}

\* No other process and no user gives a job that a worker has begun another
\* status than `failed'; StartWrite overwrites what they did before it.
Lifecycle ==
  /\ pc \notin {"idle", "starting"} => status \in {"running", "failed"}
  /\ pc = "starting" => status \in {"queued", "cancelled", "failed"} /\ queued # "waiting"
  /\ pc # "idle" => seen = revision
  /\ status = "awaiting_input" => pc = "idle"
  /\ queued = "waiting" => status = "queued" /\ pc = "idle"
  /\ status \in Waiting => ~cancelRequested

\* The counter is the round's at the planner, and one more after each call.
Placed ==
  /\ pc \notin {"idle", "asking", "pausing", "failing", "stopped"} =>
       state.counter = seen + (IF state.node = "coordinate" THEN 0 ELSE
                               IF state.node = "done" THEN 2 ELSE 1)
  /\ pc \in {"asking", "pausing"} => state = [node |-> "coordinate", counter |-> seen + 1]
  /\ pc = "starting" => state.node = "coordinate"
  /\ pc \in {"entering", "gathering", "admitting", "checking", "inserting"} \cup Calling =>
       state.node # "done"
  /\ pc \in {"admitting", "checking", "inserting"} \cup Calling => state.node # "gather"
  /\ pc = "gathering" => state.node = "gather"
  /\ pc = "leaving" => state.node # "coordinate"
  /\ pc = "pausing" /\ status = "running" => checkpoint = state
  /\ status = "queued" => checkpoint = [node |-> "coordinate", counter |-> revision]
  /\ status = "awaiting_input" => checkpoint = [node |-> "coordinate", counter |-> revision + 1]

\* Row k is a planner's, of an earlier call than number n.
Prior(k, n) == k[1] < n /\ k[2] = "coordinator"
Kept(k) == calls[k] # Calls!NoCall

\* Until the answer is being written the rows are those of earlier planners.
Rows ==
  /\ pc \in {"starting", "entering", "gathering", "admitting", "checking", "inserting",
             "asking", "pausing"} => \A k \in Calls!Keys : Kept(k) => Prior(k, state.counter)
  /\ pc = "leaving" /\ state.node # "done"
       => \A k \in Calls!Keys : Kept(k) => Prior(k, state.counter)
  /\ pc \in Calling => \A k \in Calls!Keys : Kept(k) => k = Calls!Key \/ Prior(k, state.counter)
  /\ status \in Waiting => \A k \in Calls!Keys : Kept(k) => Prior(k, checkpoint.counter)

\* A call without its receipt is in flight, or the job fails or has failed.
Paid ==
  /\ pc \in AtProvider => opened \subseteq Calls!Recorded \cup {Calls!Key}
  /\ pc \notin AtProvider \cup {"idle", "failing", "stopped"} => opened \subseteq Calls!Recorded
  /\ pc = "stopped" => opened \subseteq Calls!Recorded \/ status = "failed"
  /\ pc = "idle" /\ status \in Waiting => opened \subseteq Calls!Recorded
  /\ Calls!PaidIsCharged

\* Whoever was let through on the way of a stop is stopped at the next
\* checkpoint.
Stopped ==
  \/ late = {}
  \/ /\ \E k \in Calls!Keys : late = {k}
     /\ cancelRequested
     /\ pc \in AtProvider \cup {"parsing", "leaving", "asking", "failing", "stopped", "idle"}

\* What the answer is to have.
Answer == (Outputs * 3) \div 4

\* Planners within their ceilings leave that much.
Spare ==
  (\A k \in Calls!Recorded : k[2] = "coordinator" /\ calls[k].outs <= calls[k].ceiling)
    => Calls!Used.outs <= Outputs - Answer

\* A ceiling is what is available, from the call's admission to its receipt.
Ceilings ==
  /\ pc \in {"checking", "inserting"} => ceiling = Calls!Available /\ ceiling >= Floor
  /\ pc \in AtProvider \cup {"posting"} =>
       calls[Calls!Key].status = "dispatched" /\ calls[Calls!Key].ceiling = Calls!Available

Inv == Calls!TypeOK /\ Lifecycle /\ Placed /\ Rows /\ Paid /\ Stopped /\ Spare /\ Ceilings
-----------------------------------------------------------------------------
(* Types, and where the worker is.                                         *)

Places == [node : {"coordinate", "gather", "write", "done"}, counter : 0 .. MaxRounds + 2]

\* What a settlement writes.
LEMMA SettledTypes ==
  ASSUME Bounds
  PROVE  /\ Calls!Fresh \in Places /\ 0 \in 0 .. MaxRounds /\ 0 \in 0 .. 1
         /\ Calls!Recorded \in SUBSET Calls!Keys /\ {} \in SUBSET Calls!Keys
  BY DEF Bounds, Calls!Fresh, Places, Calls!Recorded

\* The call that is being made has a key.
LEMMA KeyIsKey ==
  ASSUME Bounds, Calls!TypeOK, Lifecycle, Placed,
         pc \in {"admitting", "checking", "inserting"} \cup Calling
  PROVE  /\ Calls!Key \in Calls!Keys /\ Calls!Agent \in Calls!Agents /\ state.counter \in Nat
         /\ Calls!Key[1] = state.counter /\ Calls!Key[2] = Calls!Agent
<1>1. state.counter \in 0 .. MaxRounds + 1 /\ pc # "idle"
  BY DEF Bounds, Calls!TypeOK, Placed, Calling
<1>2. Calls!Agent \in Calls!Agents
  BY DEF Calls!Agent, Calls!Agents
<1>. QED BY <1>1, <1>2 DEF Calls!Key, Calls!Keys

\* What has been used is a number, and so is what is left.
LEMMA UsedType ==
  ASSUME Bounds, Calls!TypeOK
  PROVE  /\ Calls!Used.ins \in Int /\ Calls!Used.outs \in Int /\ Calls!Available \in Int
         /\ IsFiniteSet(Calls!Recorded)
         /\ \A k \in Calls!Recorded : Calls!Outs[k] = calls[k].outs /\ Calls!Outs[k] \in Nat
<1>1. IsFiniteSet(Calls!Keys)
  <2>1. IsFiniteSet(0 .. MaxRounds + 1) /\ IsFiniteSet(Calls!Agents)
    <3>1. Calls!Agents = {"coordinator"} \cup {"writer"}
      BY DEF Calls!Agents
    <3>2. IsFiniteSet({"coordinator"} \cup {"writer"})
      BY FS_Union, FS_Singleton
    <3>. QED BY <3>1, <3>2, FS_Interval DEF Bounds
  <2>. QED BY <2>1, FS_Product DEF Calls!Keys
<1>2. Calls!Recorded \in SUBSET Calls!Keys
  BY DEF Calls!Recorded
<1>3. IsFiniteSet(Calls!Recorded)
  BY <1>1, <1>2, FS_Subset
<1>4. \A k \in Calls!Recorded : /\ Calls!Outs[k] = calls[k].outs /\ Calls!Outs[k] \in Nat
                        /\ Calls!Ins[k] = calls[k].ins /\ Calls!Ins[k] \in Nat
  BY <1>2 DEF Calls!Outs, Calls!Ins, Calls!TypeOK
<1> DEFINE f == Calls!Ins
           g == Calls!Outs
           S == Calls!Recorded
<1>5. SumFunctionOnSet(f, S) \in Int /\ SumFunctionOnSet(g, S) \in Int
  <2>1. (\A k \in S : f[k] \in Int) /\ (\A k \in S : g[k] \in Int)
    BY <1>4
  <2> HIDE DEF f, g, S
  <2>. QED BY <1>3, <2>1, SumType DEF S
<1>6. Calls!Used.ins \in Int /\ Calls!Used.outs \in Int
  BY <1>5, CallsSum DEF Calls!Used
<1>7. Calls!Available \in Int
  BY <1>6 DEF Calls!Available, Calls!Reserve, Bounds
<1>. QED BY <1>3, <1>4, <1>6, <1>7

\* Every step keeps the types.
LEMMA NextTyped ==
  ASSUME Bounds, Inv, [Calls!Next]_(Calls!vars)
  PROVE  Calls!TypeOK'
<1>1. CASE Calls!Cancel
  BY <1>1, SettledTypes, KeyIsKey DEF Calls!Cancel, Calls!TypeOK, Lifecycle, Placed, Bounds,
     Places, Calling, Calls!Terminal, Calls!callVars, Calls!providerVars, Waiting, Inv
<1>2. CASE Calls!Continue
  <2>1. revision' = revision + 1 /\ revision < MaxRounds /\ revision \in 0 .. MaxRounds
    BY <1>2 DEF Calls!Continue, Inv, Calls!TypeOK
  <2>2. revision' \in 0 .. MaxRounds
    BY <2>1 DEF Bounds
  <2>3. [checkpoint EXCEPT !.node = "coordinate"] \in Places
    BY DEF Inv, Calls!TypeOK, Places
  <2>. QED BY <1>2, <2>2, <2>3 DEF Calls!Continue, Inv, Calls!TypeOK, Calls!callVars,
              Calls!providerVars, Places
<1>3. CASE Calls!Expire
  BY <1>3, SettledTypes, KeyIsKey DEF Calls!Expire, Calls!TypeOK, Lifecycle, Placed, Bounds,
     Places, Calling, Calls!Settle, Calls!Terminal, Calls!callVars, Calls!providerVars, Waiting,
     Inv
<1>4. CASE Calls!StartRead \/ Calls!StartWrite
  BY <1>4, SettledTypes, KeyIsKey DEF Calls!StartRead, Calls!StartWrite, Calls!TypeOK,
     Lifecycle, Placed, Bounds, Places, Calling, Calls!Go, Calls!callVars, Calls!providerVars,
     Calls!Terminal, Waiting, Inv
<1>5. CASE Calls!Enter \/ Calls!Exit \/ Calls!Asked
  BY <1>5, SettledTypes, KeyIsKey DEF Calls!Enter, Calls!Exit, Calls!Asked, Calls!TypeOK,
     Lifecycle, Placed, Bounds, Places, Calling, Calls!Checkpoint, Calls!callVars,
     Calls!providerVars, Calls!Terminal, Waiting, Calls!Go, Calls!Permitted, Calls!jobVars,
     Calls!StillRunning, Inv
<1>6. CASE Calls!Gather \/ Calls!Check \/ Calls!Text \/ Calls!End \/ Calls!Fetch \/ Calls!Fail
  BY <1>6, SettledTypes, KeyIsKey DEF Calls!Gather, Calls!Check, Calls!Text, Calls!End,
     Calls!Fetch, Calls!Fail, Calls!TypeOK, Lifecycle, Placed, Bounds, Places, Calling,
     Calls!Go, Calls!Quiet, Calls!Permitted, Calls!Abandon, Calls!Terminal, Waiting,
     Calls!callVars, Calls!jobVars, Calls!providerVars, Calls!StillRunning, Inv
<1>7. CASE \E clarify, requests \in BOOLEAN : Calls!Coordinate(clarify, requests)
  BY <1>7, SettledTypes, KeyIsKey DEF Calls!Coordinate, Calls!TypeOK, Lifecycle, Placed, Bounds,
     Places, Calling, Calls!After, Calls!Agent, Calls!Terminal, Waiting, Calls!Go, Calls!Quiet,
     Calls!callVars, Calls!jobVars, Calls!providerVars, Inv
<1>8. CASE Calls!Write
  BY <1>8, SettledTypes, KeyIsKey DEF Calls!Write, Calls!TypeOK, Lifecycle, Placed, Bounds,
     Places, Calling, Calls!After, Calls!Agent, Calls!Terminal, Waiting, Calls!Go, Calls!Quiet,
     Calls!callVars, Calls!jobVars, Calls!providerVars, Inv
<1>9. CASE \E e \in Calls!Estimates : Calls!Admit(e)
  BY <1>9, SettledTypes, KeyIsKey, UsedType DEF Calls!Admit, Calls!TypeOK, Lifecycle, Placed,
     Bounds, Places, Calling, Calls!Agent, Calls!Go, Calls!Permitted, Calls!callVars,
     Calls!jobVars, Calls!providerVars, Calls!Terminal, Waiting, Calls!StillRunning, Inv
<1>10. CASE Calls!Insert
  <2>1. calls' = calls \/ calls' = [calls EXCEPT ![Calls!Key] =
                                     [Calls!NoCall EXCEPT !.status = "dispatched",
                                      !.ceiling = ceiling]]
    BY <1>10 DEF Calls!Insert
  <2>2. ceiling \in Nat
    BY <1>10, UsedType DEF Calls!Insert, Inv, Ceilings, Bounds
  <2>3. [Calls!NoCall EXCEPT !.status = "dispatched", !.ceiling = ceiling] \in
          [status : {"none", "dispatched", "completed", "incomplete"},
           ins : Nat, outs : Nat, ceiling : Nat]
    BY <2>2 DEF Calls!NoCall
  <2>. QED BY <1>10, <2>1, <2>3 DEF Calls!Insert, Inv, Calls!TypeOK, Calls!Go, Calls!jobVars,
              Calls!callVars, Calls!providerVars
<1>11. CASE Calls!Open
  BY <1>11, SettledTypes, KeyIsKey DEF Calls!Open, Calls!TypeOK, Lifecycle, Placed, Bounds,
     Places, Calling, Calls!Go, Calls!callVars, Calls!jobVars, Calls!Terminal, Waiting, Inv
<1>12. CASE Recording
  BY <1>12, SettledTypes, KeyIsKey, UsedType DEF Calls!Record, Recording, Calls!TypeOK,
     Lifecycle, Placed, Bounds, Places, Calling, Calls!Go, Calls!callVars, Calls!jobVars,
     Calls!providerVars, Calls!Terminal, Waiting, Inv
<1>13. CASE Calls!FinishAnswer \/ Calls!FinishFailure \/ Calls!FinishStop \/ Calls!Pause
  BY <1>13, SettledTypes, KeyIsKey DEF Calls!FinishAnswer, Calls!FinishFailure,
     Calls!FinishStop, Calls!Pause, Calls!TypeOK, Lifecycle, Placed, Bounds, Places, Calling,
     Calls!Return, Calls!Settle, Calls!Terminal, Calls!jobVars, Calls!providerVars,
     Calls!StillRunning, Waiting, Calls!Go, Inv
<1>14. CASE Calls!Crash
  BY <1>14, SettledTypes, KeyIsKey DEF Calls!Crash, Calls!TypeOK, Lifecycle, Placed, Bounds,
     Places, Calling, Calls!Return, Calls!jobVars, Calls!providerVars, Calls!Terminal, Waiting,
     Calls!Go, Inv
<1>15. CASE Calls!Correct \/ Calls!Identify
  <2>1. CASE Calls!Correct
    BY <1>15, <2>1 DEF Calls!Correct, Inv, Calls!TypeOK, Calls!jobVars, Calls!providerVars
  <2>2. CASE Calls!Identify
    BY <1>15, <2>2 DEF Calls!Identify, Inv, Calls!TypeOK, Calls!jobVars, Calls!providerVars
  <2>. QED BY <1>15, <2>1, <2>2
<1>16. CASE UNCHANGED Calls!vars
  BY <1>16, SettledTypes, KeyIsKey DEF Calls!vars, Calls!TypeOK, Lifecycle, Placed, Bounds,
     Places, Calling, Calls!callVars, Calls!jobVars, Calls!providerVars, Calls!Terminal,
     Waiting, Inv
<1>. QED BY <1>1, <1>2, <1>3, <1>4, <1>5, <1>6, <1>7, <1>8, <1>9, <1>10, <1>11, <1>12, <1>13,
            <1>14, <1>15, <1>16 DEF Calls!Next, Calls!Workflow, Calls!Runtime, Recording

\* Every step keeps worker and status together.
LEMMA NextLifecycle ==
  ASSUME Bounds, Inv, [Calls!Next]_(Calls!vars)
  PROVE  Lifecycle'
<1>1. CASE Calls!Cancel
  BY <1>1 DEF Calls!Cancel, Lifecycle, Calls!Terminal, Calls!callVars, Calls!providerVars,
     Waiting, Inv
<1>2. CASE Calls!Continue
  BY <1>2 DEF Calls!Continue, Lifecycle, Calls!callVars, Calls!providerVars, Waiting, Inv
<1>3. CASE Calls!Expire
  BY <1>3 DEF Calls!Expire, Lifecycle, Calls!Settle, Calls!Terminal, Calls!callVars,
     Calls!providerVars, Waiting, Inv
<1>4. CASE Calls!StartRead \/ Calls!StartWrite
  BY <1>4 DEF Calls!StartRead, Calls!StartWrite, Lifecycle, Calls!Go, Calls!callVars,
     Calls!providerVars, Waiting, Inv
<1>5. CASE Calls!Enter \/ Calls!Exit \/ Calls!Asked
  BY <1>5 DEF Calls!Enter, Calls!Exit, Calls!Asked, Lifecycle, Calls!Checkpoint, Calls!callVars,
     Calls!providerVars, Waiting, Calls!Go, Calls!Permitted, Calls!jobVars, Calls!StillRunning,
     Inv
<1>6. CASE Calls!Gather \/ Calls!Check \/ Calls!Text \/ Calls!End \/ Calls!Fetch \/ Calls!Fail
  BY <1>6 DEF Calls!Gather, Calls!Check, Calls!Text, Calls!End, Calls!Fetch, Calls!Fail,
     Lifecycle, Calls!Go, Calls!Quiet, Calls!Permitted, Calls!Abandon, Waiting, Calls!callVars,
     Calls!jobVars, Calls!providerVars, Calls!StillRunning, Inv
<1>7. CASE \E clarify, requests \in BOOLEAN : Calls!Coordinate(clarify, requests)
  BY <1>7 DEF Calls!Coordinate, Lifecycle, Calls!After, Calls!Agent, Waiting, Calls!Go,
     Calls!Quiet, Calls!callVars, Calls!jobVars, Calls!providerVars, Inv
<1>8. CASE Calls!Write
  BY <1>8 DEF Calls!Write, Lifecycle, Calls!After, Calls!Agent, Waiting, Calls!Go, Calls!Quiet,
     Calls!callVars, Calls!jobVars, Calls!providerVars, Inv
<1>9. CASE \E e \in Calls!Estimates : Calls!Admit(e)
  BY <1>9 DEF Calls!Admit, Lifecycle, Calls!Agent, Calls!Go, Calls!Permitted, Calls!callVars,
     Calls!jobVars, Calls!providerVars, Waiting, Calls!StillRunning, Inv
<1>10. CASE Calls!Insert
  BY <1>10 DEF Calls!Insert, Lifecycle, Calls!Go, Calls!callVars, Calls!jobVars,
     Calls!providerVars, Waiting, Inv
<1>11. CASE Calls!Open
  BY <1>11 DEF Calls!Open, Lifecycle, Calls!Go, Calls!callVars, Calls!jobVars, Waiting, Inv
<1>12. CASE Recording
  BY <1>12 DEF Calls!Record, Recording, Lifecycle, Calls!Go, Calls!callVars, Calls!jobVars,
     Calls!providerVars, Waiting, Inv
<1>13. CASE Calls!FinishAnswer \/ Calls!FinishFailure \/ Calls!FinishStop \/ Calls!Pause
  BY <1>13 DEF Calls!FinishAnswer, Calls!FinishFailure, Calls!FinishStop, Calls!Pause,
     Lifecycle, Calls!Return, Calls!Settle, Calls!Terminal, Calls!jobVars, Calls!providerVars,
     Calls!StillRunning, Waiting, Calls!Go, Inv
<1>14. CASE Calls!Crash
  BY <1>14 DEF Calls!Crash, Lifecycle, Calls!Return, Calls!jobVars, Calls!providerVars, Waiting,
     Calls!Go, Inv
<1>15. CASE Calls!Correct \/ Calls!Identify
  BY <1>15 DEF Calls!Correct, Calls!Identify, Lifecycle, Calls!Agent, Calls!jobVars,
     Calls!providerVars, Waiting, Inv
<1>16. CASE UNCHANGED Calls!vars
  BY <1>16 DEF Calls!vars, Lifecycle, Calls!callVars, Calls!jobVars, Calls!providerVars,
     Waiting, Inv
<1>. QED BY <1>1, <1>2, <1>3, <1>4, <1>5, <1>6, <1>7, <1>8, <1>9, <1>10, <1>11, <1>12, <1>13,
            <1>14, <1>15, <1>16 DEF Calls!Next, Calls!Workflow, Calls!Runtime, Recording

\* Every step keeps the round and the node.
LEMMA NextPlaced ==
  ASSUME Bounds, Inv, [Calls!Next]_(Calls!vars)
  PROVE  Placed'
<1>1. CASE Calls!Cancel
  BY <1>1 DEF Calls!Cancel, Placed, Calls!TypeOK, Lifecycle, Bounds, Calls!Fresh,
     Calls!Terminal, Calls!callVars, Calls!providerVars, Calling, Waiting, Inv
<1>2. CASE Calls!Continue
  BY <1>2 DEF Calls!Continue, Placed, Calls!TypeOK, Lifecycle, Bounds, Calls!Fresh,
     Calls!callVars, Calls!providerVars, Calling, Calls!Terminal, Waiting, Inv
<1>3. CASE Calls!Expire
  BY <1>3 DEF Calls!Expire, Placed, Calls!TypeOK, Lifecycle, Bounds, Calls!Fresh, Calls!Settle,
     Calls!Terminal, Calls!callVars, Calls!providerVars, Calling, Waiting, Inv
<1>4. CASE Calls!StartRead \/ Calls!StartWrite
  BY <1>4 DEF Calls!StartRead, Calls!StartWrite, Placed, Calls!TypeOK, Lifecycle, Bounds,
     Calls!Fresh, Calls!Go, Calls!callVars, Calls!providerVars, Calling, Calls!Terminal,
     Waiting, Inv
<1>5. CASE Calls!Enter \/ Calls!Exit \/ Calls!Asked
  BY <1>5 DEF Calls!Enter, Calls!Exit, Calls!Asked, Placed, Calls!TypeOK, Lifecycle, Bounds,
     Calls!Fresh, Calls!Checkpoint, Calls!callVars, Calls!providerVars, Calling, Calls!Terminal,
     Waiting, Calls!Go, Calls!Permitted, Calls!jobVars, Calls!StillRunning, Inv
<1>6. CASE Calls!Gather \/ Calls!Check \/ Calls!Text \/ Calls!End \/ Calls!Fetch \/ Calls!Fail
  BY <1>6 DEF Calls!Gather, Calls!Check, Calls!Text, Calls!End, Calls!Fetch, Calls!Fail, Placed,
     Calls!TypeOK, Lifecycle, Bounds, Calls!Fresh, Calls!Go, Calls!Quiet, Calls!Permitted,
     Calls!Abandon, Calling, Calls!Terminal, Waiting, Calls!callVars, Calls!jobVars,
     Calls!providerVars, Calls!StillRunning, Inv
<1>7. CASE \E clarify, requests \in BOOLEAN : Calls!Coordinate(clarify, requests)
  BY <1>7 DEF Calls!Coordinate, Placed, Calls!TypeOK, Lifecycle, Bounds, Calls!Fresh,
     Calls!After, Calls!Agent, Calling, Calls!Terminal, Waiting, Calls!Go, Calls!Quiet,
     Calls!callVars, Calls!jobVars, Calls!providerVars, Inv
<1>8. CASE Calls!Write
  BY <1>8 DEF Calls!Write, Placed, Calls!TypeOK, Lifecycle, Bounds, Calls!Fresh, Calls!After,
     Calls!Agent, Calling, Calls!Terminal, Waiting, Calls!Go, Calls!Quiet, Calls!callVars,
     Calls!jobVars, Calls!providerVars, Inv
<1>9. CASE \E e \in Calls!Estimates : Calls!Admit(e)
  BY <1>9 DEF Calls!Admit, Placed, Calls!TypeOK, Lifecycle, Bounds, Calls!Fresh, Calls!Agent,
     Calls!Go, Calls!Permitted, Calls!callVars, Calls!jobVars, Calls!providerVars, Calling,
     Calls!Terminal, Waiting, Calls!StillRunning, Inv
<1>10. CASE Calls!Insert
  BY <1>10 DEF Calls!Insert, Placed, Calls!TypeOK, Lifecycle, Bounds, Calls!Fresh, Calls!Go,
     Calls!callVars, Calls!jobVars, Calls!providerVars, Calling, Calls!Terminal, Waiting, Inv
<1>11. CASE Calls!Open
  BY <1>11 DEF Calls!Open, Placed, Calls!TypeOK, Lifecycle, Bounds, Calls!Fresh, Calls!Go,
     Calls!callVars, Calls!jobVars, Calling, Calls!Terminal, Waiting, Inv
<1>12. CASE Recording
  BY <1>12 DEF Calls!Record, Recording, Placed, Calls!TypeOK, Lifecycle, Bounds, Calls!Fresh,
     Calls!Go, Calls!callVars, Calls!jobVars, Calls!providerVars, Calling, Calls!Terminal,
     Waiting, Inv
<1>13. CASE Calls!FinishAnswer \/ Calls!FinishFailure \/ Calls!FinishStop \/ Calls!Pause
  BY <1>13 DEF Calls!FinishAnswer, Calls!FinishFailure, Calls!FinishStop, Calls!Pause, Placed,
     Calls!TypeOK, Lifecycle, Bounds, Calls!Fresh, Calls!Return, Calls!Settle, Calls!Terminal,
     Calls!jobVars, Calls!providerVars, Calls!StillRunning, Calling, Waiting, Calls!Go, Inv
<1>14. CASE Calls!Crash
  BY <1>14 DEF Calls!Crash, Placed, Calls!TypeOK, Lifecycle, Bounds, Calls!Fresh, Calls!Return,
     Calls!jobVars, Calls!providerVars, Calling, Calls!Terminal, Waiting, Calls!Go, Inv
<1>15. CASE Calls!Correct \/ Calls!Identify
  BY <1>15 DEF Calls!Correct, Calls!Identify, Placed, Calls!TypeOK, Lifecycle, Bounds,
     Calls!Fresh, Calls!Agent, Calls!jobVars, Calls!providerVars, Calling, Calls!Terminal,
     Waiting, Inv
<1>16. CASE UNCHANGED Calls!vars
  BY <1>16 DEF Calls!vars, Placed, Calls!TypeOK, Lifecycle, Bounds, Calls!Fresh, Calls!callVars,
     Calls!jobVars, Calls!providerVars, Calling, Calls!Terminal, Waiting, Inv
<1>. QED BY <1>1, <1>2, <1>3, <1>4, <1>5, <1>6, <1>7, <1>8, <1>9, <1>10, <1>11, <1>12, <1>13,
            <1>14, <1>15, <1>16 DEF Calls!Next, Calls!Workflow, Calls!Runtime, Recording

-----------------------------------------------------------------------------
(* What the steps do to the rows.                                          *)

\* The planner is asked before the writer, under a counter that only grows.
LEMMA NextRows ==
  ASSUME Bounds, Inv, [Calls!Next]_(Calls!vars)
  PROVE  Rows'
<1>1. CASE Calls!Cancel
  BY <1>1, KeyIsKey DEF Calls!Cancel, Rows, Lifecycle, Placed, Kept, Prior, Calls!Key,
     Calls!Fresh, Calls!NoCall, Calling, Calls!Terminal, Calls!callVars, Calls!providerVars,
     Waiting, Calls!Agent, Inv
<1>2. CASE Calls!Continue
  BY <1>2, KeyIsKey DEF Calls!Continue, Rows, Lifecycle, Placed, Kept, Prior, Calls!Key,
     Calls!Fresh, Calls!NoCall, Calling, Calls!callVars, Calls!providerVars, Waiting,
     Calls!Agent, Inv
<1>3. CASE Calls!Expire
  BY <1>3, KeyIsKey DEF Calls!Expire, Rows, Lifecycle, Placed, Kept, Prior, Calls!Key,
     Calls!Fresh, Calls!NoCall, Calling, Calls!Settle, Calls!Terminal, Calls!callVars,
     Calls!providerVars, Waiting, Calls!Agent, Inv
<1>4. CASE Calls!StartRead \/ Calls!StartWrite
  BY <1>4, KeyIsKey DEF Calls!StartRead, Calls!StartWrite, Rows, Lifecycle, Placed, Kept, Prior,
     Calls!Key, Calls!Fresh, Calls!NoCall, Calling, Calls!Go, Calls!callVars,
     Calls!providerVars, Waiting, Calls!Agent, Inv
<1>5. CASE Calls!Enter \/ Calls!Exit \/ Calls!Asked
  BY <1>5, KeyIsKey DEF Calls!Enter, Calls!Exit, Calls!Asked, Rows, Lifecycle, Placed, Kept,
     Prior, Calls!Key, Calls!Fresh, Calls!NoCall, Calling, Calls!Checkpoint, Calls!callVars,
     Calls!providerVars, Waiting, Calls!Agent, Calls!Go, Calls!Permitted, Calls!jobVars,
     Calls!StillRunning, Inv
<1>6. CASE Calls!Gather \/ Calls!Check \/ Calls!Text \/ Calls!End \/ Calls!Fetch \/ Calls!Fail
  BY <1>6, KeyIsKey DEF Calls!Gather, Calls!Check, Calls!Text, Calls!End, Calls!Fetch,
     Calls!Fail, Rows, Lifecycle, Placed, Kept, Prior, Calls!Key, Calls!Fresh, Calls!NoCall,
     Calling, Calls!Go, Calls!Quiet, Calls!Permitted, Calls!Abandon, Waiting, Calls!Agent,
     Calls!callVars, Calls!jobVars, Calls!providerVars, Calls!StillRunning, Inv, Calls!TypeOK
<1>7. CASE \E clarify, requests \in BOOLEAN : Calls!Coordinate(clarify, requests)
  <2>1. PICK clarify, requests \in BOOLEAN : Calls!Coordinate(clarify, requests)
    BY <1>7
  <2>2. /\ \A k \in Calls!Keys : Kept(k) => k = Calls!Key \/ Prior(k, state.counter)
        /\ Calls!Key[1] = state.counter /\ Calls!Key[2] = "coordinator" /\ state.counter \in Nat
        /\ state'.counter = state.counter + 1 /\ calls' = calls /\ status' = status
        /\ checkpoint' = checkpoint /\ pc' \in {"asking", "leaving"}
    BY <2>1, KeyIsKey DEF Calls!Coordinate, Calls!After, Calls!Go, Calls!Quiet, Calls!jobVars,
       Inv, Rows, Calling
  <2>3. \A k \in Calls!Keys : Kept(k) => Prior(k, state.counter + 1)
    <3>1. \A k \in Calls!Keys : k[1] \in Nat
      BY DEF Calls!Keys, Bounds
    <3>. QED BY <2>2, <3>1 DEF Prior
  <2>. QED BY <2>2, <2>3 DEF Inv, Rows, Kept, Prior, Calling, Waiting
<1>8. CASE Calls!Write
  BY <1>8, KeyIsKey DEF Calls!Write, Rows, Lifecycle, Placed, Kept, Prior, Calls!Key,
     Calls!Fresh, Calls!NoCall, Calling, Calls!After, Calls!Agent, Waiting, Calls!Go,
     Calls!Quiet, Calls!callVars, Calls!jobVars, Calls!providerVars, Inv
<1>9. CASE \E e \in Calls!Estimates : Calls!Admit(e)
  BY <1>9, KeyIsKey DEF Calls!Admit, Rows, Lifecycle, Placed, Kept, Prior, Calls!Key,
     Calls!Fresh, Calls!NoCall, Calling, Calls!Agent, Calls!Go, Calls!Permitted, Calls!callVars,
     Calls!jobVars, Calls!providerVars, Waiting, Calls!StillRunning, Inv
<1>10. CASE Calls!Insert
  BY <1>10, KeyIsKey DEF Calls!Insert, Rows, Lifecycle, Placed, Kept, Prior, Calls!Key,
     Calls!Fresh, Calls!NoCall, Calling, Calls!Go, Calls!callVars, Calls!jobVars,
     Calls!providerVars, Waiting, Calls!Agent, Inv, Calls!TypeOK
<1>11. CASE Calls!Open
  BY <1>11, KeyIsKey DEF Calls!Open, Rows, Lifecycle, Placed, Kept, Prior, Calls!Key,
     Calls!Fresh, Calls!NoCall, Calling, Calls!Go, Calls!callVars, Calls!jobVars, Waiting,
     Calls!Agent, Inv
<1>12. CASE Recording
  BY <1>12, KeyIsKey DEF Calls!Record, Recording, Rows, Lifecycle, Placed, Kept, Prior,
     Calls!Key, Calls!Fresh, Calls!NoCall, Calling, Calls!Go, Calls!callVars, Calls!jobVars,
     Calls!providerVars, Waiting, Calls!Agent, Inv, Calls!TypeOK
<1>13. CASE Calls!FinishAnswer \/ Calls!FinishFailure \/ Calls!FinishStop \/ Calls!Pause
  BY <1>13, KeyIsKey DEF Calls!FinishAnswer, Calls!FinishFailure, Calls!FinishStop, Calls!Pause,
     Rows, Lifecycle, Placed, Kept, Prior, Calls!Key, Calls!Fresh, Calls!NoCall, Calling,
     Calls!Return, Calls!Settle, Calls!Terminal, Calls!jobVars, Calls!providerVars,
     Calls!StillRunning, Waiting, Calls!Agent, Calls!Go, Inv
<1>14. CASE Calls!Crash
  BY <1>14, KeyIsKey DEF Calls!Crash, Rows, Lifecycle, Placed, Kept, Prior, Calls!Key,
     Calls!Fresh, Calls!NoCall, Calling, Calls!Return, Calls!jobVars, Calls!providerVars,
     Waiting, Calls!Agent, Calls!Go, Inv
<1>15. CASE Calls!Correct \/ Calls!Identify
  BY <1>15, KeyIsKey DEF Calls!Correct, Calls!Identify, Rows, Lifecycle, Placed, Kept, Prior,
     Calls!Key, Calls!Fresh, Calls!NoCall, Calling, Calls!Agent, Calls!jobVars,
     Calls!providerVars, Waiting, Inv
<1>16. CASE UNCHANGED Calls!vars
  BY <1>16, KeyIsKey DEF Calls!vars, Rows, Lifecycle, Placed, Kept, Prior, Calls!Key,
     Calls!Fresh, Calls!NoCall, Calling, Calls!callVars, Calls!jobVars, Calls!providerVars,
     Waiting, Calls!Agent, Inv
<1>. QED BY <1>1, <1>2, <1>3, <1>4, <1>5, <1>6, <1>7, <1>8, <1>9, <1>10, <1>11, <1>12, <1>13,
            <1>14, <1>15, <1>16 DEF Calls!Next, Calls!Workflow, Calls!Runtime, Recording

\* A receipt is missing only while it can still come, or of a job that fails.
LEMMA NextPaid ==
  ASSUME Bounds, Inv, [Calls!Next]_(Calls!vars)
  PROVE  Paid'
<1>1. CASE Calls!Cancel
  BY <1>1, KeyIsKey DEF Calls!Cancel, Paid, Calls!TypeOK, Lifecycle, Placed,
     Calls!PaidIsCharged, Calls!Recorded, Calls!Key, Calls!NoCall, Calling, Calls!Terminal,
     Calls!callVars, Calls!providerVars, AtProvider, Waiting, Calls!Agent, Inv
<1>2. CASE Calls!Continue
  BY <1>2, KeyIsKey DEF Calls!Continue, Paid, Calls!TypeOK, Lifecycle, Placed,
     Calls!PaidIsCharged, Calls!Recorded, Calls!Key, Calls!NoCall, Calling, Calls!callVars,
     Calls!providerVars, AtProvider, Waiting, Calls!Terminal, Calls!Agent, Inv
<1>3. CASE Calls!Expire
  BY <1>3, KeyIsKey DEF Calls!Expire, Paid, Calls!TypeOK, Lifecycle, Placed,
     Calls!PaidIsCharged, Calls!Recorded, Calls!Key, Calls!NoCall, Calling, Calls!Settle,
     Calls!Terminal, Calls!callVars, Calls!providerVars, AtProvider, Waiting, Calls!Agent, Inv
<1>4. CASE Calls!StartRead \/ Calls!StartWrite
  BY <1>4, KeyIsKey DEF Calls!StartRead, Calls!StartWrite, Paid, Calls!TypeOK, Lifecycle,
     Placed, Calls!PaidIsCharged, Calls!Recorded, Calls!Key, Calls!NoCall, Calling, Calls!Go,
     Calls!callVars, Calls!providerVars, AtProvider, Waiting, Calls!Terminal, Calls!Agent, Inv
<1>5. CASE Calls!Enter \/ Calls!Exit \/ Calls!Asked
  BY <1>5, KeyIsKey DEF Calls!Enter, Calls!Exit, Calls!Asked, Paid, Calls!TypeOK, Lifecycle,
     Placed, Calls!PaidIsCharged, Calls!Recorded, Calls!Key, Calls!NoCall, Calling,
     Calls!Checkpoint, Calls!callVars, Calls!providerVars, AtProvider, Waiting, Calls!Terminal,
     Calls!Agent, Calls!Go, Calls!Permitted, Calls!jobVars, Calls!StillRunning, Inv
<1>6. CASE Calls!Gather \/ Calls!Check \/ Calls!Text \/ Calls!End \/ Calls!Fetch \/ Calls!Fail
  BY <1>6, KeyIsKey DEF Calls!Gather, Calls!Check, Calls!Text, Calls!End, Calls!Fetch,
     Calls!Fail, Paid, Calls!TypeOK, Lifecycle, Placed, Calls!PaidIsCharged, Calls!Recorded,
     Calls!Key, Calls!NoCall, Calling, Calls!Go, Calls!Quiet, Calls!Permitted, Calls!Abandon,
     AtProvider, Waiting, Calls!Terminal, Calls!Agent, Calls!callVars, Calls!jobVars,
     Calls!providerVars, Calls!StillRunning, Inv
<1>7. CASE \E clarify, requests \in BOOLEAN : Calls!Coordinate(clarify, requests)
  BY <1>7, KeyIsKey DEF Calls!Coordinate, Paid, Calls!TypeOK, Lifecycle, Placed,
     Calls!PaidIsCharged, Calls!Recorded, Calls!Key, Calls!NoCall, Calling, Calls!After,
     Calls!Agent, AtProvider, Waiting, Calls!Terminal, Calls!Go, Calls!Quiet, Calls!callVars,
     Calls!jobVars, Calls!providerVars, Inv
<1>8. CASE Calls!Write
  BY <1>8, KeyIsKey DEF Calls!Write, Paid, Calls!TypeOK, Lifecycle, Placed, Calls!PaidIsCharged,
     Calls!Recorded, Calls!Key, Calls!NoCall, Calling, Calls!After, Calls!Agent, AtProvider,
     Waiting, Calls!Terminal, Calls!Go, Calls!Quiet, Calls!callVars, Calls!jobVars,
     Calls!providerVars, Inv
<1>9. CASE \E e \in Calls!Estimates : Calls!Admit(e)
  BY <1>9, KeyIsKey DEF Calls!Admit, Paid, Calls!TypeOK, Lifecycle, Placed, Calls!PaidIsCharged,
     Calls!Recorded, Calls!Key, Calls!NoCall, Calling, Calls!Agent, Calls!Go, Calls!Permitted,
     Calls!callVars, Calls!jobVars, Calls!providerVars, AtProvider, Waiting, Calls!Terminal,
     Calls!StillRunning, Inv
<1>10. CASE Calls!Insert
  BY <1>10, KeyIsKey DEF Calls!Insert, Paid, Calls!TypeOK, Lifecycle, Placed,
     Calls!PaidIsCharged, Calls!Recorded, Calls!Key, Calls!NoCall, Calling, Calls!Go,
     Calls!callVars, Calls!jobVars, Calls!providerVars, AtProvider, Waiting, Calls!Terminal,
     Calls!Agent, Inv
<1>11. CASE Calls!Open
  BY <1>11, KeyIsKey DEF Calls!Open, Paid, Calls!TypeOK, Lifecycle, Placed, Calls!PaidIsCharged,
     Calls!Recorded, Calls!Key, Calls!NoCall, Calling, Calls!Go, Calls!callVars, Calls!jobVars,
     AtProvider, Waiting, Calls!Terminal, Calls!Agent, Inv
<1>12. CASE Recording
  BY <1>12, KeyIsKey DEF Calls!Record, Recording, Paid, Calls!TypeOK, Lifecycle, Placed,
     Calls!PaidIsCharged, Calls!Recorded, Calls!Key, Calls!NoCall, Calling, Calls!Go,
     Calls!callVars, Calls!jobVars, Calls!providerVars, AtProvider, Waiting, Calls!Terminal,
     Calls!Agent, Inv
<1>13. CASE Calls!FinishAnswer \/ Calls!FinishFailure \/ Calls!FinishStop \/ Calls!Pause
  BY <1>13, KeyIsKey DEF Calls!FinishAnswer, Calls!FinishFailure, Calls!FinishStop, Calls!Pause,
     Paid, Calls!TypeOK, Lifecycle, Placed, Calls!PaidIsCharged, Calls!Recorded, Calls!Key,
     Calls!NoCall, Calling, Calls!Return, Calls!Settle, Calls!Terminal, Calls!jobVars,
     Calls!providerVars, Calls!StillRunning, AtProvider, Waiting, Calls!Agent, Calls!Go, Inv
<1>14. CASE Calls!Crash
  BY <1>14, KeyIsKey DEF Calls!Crash, Paid, Calls!TypeOK, Lifecycle, Placed,
     Calls!PaidIsCharged, Calls!Recorded, Calls!Key, Calls!NoCall, Calling, Calls!Return,
     Calls!jobVars, Calls!providerVars, AtProvider, Waiting, Calls!Terminal, Calls!Agent,
     Calls!Go, Inv
<1>15. CASE Calls!Correct \/ Calls!Identify
  BY <1>15, KeyIsKey DEF Calls!Correct, Calls!Identify, Paid, Calls!TypeOK, Lifecycle, Placed,
     Calls!PaidIsCharged, Calls!Recorded, Calls!Key, Calls!NoCall, Calling, Calls!Agent,
     Calls!jobVars, Calls!providerVars, AtProvider, Waiting, Calls!Terminal, Inv
<1>16. CASE UNCHANGED Calls!vars
  BY <1>16, KeyIsKey DEF Calls!vars, Paid, Calls!TypeOK, Lifecycle, Placed, Calls!PaidIsCharged,
     Calls!Recorded, Calls!Key, Calls!NoCall, Calling, Calls!callVars, Calls!jobVars,
     Calls!providerVars, AtProvider, Waiting, Calls!Terminal, Calls!Agent, Inv
<1>. QED BY <1>1, <1>2, <1>3, <1>4, <1>5, <1>6, <1>7, <1>8, <1>9, <1>10, <1>11, <1>12, <1>13,
            <1>14, <1>15, <1>16 DEF Calls!Next, Calls!Workflow, Calls!Runtime, Recording

\* Between a stop and the next checkpoint one call is begun at most.
LEMMA NextStopped ==
  ASSUME Bounds, Inv, [Calls!Next]_(Calls!vars)
  PROVE  Stopped'
<1>1. CASE Calls!Cancel
  BY <1>1, KeyIsKey DEF Calls!Cancel, Stopped, Lifecycle, Placed, Calling, Calls!Terminal,
     Calls!callVars, Calls!providerVars, AtProvider, Waiting, Inv
<1>2. CASE Calls!Continue
  BY <1>2, KeyIsKey DEF Calls!Continue, Stopped, Lifecycle, Placed, Calling, Calls!callVars,
     Calls!providerVars, AtProvider, Waiting, Inv
<1>3. CASE Calls!Expire
  BY <1>3, KeyIsKey DEF Calls!Expire, Stopped, Lifecycle, Placed, Calling, Calls!Settle,
     Calls!Terminal, Calls!callVars, Calls!providerVars, AtProvider, Waiting, Inv
<1>4. CASE Calls!StartRead \/ Calls!StartWrite
  BY <1>4, KeyIsKey DEF Calls!StartRead, Calls!StartWrite, Stopped, Lifecycle, Placed, Calling,
     Calls!Go, Calls!callVars, Calls!providerVars, AtProvider, Waiting, Inv
<1>5. CASE Calls!Enter \/ Calls!Exit \/ Calls!Asked
  BY <1>5, KeyIsKey DEF Calls!Enter, Calls!Exit, Calls!Asked, Stopped, Lifecycle, Placed,
     Calling, Calls!Checkpoint, Calls!callVars, Calls!providerVars, AtProvider, Waiting,
     Calls!Go, Calls!Permitted, Calls!jobVars, Calls!StillRunning, Inv
<1>6. CASE Calls!Gather \/ Calls!Check \/ Calls!Text \/ Calls!End \/ Calls!Fetch \/ Calls!Fail
  BY <1>6, KeyIsKey DEF Calls!Gather, Calls!Check, Calls!Text, Calls!End, Calls!Fetch,
     Calls!Fail, Stopped, Lifecycle, Placed, Calling, Calls!Go, Calls!Quiet, Calls!Permitted,
     Calls!Abandon, AtProvider, Waiting, Calls!callVars, Calls!jobVars, Calls!providerVars,
     Calls!StillRunning, Inv
<1>7. CASE \E clarify, requests \in BOOLEAN : Calls!Coordinate(clarify, requests)
  BY <1>7, KeyIsKey DEF Calls!Coordinate, Stopped, Lifecycle, Placed, Calling, Calls!After,
     Calls!Agent, AtProvider, Waiting, Calls!Go, Calls!Quiet, Calls!callVars, Calls!jobVars,
     Calls!providerVars, Inv
<1>8. CASE Calls!Write
  BY <1>8, KeyIsKey DEF Calls!Write, Stopped, Lifecycle, Placed, Calling, Calls!After,
     Calls!Agent, AtProvider, Waiting, Calls!Go, Calls!Quiet, Calls!callVars, Calls!jobVars,
     Calls!providerVars, Inv
<1>9. CASE \E e \in Calls!Estimates : Calls!Admit(e)
  BY <1>9, KeyIsKey DEF Calls!Admit, Stopped, Lifecycle, Placed, Calling, Calls!Agent, Calls!Go,
     Calls!Permitted, Calls!callVars, Calls!jobVars, Calls!providerVars, AtProvider, Waiting,
     Calls!StillRunning, Inv
<1>10. CASE Calls!Insert
  BY <1>10, KeyIsKey DEF Calls!Insert, Stopped, Lifecycle, Placed, Calling, Calls!Go,
     Calls!callVars, Calls!jobVars, Calls!providerVars, AtProvider, Waiting, Inv
<1>11. CASE Calls!Open
  BY <1>11, KeyIsKey DEF Calls!Open, Stopped, Lifecycle, Placed, Calling, Calls!Go,
     Calls!callVars, Calls!jobVars, AtProvider, Waiting, Inv
<1>12. CASE Recording
  BY <1>12, KeyIsKey DEF Calls!Record, Recording, Stopped, Lifecycle, Placed, Calling, Calls!Go,
     Calls!callVars, Calls!jobVars, Calls!providerVars, AtProvider, Waiting, Inv
<1>13. CASE Calls!FinishAnswer \/ Calls!FinishFailure \/ Calls!FinishStop \/ Calls!Pause
  BY <1>13, KeyIsKey DEF Calls!FinishAnswer, Calls!FinishFailure, Calls!FinishStop, Calls!Pause,
     Stopped, Lifecycle, Placed, Calling, Calls!Return, Calls!Settle, Calls!Terminal,
     Calls!jobVars, Calls!providerVars, Calls!StillRunning, AtProvider, Waiting, Calls!Go, Inv
<1>14. CASE Calls!Crash
  BY <1>14, KeyIsKey DEF Calls!Crash, Stopped, Lifecycle, Placed, Calling, Calls!Return,
     Calls!jobVars, Calls!providerVars, AtProvider, Waiting, Calls!Go, Inv
<1>15. CASE Calls!Correct \/ Calls!Identify
  BY <1>15, KeyIsKey DEF Calls!Correct, Calls!Identify, Stopped, Lifecycle, Placed, Calling,
     Calls!Agent, Calls!jobVars, Calls!providerVars, AtProvider, Waiting, Inv
<1>16. CASE UNCHANGED Calls!vars
  BY <1>16, KeyIsKey DEF Calls!vars, Stopped, Lifecycle, Placed, Calling, Calls!callVars,
     Calls!jobVars, Calls!providerVars, AtProvider, Waiting, Inv
<1>. QED BY <1>1, <1>2, <1>3, <1>4, <1>5, <1>6, <1>7, <1>8, <1>9, <1>10, <1>11, <1>12, <1>13,
            <1>14, <1>15, <1>16 DEF Calls!Next, Calls!Workflow, Calls!Runtime, Recording

\* As long as no row changes, nothing more is used.
LEMMA UsedSame ==
  ASSUME UNCHANGED calls
  PROVE  Calls!Used' = Calls!Used /\ Calls!Recorded' = Calls!Recorded
  BY DEF Calls!Used, Calls!Ins, Calls!Outs, Calls!Recorded

\* An insertion uses nothing.
LEMMA InsertUses ==
  ASSUME Bounds, Inv, Calls!Insert
  PROVE  Calls!Used'.outs = Calls!Used.outs /\ Calls!Recorded' = Calls!Recorded
         /\ \A k \in Calls!Recorded : calls'[k] = calls[k]
<1>1. Calls!Key \in Calls!Keys
  BY KeyIsKey DEF Inv, Calls!Insert
<1>2. CASE calls' = calls
  BY <1>2, UsedSame
<1>3. CASE calls' # calls
  <2> DEFINE row == [Calls!NoCall EXCEPT !.status = "dispatched", !.ceiling = ceiling]
  <2>1. calls[Calls!Key].status = "none" /\ calls' = [calls EXCEPT ![Calls!Key] = row]
    BY <1>3 DEF Calls!Insert, Calls!NoCall
  <2>2. row.status = "dispatched"
    BY DEF Calls!NoCall
  <2> HIDE DEF row
  <2>3. \A k \in Calls!Keys : k # Calls!Key => calls'[k] = calls[k]
    BY <1>1, <2>1 DEF Inv, Calls!TypeOK
  <2>4. calls'[Calls!Key] = row
    BY <1>1, <2>1 DEF Inv, Calls!TypeOK
  <2>5. Calls!Recorded' = Calls!Recorded /\ \A k \in Calls!Recorded : calls'[k] = calls[k]
    BY <2>1, <2>2, <2>3, <2>4 DEF Calls!Recorded
  <2>6. /\ IsFiniteSet(Calls!Recorded)
        /\ \A k \in Calls!Recorded : Calls!Outs[k] = calls[k].outs /\ Calls!Outs[k] \in Nat
    BY UsedType DEF Inv
  <2> DEFINE f == Calls!Outs
             g == [k \in Calls!Keys |-> calls'[k].outs]
             S == Calls!Recorded
  <2>7. \A k \in S : g[k] = f[k]
    BY <2>5, <2>6 DEF Calls!Recorded
  <2> HIDE DEF f, g, S
  <2>8. SumFunctionOnSet(g, S) = SumFunctionOnSet(f, S)
    BY <2>6, <2>7, SumSame DEF S
  <2>9. Calls!Used'.outs = SumFunctionOnSet(g, S) /\ Calls!Used.outs = SumFunctionOnSet(f, S)
    BY <2>5, CallsSum DEF Calls!Used, Calls!Outs, f, g, S
  <2>. QED BY <2>5, <2>8, <2>9
<1>. QED BY <1>2, <1>3

\* A receipt uses its output.
LEMMA RecordUses ==
  ASSUME Bounds, Inv, NEW i \in 1 .. Inputs + 1, NEW o \in 1 .. Outputs + 1, NEW c \in BOOLEAN,
         Calls!Record(i, o, c)
  PROVE  /\ Calls!Used'.outs = Calls!Used.outs + o
         /\ Calls!Recorded' = Calls!Recorded \cup {Calls!Key}
         /\ calls'[Calls!Key].ceiling = calls[Calls!Key].ceiling /\ calls'[Calls!Key].outs = o
         /\ \A k \in Calls!Recorded : calls'[k] = calls[k]
<1>1. Calls!Key \in Calls!Keys /\ o \in Int
  BY KeyIsKey DEF Inv, Calls!Record, Calling, Bounds
<1>2. Calls!Key \notin Calls!Recorded
  BY DEF Inv, Ceilings, Calls!Record, AtProvider, Calls!Recorded
<1>3. /\ Calls!Recorded' = Calls!Recorded \cup {Calls!Key}
      /\ calls'[Calls!Key].ceiling = calls[Calls!Key].ceiling /\ calls'[Calls!Key].outs = o
      /\ \A k \in Calls!Recorded : calls'[k] = calls[k]
  BY <1>1, <1>2 DEF Calls!Record, Calls!Recorded, Inv, Calls!TypeOK
<1>4. /\ IsFiniteSet(Calls!Recorded)
      /\ \A k \in Calls!Recorded : Calls!Outs[k] = calls[k].outs /\ Calls!Outs[k] \in Nat
  BY UsedType DEF Inv
<1> DEFINE f == Calls!Outs
           g == [k \in Calls!Keys |-> calls'[k].outs]
           S == Calls!Recorded
           x == Calls!Key
<1>5. (\A k \in S : g[k] = f[k]) /\ g[x] = o /\ \A k \in S \cup {x} : g[k] \in Int
  BY <1>1, <1>3, <1>4 DEF Calls!Recorded
<1>6. x \notin S
  BY <1>2
<1> HIDE DEF f, g, S, x
<1>7. SumFunctionOnSet(g, S) = SumFunctionOnSet(f, S)
  BY <1>4, <1>5, SumSame DEF S
<1>8. SumFunctionOnSet(g, S \cup {x}) = SumFunctionOnSet(g, S) + g[x]
  BY <1>4, <1>5, <1>6, SumAdd DEF S
<1>9. Calls!Used'.outs = SumFunctionOnSet(g, S \cup {x}) /\ Calls!Used.outs = SumFunctionOnSet(f, S)
  BY <1>3, CallsSum DEF Calls!Used, Calls!Outs, f, g, S, x
<1>. QED BY <1>3, <1>5, <1>7, <1>8, <1>9

\* Planners leave room: a receipt within its ceiling keeps what is for the
\* answer.
LEMMA NextSpare ==
  ASSUME Bounds, Inv, [Calls!Next]_(Calls!vars)
  PROVE  Spare'
<1>1. CASE UNCHANGED calls
  BY <1>1, UsedSame DEF Inv, Spare
<1>2. CASE Calls!Insert
  BY <1>2, InsertUses DEF Inv, Spare
<1>3. CASE Recording
  <2>1. PICK i \in 1 .. Inputs + 1, o \in 1 .. Outputs + 1, c \in BOOLEAN : Calls!Record(i, o, c)
    BY <1>3 DEF Recording
  <2>2. /\ Calls!Used'.outs = Calls!Used.outs + o
        /\ Calls!Recorded' = Calls!Recorded \cup {Calls!Key}
        /\ calls'[Calls!Key].ceiling = calls[Calls!Key].ceiling /\ calls'[Calls!Key].outs = o
        /\ \A k \in Calls!Recorded : calls'[k] = calls[k]
    BY <2>1, RecordUses
  <2>3. calls[Calls!Key].ceiling = Calls!Available /\ Calls!Key[2] = Calls!Agent
    BY <2>1, KeyIsKey DEF Inv, Ceilings, Calls!Record, AtProvider, Calling
  <2>4. Calls!Used.outs \in Int /\ o \in Int /\ Outputs \in Int
    BY UsedType DEF Inv, Bounds
  <2>5. Calls!Key[2] = "coordinator" => Calls!Available = Outputs - Calls!Used.outs - Answer
    BY <2>3 DEF Calls!Available, Calls!Reserve, Answer
  <2> DEFINE answer == Answer
  <2>6. answer \in Int
    BY DEF Answer, Bounds
  <2> HIDE DEF answer
  <2>7. Calls!Key[2] = "coordinator" /\ o <= calls[Calls!Key].ceiling
          => Calls!Used'.outs <= Outputs - answer
    BY <2>2, <2>3, <2>4, <2>5, <2>6 DEF answer
  <2>. QED BY <2>2, <2>7 DEF Spare, answer
<1>4. UNCHANGED calls \/ Calls!Insert \/ Recording
  BY DEF Calls!Next, Calls!Workflow, Calls!Runtime, Recording, Calls!Cancel, Calls!Continue,
     Calls!Expire, Calls!StartRead, Calls!StartWrite, Calls!Enter, Calls!Gather, Calls!Exit,
     Calls!Asked, Calls!Coordinate, Calls!Write, Calls!After, Calls!Admit, Calls!Check,
     Calls!Correct, Calls!Open, Calls!Identify, Calls!Text, Calls!End, Calls!Fetch, Calls!Fail,
     Calls!FinishAnswer, Calls!FinishFailure, Calls!FinishStop, Calls!Pause, Calls!Crash,
     Calls!Quiet, Calls!vars
<1>. QED BY <1>1, <1>2, <1>3, <1>4

\* What is available stays while the call is made.
LEMMA NextCeilings ==
  ASSUME Bounds, Inv, [Calls!Next]_(Calls!vars)
  PROVE  Ceilings'
<1>0. /\ UNCHANGED <<calls, state>> => Calls!Available' = Calls!Available /\ Calls!Key' = Calls!Key
      /\ UNCHANGED state /\ Calls!Used'.outs = Calls!Used.outs
           => Calls!Available' = Calls!Available /\ Calls!Key' = Calls!Key
  BY UsedSame DEF Calls!Available, Calls!Reserve, Calls!Agent, Calls!Key
<1>1. CASE Calls!Cancel
  BY <1>1, <1>0 DEF Calls!Cancel, Ceilings, Calls!Terminal, Calls!callVars, Calls!providerVars,
     AtProvider, Inv
<1>2. CASE Calls!Continue
  BY <1>2, <1>0 DEF Calls!Continue, Ceilings, Calls!callVars, Calls!providerVars, AtProvider,
     Inv
<1>3. CASE Calls!Expire
  BY <1>3, <1>0 DEF Calls!Expire, Ceilings, Calls!Settle, Calls!Terminal, Calls!callVars,
     Calls!providerVars, AtProvider, Inv
<1>4. CASE Calls!StartRead \/ Calls!StartWrite
  BY <1>4, <1>0 DEF Calls!StartRead, Calls!StartWrite, Ceilings, Calls!Go, Calls!callVars,
     Calls!providerVars, AtProvider, Inv
<1>5. CASE Calls!Enter \/ Calls!Exit \/ Calls!Asked
  BY <1>5, <1>0 DEF Calls!Enter, Calls!Exit, Calls!Asked, Ceilings, Calls!Checkpoint,
     Calls!callVars, Calls!providerVars, AtProvider, Calls!Go, Calls!Permitted, Calls!jobVars,
     Calls!StillRunning, Inv
<1>6. CASE Calls!Gather \/ Calls!Check \/ Calls!Text \/ Calls!End \/ Calls!Fetch \/ Calls!Fail
  BY <1>6, <1>0 DEF Calls!Gather, Calls!Check, Calls!Text, Calls!End, Calls!Fetch, Calls!Fail,
     Ceilings, Calls!Go, Calls!Quiet, Calls!Permitted, Calls!Abandon, AtProvider,
     Calls!callVars, Calls!jobVars, Calls!providerVars, Calls!StillRunning, Inv
<1>7. CASE \E clarify, requests \in BOOLEAN : Calls!Coordinate(clarify, requests)
  BY <1>7, <1>0 DEF Calls!Coordinate, Ceilings, Calls!After, AtProvider, Calls!Go, Calls!Quiet,
     Calls!callVars, Calls!jobVars, Calls!providerVars, Inv
<1>8. CASE Calls!Write
  BY <1>8, <1>0 DEF Calls!Write, Ceilings, Calls!After, AtProvider, Calls!Go, Calls!Quiet,
     Calls!callVars, Calls!jobVars, Calls!providerVars, Inv
<1>9. CASE \E e \in Calls!Estimates : Calls!Admit(e)
  BY <1>9, <1>0, UsedType DEF Calls!Admit, Ceilings, Calls!Go, Calls!Permitted, Calls!callVars,
     Calls!jobVars, Calls!providerVars, AtProvider, Calls!StillRunning, Inv, Bounds
<1>10. CASE Calls!Insert
  <2>1. Calls!Used'.outs = Calls!Used.outs /\ Calls!Key \in Calls!Keys
    BY <1>10, InsertUses, KeyIsKey DEF Inv, Calls!Insert
  <2>2. Calls!Available' = Calls!Available /\ Calls!Key' = Calls!Key /\ ceiling = Calls!Available
    BY <1>0, <1>10, <2>1 DEF Calls!Insert, Inv, Ceilings
  <2>3. CASE calls[Calls!Key] # Calls!NoCall
    BY <1>10, <2>3 DEF Calls!Insert, Calls!Go, Ceilings, AtProvider
  <2>4. CASE calls[Calls!Key] = Calls!NoCall
    <3>1. calls' = [calls EXCEPT ![Calls!Key] =
                     [Calls!NoCall EXCEPT !.status = "dispatched", !.ceiling = ceiling]]
          /\ pc' = "posting"
      BY <1>10, <2>4 DEF Calls!Insert, Calls!Go
    <3>2. calls'[Calls!Key].status = "dispatched" /\ calls'[Calls!Key].ceiling = ceiling
      BY <2>1, <3>1 DEF Inv, Calls!TypeOK, Calls!NoCall
    <3>. QED BY <2>2, <3>1, <3>2 DEF Ceilings
  <2>. QED BY <2>3, <2>4
<1>11. CASE Calls!Open
  BY <1>11, <1>0 DEF Calls!Open, Ceilings, Calls!Go, Calls!callVars, Calls!jobVars, AtProvider,
     Inv
<1>12. CASE Recording
  BY <1>12, <1>0 DEF Calls!Record, Recording, Ceilings, Calls!Go, Calls!callVars, Calls!jobVars,
     Calls!providerVars, AtProvider, Inv
<1>13. CASE Calls!FinishAnswer \/ Calls!FinishFailure \/ Calls!FinishStop \/ Calls!Pause
  BY <1>13, <1>0 DEF Calls!FinishAnswer, Calls!FinishFailure, Calls!FinishStop, Calls!Pause,
     Ceilings, Calls!Return, Calls!Settle, Calls!Terminal, Calls!jobVars, Calls!providerVars,
     Calls!StillRunning, AtProvider, Calls!Go, Inv
<1>14. CASE Calls!Crash
  BY <1>14, <1>0 DEF Calls!Crash, Ceilings, Calls!Return, Calls!jobVars, Calls!providerVars,
     AtProvider, Calls!Go, Inv
<1>15. CASE Calls!Correct \/ Calls!Identify
  BY <1>15, <1>0 DEF Calls!Correct, Calls!Identify, Ceilings, Calls!jobVars, Calls!providerVars,
     AtProvider, Inv
<1>16. CASE UNCHANGED Calls!vars
  BY <1>16, <1>0 DEF Calls!vars, Ceilings, Calls!callVars, Calls!jobVars, Calls!providerVars,
     AtProvider, Inv
<1>. QED BY <1>1, <1>2, <1>3, <1>4, <1>5, <1>6, <1>7, <1>8, <1>9, <1>10, <1>11, <1>12, <1>13,
            <1>14, <1>15, <1>16 DEF Calls!Next, Calls!Workflow, Calls!Runtime, Recording

-----------------------------------------------------------------------------
(* The theorems.                                                           *)

\* A review begins with nothing.
LEMMA InitInv == Bounds /\ Calls!Init => Inv
<1> SUFFICES ASSUME Bounds, Calls!Init PROVE Inv
  OBVIOUS
<1>1. Calls!TypeOK
  BY SettledTypes DEF Calls!Init, Calls!TypeOK, Calls!Terminal, Calls!NoCall, Bounds, Places
<1>2. Lifecycle /\ Placed
  BY DEF Calls!Init, Lifecycle, Placed, Waiting, Calling, Calls!Fresh
<1>3. Rows /\ Paid /\ Stopped
  BY DEF Calls!Init, Rows, Kept, Paid, Calls!PaidIsCharged, Stopped, Calling, AtProvider
<1>4. Ceilings
  BY DEF Calls!Init, Ceilings, AtProvider
<1>5. Calls!Used.outs = 0
  <2>1. Calls!Recorded = {}
    BY DEF Calls!Init, Calls!Recorded, Calls!NoCall
  <2>. QED BY <2>1, SumEmpty, CallsSum DEF Calls!Used
<1>6. Spare
  BY <1>5 DEF Spare, Answer, Bounds
<1>. QED BY <1>1, <1>2, <1>3, <1>4, <1>6 DEF Inv

\* A step keeps the invariant.
LEMMA NextInv == Bounds /\ Inv /\ [Calls!Next]_(Calls!vars) => Inv'
  BY NextTyped, NextLifecycle, NextPlaced, NextRows, NextPaid, NextStopped, NextSpare,
     NextCeilings DEF Inv

\* The invariant implies what the calls promise.
LEMMA InvSound == Bounds /\ Inv => Calls!CallsAreSound
<1> SUFFICES ASSUME Bounds, Inv PROVE Calls!CallsAreSound
  OBVIOUS
<1>1. Calls!CallsAreNew
  <2> SUFFICES ASSUME pc \in {"admitting", "checking", "inserting"}
               PROVE  calls[Calls!Key] = Calls!NoCall
    BY DEF Calls!CallsAreNew
  <2>1. Calls!Key \in Calls!Keys /\ Calls!Key[1] = state.counter /\ state.counter \in Nat
    BY KeyIsKey DEF Inv
  <2>2. Kept(Calls!Key) => Prior(Calls!Key, state.counter)
    BY <2>1 DEF Inv, Rows
  <2>. QED BY <2>1, <2>2 DEF Kept, Prior
<1>2. Calls!OneCallAfterStop
  <2>1. late = {} \/ \E k \in Calls!Keys : late = {k}
    BY DEF Inv, Stopped
  <2>2. Cardinality(late) <= 1
    BY <2>1, FS_EmptySet, FS_Singleton
  <2>3. Calls!Cardinality(late) = Cardinality(late)
    BY CallsCardinality
  <2>. QED BY <2>2, <2>3 DEF Calls!OneCallAfterStop
<1>3. Calls!AnswerHasRoom
  <2> SUFFICES ASSUME pc = "admitting", Calls!Agent = "writer",
                      \A k \in Calls!Recorded : calls[k].outs <= calls[k].ceiling
               PROVE  Calls!Available >= Floor
    BY DEF Calls!AnswerHasRoom
  <2>1. \A k \in Calls!Recorded : k[2] = "coordinator"
    BY DEF Inv, Rows, Kept, Prior, Calls!Recorded, Calls!NoCall
  <2>2. Calls!Used.outs <= Outputs - Answer
    BY <2>1 DEF Inv, Spare
  <2>3. Calls!Available = Outputs - Calls!Used.outs
    <3>1. Calls!Used.outs \in Int /\ Outputs \in Int
      BY UsedType DEF Inv, Bounds
    <3>. QED BY <3>1 DEF Calls!Available, Calls!Reserve
  <2> DEFINE answer == Answer
  <2>4. answer \in Int /\ answer >= Floor /\ Calls!Used.outs \in Int
    BY UsedType DEF Inv, Bounds, Answer
  <2> HIDE DEF answer
  <2>5. Calls!Used.outs <= Outputs - answer
    BY <2>2 DEF answer
  <2>. QED BY <2>3, <2>4, <2>5 DEF Bounds
<1>. QED BY <1>1, <1>2, <1>3 DEF Calls!CallsAreSound

-----------------------------------------------------------------------------
\* The allowance and the floor of a review are those of a bucket.
LEMMA BoundsHold == Bounds
  BY CallsAssumption DEF Bounds

\* A step of the services is one of the calls', or leaves them alone.
LEMMA CallsStep == [Next]_vars => [Calls!Next]_(Calls!vars)
  BY DEF Next, Only, vars, callsVars, Calls!vars, Calls!jobVars, Calls!callVars,
     Calls!providerVars

\* Wherever the worker crashes and whenever the user stops, asks or answers:
\* worker, job, rows and bill keep to one another.
THEOREM CallsInvariance == Spec => []Inv
<1>1. Init => Inv
  BY BoundsHold, InitInv DEF Init
<1>2. Inv /\ [Next]_vars => Inv'
  BY BoundsHold, CallsStep, NextInv
<1>. QED BY <1>1, <1>2, PTL DEF Spec

\* Every call that the provider bills for is in the charge of a review that
\* was delivered or stopped.
THEOREM PaidAlways == Spec => []PaidIsCharged
<1>1. Inv => PaidIsCharged
  BY DEF Inv, Paid, PaidIsCharged
<1>. QED BY <1>1, CallsInvariance, PTL

\* No call is sent twice, a stop lets one through at most, and planning leaves
\* the answer its room.
THEOREM SoundAlways == Spec => []CallsAreSound
<1>1. Inv => CallsAreSound
  BY BoundsHold, InvSound DEF CallsAreSound
<1>. QED BY <1>1, CallsInvariance, PTL

-----------------------------------------------------------------------------
(* The price of a call.                                                    *)

\* The table, written out.
LEMMA FiveBuckets ==
  /\ DOMAIN Policy!Buckets = 1 .. 5
  /\ Policy!Buckets[1] = Policy!Bucket(8000, 2000, 1)
  /\ Policy!Buckets[2] = Policy!Bucket(16000, 4000, 2)
  /\ Policy!Buckets[3] = Policy!Bucket(32000, 6000, 3)
  /\ Policy!Buckets[4] = Policy!Bucket(64000, 8000, 4)
  /\ Policy!Buckets[5] = Policy!Bucket(128000, 16000, 7)
  BY DEF Policy!Buckets, Policy!Bucket

\* The bucket a ceiling pays for, by the ceiling.
LEMMA LargestBucket ==
  ASSUME NEW c \in Policy!Ceilings
  PROVE  Policy!Largest(c) = IF c = 7 THEN 5 ELSE c
<1> DEFINE P(b) == /\ b \in DOMAIN Policy!Buckets /\ Policy!Buckets[b].cost <= c
                   /\ \A d \in DOMAIN Policy!Buckets : Policy!Buckets[d].cost <= c => d <= b
           w == IF c = 7 THEN 5 ELSE c
<1>1. P(w)
  BY FiveBuckets DEF Policy!Ceilings, Policy!Bucket
<1>2. \A b : P(b) => b = w
  BY <1>1, FiveBuckets DEF Policy!Ceilings, Policy!Bucket
<1>3. Policy!Largest(c) = CHOOSE b : P(b)
  BY DEF Policy!Largest
<1>. HIDE DEF P
<1>4. P(CHOOSE b : P(b))
  BY <1>1
<1>. QED BY <1>2, <1>3, <1>4

\* Tokens that some bucket covers cost no more than that bucket.
LEMMA CheapestCosts ==
  ASSUME NEW i \in Nat, NEW o \in Nat, NEW b \in DOMAIN Policy!Buckets, Policy!Covers(b, i, o)
  PROVE  Policy!Charge(i, o) \in Nat /\ Policy!Charge(i, o) <= Policy!Buckets[b].cost
<1> DEFINE P(e) == /\ e \in DOMAIN Policy!Buckets /\ Policy!Covers(e, i, o)
                   /\ \A c \in DOMAIN Policy!Buckets : Policy!Covers(c, i, o) => e <= c
<1>1. \E e : P(e)
  <2> DEFINE w == IF Policy!Covers(1, i, o) THEN 1 ELSE IF Policy!Covers(2, i, o) THEN 2 ELSE
                  IF Policy!Covers(3, i, o) THEN 3 ELSE IF Policy!Covers(4, i, o) THEN 4 ELSE 5
  <2>1. w \in 1 .. 5 /\ Policy!Covers(w, i, o)
    BY FiveBuckets
  <2>2. \A c \in 1 .. 5 : Policy!Covers(c, i, o) => w <= c
    BY FiveBuckets
  <2>. QED BY <2>1, <2>2, FiveBuckets
<1>2. P(CHOOSE e : P(e))
  <2>. HIDE DEF P
  <2>. QED BY <1>1
<1>3. Policy!Cheapest(i, o) = CHOOSE e : P(e)
  BY DEF Policy!Cheapest
<1>4. P(Policy!Cheapest(i, o))
  <2>. HIDE DEF P
  <2>. QED BY <1>2, <1>3
<1>5. Policy!Cheapest(i, o) \in 1 .. 5 /\ b \in 1 .. 5 /\ Policy!Cheapest(i, o) <= b
  BY <1>4, FiveBuckets
<1>6. \A d, e \in 1 .. 5 : d <= e =>
        /\ Policy!Buckets[d].cost \in Nat
        /\ Policy!Buckets[d].cost <= Policy!Buckets[e].cost
  BY FiveBuckets DEF Policy!Bucket
<1>. QED BY <1>5, <1>6, FiveBuckets DEF Policy!Charge, Policy!Bucket

\* The allowance of a ceiling and the charge fit each other, for all tokens.
LEMMA AllowanceFits ==
  ASSUME NEW c \in Policy!Ceilings, NEW i \in Nat, NEW o \in Nat,
         i <= Policy!Allowance(c).ins, o <= Policy!Allowance(c).outs
  PROVE  Policy!Chargeable(i, o) /\ Policy!Charge(i, o) <= c
<1> DEFINE b == IF c = 7 THEN 5 ELSE c
<1>1. b \in 1 .. 5 /\ Policy!Buckets[b].cost = c
  BY FiveBuckets DEF Policy!Ceilings, Policy!Bucket
<1>2. Policy!Allowance(c) = [Policy!Buckets[b] EXCEPT
                               !.ins = IF @ > Policy!InputLimit THEN Policy!InputLimit ELSE @]
  BY LargestBucket DEF Policy!Allowance
<1>3. i <= Policy!Buckets[b].ins /\ i <= Policy!InputLimit /\ o <= Policy!Buckets[b].outs
      /\ o <= Policy!OutputLimit
  BY <1>1, <1>2, FiveBuckets DEF Policy!Bucket, Policy!InputLimit, Policy!OutputLimit
<1>4. Policy!Covers(b, i, o) /\ b \in DOMAIN Policy!Buckets
  BY <1>1, <1>3, FiveBuckets DEF Policy!Covers
<1>. QED BY <1>1, <1>3, <1>4, CheapestCosts DEF Policy!Chargeable

\* A ceiling that is raised allows at least what it did.
LEMMA AllowanceGrows ==
  ASSUME NEW c \in Policy!Ceilings, NEW d \in Policy!Ceilings, c <= d
  PROVE  Policy!Allowance(c).ins <= Policy!Allowance(d).ins
         /\ Policy!Allowance(c).outs <= Policy!Allowance(d).outs
  BY LargestBucket, FiveBuckets DEF Policy!Allowance, Policy!Ceilings, Policy!Bucket,
     Policy!InputLimit

\* Whoever has a credit can afford some ceiling.
LEMMA AffordableIsACeiling ==
  ASSUME NEW n \in Nat, n >= 1
  PROVE  Policy!Affordable(n) \in Policy!Ceilings
<1> DEFINE P(c) == c \in Policy!Ceilings /\ c <= n /\ \A d \in Policy!Ceilings : d <= n => d <= c
           w == IF n >= 7 THEN 7 ELSE IF n >= 4 THEN 4 ELSE n
<1>1. P(w)
  BY DEF Policy!Ceilings
<1>2. P(CHOOSE c : P(c))
  <2>. HIDE DEF P
  <2>. QED BY <1>1
<1>3. Policy!Affordable(n) = CHOOSE c : P(c)
  BY DEF Policy!Affordable
<1>. QED BY <1>2, <1>3

-----------------------------------------------------------------------------
\* What the calls of a review have used is within its allowance.
Within == /\ Policy!TypeOK
          /\ tokens.ins <= Policy!Allowance(limit).ins
          /\ tokens.outs <= Policy!Allowance(limit).outs

\* A review begins within the bucket of its ceiling.
LEMMA InitWithin ==
  ASSUME Policy!Init
  PROVE  Within
<1>1. limit \in Policy!Ceilings
  BY AffordableIsACeiling, PricingAssumption DEF Policy!Init
<1>2. Policy!Allowance(limit).ins \in Nat /\ Policy!Allowance(limit).outs \in Nat
  BY <1>1, LargestBucket, FiveBuckets DEF Policy!Allowance, Policy!Ceilings, Policy!Bucket,
     Policy!InputLimit
<1>. QED BY <1>1, <1>2 DEF Policy!Init, Within, Policy!TypeOK

\* Admitted calls and a raised ceiling keep it there.
LEMMA NextWithin ==
  ASSUME Within, [Policy!Next]_(Policy!vars)
  PROVE  Within'
<1>0. \A c \in Policy!Ceilings : Policy!Allowance(c).ins \in Nat /\ Policy!Allowance(c).outs \in Nat
  BY LargestBucket, FiveBuckets DEF Policy!Allowance, Policy!Ceilings, Policy!Bucket,
     Policy!InputLimit
<1>1. ASSUME NEW c \in Policy!Ceilings, Policy!Raise(c) PROVE Within'
  <2>1. limit \in Policy!Ceilings /\ limit' = c /\ limit <= c /\ tokens' = tokens
    BY <1>1 DEF Policy!Raise, Within, Policy!TypeOK, Policy!Ceilings
  <2>2. /\ Policy!Allowance(limit).ins <= Policy!Allowance(c).ins
        /\ Policy!Allowance(limit).outs <= Policy!Allowance(c).outs
    BY <2>1, AllowanceGrows
  <2>. QED BY <1>0, <2>1, <2>2 DEF Within, Policy!TypeOK
<1>2. ASSUME NEW i \in CallInputs, NEW o \in CallOutputs, Policy!Call(i, o) PROVE Within'
  BY <1>2, PricingAssumption DEF Policy!Call, Within, Policy!TypeOK
<1>3. ASSUME UNCHANGED Policy!vars PROVE Within'
  BY <1>3 DEF Policy!vars, Within, Policy!TypeOK
<1>. QED BY <1>1, <1>2, <1>3 DEF Policy!Next

\* All of it holds always.
LEMMA PricingInvariance == Spec => []Within
<1>1. Init => Within
  BY InitWithin DEF Init
<1>2. Within /\ [Next]_vars => Within'
  <2>1. [Next]_vars => [Policy!Next]_(Policy!vars)
    BY DEF Next, Only, vars, pricingVars, Policy!vars
  <2>. QED BY <2>1, NextWithin
<1>. QED BY <1>1, <1>2, PTL DEF Spec

\* Whatever the balance and the tokens of the calls: a review whose calls its
\* ceiling admitted is charged no more than the ceiling, and can be charged.
THEOREM PriceAlwaysFits == Spec => []PriceFits
<1>1. Within => PriceFits
  BY AllowanceFits DEF Within, Policy!TypeOK, Policy!PriceFits, PriceFits
<1>. QED BY <1>1, PricingInvariance, PTL

-----------------------------------------------------------------------------
(* The evidence of an answer.                                              *)

\* A question that asks for a number of trades binds the plan.
Planned ==
  /\ plan \in Answering!AllPlans
  /\ plan.asked # 0 => plan.count = plan.asked /\ plan.kinds # {}

\* A cohort is chosen before anything is read, and everything is read before
\* the answer is written.
Gathered ==
  /\ node \in {"select", "gather", "write", "done"}
  /\ DOMAIN artifacts \subseteq Answering!Requests
  /\ node = "select" => plan.count # 0 /\ plan.kinds # {} /\ cohort = {0} /\ DOMAIN artifacts = {}
  /\ node = "gather" => plan.kinds # {}
  /\ plan.kinds = {} => DOMAIN artifacts = {}
  /\ node # "select" /\ plan.kinds # {} /\ plan.count # 0 => cohort # {0}
  /\ node \in {"write", "done"} /\ plan.kinds # {} => DOMAIN artifacts = Answering!Requests

\* The number that a read must keep to.
Limit == IF node = "select" THEN plan.count ELSE Answering!Own

\* A cohort, and what the first read of two has chosen, are as few as asked for.
Few ==
  /\ cohort # {0} => cohort \subseteq Answering!Trades /\ Cardinality(cohort) <= plan.count
  /\ candidates # {0} => /\ candidates \subseteq Answering!Trades /\ Limit # 0
                         /\ Cardinality(candidates) <= Limit

\* The values that what is read and sent may have.
Readable == UNION {[ids -> {1, -1}] : ids \in SUBSET Answering!Trades}
Sendable == [how : Answering!Ways, notes : BOOLEAN, clip : Nat, total : Nat, ids : SUBSET Answering!Trades]

Contents ==
  /\ journal \in [Answering!Trades -> {1, -1, 0}] /\ edits \in 0 .. MaxEdits /\ room \in Nat
  /\ \A k \in DOMAIN artifacts : artifacts[k] \in Readable
  /\ DOMAIN sent \subseteq DOMAIN artifacts /\ \A k \in DOMAIN sent : sent[k] \in Sendable

EvidenceInv ==
  Planned /\ Gathered /\ Few /\ Contents /\ Answering!RowsAreAsked /\ Answering!CoverageIsHonest

\* What an answer may be sent of a request: a total of all its rows, and rows.
TrueOf(k, e) ==
  /\ e \in Sendable /\ e.notes = Answering!Noted /\ e.total = Cardinality(DOMAIN artifacts[k])
  /\ e.ids \subseteq DOMAIN artifacts[k] /\ (k # "records" => e.ids = {})
  /\ e.how \in {"complete", "sample"} => e.clip = Answering!Whole
  /\ k = "records" /\ e.how \in {"complete", "excerpts"} => e.ids = DOMAIN artifacts[k]
Truthful(e) ==
  DOMAIN e = DOMAIN artifacts /\ \A k \in DOMAIN artifacts : TrueOf(k, e[k])

\* The sizes and sums of the modules that Answering has instances of.
LEMMA EvidenceCardinality == \A S : Answering!Cardinality(S) = Cardinality(S)
  BY DEF Answering!Cardinality, Cardinality

\* ... and the sum of a function.
LEMMA EvidenceSum == \A f, S : Answering!SumFunctionOnSet(f, S) = SumFunctionOnSet(f, S)
  BY DEF Answering!SumFunctionOnSet, Answering!FoldFunctionOnSet, Answering!MapThenFoldSet,
         SumFunctionOnSet, FoldFunctionOnSet, MapThenFoldSet

\* Trades are numbered from 1.
LEMMA EvidenceTrades ==
  /\ IsFiniteSet(Answering!Trades) /\ Answering!Trades \subseteq Nat /\ 0 \notin Answering!Trades
  /\ \A i \in Answering!Trades : NoteSize[i] \in Nat /\ i <= Len(NoteSize)
  /\ Len(NoteSize) \in Nat
<1>1. /\ Len(NoteSize) \in Nat /\ Answering!Trades = 1 .. Len(NoteSize)
      /\ NoteSize \in [1 .. Len(NoteSize) -> Nat]
  BY EvidenceAssumption, LenProperties DEF Answering!Trades
<1>2. IsFiniteSet(1 .. Len(NoteSize))
  BY <1>1, FS_Interval
<1>. QED BY <1>1, <1>2

\* What is in scope are trades.
LEMMA ScopeIsTrades ==
  ASSUME EvidenceInv
  PROVE  Answering!InScope \in SUBSET Answering!Trades
<1>1. plan.ids \subseteq Answering!Trades
  BY DEF EvidenceInv, Planned, Answering!AllPlans
<1>. QED BY <1>1 DEF Answering!InScope, Answering!Named

\* The newest n of a set of trades are n at most.
LEMMA NewestAreFew ==
  ASSUME NEW ids \in SUBSET Answering!Trades, NEW n \in Nat, n # 0
  PROVE  Answering!Newest(ids, n) \subseteq ids /\ Cardinality(Answering!Newest(ids, n)) <= n
<1> DEFINE Later(i) == {j \in ids : j > i}
           few == {i \in ids : Cardinality(Later(i)) < n}
<1>1. Answering!Newest(ids, n) = few
  BY EvidenceCardinality DEF Answering!Newest, Answering!All
<1>2. IsFiniteSet(ids) /\ few \subseteq ids /\ \A i \in ids : i \in 0 .. Len(NoteSize)
  <2>1. IsFiniteSet(ids)
    BY EvidenceTrades, FS_Subset
  <2>2. \A i \in ids : i \in 0 .. Len(NoteSize)
    BY EvidenceTrades
  <2>. QED BY <2>1, <2>2
<1>3. IsFiniteSet(few) /\ few \subseteq 0 .. Len(NoteSize)
  <2> HIDE DEF few
  <2>. QED BY <1>2, FS_Subset
<1>4. ASSUME few # {} PROVE Cardinality(few) <= n
  <2>1. PICK i \in few : \A j \in few : i <= j
    <3> HIDE DEF few
    <3>. QED BY <1>3, <1>4, EvidenceTrades, SmallestNumber
  <2>2. few \ {i} \subseteq Later(i) /\ Later(i) \subseteq ids
    <3>. SUFFICES ASSUME NEW j \in few \ {i} PROVE j \in ids /\ j > i
      OBVIOUS
    <3>1. i \in Nat /\ j \in Nat /\ i <= j /\ i # j /\ j \in ids
      BY <1>3, <2>1
    <3>. QED BY <3>1
  <2>3. Cardinality(few \ {i}) <= Cardinality(Later(i)) /\ Cardinality(Later(i)) \in Nat
    <3> HIDE DEF few, Later
    <3>. QED BY <1>2, <2>2, FS_Subset, FS_CardinalityType
  <2>4. Cardinality(few \ {i}) = Cardinality(few) - 1 /\ Cardinality(few) \in Nat
    <3> HIDE DEF few
    <3>. QED BY <1>3, <2>1, FS_RemoveElement, FS_CardinalityType
  <2>5. Cardinality(Later(i)) < n
    BY <2>1
  <2>. QED BY <2>3, <2>4, <2>5
<1>5. Cardinality({}) = 0
  BY FS_EmptySet
<1> HIDE DEF few, Later
<1>6. CASE few = {}
  <2>1. Cardinality(few) = 0
    BY <1>5, <1>6
  <2>. QED BY <1>1, <1>2, <2>1
<1>7. CASE few # {}
  BY <1>1, <1>2, <1>4, <1>7
<1>. QED BY <1>6, <1>7

\* What is kept of a read is in scope, of the outcome asked for, and no more
\* than the number that was asked for.
LEMMA KeptIsAsked ==
  ASSUME EvidenceInv, NEW n \in Nat, NEW check \in BOOLEAN, Answering!MayRead(n, check),
         n # 0 => n = Limit
  PROVE  /\ Answering!Kept(n, check) \subseteq Answering!InScope
         /\ \A i \in Answering!Kept(n, check) : Answering!Has(journal[i], plan.outcome)
         /\ n # 0 => Cardinality(Answering!Kept(n, check)) <= n
<1> DEFINE base == IF Answering!Derived(n, check) THEN Answering!InScope \cap candidates
                   ELSE Answering!Newest(Answering!InScope, n)
           kept == Answering!Kept(n, check)
<1>1. kept = {i \in base : Answering!Has(journal[i], plan.outcome)}
  BY DEF Answering!Kept, Answering!Filtered
<1>2. Answering!InScope \in SUBSET Answering!Trades
  BY ScopeIsTrades
<1>3. base \subseteq Answering!InScope /\ (n # 0 => Cardinality(base) <= n)
  <2>1. CASE Answering!Derived(n, check)
    <3>1. /\ candidates \subseteq Answering!Trades /\ Cardinality(candidates) <= n /\ n # 0
      <4>1. n # 0 /\ candidates # {0}
        BY <2>1 DEF Answering!MayRead, Answering!Derived, Answering!Unread, Answering!All
      <4>2. Few
        BY DEF EvidenceInv
      <4>. QED BY <4>1, <4>2 DEF Few
    <3>2. IsFiniteSet(candidates) /\ candidates \cap Answering!InScope \in SUBSET candidates
      BY <3>1, EvidenceTrades, FS_Subset
    <3>3. /\ Cardinality(candidates \cap Answering!InScope) <= Cardinality(candidates)
          /\ Cardinality(candidates \cap Answering!InScope) \in Nat /\ Cardinality(candidates) \in Nat
      BY <3>2, FS_Subset, FS_CardinalityType
    <3>4. base = candidates \cap Answering!InScope
      BY <2>1
    <3>. QED BY <3>1, <3>3, <3>4
  <2>2. CASE ~Answering!Derived(n, check) /\ n # 0
    BY <1>2, <2>2, NewestAreFew
  <2>3. CASE ~Answering!Derived(n, check) /\ n = 0
    BY <2>3 DEF Answering!Newest, Answering!All
  <2>. QED BY <2>1, <2>2, <2>3
<1>4. kept \subseteq base /\ IsFiniteSet(base)
  BY <1>1, <1>2, <1>3, EvidenceTrades, FS_Subset
<1>5. /\ Cardinality(kept) <= Cardinality(base)
      /\ Cardinality(kept) \in Nat /\ Cardinality(base) \in Nat
  BY <1>4, FS_Subset, FS_CardinalityType
<1> HIDE DEF base, kept
<1>6. n # 0 => Cardinality(kept) <= n
  BY <1>3, <1>5
<1>7. kept \subseteq Answering!InScope /\ \A i \in kept : Answering!Has(journal[i], plan.outcome)
  BY <1>1, <1>3
<1>. QED BY <1>6, <1>7 DEF kept

\* The size that clips no note.
LEMMA WholeClipsNone ==
  Answering!Whole \in Nat /\ \A i \in Answering!Trades : NoteSize[i] <= Answering!Whole
<1> DEFINE T == Answering!Trades
           f == [i \in T |-> 1 + NoteSize[i]]
<1>1. IsFiniteSet(T) /\ \A i \in T : f[i] \in Nat /\ NoteSize[i] <= f[i] /\ NoteSize[i] \in Nat
  BY EvidenceTrades
<1>2. Answering!Whole = SumFunctionOnSet(f, T)
  BY EvidenceSum DEF Answering!Whole
<1> HIDE DEF f, T
<1>3. SumFunctionOnSet(f, T) \in Nat /\ \A i \in T : f[i] <= SumFunctionOnSet(f, T)
  BY <1>1, SumNatural, SumElement
<1>4. \A i \in T : NoteSize[i] <= Answering!Whole
  BY <1>1, <1>2, <1>3
<1>. QED BY <1>2, <1>3, <1>4 DEF T

\* The search finds a size that fits, where there is one.
LEMMA SearchFits ==
  ASSUME NEW detailed, Answering!Fits(Answering!Excerpts(detailed, 0))
  PROVE  /\ Answering!Search(detailed) \in Nat
         /\ Answering!Fits(Answering!Excerpts(detailed, Answering!Search(detailed)))
<1> DEFINE n == Answering!Whole + 1
           Fit == {b \in Nat : Answering!Fits(Answering!Excerpts(detailed, b))}
           V == [low : Nat, high : Int, best : Fit]
           start == [low |-> 0, high |-> Answering!Whole, best |-> 0]
           T(s) == Answering!Turn(detailed, s)
           F == [p \in (1 .. n) \X V |-> T(p[2])]
           Body(g) == [i \in 0 .. n |-> IF i = 0 THEN start ELSE T(g[i-1])]
           all == CHOOSE g : g = Body(g)
<1>1. n \in Nat /\ n \in 0 .. n
  BY WholeClipsNone
<1>2. start \in V
  BY WholeClipsNone
<1>3. ASSUME NEW s \in V PROVE T(s) \in V
  <2> DEFINE mid == (s.low + s.high) \div 2
  <2>1. s.low \in Nat /\ s.high \in Int /\ s.best \in Fit /\ mid \in Int
    OBVIOUS
  <2>2. s.low <= s.high => mid \in Nat
    BY <2>1
  <2>3. T(s) = CASE s.low > s.high -> s
                 [] s.low <= s.high /\ Answering!Fits(Answering!Excerpts(detailed, mid)) ->
                      [s EXCEPT !.low = mid + 1, !.best = mid]
                 [] OTHER -> [s EXCEPT !.high = mid - 1]
    BY DEF Answering!Turn
  <2> HIDE DEF T, mid
  <2>4. CASE s.low > s.high
    BY <2>1, <2>3, <2>4
  <2>5. CASE s.low <= s.high /\ Answering!Fits(Answering!Excerpts(detailed, mid))
    <3>1. mid \in Fit /\ mid + 1 \in Nat
      BY <2>2, <2>5
    <3>2. T(s) = [s EXCEPT !.low = mid + 1, !.best = mid]
      BY <2>1, <2>3, <2>5
    <3> HIDE DEF Fit
    <3>. QED BY <3>1, <3>2
  <2>6. CASE s.low <= s.high /\ ~Answering!Fits(Answering!Excerpts(detailed, mid))
    <3>1. T(s) = [s EXCEPT !.high = mid - 1]
      BY <2>1, <2>3, <2>6
    <3>. QED BY <2>1, <3>1
  <2>. QED BY <2>1, <2>4, <2>5, <2>6
<1> HIDE DEF n, start, V, T
<1>4. F \in [(1 .. n) \X V -> V]
  BY <1>3
<1>5. PICK k \in [0 .. n -> V] : Runs(k, n, start, F)
  <2> HIDE DEF F
  <2>. QED BY <1>1, <1>2, <1>4, LoopExists
<1>6. k = Body(k)
  <2>1. \A i \in 1 .. n : k[i] = T(k[i-1])
    <3>1. \A i \in 1 .. n : i - 1 \in 0 .. n
      BY <1>1
    <3>2. \A i \in 1 .. n : <<i, k[i-1]>> \in (1 .. n) \X V
      BY <3>1, <1>5
    <3>. QED BY <3>2, <1>5 DEF Runs
  <2>2. k[0] = start
    BY <1>5 DEF Runs
  <2>3. \A i \in 0 .. n : i = 0 \/ i \in 1 .. n
    BY <1>1
  <2>. QED BY <2>1, <2>2, <2>3
<1>7. all = Body(all)
  <2>1. \E g : g = Body(g)
    BY <1>6
  <2>. HIDE DEF Body
  <2>. QED BY <2>1
<1>8. all[n] \in V
  <2> DEFINE good == {i \in 0 .. n : all[i] \in V}
  <2> HIDE DEF all
  <2>1. 0 \in good
    BY <1>1, <1>2, <1>7
  <2>2. ASSUME NEW i \in 1 .. n, i - 1 \in good PROVE i \in good
    <3>1. i \in 0 .. n /\ i # 0 /\ all[i-1] \in V
      BY <1>1, <2>2
    <3>2. all[i] = T(all[i-1])
      BY <1>7, <3>1
    <3>. QED BY <1>3, <3>1, <3>2
  <2>3. \A i \in 0 .. n : i \in good
    <3> HIDE DEF good
    <3>. QED BY <1>1, <2>1, <2>2, LoopInduction
  <2>. QED BY <1>1, <2>3
<1>9. Answering!Search(detailed) = all[n].best
  BY DEF Answering!Search, n, start, T
<1>10. all[n].best \in Fit
  <2> HIDE DEF all, Fit
  <2>. QED BY <1>8 DEF V
<1>. QED BY <1>9, <1>10

\* What a request has read.
LEMMA RowsTyped ==
  ASSUME EvidenceInv, NEW k \in DOMAIN artifacts
  PROVE  /\ DOMAIN artifacts[k] \in SUBSET Answering!Trades
         /\ artifacts[k] \in [DOMAIN artifacts[k] -> {1, -1}]
         /\ Cardinality(DOMAIN artifacts[k]) \in Nat
<1>1. PICK ids \in SUBSET Answering!Trades : artifacts[k] \in [ids -> {1, -1}]
  BY DEF EvidenceInv, Contents, Readable
<1>2. DOMAIN artifacts[k] = ids
  BY <1>1
<1>3. IsFiniteSet(ids)
  BY EvidenceTrades, FS_Subset
<1>. QED BY <1>1, <1>2, <1>3, FS_CardinalityType

\* All the rows, and the summary, are truthful.
LEMMA CompleteIsTruthful ==
  ASSUME EvidenceInv
  PROVE  Truthful(Answering!Complete) /\ Truthful(Answering!Summary)
<1>. SUFFICES ASSUME NEW k \in DOMAIN artifacts
              PROVE  TrueOf(k, Answering!Complete[k]) /\ TrueOf(k, Answering!Summary[k])
  BY DEF Truthful, Answering!Complete, Answering!Summary
<1>1. /\ Answering!Complete[k] =
           [how |-> "complete", notes |-> Answering!Noted, clip |-> Answering!Whole,
            total |-> Cardinality(DOMAIN artifacts[k]),
            ids |-> IF k = "records" THEN DOMAIN artifacts[k] ELSE {}]
      /\ Answering!Summary[k] = IF k = "records"
                                THEN [Answering!Complete[k] EXCEPT !.how = "summary", !.ids = {}]
                                ELSE Answering!Complete[k]
  BY EvidenceCardinality DEF Answering!Complete, Answering!Summary
<1>2. TrueOf(k, Answering!Complete[k])
  <2>1. Answering!Noted \in BOOLEAN
    BY DEF EvidenceInv, Planned, Answering!AllPlans, Answering!Noted
  <2>. QED BY <1>1, <2>1, RowsTyped, WholeClipsNone DEF TrueOf, Sendable, Answering!Ways
<1>3. CASE k = "records"
  <2> DEFINE c == Answering!Complete[k]
             s == Answering!Summary[k]
  <2>1. s = [c EXCEPT !.how = "summary", !.ids = {}] /\ TrueOf(k, c)
    BY <1>1, <1>2, <1>3
  <2> HIDE DEF c, s
  <2>2. s \in Sendable /\ s.how = "summary" /\ s.ids = {} /\ s.clip = c.clip
        /\ s.notes = c.notes /\ s.total = c.total
    BY <2>1 DEF TrueOf, Sendable, Answering!Ways
  <2>3. TrueOf(k, s)
    BY <1>3, <2>1, <2>2 DEF TrueOf
  <2>. QED BY <1>2, <2>3 DEF s
<1>. QED BY <1>1, <1>2, <1>3

\* A sample has rows of each artifact that is too large, and all those of the others.
LEMMA SamplesAreTruthful ==
  ASSUME EvidenceInv, NEW detailed \in Answering!Samples
  PROVE  /\ Truthful(detailed)
         /\ \A k \in DOMAIN artifacts : detailed[k].how \in {"complete", "sample"}
         /\ \A size \in Nat : Truthful(Answering!Excerpts(detailed, size))
<1>1. /\ DOMAIN detailed = DOMAIN artifacts
      /\ \A k \in DOMAIN artifacts : detailed[k] \in Answering!SamplesOf(Answering!Complete[k])
  BY DEF Answering!Samples
<1>2. ASSUME NEW k \in DOMAIN artifacts
      PROVE  \/ detailed[k] = Answering!Complete[k]
             \/ /\ k = "records"
                /\ \E S \in SUBSET DOMAIN artifacts[k] :
                     detailed[k] = [Answering!Complete[k] EXCEPT !.how = "sample", !.ids = S]
  <2> DEFINE e == Answering!Complete[k]
  <2>1. e.ids = IF k = "records" THEN DOMAIN artifacts[k] ELSE {}
    BY DEF Answering!Complete
  <2>2. CASE Cardinality(e.ids) <= SampleSize
    BY <1>1, <2>2, EvidenceCardinality DEF Answering!SamplesOf
  <2>3. CASE ~(Cardinality(e.ids) <= SampleSize)
    <3>1. k = "records"
      <4>1. Cardinality({}) = 0 /\ 0 <= SampleSize
        BY FS_EmptySet, EvidenceAssumption
      <4>. HIDE DEF e
      <4>. QED BY <2>1, <2>3, <4>1
    <3>2. PICK S \in Answering!kSubset(SampleSize, e.ids) :
            detailed[k] = [e EXCEPT !.how = "sample", !.ids = S]
      <4>. HIDE DEF e
      <4>1. detailed[k] \in Answering!SamplesOf(e)
        BY <1>1 DEF e
      <4>. QED BY <2>3, <4>1, EvidenceCardinality DEF Answering!SamplesOf
    <3>3. S \in SUBSET e.ids
      BY DEF Answering!kSubset
    <3>. QED BY <2>1, <3>1, <3>2, <3>3
  <2>. QED BY <2>2, <2>3
<1>3. /\ DOMAIN Answering!Complete = DOMAIN artifacts
      /\ \A k \in DOMAIN artifacts : Answering!Complete[k].how = "complete"
  BY DEF Answering!Complete
<1>4. Truthful(Answering!Complete)
  BY CompleteIsTruthful
<1>5. ASSUME NEW k \in DOMAIN artifacts
      PROVE  /\ TrueOf(k, detailed[k]) /\ detailed[k].how \in {"complete", "sample"}
             /\ k = "records" /\ detailed[k].how = "complete" => detailed[k].ids = DOMAIN artifacts[k]
  <2> DEFINE e == Answering!Complete[k]
  <2>1. TrueOf(k, e) /\ e.how = "complete"
    BY <1>3, <1>4 DEF Truthful
  <2> HIDE DEF e
  <2>2. CASE detailed[k] = e
    BY <2>1, <2>2 DEF TrueOf
  <2>3. ASSUME k = "records", NEW S \in SUBSET DOMAIN artifacts[k],
               detailed[k] = [e EXCEPT !.how = "sample", !.ids = S]
        PROVE  TrueOf(k, detailed[k]) /\ detailed[k].how = "sample"
    <3>1. S \in SUBSET Answering!Trades
      BY RowsTyped
    <3>2. /\ e \in [how : Answering!Ways, notes : BOOLEAN, clip : Nat, total : Nat, ids : SUBSET Answering!Trades]
          /\ "sample" \in Answering!Ways
      BY <2>1 DEF TrueOf, Sendable, Answering!Ways
    <3>3. detailed[k].how = "sample" /\ detailed[k].ids = S
          /\ detailed[k].clip = e.clip /\ detailed[k].total = e.total /\ detailed[k].notes = e.notes
      BY <2>3, <3>2
    <3>4. detailed[k] \in Sendable
      BY <2>3, <3>1, <3>2 DEF Sendable
    <3>. QED BY <2>1, <2>3, <3>3, <3>4 DEF TrueOf
  <2>. QED BY <1>2, <2>2, <2>3 DEF e
<1>6. Truthful(detailed)
  BY <1>1, <1>5 DEF Truthful
<1>7. ASSUME NEW size \in Nat PROVE Truthful(Answering!Excerpts(detailed, size))
  <2> DEFINE x == Answering!Excerpts(detailed, size)
  <2>1. DOMAIN x = DOMAIN artifacts
    BY <1>1 DEF Answering!Excerpts
  <2>2. ASSUME NEW k \in DOMAIN artifacts PROVE TrueOf(k, x[k])
    <3>1. x[k] = IF k # "records" THEN detailed[k]
                 ELSE [detailed[k] EXCEPT !.how = Answering!Called(detailed[k].how), !.clip = size]
      BY <1>1 DEF Answering!Excerpts
    <3>2. CASE k # "records"
      BY <1>5, <3>1, <3>2
    <3>3. CASE k = "records"
      <4>1. Answering!Called(detailed[k].how) \in {"excerpts", "sample_excerpts"}
        BY DEF Answering!Called
      <4>2. Answering!Called(detailed[k].how) = "excerpts" => detailed[k].how = "complete"
        BY <1>5 DEF Answering!Called
      <4>3. TrueOf(k, detailed[k]) /\ (detailed[k].how = "complete" => detailed[k].ids = DOMAIN artifacts[k])
        BY <1>5, <3>3
      <4>4. x[k] \in Sendable /\ x[k].how = Answering!Called(detailed[k].how)
            /\ x[k].ids = detailed[k].ids /\ x[k].total = detailed[k].total
            /\ x[k].notes = detailed[k].notes
        BY <3>1, <3>3, <4>1, <4>3 DEF TrueOf, Sendable, Answering!Ways
      <4>. QED BY <3>3, <4>1, <4>2, <4>3, <4>4 DEF TrueOf
    <3>. QED BY <3>2, <3>3
  <2>. QED BY <2>1, <2>2 DEF Truthful
<1>. QED BY <1>5, <1>6, <1>7

\* What is written is truthful, and it fits unless it is the summary.
LEMMA WriteIsTruthful ==
  ASSUME EvidenceInv, Answering!Write
  PROVE  Truthful(sent') /\ (Answering!Fits(sent') \/ sent' = Answering!Summary)
<1>1. PICK detailed \in Answering!Samples :
        sent' = CASE Answering!Fits(Answering!Complete) -> Answering!Complete
                  [] ~Answering!Fits(Answering!Complete) /\ Answering!Fits(detailed) -> detailed
                  [] /\ ~Answering!Fits(Answering!Complete) /\ ~Answering!Fits(detailed)
                     /\ Answering!Fits(Answering!Excerpts(detailed, 0)) ->
                       Answering!Excerpts(detailed, Answering!Search(detailed))
                  [] OTHER -> Answering!Summary
  BY DEF Answering!Write
<1> DEFINE found == Answering!Excerpts(detailed, Answering!Search(detailed))
<1>2. /\ Truthful(Answering!Complete) /\ Truthful(Answering!Summary) /\ Truthful(detailed)
      /\ Answering!Fits(Answering!Excerpts(detailed, 0)) => Truthful(found) /\ Answering!Fits(found)
  BY CompleteIsTruthful, SamplesAreTruthful, SearchFits
<1> HIDE DEF found
<1>3. CASE Answering!Fits(Answering!Complete)
  BY <1>1, <1>2, <1>3
<1>4. CASE ~Answering!Fits(Answering!Complete) /\ Answering!Fits(detailed)
  BY <1>1, <1>2, <1>4
<1>5. CASE /\ ~Answering!Fits(Answering!Complete) /\ ~Answering!Fits(detailed)
           /\ Answering!Fits(Answering!Excerpts(detailed, 0))
  BY <1>1, <1>2, <1>5 DEF found
<1>6. CASE /\ ~Answering!Fits(Answering!Complete) /\ ~Answering!Fits(detailed)
           /\ ~Answering!Fits(Answering!Excerpts(detailed, 0))
  BY <1>1, <1>2, <1>6
<1>. QED BY <1>3, <1>4, <1>5, <1>6

\* Of what is written, what is said to be inspected was sent whole.
LEMMA WriteIsHonest ==
  ASSUME EvidenceInv, Answering!Write
  PROVE  Answering!CoverageIsHonest' /\ Contents'
<1>1. /\ artifacts' = artifacts /\ room' = room /\ journal' = journal /\ edits' = edits
      /\ plan' = plan
      /\ node' = "done"
  BY DEF Answering!Write
<1>2. Truthful(sent') /\ (Answering!Fits(sent') \/ sent' = Answering!Summary)
  BY WriteIsTruthful
<1>3. /\ DOMAIN sent' = DOMAIN artifacts
      /\ \A k \in DOMAIN artifacts : TrueOf(k, sent'[k])
  BY <1>2 DEF Truthful
<1>4. Answering!Inspected' \subseteq Answering!Included'
  BY DEF Answering!Inspected, Answering!Included
<1>5. Answering!Included' \subseteq Answering!Retrieved'
  BY <1>1, <1>3 DEF Answering!Included, Answering!Retrieved, TrueOf
<1>6. ASSUME NEW i \in Answering!Inspected'
      PROVE  \E k \in DOMAIN sent' :
               /\ i \in sent'[k].ids
               /\ plan'.analysis = "review" \/ plan'.notes =>
                    sent'[k].notes /\ Answering!Clipped(sent'[k].clip, i) = NoteSize[i]
  <2>1. PICK k \in DOMAIN sent' : sent'[k].how \in {"complete", "sample"} /\ i \in sent'[k].ids
    BY DEF Answering!Inspected
  <2>2. sent'[k].clip = Answering!Whole /\ i \in Answering!Trades
    BY <1>3, <2>1, RowsTyped DEF TrueOf
  <2>3. Answering!Clipped(sent'[k].clip, i) = NoteSize[i]
    BY <2>2, WholeClipsNone DEF Answering!Clipped
  <2>4. sent'[k].notes = Answering!Noted
    BY <1>3, <2>1 DEF TrueOf
  <2>. QED BY <1>1, <2>1, <2>3, <2>4 DEF Answering!Noted
<1>7. \A k \in DOMAIN artifacts' :
        /\ k \in DOMAIN sent' /\ sent'[k].total = Answering!Cardinality(DOMAIN artifacts'[k])
        /\ k = "records" /\ sent'[k].how \in {"complete", "excerpts"}
             => sent'[k].ids = DOMAIN artifacts'[k]
  BY <1>1, <1>3, EvidenceCardinality DEF TrueOf
<1>8. Answering!Fits(sent)' \/ sent' = Answering!Summary'
  <2>1. Answering!Summary' = Answering!Summary
    BY <1>1 DEF Answering!Summary, Answering!Complete, Answering!Noted
  <2>2. Answering!Fits(sent)' <=> Answering!Fits(sent')
    BY <1>1 DEF Answering!Fits
  <2>. QED BY <1>2, <2>1, <2>2
<1>9. Answering!CoverageIsHonest'
  BY <1>4, <1>5, <1>6, <1>7, <1>8 DEF Answering!CoverageIsHonest
<1>10. Contents'
  BY <1>1, <1>3 DEF EvidenceInv, Contents, TrueOf, Readable
<1>. QED BY <1>9, <1>10

\* Nothing is said of the coverage before the answer is written.
LEMMA CoverageKeeps ==
  ASSUME EvidenceInv, UNCHANGED <<node, plan, room, artifacts, sent>>
  PROVE  Answering!CoverageIsHonest'
<1>1. Answering!CoverageIsHonest
  BY DEF EvidenceInv
<1>2. Answering!Fits(sent)' <=> Answering!Fits(sent)
  BY DEF Answering!Fits
<1>3. /\ Answering!Inspected' = Answering!Inspected /\ Answering!Included' = Answering!Included
      /\ Answering!Retrieved' = Answering!Retrieved
  BY DEF Answering!Inspected, Answering!Included, Answering!Retrieved
<1>4. Answering!Summary' = Answering!Summary
  BY DEF Answering!Summary, Answering!Complete, Answering!Noted
<1>5. CASE node' # "done"
  BY <1>5 DEF Answering!CoverageIsHonest
<1>6. CASE node = "done"
  <2>1. /\ Answering!Inspected \subseteq Answering!Included
        /\ Answering!Included \subseteq Answering!Retrieved
        /\ \A i \in Answering!Inspected : \E k \in DOMAIN sent :
             /\ i \in sent[k].ids
             /\ plan.analysis = "review" \/ plan.notes =>
                  sent[k].notes /\ Answering!Clipped(sent[k].clip, i) = NoteSize[i]
        /\ Answering!Fits(sent) \/ sent = Answering!Summary
        /\ \A k \in DOMAIN artifacts :
             /\ k \in DOMAIN sent /\ sent[k].total = Answering!Cardinality(DOMAIN artifacts[k])
             /\ k = "records" /\ sent[k].how \in {"complete", "excerpts"}
                  => sent[k].ids = DOMAIN artifacts[k]
    BY <1>1, <1>6 DEF Answering!CoverageIsHonest
  <2>2. /\ Answering!Inspected' \subseteq Answering!Included'
        /\ Answering!Included' \subseteq Answering!Retrieved'
    BY <1>3, <2>1
  <2>3. \A i \in Answering!Inspected' : \E k \in DOMAIN sent' :
          /\ i \in sent'[k].ids
          /\ plan'.analysis = "review" \/ plan'.notes =>
               sent'[k].notes /\ Answering!Clipped(sent'[k].clip, i) = NoteSize[i]
    BY <1>3, <2>1
  <2>4. Answering!Fits(sent)' \/ sent' = Answering!Summary'
    BY <1>2, <1>4, <2>1
  <2>5. \A k \in DOMAIN artifacts' :
          /\ k \in DOMAIN sent' /\ sent'[k].total = Answering!Cardinality(DOMAIN artifacts'[k])
          /\ k = "records" /\ sent'[k].how \in {"complete", "excerpts"}
               => sent'[k].ids = DOMAIN artifacts'[k]
    BY <2>1
  <2>. QED BY <2>2, <2>3, <2>4, <2>5 DEF Answering!CoverageIsHonest
<1>. QED BY <1>5, <1>6

\* What does not touch the evidence of an answer.
LEMMA EditKeepsEvidence ==
  ASSUME EvidenceInv, NEW i \in Answering!Trades, NEW p \in {1, -1, 0}, Answering!Edit(i, p)
  PROVE  EvidenceInv'
<1>1. /\ edits < MaxEdits /\ journal' = [journal EXCEPT ![i] = p] /\ edits' = edits + 1
      /\ UNCHANGED <<node, plan, room, cohort, candidates, artifacts, sent>>
  BY DEF Answering!Edit
<1>2. Answering!CoverageIsHonest'
  BY <1>1, CoverageKeeps
<1>3. Contents'
  <2>1. edits \in Nat /\ edits <= MaxEdits /\ MaxEdits \in Nat
    BY EvidenceAssumption DEF EvidenceInv, Contents
  <2>2. edits' \in 0 .. MaxEdits
    BY <1>1, <2>1
  <2>. QED BY <1>1, <2>2 DEF EvidenceInv, Contents, Readable
<1>4. Planned' /\ Gathered' /\ Few' /\ Answering!RowsAreAsked'
  BY <1>1 DEF EvidenceInv, Planned, Gathered, Few, Limit, Answering!Own, Answering!Requests,
     Answering!RowsAreAsked
<1>. QED BY <1>2, <1>3, <1>4 DEF EvidenceInv

\* ... and what leaves it all alone.
LEMMA EvidenceStutters ==
  ASSUME EvidenceInv, UNCHANGED evidenceVars
  PROVE  EvidenceInv'
<1>1. UNCHANGED <<journal, edits, node, plan, room, cohort, candidates, artifacts, sent>>
  BY DEF evidenceVars
<1>2. Answering!CoverageIsHonest'
  BY <1>1, CoverageKeeps
<1>3. Contents' /\ Planned' /\ Gathered' /\ Few' /\ Answering!RowsAreAsked'
  BY <1>1 DEF EvidenceInv, Contents, Readable, Planned, Gathered, Few, Limit, Answering!Own,
     Answering!Requests, Answering!RowsAreAsked
<1>. QED BY <1>2, <1>3 DEF EvidenceInv

\* The first read of two finds no more than were asked for.
LEMMA CandidatesAreFew ==
  ASSUME EvidenceInv, NEW n \in Nat, NEW check \in BOOLEAN, n = Limit,
         Answering!ReadCandidates(n, check)
  PROVE  EvidenceInv'
<1>1. /\ n # 0 /\ candidates = {0}
      /\ UNCHANGED <<journal, edits, node, plan, room, cohort, artifacts, sent>>
  BY DEF Answering!ReadCandidates, Answering!Derived, Answering!All, Answering!Unread
<1>2. candidates' \subseteq Answering!Trades /\ Cardinality(candidates') <= n
  <2> DEFINE ids == Answering!Filtered(Answering!InScope)
             from == IF check THEN Answering!Checked(ids) ELSE ids
  <2>1. candidates' = Answering!Newest(from, n)
    BY DEF Answering!ReadCandidates
  <2>2. from \in SUBSET Answering!Trades
    BY ScopeIsTrades DEF Answering!Filtered, Answering!Checked
  <2>. HIDE DEF from
  <2>. QED BY <1>1, <2>1, <2>2, NewestAreFew
<1>3. Answering!CoverageIsHonest'
  BY <1>1, CoverageKeeps
<1>4. Limit' = Limit
  BY <1>1 DEF Limit, Answering!Own
<1>5. Few'
  BY <1>1, <1>2, <1>4 DEF EvidenceInv, Few
<1>6. Contents' /\ Planned' /\ Gathered' /\ Answering!RowsAreAsked'
  BY <1>1 DEF EvidenceInv, Contents, Readable, Planned, Gathered, Limit, Answering!Own,
     Answering!Requests, Answering!RowsAreAsked
<1>. QED BY <1>3, <1>5, <1>6 DEF EvidenceInv

\* The cohort is no more than the number it was asked for.
LEMMA SelectionKeepsEvidence ==
  ASSUME EvidenceInv, Answering!SelectCohort
  PROVE  EvidenceInv'
<1>1. /\ node = "select" /\ Answering!MayRead(plan.count, FALSE)
      /\ cohort' = Answering!Kept(plan.count, FALSE) /\ candidates' = {0} /\ node' = "gather"
      /\ UNCHANGED <<journal, edits, plan, room, artifacts, sent>>
  BY DEF Answering!SelectCohort, Answering!Unread
<1>2. plan.count \in Nat /\ plan.count # 0 /\ plan.kinds # {} /\ DOMAIN artifacts = {}
  BY <1>1 DEF EvidenceInv, Planned, Gathered, Answering!AllPlans
<1>3. cohort' \subseteq Answering!Trades /\ Cardinality(cohort') <= plan.count
  <2>1. plan.count = Limit
    BY <1>1 DEF Limit
  <2>2. /\ cohort' \subseteq Answering!InScope /\ Cardinality(cohort') <= plan.count
    BY <1>1, <1>2, <2>1, KeptIsAsked
  <2>. QED BY <2>2, ScopeIsTrades
<1>4. 0 \notin cohort'
  BY <1>3, EvidenceTrades
<1>5. Few'
  BY <1>1, <1>3 DEF Few
<1>6. Gathered' /\ Planned' /\ Contents'
  BY <1>1, <1>2, <1>4 DEF EvidenceInv, Planned, Gathered, Contents, Readable, Answering!Requests
<1>7. Answering!CoverageIsHonest' /\ Answering!RowsAreAsked'
  BY <1>1, <1>2 DEF Answering!CoverageIsHonest, Answering!RowsAreAsked
<1>. QED BY <1>5, <1>6, <1>7 DEF EvidenceInv

\* A request's rows are of the trades it was asked for, as it read them.
LEMMA ExecutionKeepsEvidence ==
  ASSUME EvidenceInv, NEW kind \in Answering!Requests, Answering!Execute(kind)
  PROVE  EvidenceInv'
<1> DEFINE own == Answering!Own
           read == Answering!Kept(own, plan.check)
           ids == IF plan.check /\ kind = "records" THEN Answering!Checked(read) ELSE read
           rows == [i \in ids |-> journal[i]]
<1>1. /\ node = "gather" /\ kind \notin DOMAIN artifacts /\ Answering!MayRead(own, plan.check)
      /\ artifacts' = [k \in DOMAIN artifacts \cup {kind} |->
                         IF k = kind THEN rows ELSE artifacts[k]]
      /\ node' = (IF DOMAIN artifacts' = Answering!Requests THEN "write" ELSE node)
      /\ candidates' = {0}
      /\ UNCHANGED <<journal, edits, plan, room, cohort, sent>>
  BY DEF Answering!Execute, Answering!Unread
<1>2. /\ plan.count \in Nat /\ plan.own \in Nat /\ plan.check \in BOOLEAN /\ own \in Nat
      /\ own = Limit
  BY <1>1 DEF EvidenceInv, Planned, Answering!AllPlans, Answering!Own, Answering!All, Limit
<1> HIDE DEF own
<1>3. /\ read \subseteq Answering!InScope
      /\ \A i \in read : Answering!Has(journal[i], plan.outcome)
      /\ own # 0 => Cardinality(read) <= own
  BY <1>1, <1>2, KeptIsAsked
<1>4. ids \subseteq read
  BY DEF Answering!Checked
<1> HIDE DEF read, ids
<1>5. /\ ids \in SUBSET Answering!Trades
      /\ \A i \in ids : journal[i] \in {1, -1} /\ (cohort # {0} => i \in cohort)
      /\ plan.ids # {} => ids \subseteq plan.ids
  <2>1. plan.ids \subseteq Answering!Trades
    BY DEF EvidenceInv, Planned, Answering!AllPlans
  <2>2. /\ ids \subseteq Answering!Named /\ Answering!Named \subseteq Answering!Trades
        /\ \A i \in ids : journal[i] # 0 /\ (cohort # {0} => i \in cohort)
    BY <1>3, <1>4, <2>1 DEF Answering!InScope, Answering!Named, Answering!Gone, Answering!Everything
  <2>. QED BY <1>1, <2>2 DEF Answering!Named, EvidenceInv, Contents
<1>6. own # 0 => Cardinality(ids) <= own
  <2>1. IsFiniteSet(read)
    BY <1>3, ScopeIsTrades, EvidenceTrades, FS_Subset
  <2>2. Cardinality(ids) <= Cardinality(read) /\ Cardinality(ids) \in Nat /\ Cardinality(read) \in Nat
    BY <1>4, <2>1, FS_Subset, FS_CardinalityType
  <2>. QED BY <1>2, <1>3, <2>2
<1>7. rows \in Readable /\ DOMAIN rows = ids /\ \A i \in ids : rows[i] = journal[i]
  BY <1>5 DEF Readable
<1> HIDE DEF rows
<1>8. /\ DOMAIN artifacts' = DOMAIN artifacts \cup {kind} /\ artifacts'[kind] = rows
      /\ \A k \in DOMAIN artifacts : artifacts'[k] = artifacts[k]
  BY <1>1
<1>9. Contents'
  <2>1. \A k \in DOMAIN artifacts' : artifacts'[k] \in Readable
    BY <1>7, <1>8 DEF EvidenceInv, Contents
  <2>2. DOMAIN sent' \subseteq DOMAIN artifacts'
    BY <1>1, <1>8 DEF EvidenceInv, Contents
  <2>. QED BY <1>1, <2>1, <2>2 DEF EvidenceInv, Contents, Readable
<1>10. Planned' /\ Gathered' /\ Few'
  <2>1. Answering!Requests' = Answering!Requests
    BY <1>1 DEF Answering!Requests
  <2>2. plan.kinds # {} /\ DOMAIN artifacts \subseteq Answering!Requests
    BY <1>1 DEF EvidenceInv, Gathered
  <2>. QED BY <1>1, <1>8, <2>1, <2>2 DEF EvidenceInv, Planned, Gathered, Few
<1>11. Answering!CoverageIsHonest'
  BY <1>1 DEF Answering!CoverageIsHonest
<1>12. Answering!RowsAreAsked'
  <2>1. Answering!Own' = own
    BY <1>1 DEF own, Answering!Own
  <2>2. /\ cohort # {0} => Cardinality(cohort) <= plan.count
        /\ plan.asked # 0 => cohort # {0} /\ plan.count = plan.asked
    BY <1>1 DEF EvidenceInv, Few, Planned, Gathered
  <2>3. ASSUME NEW k \in DOMAIN artifacts'
        PROVE  /\ \A i \in DOMAIN artifacts'[k] : Answering!Has(artifacts'[k][i], plan.outcome)
               /\ plan.ids # {} => DOMAIN artifacts'[k] \subseteq plan.ids
               /\ cohort # {0} => DOMAIN artifacts'[k] \subseteq cohort
               /\ own # 0 => Cardinality(DOMAIN artifacts'[k]) <= own
    <3>1. CASE k = kind
      BY <1>3, <1>4, <1>5, <1>6, <1>7, <1>8, <3>1
    <3>2. CASE k # kind
      BY <1>8, <3>2, EvidenceCardinality DEF EvidenceInv, Answering!RowsAreAsked, own,
         Answering!All, Answering!Everything
    <3>. QED BY <3>1, <3>2
  <2>4. SUFFICES ASSUME NEW k \in DOMAIN artifacts'
                 PROVE  /\ \A i \in DOMAIN artifacts'[k] : Answering!Has(artifacts'[k][i], plan'.outcome)
                        /\ plan'.ids # {} => DOMAIN artifacts'[k] \subseteq plan'.ids
                        /\ cohort' # {0} => /\ DOMAIN artifacts'[k] \subseteq cohort'
                                            /\ Answering!Cardinality(cohort') <= plan'.count
                        /\ plan'.asked # 0 => cohort' # {0} /\ plan'.count = plan'.asked
                        /\ Answering!Own' # 0 => Answering!Cardinality(DOMAIN artifacts'[k]) <= Answering!Own'
    BY DEF Answering!RowsAreAsked, Answering!All, Answering!Everything
  <2>. QED BY <1>1, <2>1, <2>2, <2>3, EvidenceCardinality
<1>. QED BY <1>9, <1>10, <1>11, <1>12 DEF EvidenceInv

\* The answer.
LEMMA WriteKeepsEvidence ==
  ASSUME EvidenceInv, Answering!Write
  PROVE  EvidenceInv'
<1>1. /\ node = "write" /\ node' = "done"
      /\ UNCHANGED <<journal, edits, plan, room, cohort, candidates, artifacts>>
  BY DEF Answering!Write
<1>2. Planned' /\ Gathered' /\ Few' /\ Answering!RowsAreAsked'
  BY <1>1 DEF EvidenceInv, Planned, Gathered, Few, Limit, Answering!Own, Answering!Requests,
     Answering!RowsAreAsked
<1>. QED BY <1>2, WriteIsHonest DEF EvidenceInv

\* Any step of the service keeps the invariant, and so do those of the others.
LEMMA EvidenceKeeps ==
  ASSUME EvidenceInv, [Next]_vars
  PROVE  EvidenceInv'
<1>1. UNCHANGED evidenceVars \/ Answering!Next
  BY DEF Next, Only, vars
<1>2. CASE Answering!Next
  <2>1. ASSUME NEW i \in Answering!Trades, NEW p \in {1, -1, 0}, Answering!Edit(i, p)
        PROVE  EvidenceInv'
    BY <2>1, EditKeepsEvidence
  <2>2. CASE node = "select" /\ Answering!ReadCandidates(plan.count, FALSE)
    BY <2>2, CandidatesAreFew DEF EvidenceInv, Planned, Answering!AllPlans, Limit
  <2>3. CASE node = "gather" /\ Answering!ReadCandidates(Answering!Own, plan.check)
    <3>1. Answering!Own \in Nat /\ plan.check \in BOOLEAN /\ Answering!Own = Limit
      BY <2>3 DEF EvidenceInv, Planned, Answering!AllPlans, Limit, Answering!Own, Answering!All
    <3>. QED BY <2>3, <3>1, CandidatesAreFew
  <2>4. CASE Answering!SelectCohort
    BY <2>4, SelectionKeepsEvidence
  <2>5. CASE Answering!Write
    BY <2>5, WriteKeepsEvidence
  <2>6. ASSUME NEW kind \in Answering!Requests, Answering!Execute(kind)
        PROVE  EvidenceInv'
    BY <2>6, ExecutionKeepsEvidence
  <2>. QED BY <1>2, <2>1, <2>2, <2>3, <2>4, <2>5, <2>6 DEF Answering!Next, Answering!Gone
<1>. QED BY <1>1, <1>2, EvidenceStutters

\* It holds to begin with.
LEMMA EvidenceInit ==
  ASSUME Init
  PROVE  EvidenceInv
<1>1. /\ journal \in [Answering!Trades -> {1, -1}] /\ edits = 0 /\ room \in Rooms
      /\ node = (IF plan.kinds = {} THEN "write" ELSE IF plan.count = 0 THEN "gather" ELSE "select")
      /\ cohort = {0} /\ candidates = {0} /\ artifacts = <<>> /\ sent = <<>>
  BY DEF Init, Answering!Init, Answering!All, Answering!Everything, Answering!Unread
<1>2. PICK p \in Plans, q \in Answering!Questions : plan = Answering!Bound(p, q)
  BY DEF Init, Answering!Init
<1>3. /\ p \in Answering!AllPlans /\ p.asked = 0
      /\ q.number \in Nat /\ q.review \in BOOLEAN /\ (q.trade = 0 \/ q.trade \in Answering!Trades)
  <2>1. /\ q.number \in {0} \cup Numbers /\ q.review \in BOOLEAN
        /\ q.trade \in {0} \cup Answering!Trades
    BY DEF Answering!Questions, Answering!All, Answering!NoTrade
  <2>2. p \in Answering!AllPlans /\ p.asked = 0
    BY EvidenceAssumption, Zenon DEF Answering!All
  <2>3. Numbers \subseteq Nat \ {0}
    BY EvidenceAssumption, Zenon
  <2>4. 0 \in Nat
    OBVIOUS
  <2>5. q.number \in Nat
    BY <2>1, <2>3, <2>4, Zenon
  <2>. QED BY <2>1, <2>2, <2>5
<1>4. Planned
  <2>1. "records" \in Answering!Kinds
    BY DEF Answering!Kinds
  <2>2. CASE q.trade = 0 /\ q.number = 0
    BY <1>2, <1>3, <2>2 DEF Planned, Answering!Bound, Answering!Numbered, Answering!All, Answering!NoTrade
  <2>3. CASE q.trade = 0 /\ q.number # 0
    <3> DEFINE kinds == IF p.kinds = {} THEN {"records"} ELSE p.kinds
               notes == p.notes \/ p.kinds = {}
               analysis == IF q.review THEN "review" ELSE p.analysis
    <3>1. plan = [p EXCEPT !.asked = q.number, !.count = q.number, !.analysis = analysis,
                           !.notes = notes, !.kinds = kinds]
      BY <1>2, <2>3 DEF Answering!Bound, Answering!Numbered, Answering!All, Answering!NoTrade
    <3>2. /\ kinds \in SUBSET Answering!Kinds /\ kinds # {} /\ notes \in BOOLEAN
          /\ analysis \in {"review", "calculation"}
      BY <1>3, <2>1 DEF Answering!AllPlans
    <3> HIDE DEF kinds, notes, analysis
    <3>. QED BY <1>3, <2>3, <3>1, <3>2 DEF Planned, Answering!AllPlans
  <2>4. CASE q.trade # 0
    <3>1. plan = [outcome |-> "", check |-> p.check, count |-> 0, own |-> 0, asked |-> 0, notes |-> TRUE,
                  ids |-> {q.trade}, analysis |-> "review", kinds |-> {"records"}]
      BY <1>2, <2>4 DEF Answering!Bound, Answering!All, Answering!NoTrade
    <3>2. p.check \in BOOLEAN /\ {q.trade} \in SUBSET Answering!Trades /\ "" \in Answering!Outcomes
      BY <1>3, <2>4 DEF Answering!AllPlans, Answering!Outcomes
    <3>. QED BY <2>1, <3>1, <3>2 DEF Planned, Answering!AllPlans
  <2>. QED BY <2>2, <2>3, <2>4
<1>5. DOMAIN artifacts = {} /\ DOMAIN sent = {}
  BY <1>1
<1>6. Gathered /\ Few /\ Answering!RowsAreAsked /\ Answering!CoverageIsHonest
  BY <1>1, <1>5 DEF Gathered, Few, Answering!RowsAreAsked, Answering!CoverageIsHonest
<1>7. Contents
  BY <1>1, <1>5, EvidenceAssumption DEF Contents
<1>. QED BY <1>4, <1>6, <1>7 DEF EvidenceInv

\* All of it holds always.
LEMMA EvidenceInvariance == Spec => []EvidenceInv
<1>1. Init => EvidenceInv
  BY EvidenceInit
<1>2. EvidenceInv /\ [Next]_vars => EvidenceInv'
  BY EvidenceKeeps
<1>. QED BY <1>1, <1>2, PTL DEF Spec

\* What is planned, read and sent is of its type.
LEMMA EvidenceTyped == Spec => []Answering!TypeOK
<1>1. EvidenceInv => Answering!TypeOK
  <2>. SUFFICES ASSUME EvidenceInv PROVE Answering!TypeOK
    OBVIOUS
  <2>1. /\ journal \in [Answering!Trades -> {1, -1, Answering!Gone}] /\ edits \in 0 .. MaxEdits
        /\ node \in {"select", "gather", "write", "done"} /\ plan \in Answering!AllPlans
        /\ room \in Nat
    BY DEF EvidenceInv, Contents, Gathered, Planned, Answering!Gone
  <2>2. /\ cohort \in (SUBSET Answering!Trades) \cup {Answering!Everything}
        /\ candidates \in (SUBSET Answering!Trades) \cup {Answering!Unread}
    <3>1. /\ cohort = {0} \/ cohort \subseteq Answering!Trades
          /\ candidates = {0} \/ candidates \subseteq Answering!Trades
      BY DEF EvidenceInv, Few
    <3>. QED BY <3>1 DEF Answering!Everything, Answering!Unread
  <2>3. Answering!Requests \subseteq Answering!Kinds
    BY <2>1 DEF Answering!AllPlans, Answering!Requests, Answering!Kinds
  <2>4. DOMAIN artifacts \subseteq Answering!Kinds /\ DOMAIN sent \subseteq Answering!Kinds
    BY <2>3 DEF EvidenceInv, Gathered, Contents
  <2>5. \A k \in DOMAIN artifacts : artifacts[k] \in Readable
    BY DEF EvidenceInv, Contents
  <2>6. \A k \in DOMAIN artifacts :
          \E ids \in SUBSET Answering!Trades : artifacts[k] \in [ids -> {1, -1}]
    BY <2>5 DEF Readable
  <2>7. \A k \in DOMAIN sent : sent[k] \in Sendable
    BY DEF EvidenceInv, Contents
  <2>. QED BY <2>1, <2>2, <2>4, <2>6, <2>7 DEF Answering!TypeOK, Sendable
<1>. QED BY <1>1, EvidenceInvariance, PTL

\* EvidenceIsHonest, of every plan, journal, context and order of the requests:
\* however the trades are edited between the reads, the rows of an answer are
\* those it was asked for, a review reads the records, and what the answer
\* calls inspected was sent, with its whole note where notes were asked for
\* (ai_evidence.py).
THEOREM EvidenceAlwaysHonest == Spec => []EvidenceIsHonest
<1>1. EvidenceInv => EvidenceIsHonest
  <2>. SUFFICES ASSUME EvidenceInv PROVE EvidenceIsHonest
    OBVIOUS
  <2>1. Answering!ReviewsReadRecords
    BY DEF EvidenceInv, Gathered, Answering!ReviewsReadRecords, Answering!Requests
  <2>. QED BY <2>1 DEF EvidenceInv, EvidenceIsHonest, Answering!EvidenceIsHonest
<1>. QED BY <1>1, EvidenceInvariance, PTL
=============================================================================
