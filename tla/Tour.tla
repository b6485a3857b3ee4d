-------------------------------- MODULE Tour --------------------------------
(***************************************************************************)
(* The product tour: its state on the server (src/backend/onboarding.py)   *)
(* and the tabs that show it (src/src/Onboarding.tsx).                     *)
(*                                                                         *)
(* A transition is one transaction under the user's lock.  What is not     *)
(* atomic is its way back: a save may reach the server after its tab has   *)
(* given it up, its answer may be lost, and the answers to saves and to    *)
(* background reads may overtake each other.                               *)
(***************************************************************************)
EXTENDS Integers, FiniteSets

CONSTANTS Tabs,
          LastStep,       \* the last of STEPS (7 in the code, from 0)
          MaxRevision,    \* bound: transitions before the last press
          MaxStrays       \* bound: saves given up that are yet to arrive

VARIABLES
  tour,       \* the state on the server
  tab,        \* [state, save, read]: what it shows, its save and its background read
  stray       \* the saves given up

vars == <<tour, tab, stray>>

Statuses == {"not_required", "pending", "in_progress", "skipped", "completed"}
Actions == {"next", "back", "skip", "complete", "restart"}
State(status) == [status |-> status, step |-> 0, revision |-> 0]
Sent(action, revision) == [at |-> "sent", action |-> action, revision |-> revision]
Idle == [at |-> "idle"]
Answered(outcome) == [at |-> outcome]
Holding(outcome, state) == [at |-> outcome, state |-> state]

\* activeState
Active(state) == state.status \in {"pending", "in_progress"}

\* A workspace that predates the tour has no record of it.
Init ==
  /\ \E s \in {"pending", "not_required"} : tour = State(s)
  /\ tab = [t \in Tabs |-> [state |-> tour, save |-> Idle, read |-> Idle]]
  /\ stray = {}

-----------------------------------------------------------------------------
(* transition                                                              *)

Moved(status, step) == [status |-> status, step |-> step, revision |-> tour.revision + 1]

\* Seeded fault: one may go back from the first step.
BackFromFirst == TRUE

MayGoBack == tour.step > 0

\* What an action leads to; nothing when it is not available at this step.
Outcome(action) ==
  CASE action = "restart" -> {Moved("in_progress", 0)}
    [] action = "next" /\ tour.step < LastStep -> {Moved("in_progress", tour.step + 1)}
    [] action = "back" /\ MayGoBack -> {Moved("in_progress", tour.step - 1)}
    [] action = "skip" -> {Moved("skipped", tour.step)}
    [] action = "complete" /\ tour.step = LastStep -> {Moved("completed", tour.step)}
    [] OTHER -> {}

Conflict(q) == \/ q.revision # tour.revision
               \/ q.action # "restart" /\ ~Active(tour)

\* The states a save may leave, none when it is refused.
Result(q) == IF Conflict(q) THEN {} ELSE Outcome(q.action)

Transition(t) ==
  LET q == tab[t].save IN
  /\ q.at = "sent"
  /\ tour' \in IF Result(q) = {} THEN {tour} ELSE Result(q)
  /\ tab' = [tab EXCEPT ![t].save =
       IF Conflict(q) THEN Answered("conflict")
       ELSE IF Result(q) = {} THEN Answered("refused") ELSE Holding("saved", tour')]
  /\ UNCHANGED stray

\* One that arrives when nobody waits for it.
StrayTransition(q) ==
  /\ q \in stray
  /\ tour' \in IF Result(q) = {} THEN {tour} ELSE Result(q)
  /\ stray' = stray \ {q}
  /\ UNCHANGED tab

-----------------------------------------------------------------------------
(* A tab.                                                                  *)

\* act, from the tour while it is shown, or the launcher's restart.
Act(t, action) ==
  LET state == tab[t].state IN
  /\ tab[t].save = Idle
  /\ action # "restart" => Active(state)
  /\ action = "complete" => state.step = LastStep
  /\ action = "next" => state.step < LastStep
  /\ tour.revision < MaxRevision
  /\ tab' = [tab EXCEPT ![t].save = Sent(action, state.revision)]
  /\ UNCHANGED <<tour, stray>>

\* Seeded fault: every answer is taken for the latest state.
TakenAsLatest(current, latest) == latest

\* setState(current => ...); sync compares strictly, which is the same, as
\* states of one revision are equal.
Newer(current, latest) == IF latest.revision >= current.revision THEN latest ELSE current

\* The answer to a save, or to the read that follows a conflict.
Receive(t) ==
  LET a == tab[t].save IN
  /\ \/ /\ a.at \in {"saved", "latest"}
        /\ tab' = [tab EXCEPT ![t].state = Newer(@, a.state), ![t].save = Idle]
     \/ a.at = "refused" /\ tab' = [tab EXCEPT ![t].save = Idle]
     \/ a.at = "conflict" /\ tab' = [tab EXCEPT ![t].save = Answered("reading")]
  /\ UNCHANGED <<tour, stray>>

\* GET /api/onboarding, after a conflict ...
ReadLatest(t) ==
  /\ tab[t].save.at = "reading"
  /\ tab' = [tab EXCEPT ![t].save = Holding("latest", tour)]
  /\ UNCHANGED <<tour, stray>>

\* After 10 seconds the tab shows that it could not save; the request is lost
\* or is yet to arrive, or its answer is lost.
GiveUp(t) ==
  /\ tab[t].save # Idle
  /\ tab' = [tab EXCEPT ![t].save = Idle]
  /\ \/ stray' = stray
     \/ tab[t].save.at = "sent" /\ Cardinality(stray) < MaxStrays /\ stray' = stray \cup {tab[t].save}
  /\ UNCHANGED tour

\* ... and in the background, when the tab is focused or another has saved;
\* bound: by one tab at a time, while the others have no save on its way.
Sync(t) ==
  /\ stray = {} /\ \A u \in Tabs : tab[u].read = Idle /\ (u # t => tab[u].save = Idle)
  /\ tab' = [tab EXCEPT ![t].read = Holding("latest", tour)]
  /\ UNCHANGED <<tour, stray>>

Synced(t) ==
  /\ tab[t].read # Idle
  /\ tab' = [tab EXCEPT ![t].state = Newer(@, tab[t].read.state), ![t].read = Idle]
  /\ UNCHANGED <<tour, stray>>

Next == \/ \E q \in stray : StrayTransition(q)
        \/ \E t \in Tabs : \/ Transition(t) \/ Receive(t) \/ ReadLatest(t) \/ GiveUp(t)
                           \/ Sync(t) \/ Synced(t)
                           \/ \E action \in Actions : Act(t, action)

Spec == Init /\ [][Next]_vars
-----------------------------------------------------------------------------
(* What holds.                                                             *)

States == [status : Statuses, step : 0 .. LastStep, revision : Nat]

TypeOK ==
  /\ tour \in States
  /\ \A t \in Tabs :
       /\ tab[t].state \in States
       /\ tab[t].save.at \in {"idle", "sent", "saved", "conflict", "refused", "reading", "latest"}
       /\ tab[t].read.at \in {"idle", "latest"}

\* A tab whose revision is the server's shows the server's step: what the
\* user presses is applied to the step the user sees, and no press is applied
\* twice, however requests, answers and tabs overtake each other.
TabsAgree == \A t \in Tabs :
  /\ tab[t].state.revision <= tour.revision
  /\ tab[t].state.revision = tour.revision => tab[t].state = tour

\* No tab goes back to an older state.
NeverBack == [][\A t \in Tabs : tab'[t].state.revision >= tab[t].state.revision]_vars

TourIsShared == []TabsAgree /\ NeverBack
=============================================================================
