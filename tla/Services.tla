------------------------------ MODULE Services ------------------------------
(***************************************************************************)
(* The components that share no state in what is modelled of them, each    *)
(* with parameters of its own.  A behaviour is one of a single component,  *)
(* that `service' names, beside which the others stay in a state they may  *)
(* begin in: what is true of every behaviour of a component is true here   *)
(* of every behaviour of its service.                                      *)
(***************************************************************************)
EXTENDS Integers, Sequences, FiniteSets

CONSTANTS
  Inputs, Outputs, Floor, MaxRounds,                                          \* AICalls
  MaxWatches, Batch, Attempts, InFlight, MaxEvents,                           \* EventStream
  Users, Models, Grants, MaxChanges, Verified, Founder, Configured, Testing,  \* Admin
  AccountIds, DeskRequests, Nothing,                                          \* Workspace
  Identities, Books, Drafts, Files, Unreadable, MaxRows,
  MaxTrades, MaxVersion, MaxRequests, MaxOpen, NoteLimit,                     \* Journal
  Tabs, LastStep, MaxRevision, MaxStrays,                                     \* Tour
  MaxPrice, Bars, MaxPositions, Fees,                                         \* Practice
  Quantity, Directions, Entry, Exits, Costs, Moments, PerDay, Mark, Setups,
  Enough, MaxReported, MaxRevised,                                            \* Reports
  NoteSize, Usual, SampleSize, Marker, Rooms, Plans, Numbers, MaxEdits,       \* Evidence
  Balances, CallInputs, CallOutputs                                           \* Pricing

Names == {"calls", "stream", "admin", "workspace", "journal", "tour", "practice", "reports",
          "evidence", "pricing"}

\* Every bucket of a review's output leaves room for an answer.
ASSUME CallsAssumption ==
  /\ Inputs \in Nat /\ Outputs \in Nat /\ Floor \in Nat /\ MaxRounds \in Nat
  /\ Floor <= (Outputs * 3) \div 4

ASSUME StreamAssumption ==
  /\ MaxWatches \in Nat /\ Batch \in Nat \ {0}
  /\ MaxEvents \in Nat \ {0} /\ Attempts \in Nat \ {0}

ASSUME AdminAssumption ==
  /\ Grants \subseteq {"owner", "admin", "support"} /\ "owner" \in Grants /\ IsFiniteSet(Users)
  /\ Founder \in Users \cap Verified /\ Models # {}

ASSUME PricingAssumption ==
  Balances \subseteq Nat /\ CallInputs \subseteq Nat /\ CallOutputs \subseteq Nat

ASSUME TourAssumption == LastStep \in Nat

ASSUME DeskAssumption ==
  Nothing \notin AccountIds \cup DeskRequests /\ "unset" \notin AccountIds \cup {Nothing}

ASSUME PracticeAssumption == MaxPrice \in Nat \ {0} /\ Bars \in Nat /\ Fees \subseteq Nat

ASSUME JournalAssumption ==
  /\ Files \subseteq Seq(Identities \cup {Unreadable})
  /\ MaxVersion \in Nat \ {0} /\ MaxRequests \in Nat

ASSUME ReportsAssumption ==
  /\ Quantity \in Nat \ {0} /\ Directions \subseteq {1, -1} /\ Entry \in Int /\ Mark \in Int
  /\ Exits \subseteq Int /\ Costs \subseteq Int /\ Moments \subseteq Int
  /\ PerDay \in Nat \ {0} /\ IsFiniteSet(Setups)

VARIABLES
  service,
  status, cancelRequested, revision, checkpoint, credits, queued, calls, pc, state, seen, attempt,
  identified, ceiling, required, opened, late,                                \* AICalls
  phase, sequence, server, wire, controller, watch, cursor, shown, answers,   \* EventStream
  tables, productRevision, audit, request,                                    \* Admin
  profile, accounts, preferences, usedAccounts, given, owner, asked,          \* Workspace
  trades, books, open, begun,                                                 \* Journal
  tour, tab, stray,                                                           \* Tour
  bar, candle, position, closed, balance, exported, imported,                 \* Practice
  reported,                                                                   \* Reports
  journal, edits, node, plan, room, cohort, candidates, artifacts, sent,      \* Evidence
  limit, tokens                                                               \* Pricing

Calls == INSTANCE AICalls
Stream == INSTANCE EventStream
Administration == INSTANCE Admin WITH MaxRequests <- MaxChanges, revision <- productRevision
Desk == INSTANCE Workspace WITH Ids <- AccountIds, Requests <- DeskRequests, used <- usedAccounts
Trading == INSTANCE Journal
Tours == INSTANCE Tour
Replay == INSTANCE Practice WITH MaxTrades <- MaxPositions
Figures == INSTANCE Reports WITH Sides <- Directions, MaxTrades <- MaxReported, trades <- reported
Answering == INSTANCE Evidence
Policy == INSTANCE Pricing WITH
  Inputs <- CallInputs, Outputs <- CallOutputs, ceiling <- limit, used <- tokens

\* The planner names no number of trades that the question asked for.
ASSUME EvidenceAssumption ==
  /\ NoteSize \in Seq(Nat) /\ SampleSize \in Nat /\ Marker \in Nat
  /\ Rooms \subseteq Nat /\ Numbers \subseteq Nat \ {0} /\ MaxEdits \in Nat
  /\ \A p \in Plans : p \in Answering!AllPlans /\ p.asked = Answering!All

callsVars ==
  <<status, cancelRequested, revision, checkpoint, credits, queued, calls, pc, state, seen, attempt,
    identified, ceiling, required, opened, late>>
streamVars == <<phase, sequence, server, wire, controller, watch, cursor, shown, answers>>
adminVars == <<tables, productRevision, audit, request>>
workspaceVars == <<profile, accounts, preferences, usedAccounts, given, owner, asked>>
journalVars == <<trades, books, open, begun>>
tourVars == <<tour, tab, stray>>
practiceVars == <<bar, candle, position, closed, balance, exported, imported>>
evidenceVars == <<journal, edits, node, plan, room, cohort, candidates, artifacts, sent>>
pricingVars == <<limit, tokens>>
vars == <<service, callsVars, streamVars, adminVars, workspaceVars, journalVars, tourVars,
          practiceVars, reported, evidenceVars, pricingVars>>

Init ==
  /\ service \in Names
  /\ Calls!Init /\ Stream!Init /\ Administration!Init /\ Desk!Init /\ Trading!Init
  /\ Tours!Init /\ Replay!Init /\ Figures!Init /\ Answering!Init /\ Policy!Init

Only(s) ==
  /\ service = s /\ UNCHANGED service
  /\ s # "calls" => UNCHANGED callsVars
  /\ s # "stream" => UNCHANGED streamVars
  /\ s # "admin" => UNCHANGED adminVars
  /\ s # "workspace" => UNCHANGED workspaceVars
  /\ s # "journal" => UNCHANGED journalVars
  /\ s # "tour" => UNCHANGED tourVars
  /\ s # "practice" => UNCHANGED practiceVars
  /\ s # "reports" => UNCHANGED reported
  /\ s # "evidence" => UNCHANGED evidenceVars
  /\ s # "pricing" => UNCHANGED pricingVars

Next == \/ Only("calls") /\ Calls!Next
        \/ Only("stream") /\ Stream!Next
        \/ Only("admin") /\ Administration!Next
        \/ Only("workspace") /\ Desk!Next
        \/ Only("journal") /\ Trading!Next
        \/ Only("tour") /\ Tours!Next
        \/ Only("practice") /\ Replay!Next
        \/ Only("reports") /\ Figures!Next
        \/ Only("evidence") /\ Answering!Next
        \/ Only("pricing") /\ Policy!Next

Spec == Init /\ [][Next]_vars

-----------------------------------------------------------------------------
(* What holds: the properties of the components.                           *)

TypeOK ==
  /\ service = "calls" => Calls!TypeOK
  /\ service = "stream" => Stream!TypeOK
  /\ service = "admin" => Administration!TypeOK
  /\ service = "workspace" => Desk!TypeOK
  /\ service = "journal" => Trading!TypeOK
  /\ service = "tour" => Tours!TypeOK
  /\ service = "practice" => Replay!TypeOK
  /\ service = "reports" => Figures!TypeOK
  /\ service = "evidence" => Answering!TypeOK
  /\ service = "pricing" => Policy!TypeOK

PaidIsCharged == service = "calls" => Calls!PaidIsCharged
CallsAreSound == service = "calls" => Calls!CallsAreSound
PageIsComplete == service = "stream" => Stream!PageIsComplete
WatchEnds == Stream!WatchEnds
AdministrationServes == service = "admin" => Administration!AdministrationServes
ChangesAreInformed == service = "admin" => Administration!ChangesAreInformed
WorkspaceOpens == service = "workspace" => Desk!WorkspaceOpens
NothingIsLost == service = "journal" => Trading!NothingIsLost
HistoryIsKept == Trading!HistoryIsKept
TourIsShared == Tours!TourIsShared
PracticeIsHonest == Replay!PracticeIsHonest
ReportIsRight == service = "reports" => Figures!ReportIsRight
EvidenceIsHonest == service = "evidence" => Answering!EvidenceIsHonest
PriceFits == service = "pricing" => Policy!PriceFits

\* What two comments and tests say, and the code does not do.
DeletedStaysDeleted == Trading!DeletedStaysDeleted
CheckedBeforeSelected == Answering!CheckedBeforeSelected
=============================================================================
