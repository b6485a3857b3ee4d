------------------------------ MODULE Evidence ------------------------------
(***************************************************************************)
(* The evidence of one answer: which trades its requests read from the     *)
(* journal, while the user goes on editing it, and how much of them is     *)
(* sent to the model (src/backend/ai_evidence.py; the gather and write     *)
(* nodes of src/backend/ai.py).                                            *)
(*                                                                         *)
(* Trades are numbered by their entry time, and all entered on one day.    *)
(* The one filter is the outcome, which is derived from a trade's numbers  *)
(* when they have been read, and the one check is of the trades after the  *)
(* fifth of a day.  A row takes one unit of the room there is, and a note  *)
(* that was asked for as many as its length; the rules of a playbook,      *)
(* which are clipped as the notes are, take none.                          *)
(***************************************************************************)
EXTENDS Integers, Sequences, FiniteSetsExt, Functions

CONSTANTS NoteSize,     \* the length of each trade's note, a sequence
          Usual,        \* trades of a day before the check minds: 5
          SampleSize,   \* rows of a sample: 80
          Marker,       \* what '[excerpt omitted]' takes
          Rooms,        \* the room the request's context may have
          Plans,        \* what the planner may have answered
          Numbers,      \* the numbers of trades a question may ask for
          MaxEdits      \* bound

VARIABLES
  journal,     \* what each trade has made, or Gone
  edits,
  node, plan, room,
  cohort,      \* cohort_ids, or Everything
  candidates,  \* the ids of the first of two reads, or Unread
  artifacts,   \* of each request that was executed, its rows: what each trade had made
  sent         \* of each of them, what the model is sent

vars == <<journal, edits, node, plan, room, cohort, candidates, artifacts, sent>>

Trades == DOMAIN NoteSize
Gone == 0
Everything == {0}   \* as no set of trades
Unread == {0}
All == 0     \* a selection with no count

Kinds == {"metrics", "groups", "records"}
Outcomes == {"", "win", "loss"}

\* kinds: the requests.  notes: they include the notes, or the coverage is
\* exhaustive.  ids: the trades they name, {} where they name none.
AllPlans == [outcome : Outcomes, check : BOOLEAN, count : Nat, own : Nat, asked : Nat, notes : BOOLEAN,
             ids : SUBSET Trades, analysis : {"review", "calculation"}, kinds : SUBSET Kinds]

\* A question asks for a number of trades (explicit_selection), has the words of
\* a review, or is for the note of one trade; or it is none of these.
NoTrade == 0
Questions == [number : {All} \cup Numbers, review : BOOLEAN, trade : {NoTrade} \cup Trades]

\* coordinate: a number that was asked for binds the plan whatever the planner
\* has answered, and is not answered from nothing: a plan of coverage 'none' is
\* then as one without requests ...
Numbered(p, q) ==
  IF q.number = All THEN p
  ELSE [p EXCEPT !.asked = q.number, !.count = q.number, !.analysis = IF q.review THEN "review" ELSE @,
                 !.notes = @ \/ p.kinds = {}, !.kinds = IF @ = {} THEN {"records"} ELSE @]

\* ... but the note of a trade is written from that trade, without number or scope.
Bound(p, q) ==
  IF q.trade = NoTrade THEN Numbered(p, q)
  ELSE [outcome |-> "", check |-> p.check, count |-> All, own |-> All, asked |-> All, notes |-> TRUE,
        ids |-> {q.trade}, analysis |-> "review", kinds |-> {"records"}]

Init ==
  /\ journal \in [Trades -> {1, -1}] /\ edits = 0
  /\ plan \in {Bound(p, q) : p \in Plans, q \in Questions} /\ room \in Rooms
  /\ node = (IF plan.kinds = {} THEN "write" ELSE IF plan.count = All THEN "gather" ELSE "select")
  /\ cohort = Everything /\ candidates = Unread
  /\ artifacts = <<>> /\ sent = <<>>

\* The user revises a trade, or deletes it.
Edit(i, p) ==
  /\ edits < MaxEdits
  /\ journal[i] \notin {Gone, p}
  /\ journal' = [journal EXCEPT ![i] = p] /\ edits' = edits + 1
  /\ UNCHANGED <<node, plan, room, cohort, candidates, artifacts, sent>>

-----------------------------------------------------------------------------
(* read_rows.  A selection is the set of its trades, as their numbers       *)
(* order them.                                                              *)

Has(p, outcome) == CASE outcome = "win" -> p = 1 [] outcome = "loss" -> p = -1 [] OTHER -> TRUE

Newest(ids, n) == IF n = All THEN ids ELSE {i \in ids : Cardinality({j \in ids : j > i}) < n}

\* A request keeps to the trades it names; the choice of a cohort names none.
Named == IF node = "select" \/ plan.ids = {} THEN Trades ELSE plan.ids
InScope == {i \in Named : journal[i] # Gone /\ (cohort # Everything => i \in cohort)}
Filtered(ids) == {i \in ids : Has(journal[i], plan.outcome)}

\* coach_checks, 'overtrading'
Checked(ids) == {i \in ids : Cardinality({j \in ids : j < i}) >= Usual}

\* An outcome or a check is known only of rows that have been read: they are
\* read first to know which, and then once more.
Derived(n, check) == n # All /\ (plan.outcome # "" \/ check)

ReadCandidates(n, check) ==
  LET ids == Filtered(InScope) IN
  /\ Derived(n, check) /\ candidates = Unread
  /\ candidates' = Newest(IF check THEN Checked(ids) ELSE ids, n)
  /\ UNCHANGED <<journal, edits, node, plan, room, cohort, artifacts, sent>>

\* Seeded fault: those the first read chose are taken as they are.
KeptAsChosen(n, check) ==
  IF Derived(n, check) THEN InScope \cap candidates ELSE Filtered(Newest(InScope, n))

\* What the second read returns, or the only one: the filters are applied to it.
Kept(n, check) == Filtered(IF Derived(n, check) THEN InScope \cap candidates ELSE Newest(InScope, n))

MayRead(n, check) == Derived(n, check) => candidates # Unread

-----------------------------------------------------------------------------
(* gather                                                                  *)

\* select_cohort: the trades asked for, once for all the requests.
SelectCohort ==
  /\ node = "select" /\ MayRead(plan.count, FALSE)
  /\ cohort' = Kept(plan.count, FALSE)
  /\ candidates' = Unread /\ node' = "gather"
  /\ UNCHANGED <<journal, edits, plan, room, artifacts, sent>>

\* evidence_requests: a review reads the records whatever the plan asked for.
\* Each request is executed once, in an order of the planner's.
Requests ==
  IF plan.analysis = "calculation" THEN plan.kinds ELSE (plan.kinds \cap {"groups"}) \cup {"records"}

\* A request's own selection, which a cohort for all of them replaces.
Own == IF cohort = Everything THEN plan.own ELSE All

\* execute: of the rows of a check only those the check names, as it finds
\* them among the rows that were read.
Execute(kind) ==
  /\ node = "gather" /\ kind \notin DOMAIN artifacts /\ MayRead(Own, plan.check)
  /\ LET read == Kept(Own, plan.check)
         ids == IF plan.check /\ kind = "records" THEN Checked(read) ELSE read
         rows == [i \in ids |-> journal[i]] IN
     artifacts' = [k \in DOMAIN artifacts \cup {kind} |-> IF k = kind THEN rows ELSE artifacts[k]]
  /\ node' = (IF DOMAIN artifacts' = Requests THEN "write" ELSE node)
  /\ candidates' = Unread
  /\ UNCHANGED <<journal, edits, plan, room, cohort, sent>>

-----------------------------------------------------------------------------
(* answer_evidence: what is sent of an artifact is rows and, of each note   *)
(* that was read, whether it is whole.                                      *)

\* Seeded fault: a review reads the notes only where its plan has asked for them.
OnlyIfAsked == plan.notes

\* A review reads the notes of its records, a calculation only where it has
\* asked for them.
Noted == plan.analysis = "review" \/ plan.notes

\* An excerpt of a note is its two halves and a marker between them.
Clipped(size, i) == IF NoteSize[i] <= size THEN NoteSize[i] ELSE 2 * (size \div 2) + Marker

\* What a row's note takes, which is no part of a row that was read without.
Sent(e, i) == IF e.notes THEN Clipped(e.clip, i) ELSE 0

Size(evidence) ==
  MapThenSumSet(LAMBDA k : IF evidence[k].how = "summary" THEN 1 ELSE
                  MapThenSumSet(LAMBDA i : 1 + Sent(evidence[k], i), evidence[k].ids),
                DOMAIN evidence)
Fits(evidence) == Size(evidence) <= room

\* A note is never longer than what its artifact takes: that size clips none.
Whole == SumFunctionOnSet([i \in Trades |-> 1 + NoteSize[i]], Trades)

Complete == [k \in DOMAIN artifacts |->
  [how |-> "complete", notes |-> Noted, clip |-> Whole, total |-> Cardinality(DOMAIN artifacts[k]),
   ids |-> IF k = "records" THEN DOMAIN artifacts[k] ELSE {}]]

\* sample_records keeps both ends of the period and examples between them.
SamplesOf(e) ==
  IF Cardinality(e.ids) <= SampleSize THEN {e}
  ELSE {[e EXCEPT !.how = "sample", !.ids = S] :
          S \in {S \in kSubset(SampleSize, e.ids) : {Min(e.ids), Max(e.ids)} \subseteq S}}
Samples == {f \in [DOMAIN artifacts -> UNION {SamplesOf(Complete[k]) : k \in DOMAIN artifacts}] :
              \A k \in DOMAIN artifacts : f[k] \in SamplesOf(Complete[k])}

Called(how) == IF how = "sample" THEN "sample_excerpts" ELSE "excerpts"

Excerpts(detailed, size) ==
  [k \in DOMAIN detailed |->
     IF k # "records" THEN detailed[k] ELSE [detailed[k] EXCEPT !.how = Called(@), !.clip = size]]

\* The search for the largest excerpts that fit: a turn of it, and what it
\* finds within as many turns as there are sizes.
Turn(detailed, s) ==
  LET mid == (s.low + s.high) \div 2 IN
  CASE s.low > s.high -> s
    [] s.low <= s.high /\ Fits(Excerpts(detailed, mid)) -> [s EXCEPT !.low = mid + 1, !.best = mid]
    [] OTHER -> [s EXCEPT !.high = mid - 1]
Search(detailed) ==
  LET after[n \in 0 .. Whole + 1] ==
        IF n = 0 THEN [low |-> 0, high |-> Whole, best |-> 0] ELSE Turn(detailed, after[n-1])
  IN after[Whole + 1].best

Summary == [k \in DOMAIN artifacts |->
  IF k = "records" THEN [Complete[k] EXCEPT !.how = "summary", !.ids = {}] ELSE Complete[k]]

Write ==
  /\ node = "write"
  /\ \E detailed \in Samples :
       sent' = CASE Fits(Complete) -> Complete
                 [] ~Fits(Complete) /\ Fits(detailed) -> detailed
                 [] ~Fits(Complete) /\ ~Fits(detailed) /\ Fits(Excerpts(detailed, 0)) ->
                      Excerpts(detailed, Search(detailed))
                 [] OTHER -> Summary
  /\ node' = "done"
  /\ UNCHANGED <<journal, edits, plan, room, cohort, candidates, artifacts>>

Next == \/ \E i \in Trades, p \in {1, -1, Gone} : Edit(i, p)
        \/ node = "select" /\ ReadCandidates(plan.count, FALSE)
        \/ node = "gather" /\ ReadCandidates(Own, plan.check)
        \/ SelectCohort \/ Write
        \/ \E kind \in Requests : Execute(kind)

Spec == Init /\ [][Next]_vars
-----------------------------------------------------------------------------
(* coverage, which the answer is saved with.  Totals name no trades; the    *)
(* records of a calculation count as inspected with their notes or without. *)

Retrieved == UNION {DOMAIN artifacts[k] : k \in DOMAIN artifacts \cap {"records"}}
Included == UNION {sent[k].ids : k \in DOMAIN sent}
Inspected == UNION {sent[k].ids : k \in {k \in DOMAIN sent : sent[k].how \in {"complete", "sample"}}}

-----------------------------------------------------------------------------
(* What holds.                                                             *)

Ways == {"complete", "sample", "excerpts", "sample_excerpts", "summary"}
TypeOK ==
  /\ journal \in [Trades -> {1, -1, Gone}] /\ edits \in 0 .. MaxEdits
  /\ node \in {"select", "gather", "write", "done"} /\ plan \in AllPlans /\ room \in Nat
  /\ cohort \in (SUBSET Trades) \cup {Everything} /\ candidates \in (SUBSET Trades) \cup {Unread}
  /\ DOMAIN artifacts \subseteq Kinds
  /\ \A k \in DOMAIN artifacts : \E ids \in SUBSET Trades : artifacts[k] \in [ids -> {1, -1}]
  /\ DOMAIN sent \subseteq Kinds
  /\ \A k \in DOMAIN sent : sent[k] \in [how : Ways, notes : BOOLEAN, clip : Nat, total : Nat, ids : SUBSET Trades]

\* However the journal is edited between the reads, the rows of an answer are
\* of the outcome they were asked for and of the trades that were named; where
\* a number of trades was asked for, the rows of every request are among the
\* same ones, which are as few.  Such a number binds any plan but that of the
\* note of one trade.
RowsAreAsked ==
  \A k \in DOMAIN artifacts :
    LET rows == artifacts[k] IN
    /\ \A i \in DOMAIN rows : Has(rows[i], plan.outcome)
    /\ plan.ids # {} => DOMAIN rows \subseteq plan.ids
    /\ cohort # Everything => DOMAIN rows \subseteq cohort /\ Cardinality(cohort) <= plan.count
    /\ plan.asked # All => cohort # Everything /\ plan.count = plan.asked
    /\ Own # All => Cardinality(DOMAIN rows) <= Own

\* A review is not answered from totals alone: it has read the records.
ReviewsReadRecords ==
  node \in {"write", "done"} /\ plan.analysis = "review" /\ plan.kinds # {} =>
    "records" \in DOMAIN artifacts

\* A record the answer says it has inspected was sent, and its note whole where
\* notes were asked for, as a review always does; what is sent fits, unless it
\* is the summary; it drops rows only from samples and summaries, whose totals
\* remain those of all of them.
CoverageIsHonest ==
  node = "done" =>
    /\ Inspected \subseteq Included /\ Included \subseteq Retrieved
    /\ \A i \in Inspected : \E k \in DOMAIN sent :
         /\ i \in sent[k].ids
         /\ plan.analysis = "review" \/ plan.notes =>
              sent[k].notes /\ Clipped(sent[k].clip, i) = NoteSize[i]
    /\ Fits(sent) \/ sent = Summary
    /\ \A k \in DOMAIN artifacts :
         /\ k \in DOMAIN sent /\ sent[k].total = Cardinality(DOMAIN artifacts[k])
         /\ k = "records" /\ sent[k].how \in {"complete", "excerpts"} => sent[k].ids = DOMAIN artifacts[k]

EvidenceIsHonest == RowsAreAsked /\ ReviewsReadRecords /\ CoverageIsHonest

\* ai_evidence.py:80, "Derived outcomes/tags/checks must be evaluated before
\* selecting a cohort": the latest trades of a check are trades of the check
\* among all the trades, as many as were asked for or as there are.
CheckedBeforeSelected ==
  plan.check /\ Own # All /\ edits = 0 /\ "records" \in DOMAIN artifacts =>
    DOMAIN artifacts["records"] = Newest(Checked(Filtered(InScope)), Own)
=============================================================================
