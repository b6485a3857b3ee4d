----------------------------- MODULE EventStream ----------------------------
(***************************************************************************)
(* The events of one review, the server's SSE streams over them            *)
(* (src/backend/jobs.py: event, emit, stream_snapshot, stream_events) and  *)
(* the browser that watches (src/src/AIWorkflow.tsx, aiStream.mjs).        *)
(*                                                                         *)
(* Events are their sequence numbers.  A stream reads the job's row and    *)
(* its events in two statements, which see different commits; its frames   *)
(* arrive in order, split anywhere, and the connection may be closed or    *)
(* cut after any of them.  The browser may drop a watch and begin another  *)
(* while frames of the first are still arriving.                           *)
(***************************************************************************)
EXTENDS Integers, Sequences

CONSTANTS MaxWatches,  \* bound: the calls of watch, each with its connections
          Batch,       \* events of one read (200 in the code)
          Attempts,    \* connections of one watch (4 in the code)
          InFlight,    \* bound: frames on their way when the next poll begins
          MaxEvents    \* bound: the events of the review

VARIABLES
  \* the job's row; its ai_events rows are 1 .. sequence
  phase, sequence,
  \* the server's generator for each watch
  server,        \* [step, cursor, job]
  wire,          \* the frames on their way to the browser
  \* the browser
  controller,    \* the watch that has not been aborted
  watch,         \* each call of watch: [step, replay, attempt, final]
  cursor,        \* cursor.current
  shown,         \* the events applied to the page, in order
  answers        \* how often onComplete was called

Watches == 1 .. MaxWatches    \* in the order of the calls
NoWatch == 0

jobVars == <<phase, sequence>>
pageVars == <<controller, cursor, shown, answers>>
vars == <<jobVars, server, wire, pageVars, watch>>

Ended == {"succeeded", "failed"}   \* a cancelled review is as a failed one
Phases == {"working", "awaiting_input"} \cup Ended
Job == [phase |-> phase, sequence |-> sequence]
Closed == [step |-> "closed", cursor |-> 0, job |-> [phase |-> "working", sequence |-> 0]]

Event(n) == [kind |-> "event", id |-> n]
Snapshot(job) == [kind |-> "snapshot", job |-> job]
NoSnapshot == [kind |-> "none"]
Unused == [step |-> "unused", replay |-> FALSE, attempt |-> 0, final |-> NoSnapshot]
Finished == [Unused EXCEPT !.step = "ended"]   \* it returned or reported an error

Init ==
  /\ phase = "working" /\ sequence = 1
  /\ server = [w \in Watches |-> Closed]
  /\ wire = [w \in Watches |-> <<>>]
  /\ controller = NoWatch
  /\ watch = [w \in Watches |-> Unused]
  /\ cursor = 0 /\ shown = <<>> /\ answers = 0

-----------------------------------------------------------------------------
(* The job: every change of its status appends an event.                   *)

Happens(p) == /\ sequence < MaxEvents
              /\ phase' = p
              /\ sequence' = sequence + 1
              /\ UNCHANGED <<server, wire, pageVars, watch>>

\* emit
Emit == phase = "working" /\ Happens("working")

\* pause_job
Pause == phase = "working" /\ Happens("awaiting_input")

\* finish, cancel_settlement
Finish(p) == p \in Ended /\ phase \notin Ended /\ Happens(p)

\* continue_job, from this page or another one.
Continue == phase = "awaiting_input" /\ Happens("working")

-----------------------------------------------------------------------------
(* stream_snapshot and frames.                                             *)

\* The job's row; the connection is checked first.
ReadJob(w) ==
  /\ server[w].step = "polling"
  /\ Len(wire[w]) <= InFlight
  /\ server' = [server EXCEPT ![w].step = "reading", ![w].job = Job]
  /\ UNCHANGED <<jobVars, wire, pageVars, watch>>

Later(n) == IF n + Batch < sequence THEN n + Batch ELSE sequence

\* Seeded fault: the cursor is the job's, not the last event's that was sent.
CursorOfJob(s) == IF s.job.sequence > Later(s.cursor) THEN s.job.sequence ELSE Later(s.cursor)

NextCursor(s) == Later(s.cursor)

Exhausted(s) == /\ NextCursor(s) >= s.job.sequence
                /\ s.job.phase # "working"

\* Its events after the cursor, the frames, and the snapshot at the end.
ReadEvents(w) ==
  LET s == server[w]
      events == [i \in 1 .. Later(s.cursor) - s.cursor |-> Event(s.cursor + i)]
  IN /\ s.step = "reading"
     /\ wire' = [wire EXCEPT ![w] = @ \o events \o IF Exhausted(s) THEN <<Snapshot(s.job)>> ELSE <<>>]
     /\ server' = [server EXCEPT ![w].step = IF Exhausted(s) THEN "closed" ELSE "polling",
                                 ![w].cursor = NextCursor(s),
                                 ![w].job = Closed.job]
     /\ UNCHANGED <<jobVars, pageVars, watch>>

-----------------------------------------------------------------------------
(* The page: update, watch.                                                *)

\* update hands an answer over once.
Deliver(p) == answers' = IF p = "succeeded" /\ answers = 0 THEN answers + 1 ELSE answers

\* watch aborts the one before; with reset it replays from the start, as the
\* first does: resume, stop and Reconnect go on with a review that is shown.
Watch(w, reset) ==
  /\ watch[w].step = "unused" /\ \A v \in 1 .. w - 1 : watch[v].step # "unused"
  /\ controller = NoWatch => reset
  /\ controller' = w
  /\ watch' = [watch EXCEPT ![w] = [Unused EXCEPT !.step = "asking", !.replay = reset]]
  /\ IF reset THEN cursor' = 0 /\ shown' = <<>> ELSE UNCHANGED <<cursor, shown>>
  /\ UNCHANGED <<jobVars, server, wire, answers>>

Aborted(w) == controller # w

End(w) == watch' = [watch EXCEPT ![w] = Finished]
GoOn(w, step) == watch' = [watch EXCEPT ![w].step = step]

\* The job is fetched first, and may make a stream unnecessary; a review that
\* waits for its user is replayed once.
Ask(w) ==
  /\ watch[w].step = "asking"
  /\ IF Aborted(w) THEN End(w) /\ UNCHANGED answers
     ELSE /\ Deliver(phase)
          /\ IF phase \in Ended \/ (phase = "awaiting_input" /\ ~watch[w].replay)
             THEN End(w) ELSE GoOn(w, "opening")
  /\ UNCHANGED <<jobVars, server, wire, controller, cursor, shown>>

\* Seeded fault: a watch that was dropped meanwhile waits for its response.
OpenUnaborted(w) ==
  /\ watch[w].step = "opening" /\ ~Aborted(w)
  /\ GoOn(w, "reading")
  /\ server' = [server EXCEPT ![w] = [Closed EXCEPT !.step = "polling", !.cursor = cursor]]
  /\ UNCHANGED <<jobVars, wire, pageVars>>

Open(w) ==
  /\ watch[w].step = "opening"
  /\ IF Aborted(w) THEN End(w) /\ UNCHANGED server
     ELSE /\ GoOn(w, "reading")
          /\ server' = [server EXCEPT ![w] = [Closed EXCEPT !.step = "polling", !.cursor = cursor]]
  /\ UNCHANGED <<jobVars, wire, pageVars>>

\* The parser's callback, frame by frame.
Read(w) ==
  LET frame == Head(wire[w]) IN
  /\ watch[w].step = "reading" /\ wire[w] # <<>>
  /\ wire' = [wire EXCEPT ![w] = Tail(@)]
  /\ \/ /\ Aborted(w) \/ (frame.kind = "event" /\ frame.id <= cursor)
        /\ UNCHANGED <<cursor, shown, answers, watch>>
     \/ /\ ~Aborted(w) /\ frame.kind = "event" /\ frame.id > cursor
        /\ cursor' = frame.id
        /\ shown' = Append(shown, frame.id)
        /\ UNCHANGED <<answers, watch>>
     \/ /\ ~Aborted(w) /\ frame.kind = "snapshot"
        /\ watch' = [watch EXCEPT ![w].final = frame]
        /\ Deliver(frame.job.phase)
        /\ UNCHANGED <<cursor, shown>>
  /\ UNCHANGED <<jobVars, server, controller>>

\* The stream is over: the watch returns its snapshot, or connects again.
Over(w) ==
  /\ watch[w].step = "reading" /\ wire[w] = <<>> /\ server[w].step = "closed"
  /\ IF watch[w].final # NoSnapshot \/ watch[w].attempt + 1 = Attempts THEN End(w)
     ELSE watch' = [watch EXCEPT ![w].step = "asking", ![w].attempt = @ + 1]
  /\ UNCHANGED <<jobVars, server, wire, pageVars>>

-----------------------------------------------------------------------------
(* The connection.                                                         *)

\* A process that stops closes its streams; what it has sent still arrives.
Close(w) ==
  /\ server[w].step # "closed"
  /\ server' = [server EXCEPT ![w] = Closed]
  /\ UNCHANGED <<jobVars, wire, pageVars, watch>>

\* A network error loses what is on its way, and is not retried; nor is the
\* abort of a watch, which ends its pending read.
Cut(w) ==
  /\ watch[w].step = "reading"
  /\ server' = [server EXCEPT ![w] = Closed]
  /\ wire' = [wire EXCEPT ![w] = <<>>]
  /\ End(w)
  /\ UNCHANGED <<jobVars, pageVars>>

Serve(w) == ReadJob(w) \/ ReadEvents(w)
Page(w) == Ask(w) \/ Open(w) \/ Read(w) \/ Over(w)

Next == \/ Emit \/ Pause \/ Continue \/ \E p \in Ended : Finish(p)
        \/ \E w \in Watches : \/ Watch(w, TRUE) \/ Watch(w, FALSE)
                              \/ Serve(w) \/ Page(w) \/ Close(w) \/ Cut(w)

Spec == Init /\ [][Next]_vars
-----------------------------------------------------------------------------
(* Fairness: the generator polls on, and the page's promises are resolved. *)

Fairness == \A w \in Watches : WF_vars(Serve(w)) /\ WF_vars(Page(w))

FairSpec == Spec /\ Fairness
-----------------------------------------------------------------------------
(* What holds.                                                             *)

Frames == [kind : {"event"}, id : 1 .. MaxEvents]
          \cup [kind : {"snapshot"}, job : [phase : Phases, sequence : 1 .. MaxEvents]]

TypeOK ==
  /\ phase \in Phases /\ sequence \in 1 .. MaxEvents
  /\ \A w \in Watches : /\ server[w].step \in {"closed", "polling", "reading"}
                        /\ wire[w] \in Seq(Frames)
                        /\ watch[w].step \in {"unused", "asking", "opening", "reading", "ended"}
                        /\ watch[w].replay \in BOOLEAN /\ watch[w].attempt \in 0 .. Attempts - 1
                        /\ watch[w].final \in Frames \cup {NoSnapshot}
  /\ controller \in Watches \cup {NoWatch}
  /\ cursor \in 0 .. MaxEvents /\ answers \in Nat

\* The page shows every event up to its cursor, once and in order: no part of
\* the answer's text is lost or repeated by a reconnection, a replay or the
\* frames of a stream it has dropped.
NothingMissed == shown = [i \in 1 .. cursor |-> i]

\* A stream's final snapshot comes after all its job's events.
SnapshotIsLast ==
  \A w \in Watches : ~Aborted(w) /\ watch[w].final # NoSnapshot
                        => watch[w].final.job.sequence <= cursor

\* The page takes the answer once, from whichever response brings it.
AnsweredOnce == answers <= 1

PageIsComplete == NothingMissed /\ SnapshotIsLast /\ AnsweredOnce

\* A watch of a review that has ended does not hang: it returns or reports
\* the lost connection.
WatchEnds ==
  \A w \in Watches : phase \in Ended /\ watch[w].step # "unused" ~> watch[w].step = "ended"
=============================================================================
