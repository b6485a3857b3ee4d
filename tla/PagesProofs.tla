---------------------------- MODULE PagesProofs -----------------------------
(***************************************************************************)
(* The page of a review shows each event once, in order and to the end;    *)
(* the tabs of a tour never disagree with the server about one revision    *)
(* nor go back; and an administration always has an owner who can sign in  *)
(* and routes that serve, and no change overwrites one its editor has not  *)
(* seen: for any number of watches, tabs and steps, any batch of the       *)
(* stream, any length of a review, and any staff and models.               *)
(*                                                                         *)
(* The invariants are StreamInv, that the page shows what it has counted   *)
(* and what is on its way to it continues there (Following); TourInv, that *)
(* no tab shows, or is about to, what is ahead of the server, or differs   *)
(* from it in the same revision (TabBehind); and AdminInv: whoever is on   *)
(* the staff can sign in and one of them is an owner (Staffed), and what   *)
(* an editor has read of the catalogue is there while its revision is      *)
(* (Current).                                                              *)
(***************************************************************************)
EXTENDS Services, FiniteSetTheorems, TLAPS

-----------------------------------------------------------------------------
(* The event stream.                                                       *)

Jobs == [phase : Stream!Phases, sequence : Nat]
Told == [phase : Stream!Phases, sequence : 1 .. MaxEvents]
Events == [kind : {"event"}, id : 1 .. MaxEvents]
Snapshots == [kind : {"snapshot"}, job : Told]
Frames == Events \cup Snapshots
ServerSteps == {"closed", "polling", "reading"}
Servers == [step : ServerSteps, cursor : Nat, job : Jobs]
WatchSteps == {"unused", "asking", "opening", "reading", "ended"}
Tries == 0 .. Attempts - 1
Finals == Snapshots \cup {Stream!NoSnapshot}
WatchStates == [step : WatchSteps, replay : BOOLEAN, attempt : Tries, final : Finals]

StreamTyped ==
  /\ phase \in Stream!Phases /\ sequence \in Nat /\ answers \in {0, 1}
  /\ server \in [Stream!Watches -> Servers]
  /\ wire \in [Stream!Watches -> Seq(Frames)]
  /\ watch \in [Stream!Watches -> WatchStates]
  /\ cursor \in Nat

\* A watch that does not read has no connection.
Connected(w) == watch[w].step # "reading" => wire[w] = <<>> /\ server[w].step = "closed"

\* The frames on their way to the watch that is not aborted go on where the
\* page is, without a gap; a snapshot is the last of them, and of a state
\* whose events come before it.  The server goes on after them.
Following(w) ==
  /\ \A i \in 1 .. Len(wire[w]) :
       /\ wire[w][i].kind = "event" => wire[w][i].id = cursor + i /\ cursor + i <= sequence
       /\ wire[w][i].kind = "snapshot" =>
            /\ i = Len(wire[w]) /\ server[w].step = "closed"
            /\ wire[w][i].job.sequence < cursor + i
  /\ server[w].step # "closed"
       => server[w].cursor = cursor + Len(wire[w]) /\ server[w].cursor <= sequence
  /\ watch[w].final # Stream!NoSnapshot => watch[w].final.job.sequence <= cursor

StreamInv ==
  /\ StreamTyped
  /\ Stream!NothingMissed /\ cursor <= sequence
  /\ \A w \in Stream!Watches : Connected(w) /\ (controller = w => Following(w))

\* What the server reads of the job is of its length.
StreamBounds ==
  /\ sequence \in 1 .. MaxEvents
  /\ controller \in Stream!Watches \cup {Stream!NoWatch}
  /\ \A w \in Stream!Watches : server[w].step = "reading" => server[w].job \in Told

\* A watch before it begins, and after it has ended.
LEMMA UnusedAndFinished ==
  /\ 0 \in Tries
  /\ Stream!Unused \in WatchStates /\ Stream!Unused.final = Stream!NoSnapshot
  /\ Stream!Unused.step = "unused"
  /\ Stream!Finished \in WatchStates /\ Stream!Finished.final = Stream!NoSnapshot
  /\ Stream!Finished.step = "ended"
<1>1. 0 \in Tries
  BY StreamAssumption DEF Tries
<1>2. /\ Stream!Unused \in WatchStates /\ Stream!Unused.final = Stream!NoSnapshot
      /\ Stream!Unused.step = "unused"
  BY <1>1 DEF Stream!Unused, Stream!NoSnapshot, WatchStates, WatchSteps, Finals
<1>3. Stream!Finished = [Stream!Unused EXCEPT !.step = "ended"] /\ "ended" \in WatchSteps
  BY DEF Stream!Finished, WatchSteps
<1>. QED BY <1>1, <1>2, <1>3 DEF WatchStates

\* The page before and after an event.
LEMMA NothingYet == <<>> = [i \in 1 .. 0 |-> i]
  OBVIOUS

\* ... and after one more.
LEMMA OneMore ==
  ASSUME NEW n \in Nat
  PROVE  Append([i \in 1 .. n |-> i], n + 1) = [i \in 1 .. n + 1 |-> i]
<1> DEFINE before == [i \in 1 .. n |-> i]
           after == [i \in 1 .. n + 1 |-> i]
<1>1. before \in Seq(Int) /\ Len(before) = n
  OBVIOUS
<1>2. Append(before, n + 1) \in Seq(Int) /\ Len(Append(before, n + 1)) = n + 1
  BY <1>1
<1>3. after \in Seq(Int) /\ Len(after) = n + 1
  OBVIOUS
<1>4. \A i \in 1 .. n + 1 : Append(before, n + 1)[i] = after[i]
  BY <1>1
<1>. QED BY <1>2, <1>3, <1>4

\* Where the parts of a message are.
LEMMA ThreeParts ==
  ASSUME NEW S, NEW a \in Seq(S), NEW b \in Seq(S), NEW c \in Seq(S)
  PROVE  /\ Len(a \o b \o c) = Len(a) + Len(b) + Len(c)
         /\ \A i \in 1 .. Len(a) : (a \o b \o c)[i] = a[i]
         /\ \A i \in 1 .. Len(b) : (a \o b \o c)[Len(a) + i] = b[i]
         /\ \A i \in 1 .. Len(c) : (a \o b \o c)[Len(a) + Len(b) + i] = c[i]
<1>1. a \o b \in Seq(S) /\ Len(a \o b) = Len(a) + Len(b)
  OBVIOUS
<1>2. \A i \in 1 .. Len(a) : (a \o b)[i] = a[i]
  OBVIOUS
<1>3. \A i \in 1 .. Len(b) : (a \o b)[Len(a) + i] = b[i]
  OBVIOUS
<1> DEFINE d == a \o b
<1> HIDE DEF d
<1>4. /\ Len(d \o c) = Len(d) + Len(c)
      /\ \A i \in 1 .. Len(d) : (d \o c)[i] = d[i]
      /\ \A i \in 1 .. Len(c) : (d \o c)[Len(d) + i] = c[i]
  BY <1>1 DEF d
<1>. QED BY <1>1, <1>2, <1>3, <1>4 DEF d

\* A step that leaves the page and the other connections as they are.
LEMMA OthersFollow ==
  ASSUME StreamInv, NEW w \in Stream!Watches, server'[w] = server[w], wire'[w] = wire[w],
         watch'[w] = watch[w],
         sequence' \in Nat, sequence <= sequence',
         controller' = w => controller = w /\ cursor' = cursor
  PROVE  Connected(w)' /\ (controller' = w => Following(w)')
<1>1. /\ server[w].cursor \in Nat /\ sequence \in Nat /\ cursor \in Nat
      /\ Len(wire[w]) \in Nat
  BY DEF StreamInv, StreamTyped, Servers
<1>2. Connected(w)'
  BY DEF StreamInv, Connected
<1>3. ASSUME controller' = w PROVE Following(w)'
  <2>1. Following(w) /\ cursor' = cursor
    BY <1>3 DEF StreamInv
  <2>2. \A i \in 1 .. Len(wire[w]) : cursor + i <= sequence => cursor + i <= sequence'
    BY <1>1
  <2>3. server[w].cursor <= sequence => server[w].cursor <= sequence'
    BY <1>1
  <2>. QED BY <2>1, <2>2, <2>3 DEF Following
<1>. QED BY <1>2, <1>3

\* The job goes on.
LEMMA JobKeeps ==
  ASSUME StreamInv, NEW p \in Stream!Phases, Stream!Happens(p)
  PROVE  StreamInv'
<1>1. /\ phase' = p /\ sequence' = sequence + 1
      /\ UNCHANGED <<server, wire, controller, cursor, shown, answers, watch>>
  BY DEF Stream!Happens, Stream!pageVars
<1>2. sequence' \in Nat /\ sequence <= sequence' /\ cursor <= sequence'
  BY <1>1 DEF StreamInv, StreamTyped
<1>3. StreamTyped' /\ Stream!NothingMissed'
  BY <1>1, <1>2 DEF StreamInv, StreamTyped, Stream!NothingMissed
<1>4. \A w \in Stream!Watches : Connected(w)' /\ (controller' = w => Following(w)')
  BY <1>1, <1>2, OthersFollow
<1>. QED BY <1>1, <1>2, <1>3, <1>4 DEF StreamInv

\* The job's row.
LEMMA ReadJobKeeps ==
  ASSUME StreamInv, NEW w \in Stream!Watches, Stream!ReadJob(w)
  PROVE  StreamInv'
<1> DEFINE step == "reading"
           job == Stream!Job
<1>1. /\ server' = [server EXCEPT ![w].step = step, ![w].job = job] /\ server[w].step = "polling"
      /\ UNCHANGED <<phase, sequence, wire, controller, cursor, shown, answers, watch>>
  BY DEF Stream!ReadJob, Stream!jobVars, Stream!pageVars
<1>2. job \in Jobs /\ step \in ServerSteps /\ step # "closed"
  BY DEF StreamInv, StreamTyped, Stream!Job, Jobs, ServerSteps
<1> HIDE DEF step, job
<1>3. /\ server' \in [Stream!Watches -> Servers]
      /\ \A v \in Stream!Watches \ {w} : server'[v] = server[v]
      /\ server'[w].step = step /\ server'[w].cursor = server[w].cursor
  BY <1>1, <1>2 DEF StreamInv, StreamTyped, Servers
<1>4. Connected(w)' /\ (controller' = w => Following(w)')
  BY <1>1, <1>2, <1>3 DEF StreamInv, Connected, Following
<1>5. sequence' \in Nat /\ sequence <= sequence'
  BY <1>1 DEF StreamInv, StreamTyped
<1>6. \A v \in Stream!Watches \ {w} : Connected(v)' /\ (controller' = v => Following(v)')
  BY <1>1, <1>3, <1>5, OthersFollow
<1>. QED BY <1>1, <1>3, <1>4, <1>6 DEF StreamInv, StreamTyped, Stream!NothingMissed

\* Its events, in order after those that were sent, and the snapshot when
\* none of the job's is left.
LEMMA ReadEventsKeeps ==
  ASSUME StreamInv, StreamBounds, NEW w \in Stream!Watches, Stream!ReadEvents(w)
  PROVE  StreamInv'
<1> DEFINE s == server[w]
           next == Stream!Later(s.cursor)
           events == [i \in 1 .. next - s.cursor |-> Stream!Event(s.cursor + i)]
           last == IF Stream!Exhausted(s) THEN <<Stream!Snapshot(s.job)>> ELSE <<>>
           frames == wire[w] \o events \o last
           step == IF Stream!Exhausted(s) THEN "closed" ELSE "polling"
           job == Stream!Closed.job
<1>1. s \in Servers /\ s.cursor \in Nat /\ s.job \in Jobs /\ wire[w] \in Seq(Frames)
      /\ sequence \in Nat
      /\ cursor \in Nat
  BY DEF StreamInv, StreamTyped, Servers
<1>2. /\ s.step = "reading" /\ wire' = [wire EXCEPT ![w] = frames]
      /\ server' = [server EXCEPT ![w].step = step, ![w].cursor = next, ![w].job = job]
      /\ UNCHANGED <<phase, sequence, controller, cursor, shown, answers, watch>>
  BY DEF Stream!ReadEvents, Stream!jobVars, Stream!pageVars, Stream!NextCursor
<1>3. next \in Nat /\ next <= sequence
  BY <1>1, StreamAssumption DEF Stream!Later
<1>4. job \in Jobs /\ step \in ServerSteps
  BY DEF Stream!Closed, Jobs, ServerSteps, Stream!Phases
<1>5. events \in Seq(Frames) /\ last \in Seq(Frames)
  <2>1. \A i \in 1 .. next - s.cursor : Stream!Event(s.cursor + i) \in Frames
    <3>1. sequence \in 1 .. MaxEvents /\ MaxEvents \in Nat
      BY StreamAssumption DEF StreamBounds
    <3>2. ASSUME NEW i \in 1 .. next - s.cursor PROVE s.cursor + i \in 1 .. MaxEvents
      BY <1>1, <1>3, <3>1
    <3>. QED BY <3>2 DEF Frames, Events, Stream!Event
  <2>2. Stream!Snapshot(s.job) \in Frames
    BY <1>2 DEF StreamBounds, Frames, Snapshots, Stream!Snapshot
  <2>3. events \in Seq(Frames)
    BY <1>1, <1>3, <2>1
  <2>4. last \in Seq(Frames)
    BY <2>2
  <2>. QED BY <2>3, <2>4
<1>6. frames \in Seq(Frames)
  BY <1>1, <1>5
<1>7. /\ Stream!Exhausted(s)
           => s.job.sequence <= next /\ last = <<Stream!Snapshot(s.job)>> /\ step = "closed"
      /\ ~Stream!Exhausted(s) => last = <<>> /\ step = "polling"
  BY DEF Stream!Exhausted, Stream!NextCursor
<1> HIDE DEF next, last, step, job
<1>8. ASSUME controller = w
      PROVE  /\ s.cursor = cursor + Len(wire[w]) /\ s.cursor <= next
             /\ \A i \in 1 .. Len(wire[w]) : wire[w][i].kind = "event" /\ wire[w][i].id = cursor + i
                  /\ cursor + i <= sequence
             /\ watch[w].final # Stream!NoSnapshot => watch[w].final.job.sequence <= cursor
  <2>1. Following(w) /\ s.step # "closed"
    BY <1>2, <1>8 DEF StreamInv
  <2>2. s.cursor <= next
    BY <1>1, <2>1, StreamAssumption DEF Following, Stream!Later, next
  <2>3. \A i \in 1 .. Len(wire[w]) : wire[w][i].kind \in {"event", "snapshot"}
    <3>1. \A i \in 1 .. Len(wire[w]) : wire[w][i] \in Frames
      BY <1>1
    <3>. QED BY <3>1 DEF Frames, Events, Snapshots
  <2>. QED BY <2>1, <2>2, <2>3 DEF Following
<1>9. ASSUME controller = w, NEW i \in 1 .. Len(frames)
      PROVE  \/ frames[i].kind = "event" /\ frames[i].id = cursor + i /\ cursor + i <= sequence
             \/ /\ frames[i].kind = "snapshot" /\ i = Len(frames) /\ step = "closed"
                /\ frames[i].job.sequence < cursor + i
  <2>1. Len(events) = next - s.cursor /\ Len(last) \in {0, 1}
    BY <1>1, <1>3, <1>7, <1>8, <1>9
  <2> HIDE DEF events
  <2>2. /\ Len(frames) = Len(wire[w]) + Len(events) + Len(last)
        /\ \A k \in 1 .. Len(wire[w]) : frames[k] = wire[w][k]
        /\ \A k \in 1 .. Len(events) : frames[Len(wire[w]) + k] = events[k]
        /\ \A k \in 1 .. Len(last) : frames[Len(wire[w]) + Len(events) + k] = last[k]
    BY <1>1, <1>5, ThreeParts
  <2> HIDE DEF frames
  <2> DEFINE m == Len(wire[w])
             e == Len(events)
  <2>3. m \in Nat /\ i \in Nat /\ e \in Nat /\ e = next - s.cursor /\ s.cursor = cursor + m
    BY <1>1, <1>3, <1>8, <1>9, <2>1
  <2>7. i <= m + e + Len(last) /\ 1 <= i
    BY <1>9, <2>1, <2>2, <2>3
  <2>8. Len(last) \in Nat /\ (Len(last) = 0 \/ Len(last) = 1)
    BY <2>1
  <2>9. next = cursor + m + e
    BY <1>1, <1>3, <2>3
  <2> HIDE DEF m, e
  <2>4. CASE i <= m
    <3>1. i \in 1 .. m
      BY <2>3, <2>4, <2>7
    <3>2. frames[i] = wire[w][i]
      BY <2>2, <3>1 DEF m
    <3>3. wire[w][i].kind = "event" /\ wire[w][i].id = cursor + i /\ cursor + i <= sequence
      BY <1>8, <1>9, <3>1 DEF m
    <3>. QED BY <3>2, <3>3
  <2>5. CASE m < i /\ i <= m + e
    <3>1. i - m \in 1 .. e /\ m + (i - m) = i
      BY <2>3, <2>5
    <3>2. frames[i] = events[i - m]
      BY <2>2, <3>1 DEF m, e
    <3>3. events[i - m] = Stream!Event(s.cursor + (i - m))
      BY <2>3, <3>1 DEF events
    <3>4. s.cursor + (i - m) = cursor + i /\ cursor + i <= sequence
      BY <1>1, <1>3, <2>3, <2>5
    <3>. QED BY <3>2, <3>3, <3>4 DEF Stream!Event
  <2>6. CASE m + e < i
    <3>1. Len(last) = 1 /\ i = m + e + 1
      <4> DEFINE n == Len(last)
      <4> HIDE DEF n
      <4>1. /\ m \in Nat /\ e \in Nat /\ i \in Nat /\ i <= m + e + n /\ m + e < i
            /\ n \in Nat /\ (n = 0 \/ n = 1)
        BY <2>3, <2>6, <2>7, <2>8 DEF n
      <4>2. n = 1 /\ i = m + e + 1
        BY ONLY <4>1
      <4>. QED BY <4>2 DEF n
    <3>2. i = Len(frames) /\ frames[i] = last[1]
      BY <2>2, <3>1 DEF m, e
    <3>3. last = <<Stream!Snapshot(s.job)>> /\ s.job.sequence <= next /\ step = "closed"
      BY <1>7, <3>1
    <3>4. s.job.sequence \in Nat
      BY <1>1 DEF Jobs
    <3>5. s.job.sequence < cursor + i
      <4>1. m \in Nat /\ e \in Nat /\ next \in Nat /\ cursor \in Nat /\ next = cursor + m + e
        BY <1>1, <1>3, <2>3, <2>9
      <4>2. s.job.sequence <= next
        BY <3>3
      <4>. QED BY <3>1, <3>4, <4>1, <4>2
    <3>. QED BY <3>2, <3>3, <3>5 DEF Stream!Snapshot
  <2>. QED BY <2>3, <2>4, <2>5, <2>6
<1>10. ASSUME controller = w, step # "closed" PROVE next = cursor + Len(frames)
  <2>1. last = <<>> /\ Len(events) = next - s.cursor
    BY <1>1, <1>3, <1>7, <1>8, <1>10
  <2> HIDE DEF events
  <2> DEFINE m == Len(wire[w])
             e == Len(events)
             k == s.cursor
             n == Len(frames)
  <2>2. n = m + e + Len(last)
    BY <1>1, <1>5, ThreeParts
  <2> HIDE DEF frames
  <2>3. /\ Len(last) = 0 /\ m \in Nat /\ k \in Nat /\ cursor \in Nat /\ next \in Nat
        /\ e = next - k /\ k = cursor + m
    BY <1>1, <1>3, <1>8, <1>10, <2>1
  <2> HIDE DEF m, e, k, n
  <2>4. next = cursor + n
    BY ONLY <2>2, <2>3
  <2>. QED BY <2>4 DEF n
<1> HIDE DEF frames
<1>11. /\ server' \in [Stream!Watches -> Servers] /\ wire' \in [Stream!Watches -> Seq(Frames)]
       /\ \A v \in Stream!Watches \ {w} : server'[v] = server[v] /\ wire'[v] = wire[v]
       /\ server'[w].step = step /\ server'[w].cursor = next /\ wire'[w] = frames
  BY <1>2, <1>3, <1>4, <1>6 DEF StreamInv, StreamTyped, Servers
<1>12. controller' = w => Following(w)'
  BY <1>2, <1>3, <1>8, <1>9, <1>10, <1>11 DEF Following
<1>13. Connected(w)'
  BY <1>2 DEF StreamInv, Connected
<1>14. sequence' \in Nat /\ sequence <= sequence'
  BY <1>1, <1>2
<1>15. \A v \in Stream!Watches \ {w} : Connected(v)' /\ (controller' = v => Following(v)')
  BY <1>2, <1>11, <1>14, OthersFollow
<1>. QED BY <1>2, <1>11, <1>12, <1>13, <1>15 DEF StreamInv, StreamTyped, Stream!NothingMissed

\* The state of a watch changes, with what its connection may have been.
LEMMA WatchChanges ==
  ASSUME StreamInv, NEW w \in Stream!Watches, NEW next \in WatchStates,
         watch' = [watch EXCEPT ![w] = next],
         UNCHANGED <<phase, sequence, wire, controller, cursor, shown>>, answers' \in {0, 1},
         server' \in [Stream!Watches -> Servers],
         \A v \in Stream!Watches \ {w} : server'[v] = server[v],
         Connected(w)', controller = w => Following(w)'
  PROVE  StreamInv'
<1>1. /\ watch' \in [Stream!Watches -> WatchStates]
      /\ \A v \in Stream!Watches \ {w} : watch'[v] = watch[v]
  BY DEF StreamInv, StreamTyped
<1>2. sequence' \in Nat /\ sequence <= sequence'
  BY DEF StreamInv, StreamTyped
<1>3. \A v \in Stream!Watches \ {w} : Connected(v)' /\ (controller' = v => Following(v)')
  BY <1>1, <1>2, OthersFollow
<1>. QED BY <1>1, <1>3 DEF StreamInv, StreamTyped, Stream!NothingMissed

\* An answer is delivered once at most.
LEMMA DeliversOnce ==
  ASSUME answers \in {0, 1}, NEW p, Stream!Deliver(p)
  PROVE  answers' \in {0, 1}
  BY DEF Stream!Deliver

\* A new watch begins where the page is, which with `reset' is the start.
LEMMA WatchKeeps ==
  ASSUME StreamInv, NEW w \in Stream!Watches, NEW reset \in BOOLEAN, Stream!Watch(w, reset)
  PROVE  StreamInv'
<1> DEFINE next == [Stream!Unused EXCEPT !.step = "asking", !.replay = reset]
<1>1. /\ watch[w].step = "unused" /\ controller' = w /\ watch' = [watch EXCEPT ![w] = next]
      /\ UNCHANGED <<phase, sequence, server, wire, answers>>
      /\ (cursor' = 0 /\ shown' = <<>>) \/ UNCHANGED <<cursor, shown>>
  BY DEF Stream!Watch, Stream!jobVars
<1>2. next \in WatchStates /\ next.step = "asking" /\ next.final = Stream!NoSnapshot
  BY UnusedAndFinished DEF WatchStates, WatchSteps
<1> HIDE DEF next
<1>3. /\ watch' \in [Stream!Watches -> WatchStates] /\ watch'[w] = next
      /\ \A v \in Stream!Watches \ {w} : watch'[v] = watch[v]
  BY <1>1, <1>2 DEF StreamInv, StreamTyped
<1>4. /\ sequence' \in Nat /\ sequence <= sequence' /\ cursor \in Nat
      /\ cursor' \in Nat /\ cursor' <= sequence'
  BY <1>1 DEF StreamInv, StreamTyped
<1>5. Stream!NothingMissed'
  BY <1>1, <1>4, NothingYet DEF StreamInv, Stream!NothingMissed
<1>6. wire[w] = <<>> /\ server[w].step = "closed"
  BY <1>1 DEF StreamInv, Connected
<1>7. Connected(w)' /\ Following(w)'
  BY <1>1, <1>2, <1>3, <1>6 DEF Connected, Following
<1>8. \A v \in Stream!Watches \ {w} : Connected(v)' /\ (controller' = v => Following(v)')
  BY <1>1, <1>3, <1>4, OthersFollow
<1>. QED BY <1>1, <1>3, <1>4, <1>5, <1>7, <1>8 DEF StreamInv, StreamTyped

\* The job is fetched; a watch that is dropped ends.
LEMMA AskKeeps ==
  ASSUME StreamInv, NEW w \in Stream!Watches, Stream!Ask(w)
  PROVE  StreamInv'
<1>1. watch[w] \in WatchStates /\ wire[w] = <<>> /\ server[w].step = "closed" /\ answers \in {0, 1}
  BY DEF StreamInv, StreamTyped, Connected, Stream!Ask
<1>2. UNCHANGED <<phase, sequence, server, wire, controller, cursor, shown>> /\ answers' \in {0, 1}
  BY <1>1, DeliversOnce DEF Stream!Ask, Stream!jobVars
<1>3. PICK next \in WatchStates :
        /\ watch' = [watch EXCEPT ![w] = next] /\ next.step # "reading"
        /\ next.final \in {watch[w].final, Stream!NoSnapshot}
  <2>1. Stream!Finished \in WatchStates /\ Stream!Finished.final = Stream!NoSnapshot
        /\ Stream!Finished.step = "ended"
    BY UnusedAndFinished
  <2> DEFINE next == [watch[w] EXCEPT !.step = "opening"]
  <2>2. next \in WatchStates /\ next.step = "opening" /\ next.final = watch[w].final
    BY <1>1 DEF WatchStates, WatchSteps
  <2>3. watch' = [watch EXCEPT ![w] = Stream!Finished] \/ watch' = [watch EXCEPT ![w] = next]
    BY DEF Stream!Ask, Stream!End, Stream!GoOn
  <2> HIDE DEF next
  <2>. QED BY <2>1, <2>2, <2>3
<1>4. watch'[w] = next
  BY <1>3 DEF StreamInv, StreamTyped
<1>5. Connected(w)' /\ (controller = w => Following(w)')
  BY <1>1, <1>2, <1>3, <1>4 DEF StreamInv, Connected, Following
<1>. QED BY <1>2, <1>3, <1>5, WatchChanges DEF StreamInv, StreamTyped

\* A stream is opened at the page's cursor.
LEMMA OpenKeeps ==
  ASSUME StreamInv, NEW w \in Stream!Watches, Stream!Open(w)
  PROVE  StreamInv'
<1>1. /\ watch[w] \in WatchStates /\ wire[w] = <<>> /\ server[w].step = "closed"
      /\ answers \in {0, 1}
      /\ cursor \in Nat /\ sequence \in Nat /\ cursor <= sequence
      /\ server \in [Stream!Watches -> Servers]
  BY DEF StreamInv, StreamTyped, Connected, Stream!Open
<1>2. UNCHANGED <<phase, sequence, wire, controller, cursor, shown, answers>>
  BY DEF Stream!Open, Stream!jobVars, Stream!pageVars
<1>3. CASE Stream!Aborted(w)
  <2>1. watch' = [watch EXCEPT ![w] = Stream!Finished] /\ UNCHANGED server /\ controller # w
    BY <1>3 DEF Stream!Open, Stream!End, Stream!Aborted
  <2>2. Stream!Finished \in WatchStates
    BY UnusedAndFinished
  <2>3. Connected(w)'
    BY <1>1, <1>2, <2>1 DEF Connected
  <2>. QED BY <1>1, <1>2, <2>1, <2>2, <2>3, WatchChanges
<1>4. CASE ~Stream!Aborted(w)
  <2> DEFINE next == [watch[w] EXCEPT !.step = "reading"]
             stream == [Stream!Closed EXCEPT !.step = "polling", !.cursor = cursor]
  <2>1. next \in WatchStates /\ next.step = "reading" /\ next.final = watch[w].final
    BY <1>1 DEF WatchStates, WatchSteps
  <2>2. stream \in Servers /\ stream.step = "polling" /\ stream.cursor = cursor
    BY <1>1 DEF Stream!Closed, Servers, ServerSteps, Jobs, Stream!Phases
  <2>3. /\ watch' = [watch EXCEPT ![w] = next] /\ server' = [server EXCEPT ![w] = stream]
        /\ controller = w
    BY <1>4 DEF Stream!Open, Stream!GoOn, Stream!Aborted
  <2> HIDE DEF next, stream
  <2>4. /\ server' \in [Stream!Watches -> Servers] /\ server'[w] = stream /\ watch'[w] = next
        /\ \A v \in Stream!Watches \ {w} : server'[v] = server[v]
    BY <1>1, <2>2, <2>3 DEF StreamInv, StreamTyped
  <2>5. Connected(w)' /\ Following(w)'
    BY <1>1, <1>2, <2>1, <2>2, <2>3, <2>4 DEF StreamInv, Connected, Following
  <2>. QED BY <1>1, <1>2, <2>1, <2>3, <2>4, <2>5, WatchChanges
<1>. QED BY <1>3, <1>4

\* A stream that is over has left nothing behind it.
LEMMA OverKeeps ==
  ASSUME StreamInv, NEW w \in Stream!Watches, Stream!Over(w)
  PROVE  StreamInv'
<1>1. /\ watch[w] \in WatchStates /\ wire[w] = <<>> /\ server[w].step = "closed"
      /\ answers \in {0, 1}
      /\ server \in [Stream!Watches -> Servers]
  BY DEF StreamInv, StreamTyped, Stream!Over
<1>2. UNCHANGED <<phase, sequence, server, wire, controller, cursor, shown, answers>>
  BY DEF Stream!Over, Stream!jobVars, Stream!pageVars
<1>3. PICK next \in WatchStates :
        watch' = [watch EXCEPT ![w] = next] /\ next.final = Stream!NoSnapshot
  <2>1. Stream!Finished \in WatchStates /\ Stream!Finished.final = Stream!NoSnapshot
    BY UnusedAndFinished
  <2> DEFINE attempt_ == watch[w].attempt + 1
             next == [watch[w] EXCEPT !.step = "asking", !.attempt = attempt_]
  <2>2. watch' = [watch EXCEPT ![w] = Stream!Finished]
        \/ /\ watch' = [watch EXCEPT ![w] = next] /\ watch[w].final = Stream!NoSnapshot
           /\ attempt_ # Attempts
    BY DEF Stream!Over, Stream!End
  <2>3. watch[w].attempt \in Tries
    BY <1>1 DEF WatchStates
  <2>4. ASSUME attempt_ # Attempts PROVE attempt_ \in Tries
    BY <2>3, <2>4, StreamAssumption DEF Tries
  <2> HIDE DEF attempt_
  <2>5. attempt_ # Attempts => next \in WatchStates /\ next.final = watch[w].final
    BY <1>1, <2>4 DEF WatchStates, WatchSteps
  <2> HIDE DEF next
  <2>. QED BY <2>1, <2>2, <2>5
<1>4. watch'[w] = next
  BY <1>3 DEF StreamInv, StreamTyped
<1>5. Connected(w)' /\ (controller = w => Following(w)')
  BY <1>1, <1>2, <1>3, <1>4 DEF StreamInv, Connected, Following
<1>. QED BY <1>1, <1>2, <1>3, <1>5, WatchChanges

\* A connection that is closed or cut.
LEMMA ClosedKeeps ==
  ASSUME StreamInv, NEW w \in Stream!Watches, Stream!Close(w) \/ Stream!Cut(w)
  PROVE  StreamInv'
<1>1. Stream!Closed \in Servers /\ Stream!Closed.step = "closed"
  BY DEF Stream!Closed, Servers, ServerSteps, Jobs, Stream!Phases
<1>2. Stream!Finished \in WatchStates /\ Stream!Finished.final = Stream!NoSnapshot
  BY UnusedAndFinished
<1>3. /\ server' = [server EXCEPT ![w] = Stream!Closed]
      /\ UNCHANGED <<phase, sequence, controller, cursor, shown, answers>>
      /\ \/ UNCHANGED <<wire, watch>>
         \/ wire' = [wire EXCEPT ![w] = <<>>] /\ watch' = [watch EXCEPT ![w] = Stream!Finished]
  BY DEF Stream!Close, Stream!Cut, Stream!End, Stream!jobVars, Stream!pageVars
<1>4. /\ server' \in [Stream!Watches -> Servers] /\ server'[w] = Stream!Closed
      /\ watch' \in [Stream!Watches -> WatchStates] /\ wire' \in [Stream!Watches -> Seq(Frames)]
      /\ \A v \in Stream!Watches \ {w} :
           server'[v] = server[v] /\ wire'[v] = wire[v] /\ watch'[v] = watch[v]
      /\ \/ wire'[w] = wire[w] /\ watch'[w] = watch[w]
         \/ wire'[w] = <<>> /\ watch'[w] = Stream!Finished
  <2>1. /\ server \in [Stream!Watches -> Servers] /\ wire \in [Stream!Watches -> Seq(Frames)]
        /\ watch \in [Stream!Watches -> WatchStates] /\ <<>> \in Seq(Frames)
    BY DEF StreamInv, StreamTyped
  <2>2. CASE UNCHANGED <<wire, watch>>
    BY <1>1, <1>3, <2>1, <2>2
  <2>3. CASE wire' = [wire EXCEPT ![w] = <<>>] /\ watch' = [watch EXCEPT ![w] = Stream!Finished]
    BY <1>1, <1>2, <1>3, <2>1, <2>3
  <2>. QED BY <1>3, <2>2, <2>3
<1>5. Connected(w)' /\ (controller' = w => Following(w)')
  BY <1>1, <1>2, <1>3, <1>4 DEF StreamInv, Connected, Following
<1>6. sequence' \in Nat /\ sequence <= sequence'
  BY <1>3 DEF StreamInv, StreamTyped
<1>7. \A v \in Stream!Watches \ {w} : Connected(v)' /\ (controller' = v => Following(v)')
  BY <1>3, <1>4, <1>6, OthersFollow
<1>. QED BY <1>3, <1>4, <1>5, <1>7 DEF StreamInv, StreamTyped, Stream!NothingMissed

\* A frame, which the page of an aborted watch drops; the other one takes it
\* as the event it goes on with, or as the end.
LEMMA ReadKeeps ==
  ASSUME StreamInv, NEW w \in Stream!Watches, Stream!Read(w)
  PROVE  StreamInv'
<1> DEFINE frame == Head(wire[w])
           rest == Tail(wire[w])
<1>1. /\ watch[w].step = "reading" /\ wire[w] # <<>> /\ wire[w] \in Seq(Frames)
      /\ watch[w] \in WatchStates /\ cursor \in Nat /\ sequence \in Nat /\ cursor <= sequence
      /\ answers \in {0, 1} /\ server[w] \in Servers
  BY DEF StreamInv, StreamTyped, Stream!Read
<1>2. wire' = [wire EXCEPT ![w] = rest] /\ UNCHANGED <<phase, sequence, server, controller>>
  BY DEF Stream!Read, Stream!jobVars
<1>3. /\ frame \in Frames /\ frame = wire[w][1] /\ rest \in Seq(Frames)
      /\ Len(rest) = Len(wire[w]) - 1
      /\ Len(wire[w]) \in Nat \ {0} /\ \A i \in 1 .. Len(rest) : rest[i] = wire[w][i + 1]
  BY <1>1
<1>4. \/ UNCHANGED <<cursor, shown, answers, watch>>
         /\ (Stream!Aborted(w) \/ (frame.kind = "event" /\ frame.id <= cursor))
      \/ /\ ~Stream!Aborted(w) /\ frame.kind = "event" /\ cursor' = frame.id
         /\ shown' = Append(shown, frame.id) /\ UNCHANGED <<answers, watch>>
      \/ /\ ~Stream!Aborted(w) /\ frame.kind = "snapshot" /\ Stream!Deliver(frame.job.phase)
         /\ watch' = [watch EXCEPT ![w].final = frame] /\ UNCHANGED <<cursor, shown>>
  BY DEF Stream!Read
<1> HIDE DEF frame, rest
<1>5. /\ wire' \in [Stream!Watches -> Seq(Frames)] /\ wire'[w] = rest
      /\ \A v \in Stream!Watches \ {w} : wire'[v] = wire[v]
  BY <1>2, <1>3 DEF StreamInv, StreamTyped
<1>6. sequence' \in Nat /\ sequence <= sequence'
  BY <1>1, <1>2
<1>7. ASSUME UNCHANGED watch PROVE Connected(w)'
  BY <1>1, <1>7 DEF Connected
<1>8. ASSUME controller = w
      PROVE  /\ frame.kind = "event" => frame.id = cursor + 1 /\ cursor + 1 <= sequence
             /\ frame.kind = "snapshot" => /\ frame.job.sequence <= cursor /\ rest = <<>>
                                           /\ server[w].step = "closed"
             /\ Following(w)
  <2>1. Following(w) /\ 1 \in 1 .. Len(wire[w])
    BY <1>3, <1>8 DEF StreamInv
  <2>2. frame.kind = "event" => frame.id = cursor + 1 /\ cursor + 1 <= sequence
    BY <1>3, <2>1 DEF Following
  <2>3. ASSUME frame.kind = "snapshot"
        PROVE  frame.job.sequence <= cursor /\ rest = <<>> /\ server[w].step = "closed"
    <3>1. 1 = Len(wire[w]) /\ server[w].step = "closed" /\ frame.job.sequence < cursor + 1
      BY <1>3, <2>1, <2>3 DEF Following
    <3>2. frame.job.sequence \in Nat
      BY <1>3, <2>3 DEF Frames, Events, Snapshots, Told
    <3>3. rest = <<>>
      BY <1>3, <3>1
    <3>. QED BY <1>1, <3>1, <3>2, <3>3
  <2>. QED BY <2>1, <2>2, <2>3
<1>9. CASE Stream!Aborted(w) /\ UNCHANGED <<cursor, shown, answers, watch>>
  <2>1. controller # w
    BY <1>9 DEF Stream!Aborted
  <2>2. \A v \in Stream!Watches \ {w} : Connected(v)' /\ (controller' = v => Following(v)')
    BY <1>2, <1>5, <1>6, <1>9, OthersFollow
  <2>. QED BY <1>2, <1>5, <1>7, <1>9, <2>1, <2>2 DEF StreamInv, StreamTyped, Stream!NothingMissed
<1>10. CASE ~Stream!Aborted(w) /\ frame.kind = "event" /\ cursor' = frame.id
            /\ shown' = Append(shown, frame.id)
            /\ UNCHANGED <<answers, watch>>
  <2>1. controller = w /\ cursor' = cursor + 1 /\ cursor + 1 <= sequence /\ Following(w)
    BY <1>8, <1>10 DEF Stream!Aborted
  <2>2. cursor' \in Nat /\ cursor' <= sequence'
    BY <1>1, <1>2, <2>1
  <2>3. Stream!NothingMissed'
    BY <1>1, <1>10, <2>1, OneMore DEF StreamInv, Stream!NothingMissed
  <2>4. Following(w)'
    <3>1. ASSUME NEW i \in 1 .. Len(rest)
          PROVE  /\ rest[i].kind = "event" => rest[i].id = cursor' + i /\ cursor' + i <= sequence
                 /\ rest[i].kind = "snapshot" => /\ i = Len(rest) /\ server[w].step = "closed"
                                                 /\ rest[i].job.sequence < cursor' + i
      <4>1. i + 1 \in 1 .. Len(wire[w]) /\ rest[i] = wire[w][i + 1]
            /\ cursor' + i = cursor + (i + 1)
        BY <1>1, <1>3, <2>1
      <4>. QED BY <1>3, <2>1, <4>1 DEF Following
    <3>2. server[w].step # "closed"
            => server[w].cursor = cursor' + Len(rest) /\ server[w].cursor <= sequence
      <4>2. server[w].step # "closed"
              => server[w].cursor = cursor + Len(wire[w]) /\ server[w].cursor <= sequence
        BY <2>1 DEF Following
      <4>3. cursor' + Len(rest) = cursor + Len(wire[w])
        <5>1. cursor \in Nat /\ cursor' \in Nat /\ cursor' = cursor + 1
          BY <1>1, <2>1
        <5>2. Len(wire[w]) \in Nat /\ Len(rest) \in Nat /\ Len(rest) = Len(wire[w]) - 1
          BY <1>3
        <5> DEFINE k == Len(wire[w])
                   l == Len(rest)
        <5> HIDE DEF k, l
        <5>3. k \in Nat /\ l \in Nat /\ l = k - 1
          BY <5>2 DEF k, l
        <5>4. cursor' + l = cursor + k
          BY ONLY <5>1, <5>3
        <5>. QED BY <5>4 DEF k, l
      <4>. QED BY <4>2, <4>3
    <3>3. watch[w].final # Stream!NoSnapshot => watch[w].final.job.sequence <= cursor'
      <4>1. watch[w].final # Stream!NoSnapshot => watch[w].final.job.sequence \in Nat
        BY <1>1 DEF WatchStates, Finals, Snapshots, Told
      <4>. QED BY <1>1, <2>1, <4>1 DEF Following
    <3>. QED BY <1>2, <1>5, <1>10, <3>1, <3>2, <3>3 DEF Following
  <2>5. \A v \in Stream!Watches \ {w} : Connected(v)' /\ (controller' = v => Following(v)')
    BY <1>2, <1>5, <1>6, <1>10, <2>1, OthersFollow
  <2>. QED BY <1>2, <1>5, <1>7, <1>10, <2>2, <2>3, <2>4, <2>5 DEF StreamInv, StreamTyped
<1>11. CASE ~Stream!Aborted(w) /\ frame.kind = "snapshot" /\ Stream!Deliver(frame.job.phase)
            /\ watch' = [watch EXCEPT ![w].final = frame] /\ UNCHANGED <<cursor, shown>>
  <2>1. /\ controller = w /\ frame.job.sequence <= cursor /\ rest = <<>>
        /\ server[w].step = "closed"
        /\ Following(w)
    BY <1>8, <1>11 DEF Stream!Aborted
  <2>2. frame \in Finals
    BY <1>3, <1>11 DEF Frames, Events, Finals
  <2>3. /\ watch' \in [Stream!Watches -> WatchStates] /\ watch'[w].step = "reading"
        /\ watch'[w].final = frame
        /\ \A v \in Stream!Watches \ {w} : watch'[v] = watch[v]
    BY <1>1, <1>11, <2>2 DEF StreamInv, StreamTyped, WatchStates
  <2>4. answers' \in {0, 1}
    BY <1>1, <1>11, DeliversOnce
  <2>5. Connected(w)' /\ Following(w)'
    BY <1>2, <1>5, <1>11, <2>1, <2>3 DEF Connected, Following
  <2>6. \A v \in Stream!Watches \ {w} : Connected(v)' /\ (controller' = v => Following(v)')
    BY <1>2, <1>5, <1>6, <1>11, <2>3, OthersFollow
  <2>. QED BY <1>2, <1>5, <1>11, <2>3, <2>4, <2>5, <2>6 DEF StreamInv, StreamTyped,
              Stream!NothingMissed
<1>12. CASE ~Stream!Aborted(w) /\ frame.kind = "event" /\ frame.id <= cursor
            /\ UNCHANGED <<cursor, shown, answers, watch>>
  <2>1. frame.id = cursor + 1
    BY <1>8, <1>12 DEF Stream!Aborted
  <2>. QED BY <1>1, <1>12, <2>1
<1>. QED BY <1>4, <1>9, <1>10, <1>11, <1>12

\* Every step of the stream keeps all of it.
LEMMA StreamNext ==
  ASSUME StreamInv, StreamBounds, [Stream!Next]_(Stream!vars)
  PROVE  StreamInv'
<1>1. CASE UNCHANGED Stream!vars
  BY <1>1 DEF Stream!vars, Stream!jobVars, Stream!pageVars, StreamInv, StreamTyped,
     Stream!NothingMissed,
     Connected, Following
<1>2. CASE Stream!Emit \/ Stream!Pause \/ Stream!Continue
           \/ \E p \in Stream!Ended : Stream!Finish(p)
  BY <1>2, JobKeeps DEF Stream!Emit, Stream!Pause, Stream!Continue, Stream!Finish, Stream!Phases
<1>3. ASSUME NEW w \in Stream!Watches,
             \/ Stream!Watch(w, TRUE) \/ Stream!Watch(w, FALSE)
             \/ Stream!Serve(w) \/ Stream!Page(w) \/ Stream!Close(w) \/ Stream!Cut(w)
      PROVE  StreamInv'
  BY <1>3, WatchKeeps, ReadJobKeeps, ReadEventsKeeps, AskKeeps, OpenKeeps, ReadKeeps, OverKeeps,
     ClosedKeeps
     DEF Stream!Serve, Stream!Page
<1>. QED BY <1>1, <1>2, <1>3 DEF Stream!Next

\* The lengths and the watch that is not aborted remain what they may be.
LEMMA StreamBoundsKeep ==
  ASSUME StreamInv, StreamBounds, [Stream!Next]_(Stream!vars)
  PROVE  StreamBounds'
<1>1. server \in [Stream!Watches -> Servers] /\ phase \in Stream!Phases /\ sequence \in Nat
  BY DEF StreamInv, StreamTyped
<1>2. CASE UNCHANGED Stream!vars
  BY <1>2 DEF Stream!vars, Stream!jobVars, Stream!pageVars, StreamBounds
<1>3. ASSUME NEW p, Stream!Happens(p) PROVE StreamBounds'
  BY <1>1, <1>3, StreamAssumption DEF Stream!Happens, Stream!pageVars, StreamBounds
<1>4. ASSUME NEW w \in Stream!Watches, UNCHANGED <<sequence, controller>>,
             server' = [server EXCEPT ![w] = server'[w]], server'[w].step # "reading"
      PROVE  StreamBounds'
  BY <1>1, <1>4 DEF StreamBounds
<1>5. ASSUME NEW w \in Stream!Watches, NEW reset, Stream!Watch(w, reset) PROVE StreamBounds'
  BY <1>5 DEF Stream!Watch, Stream!jobVars, StreamBounds
<1>6. ASSUME NEW w \in Stream!Watches, Stream!ReadJob(w) PROVE StreamBounds'
  <2>1. Stream!Job \in Told
    BY <1>1 DEF Stream!Job, Told, StreamBounds
  <2>2. server' = [server EXCEPT ![w].step = "reading", ![w].job = Stream!Job]
        /\ UNCHANGED <<sequence, controller>>
    BY <1>6 DEF Stream!ReadJob, Stream!jobVars, Stream!pageVars
  <2> DEFINE job == Stream!Job
  <2> HIDE DEF job
  <2>3. server'[w].job = job /\ \A v \in Stream!Watches \ {w} : server'[v] = server[v]
    BY <1>1, <2>2 DEF Servers, job
  <2>. QED BY <2>1, <2>2, <2>3 DEF StreamBounds, job
<1>7. ASSUME NEW w \in Stream!Watches, Stream!ReadEvents(w) PROVE StreamBounds'
  <2>1. UNCHANGED <<sequence, controller>> /\ server' = [server EXCEPT ![w] = server'[w]]
        /\ server'[w].step # "reading"
    BY <1>1, <1>7 DEF Stream!ReadEvents, Stream!jobVars, Stream!pageVars, Servers
  <2>. QED BY <1>4, <2>1
<1>8. ASSUME NEW w \in Stream!Watches, Stream!Ask(w) \/ Stream!Read(w) \/ Stream!Over(w)
      PROVE  StreamBounds'
  BY <1>8 DEF Stream!Ask, Stream!Read, Stream!Over, Stream!jobVars, Stream!pageVars, StreamBounds
<1>9. ASSUME NEW w \in Stream!Watches, Stream!Open(w) \/ Stream!Close(w) \/ Stream!Cut(w)
      PROVE  StreamBounds'
  <2>1. /\ UNCHANGED <<sequence, controller>>
        /\ \/ UNCHANGED server
           \/ server' = [server EXCEPT ![w] = Stream!Closed]
           \/ server' = [server EXCEPT ![w] =
                           [Stream!Closed EXCEPT !.step = "polling", !.cursor = cursor]]
    BY <1>9 DEF Stream!Open, Stream!Close, Stream!Cut, Stream!jobVars, Stream!pageVars
  <2>2. CASE UNCHANGED server
    BY <2>1, <2>2 DEF StreamBounds
  <2>3. CASE server' = [server EXCEPT ![w] = Stream!Closed]
    BY <1>1, <1>4, <2>1, <2>3 DEF Stream!Closed
  <2>4. CASE server' = [server EXCEPT ![w] =
                          [Stream!Closed EXCEPT !.step = "polling", !.cursor = cursor]]
    BY <1>1, <1>4, <2>1, <2>4 DEF Stream!Closed
  <2>. QED BY <2>1, <2>2, <2>3, <2>4
<1>. QED BY <1>2, <1>3, <1>5, <1>6, <1>7, <1>8, <1>9 DEF Stream!Next, Stream!Emit, Stream!Pause,
            Stream!Continue, Stream!Finish, Stream!Serve, Stream!Page

\* What is so of every state of the page.
LEMMA StreamInvariance == Spec => [](StreamInv /\ StreamBounds)
<1>1. Init => StreamInv
  <2> SUFFICES ASSUME Stream!Init PROVE StreamInv
    BY DEF Init
  <2>1. Stream!Closed \in Servers /\ Stream!Unused \in WatchStates
    BY UnusedAndFinished DEF Stream!Closed, Servers, ServerSteps, Jobs, Stream!Phases
  <2>2. StreamTyped
    BY <2>1 DEF Stream!Init, StreamTyped, Stream!Phases
  <2>3. Stream!NothingMissed /\ cursor <= sequence
    BY NothingYet DEF Stream!Init, Stream!NothingMissed
  <2>4. \A w \in Stream!Watches : Connected(w) /\ controller # w
    BY StreamAssumption DEF Stream!Init, Stream!Closed, Connected, Stream!NoWatch, Stream!Watches
  <2>. QED BY <2>2, <2>3, <2>4 DEF StreamInv
<1>2. Init => StreamBounds
  BY StreamAssumption DEF Init, Stream!Init, StreamBounds, Stream!Closed
<1>3. StreamInv /\ StreamBounds /\ [Next]_vars => StreamInv' /\ StreamBounds'
  <2>1. [Next]_vars => [Stream!Next]_(Stream!vars)
    BY DEF Next, Only, vars, streamVars, Stream!vars, Stream!jobVars, Stream!pageVars
  <2>. QED BY <2>1, StreamNext, StreamBoundsKeep
<1>. QED BY <1>1, <1>2, <1>3, PTL DEF Spec

\* What the server sends and the page holds is of its type.
LEMMA StreamTypes == Spec => []Stream!TypeOK
<1>1. StreamInv /\ StreamBounds => Stream!TypeOK
  <2> SUFFICES ASSUME StreamInv, StreamBounds PROVE Stream!TypeOK
    OBVIOUS
  <2>1. StreamTyped
    BY DEF StreamInv
  <2>2. Frames = Stream!Frames
    BY DEF Frames, Events, Snapshots, Told, Stream!Frames
  <2>3. ASSUME NEW w \in Stream!Watches
        PROVE  /\ server[w].step \in ServerSteps /\ wire[w] \in Seq(Frames)
               /\ watch[w].step \in WatchSteps /\ watch[w].replay \in BOOLEAN
               /\ watch[w].attempt \in Tries /\ watch[w].final \in Finals
    BY <2>1 DEF StreamTyped, Servers, WatchStates
  <2>4. Finals \subseteq Stream!Frames \cup {Stream!NoSnapshot}
    BY <2>2 DEF Finals, Frames
  <2>5. cursor \in 0 .. MaxEvents
    <3>1. cursor \in Nat /\ cursor <= sequence /\ sequence \in 1 .. MaxEvents
      BY <2>1 DEF StreamInv, StreamTyped, StreamBounds
    <3>. QED BY <3>1, StreamAssumption
  <2>6. answers \in Nat
    BY <2>1 DEF StreamTyped
  <2>7. phase \in Stream!Phases /\ sequence \in 1 .. MaxEvents
        /\ controller \in Stream!Watches \cup {Stream!NoWatch}
    BY <2>1 DEF StreamTyped, StreamBounds
  <2>. QED BY <2>2, <2>3, <2>4, <2>5, <2>6, <2>7
           DEF Stream!TypeOK, ServerSteps, WatchSteps, Tries
<1>. QED BY <1>1, StreamInvariance, PTL

\* However often the page watches a review anew, its connection is closed or
\* cut, or frames of a stream it has dropped arrive: it shows each event up
\* to its cursor once and in order, a stream's end comes after all of them,
\* and the answer is taken once.
THEOREM PageAlwaysComplete == Spec => []PageIsComplete
<1>1. StreamInv => PageIsComplete
  BY DEF StreamInv, StreamTyped, Following, PageIsComplete, Stream!PageIsComplete,
     Stream!SnapshotIsLast,
     Stream!Aborted, Stream!AnsweredOnce
<1>. QED BY <1>1, StreamInvariance, PTL

-----------------------------------------------------------------------------
(* The tour.                                                               *)

\* What may be on its way between a tab and the server.
Saves == {Tours!Idle} \cup {Tours!Answered(o) : o \in {"conflict", "refused", "reading"}}
         \cup [at : {"sent"}, action : Tours!Actions, revision : Nat]
         \cup [at : {"saved", "latest"}, state : Tours!States]

Reads == {Tours!Idle} \cup [at : {"latest"}, state : Tours!States]

\* A state that a tab may hold: none is newer than the server's, and one of
\* the server's revision is the server's.
Behind(s) == s.revision <= tour.revision /\ (s.revision = tour.revision => s = tour)

\* ... after a step.
BehindThen(s) == s.revision <= tour'.revision /\ (s.revision = tour'.revision => s = tour')

\* What a tab shows, and what is on its way to it, is behind the server.
TabBehind(t) ==
  /\ Behind(tab[t].state)
  /\ tab[t].save.at \in {"saved", "latest"} => Behind(tab[t].save.state)
  /\ tab[t].read # Tours!Idle => Behind(tab[t].read.state)

TourInv ==
  /\ tour \in Tours!States
  /\ tab \in [Tabs -> [state : Tours!States, save : Saves, read : Reads]]
  /\ \A t \in Tabs : TabBehind(t)

\* A transition that is not refused counts the revision up.
LEMMA ResultsAreNewer ==
  ASSUME tour \in Tours!States, NEW q, NEW s \in Tours!Result(q)
  PROVE  s \in Tours!States /\ s.revision = tour.revision + 1
<1>1. PICK action : s \in Tours!Outcome(action)
  BY DEF Tours!Result
<1>2. /\ s = Tours!Moved("in_progress", 0) \/ s = Tours!Moved("skipped", tour.step)
         \/ s = Tours!Moved("completed", tour.step)
         \/ (tour.step < LastStep /\ s = Tours!Moved("in_progress", tour.step + 1))
         \/ (tour.step > 0 /\ s = Tours!Moved("in_progress", tour.step - 1))
  BY <1>1 DEF Tours!Outcome, Tours!MayGoBack
<1>. QED BY <1>2, TourAssumption DEF Tours!Moved, Tours!States, Tours!Statuses

\* A server that moves on leaves what the tabs hold behind it.
LEMMA BehindStays ==
  ASSUME tour \in Tours!States, tour' \in Tours!States,
         tour' = tour \/ tour'.revision = tour.revision + 1,
         NEW s \in Tours!States, Behind(s)
  PROVE  BehindThen(s)
  BY DEF Behind, BehindThen, Tours!States

\* What a save does at the server, whoever waits for it.
LEMMA ServerMoves ==
  ASSUME TourInv, NEW q, tour' \in IF Tours!Result(q) = {} THEN {tour} ELSE Tours!Result(q)
  PROVE  /\ tour' \in Tours!States
         /\ tour' = tour \/ tour'.revision = tour.revision + 1
  BY ResultsAreNewer DEF TourInv

\* A tab that nothing has reached is still behind the server.
LEMMA OthersStayBehind ==
  ASSUME TourInv, tour' \in Tours!States, tour' = tour \/ tour'.revision = tour.revision + 1,
         NEW t \in Tabs, tab'[t] = tab[t]
  PROVE  TabBehind(t)'
<1>1. tab[t] \in [state : Tours!States, save : Saves, read : Reads] /\ TabBehind(t)
  BY DEF TourInv
<1>2. /\ tab[t].state \in Tours!States
      /\ tab[t].save.at \in {"saved", "latest"} => tab[t].save.state \in Tours!States
      /\ tab[t].read # Tours!Idle => tab[t].read.state \in Tours!States
  BY <1>1 DEF Saves, Reads, Tours!Idle, Tours!Answered
<1>. QED BY <1>1, <1>2, BehindStays DEF TourInv, TabBehind, Behind, BehindThen

\* An answer is shown unless what is shown is newer.
LEMMA NewerIsBehind ==
  ASSUME TourInv, NEW s \in Tours!States, NEW r \in Tours!States, Behind(s), Behind(r)
  PROVE  /\ Tours!Newer(s, r) \in Tours!States /\ Behind(Tours!Newer(s, r))
         /\ Tours!Newer(s, r).revision >= s.revision
  BY DEF Tours!Newer, Tours!States

\* A transition, and its answer to the tab that waits.
LEMMA TransitionBehind ==
  ASSUME TourInv, NEW t \in Tabs, Tours!Transition(t)
  PROVE  TourInv' /\ \A u \in Tabs : tab'[u].state = tab[u].state
<1> DEFINE q == tab[t].save
           answer == IF Tours!Conflict(q) THEN Tours!Answered("conflict")
                     ELSE IF Tours!Result(q) = {} THEN Tours!Answered("refused")
                     ELSE Tours!Holding("saved", tour')
<1>1. /\ tour' \in Tours!States /\ (tour' = tour \/ tour'.revision = tour.revision + 1)
      /\ tab' = [tab EXCEPT ![t].save = answer]
  BY ServerMoves DEF Tours!Transition
<1>2. /\ answer \in Saves
      /\ answer.at \in {"saved", "latest"} => answer.state = tour'
  BY <1>1 DEF Saves, Tours!Answered, Tours!Holding
<1> HIDE DEF answer
<1>3. /\ tab' \in [Tabs -> [state : Tours!States, save : Saves, read : Reads]]
      /\ tab'[t].save = answer /\ tab'[t].state = tab[t].state /\ tab'[t].read = tab[t].read
      /\ \A u \in Tabs \ {t} : tab'[u] = tab[u]
  BY <1>1, <1>2 DEF TourInv
<1>4. BehindThen(tour') /\ TabBehind(t)
  BY <1>1 DEF BehindThen, TourInv, Tours!States
<1>5. /\ tab[t].state \in Tours!States
      /\ tab[t].read # Tours!Idle => tab[t].read.state \in Tours!States
  BY DEF TourInv, Reads, Tours!Idle
<1>6. BehindThen(tab[t].state) /\ (tab[t].read # Tours!Idle => BehindThen(tab[t].read.state))
  BY <1>1, <1>4, <1>5, BehindStays DEF TourInv, TabBehind
<1>7. TabBehind(t)'
  BY <1>2, <1>3, <1>4, <1>6 DEF TabBehind, Behind, BehindThen
<1>. QED BY <1>1, <1>3, <1>7, OthersStayBehind DEF TourInv

\* A request that nobody waits for any more.
LEMMA StrayBehind ==
  ASSUME TourInv, NEW q, Tours!StrayTransition(q)
  PROVE  TourInv' /\ \A u \in Tabs : tab'[u].state = tab[u].state
<1>1. /\ tour' \in Tours!States /\ (tour' = tour \/ tour'.revision = tour.revision + 1)
      /\ tab' = tab
  BY ServerMoves DEF Tours!StrayTransition
<1>. QED BY <1>1, OthersStayBehind DEF TourInv

\* A tab that acts while the server stays where it is: what it holds must be
\* behind the server.
LEMMA TabActs ==
  ASSUME TourInv, tour' = tour, NEW t \in Tabs, \A u \in Tabs \ {t} : tab'[u] = tab[u],
         tab' \in [Tabs -> [state : Tours!States, save : Saves, read : Reads]],
         Behind(tab'[t].state),
         tab'[t].save.at \in {"saved", "latest"} => Behind(tab'[t].save.state),
         tab'[t].read # Tours!Idle => Behind(tab'[t].read.state)
  PROVE  TourInv'
<1>1. TabBehind(t)'
  BY DEF TabBehind, Behind
<1>. QED BY <1>1, OthersStayBehind DEF TourInv

\* What a tab does by itself.
LEMMA TabBehindNext ==
  ASSUME TourInv, NEW t \in Tabs,
         \/ Tours!Receive(t) \/ Tours!ReadLatest(t)
         \/ Tours!GiveUp(t) \/ Tours!Sync(t) \/ Tours!Synced(t)
         \/ \E action \in Tours!Actions : Tours!Act(t, action)
  PROVE  TourInv' /\ \A u \in Tabs : tab'[u].state.revision >= tab[u].state.revision
<1>1. /\ tour \in Tours!States /\ Behind(tour) /\ TabBehind(t)
      /\ tab[t] \in [state : Tours!States, save : Saves, read : Reads]
      /\ \A u \in Tabs : tab[u].state.revision \in Nat
  BY DEF TourInv, Behind, Tours!States
<1>2. /\ tab[t].save.at \in {"saved", "latest"} => tab[t].save.state \in Tours!States
      /\ tab[t].read # Tours!Idle => tab[t].read.state \in Tours!States
      /\ Tours!Idle \in Saves /\ Tours!Idle \in Reads /\ Tours!Idle.at = "idle"
      /\ Tours!Answered("reading") \in Saves /\ Tours!Answered("reading").at = "reading"
      /\ \A s \in Tours!States : Tours!Holding("latest", s) \in Saves \cap Reads
      /\ \A s : Tours!Holding("latest", s).state = s
      /\ \A a \in Tours!Actions, r \in Nat :
           Tours!Sent(a, r) \in Saves /\ Tours!Sent(a, r).at = "sent"
  BY <1>1 DEF Saves, Reads, Tours!Idle, Tours!Answered, Tours!Holding, Tours!Sent
<1>3. CASE \E action \in Tours!Actions : Tours!Act(t, action)
  <2>1. PICK action \in Tours!Actions : Tours!Act(t, action)
    BY <1>3
  <2> DEFINE save == Tours!Sent(action, tab[t].state.revision)
  <2>2. save \in Saves /\ save.at = "sent"
    BY <1>1, <1>2
  <2>3. tour' = tour /\ tab' = [tab EXCEPT ![t].save = save]
    BY <2>1 DEF Tours!Act
  <2> HIDE DEF save
  <2>4. /\ tab' \in [Tabs -> [state : Tours!States, save : Saves, read : Reads]]
        /\ tab'[t].save = save /\ tab'[t].state = tab[t].state /\ tab'[t].read = tab[t].read
        /\ \A u \in Tabs \ {t} : tab'[u] = tab[u]
    BY <2>2, <2>3 DEF TourInv
  <2>. QED BY <1>1, <2>2, <2>3, <2>4, TabActs DEF TabBehind
<1>4. CASE Tours!Receive(t)
  <2> DEFINE s == Tours!Newer(tab[t].state, tab[t].save.state)
             reading == Tours!Answered("reading")
             idle == Tours!Idle
  <2>1. tab[t].save.at \in {"saved", "latest"} =>
          s \in Tours!States /\ Behind(s) /\ s.revision >= tab[t].state.revision
    BY <1>1, <1>2, NewerIsBehind DEF TabBehind
  <2>2. /\ tour' = tour
        /\ \/ tab[t].save.at \in {"saved", "latest"}
              /\ tab' = [tab EXCEPT ![t].state = s, ![t].save = idle]
           \/ tab' = [tab EXCEPT ![t].save = idle]
           \/ tab' = [tab EXCEPT ![t].save = reading]
    BY <1>4 DEF Tours!Receive
  <2>3. {idle, reading} \subseteq Saves /\ idle.at = "idle" /\ reading.at = "reading"
    BY <1>2
  <2> HIDE DEF s, idle, reading
  <2>4. CASE tab[t].save.at \in {"saved", "latest"}
             /\ tab' = [tab EXCEPT ![t].state = s, ![t].save = idle]
    <3>1. /\ tab' \in [Tabs -> [state : Tours!States, save : Saves, read : Reads]]
          /\ tab'[t].save = idle /\ tab'[t].state = s /\ tab'[t].read = tab[t].read
          /\ \A u \in Tabs \ {t} : tab'[u] = tab[u]
      BY <2>1, <2>3, <2>4 DEF TourInv
    <3>. QED BY <1>1, <2>1, <2>2, <2>3, <2>4, <3>1, TabActs DEF TabBehind
  <2>5. CASE \E x \in {idle, reading} : tab' = [tab EXCEPT ![t].save = x]
    <3>1. /\ tab' \in [Tabs -> [state : Tours!States, save : Saves, read : Reads]]
          /\ tab'[t].save \in {idle, reading} /\ tab'[t].state = tab[t].state
          /\ tab'[t].read = tab[t].read
          /\ \A u \in Tabs \ {t} : tab'[u] = tab[u]
      BY <2>3, <2>5 DEF TourInv
    <3>. QED BY <1>1, <2>2, <2>3, <3>1, TabActs DEF TabBehind
  <2>. QED BY <2>2, <2>4, <2>5
<1>5. CASE Tours!ReadLatest(t) \/ Tours!GiveUp(t)
  <2> DEFINE latest == Tours!Holding("latest", tour)
             idle == Tours!Idle
  <2>1. {latest, idle} \subseteq Saves /\ idle.at = "idle" /\ latest.state = tour
    BY <1>1, <1>2
  <2>2. tour' = tour /\ \E x \in {latest, idle} : tab' = [tab EXCEPT ![t].save = x]
    BY <1>5 DEF Tours!ReadLatest, Tours!GiveUp
  <2> HIDE DEF latest, idle
  <2>3. /\ tab' \in [Tabs -> [state : Tours!States, save : Saves, read : Reads]]
        /\ tab'[t].save \in {latest, idle} /\ tab'[t].state = tab[t].state
        /\ tab'[t].read = tab[t].read
        /\ \A u \in Tabs \ {t} : tab'[u] = tab[u]
    BY <2>1, <2>2 DEF TourInv
  <2>. QED BY <1>1, <2>1, <2>2, <2>3, TabActs DEF TabBehind
<1>6. CASE Tours!Sync(t)
  <2> DEFINE latest == Tours!Holding("latest", tour)
  <2>1. latest \in Reads /\ latest.state = tour
    BY <1>1, <1>2
  <2>2. tour' = tour /\ tab' = [tab EXCEPT ![t].read = latest]
    BY <1>6 DEF Tours!Sync
  <2> HIDE DEF latest
  <2>3. /\ tab' \in [Tabs -> [state : Tours!States, save : Saves, read : Reads]]
        /\ tab'[t].save = tab[t].save /\ tab'[t].state = tab[t].state /\ tab'[t].read = latest
        /\ \A u \in Tabs \ {t} : tab'[u] = tab[u]
    BY <2>1, <2>2 DEF TourInv
  <2>. QED BY <1>1, <2>1, <2>2, <2>3, TabActs DEF TabBehind
<1>7. CASE Tours!Synced(t)
  <2> DEFINE s == Tours!Newer(tab[t].state, tab[t].read.state)
             idle == Tours!Idle
  <2>1. s \in Tours!States /\ Behind(s) /\ s.revision >= tab[t].state.revision
    BY <1>1, <1>2, <1>7, NewerIsBehind DEF TabBehind, Tours!Synced
  <2>2. idle \in Reads /\ tour' = tour /\ tab' = [tab EXCEPT ![t].state = s, ![t].read = idle]
    BY <1>2, <1>7 DEF Tours!Synced
  <2>3. idle = Tours!Idle
    OBVIOUS
  <2> HIDE DEF s, idle
  <2>4. /\ tab' \in [Tabs -> [state : Tours!States, save : Saves, read : Reads]]
        /\ tab'[t].save = tab[t].save /\ tab'[t].state = s /\ tab'[t].read = idle
        /\ \A u \in Tabs \ {t} : tab'[u] = tab[u]
    BY <2>1, <2>2 DEF TourInv
  <2>. QED BY <1>1, <2>1, <2>2, <2>3, <2>4, TabActs DEF TabBehind
<1>. QED BY <1>3, <1>4, <1>5, <1>6, <1>7

\* A step of the services is one of the tour's, or leaves it alone.
LEMMA TourStep == [Next]_vars => [Tours!Next]_(Tours!vars)
  BY DEF Next, Only, vars, tourVars, Tours!vars

\* Every step of the tour keeps all of it.
LEMMA TourNext ==
  ASSUME TourInv, [Tours!Next]_(Tours!vars)
  PROVE  TourInv' /\ \A u \in Tabs : tab'[u].state.revision >= tab[u].state.revision
<1>1. \A u \in Tabs : tab[u].state.revision \in Nat
  BY DEF TourInv, Tours!States
<1>2. CASE UNCHANGED Tours!vars
  BY <1>1, <1>2, OthersStayBehind DEF Tours!vars, TourInv
<1>3. CASE \E q \in stray : Tours!StrayTransition(q)
  BY <1>1, <1>3, StrayBehind
<1>4. CASE \E t \in Tabs : Tours!Transition(t)
  BY <1>1, <1>4, TransitionBehind
<1>. QED BY <1>2, <1>3, <1>4, TabBehindNext DEF Tours!Next

\* All of it holds always.
LEMMA TourInvariance == Spec => []TourInv
<1>1. Init => TourInv
  <2> SUFFICES ASSUME Tours!Init PROVE TourInv
    BY DEF Init
  <2>1. tour \in Tours!States
    BY TourAssumption DEF Tours!Init, Tours!State, Tours!States, Tours!Statuses
  <2> DEFINE idle == Tours!Idle
  <2>2. idle \in Saves /\ idle \in Reads /\ idle.at = "idle" /\ idle = Tours!Idle
    BY DEF Saves, Reads, Tours!Idle
  <2>3. tab = [t \in Tabs |-> [state |-> tour, save |-> idle, read |-> idle]]
    BY DEF Tours!Init
  <2> HIDE DEF idle
  <2>. QED BY <2>1, <2>2, <2>3 DEF TourInv, TabBehind, Behind, Tours!States
<1>2. TourInv /\ [Next]_vars => TourInv'
  BY TourNext, TourStep
<1>. QED BY <1>1, <1>2, PTL DEF Spec

\* What the server, the tabs and their requests hold is of its type.
LEMMA TourTyped == Spec => []Tours!TypeOK
<1>1. TourInv => Tours!TypeOK
  <2> SUFFICES ASSUME TourInv, NEW t \in Tabs
               PROVE  /\ tour \in Tours!States /\ tab[t].state \in Tours!States
                      /\ tab[t].save.at \in {"idle", "sent", "saved", "conflict", "refused",
                                             "reading", "latest"}
                      /\ tab[t].read.at \in {"idle", "latest"}
    BY DEF Tours!TypeOK, TourInv
  <2>1. tab[t].state \in Tours!States /\ tab[t].save \in Saves /\ tab[t].read \in Reads
    BY DEF TourInv
  <2>2. tour \in Tours!States
    BY DEF TourInv
  <2>. QED BY <2>1, <2>2 DEF Saves, Reads, Tours!Idle, Tours!Answered
<1>. QED BY <1>1, TourInvariance, PTL

\* However requests, answers and tabs overtake each other, a tab of the
\* server's revision shows the server's step, and no tab goes back.
THEOREM TourAlwaysShared == Spec => TourIsShared
<1>1. TourInv => Tours!TabsAgree
  BY DEF TourInv, TabBehind, Behind, Tours!TabsAgree
<1>2. TourInv /\ [Next]_vars =>
        [\A t \in Tabs : tab'[t].state.revision >= tab[t].state.revision]_(Tours!vars)
  BY TourNext, TourStep
<1>. QED BY <1>1, <1>2, TourInvariance, PTL DEF Spec, TourIsShared, Tours!TourIsShared,
         Tours!NeverBack

-----------------------------------------------------------------------------
(* Administration.                                                         *)

Members == [Users -> Administration!Staff \cup {Administration!Nobody}]
Allowances == [Users -> {"suspended", "allowed"}]
Switches == [Models -> BOOLEAN]
Tasks == [{"chat"} -> Administration!Task]
Routes == [{"chat"} -> Administration!Route]
Settings == [{"product"} -> {"checkout", "closed"}]
Offers == [{"starter"} -> Administration!Pack]
Tables == [staff : Members, user : Allowances, task : Tasks, model : Switches, route : Routes,
           settings : Settings, pack : Offers]
Kinds == {"staff", "user"} \cup Administration!Catalogue
RowValues == {b[c.kind][c.target] : b \in Tables, c \in Administration!Change}
Basis == {Administration!Unread} \cup Tables \cup [row : RowValues]
Stages == {"unused", "reading", "editing", "sent", "open", "answered"}
Replies == {"none", "ok", "duplicate", "forbidden", "changed", "invalid"}
Changes == Administration!Change \cup {Administration!NoChange}
Edits == [step : Stages, actor : Users, change : Changes, revision : Nat, basis : Basis,
          reply : Replies, repeated : BOOLEAN]

\* Every active member can sign in, and one of them is an owner: a member is
\* made active only while they can, and suspended only after they have left.
Staffed ==
  /\ Administration!Owners # {}
  /\ \A u \in Users : Administration!RoleOf(u) # "none" => Administration!MaySignIn(u)

\* What an editor has read of the catalogue is still there while the product
\* row has the revision they read before it.
Current(r) ==
  LET q == request[r] IN
  /\ q.revision <= productRevision
  /\ q.step = "unused" => q.basis = Administration!Unread
  /\ q.step = "editing" =>
       /\ q.basis \in Tables
       /\ q.revision = productRevision => \A k \in Administration!Catalogue : q.basis[k] = tables[k]
  /\ q.step \in {"sent", "open", "answered"} =>
       /\ q.change \in Administration!Change
       /\ q.change.kind \in Administration!Catalogue /\ q.revision = productRevision =>
            q.basis.row = tables[q.change.kind][q.change.target]

AdminInv ==
  /\ tables \in Tables /\ productRevision \in Nat \ {0}
  /\ request \in [Administration!Requests -> Edits]
  /\ Staffed
  /\ Administration!RoutesServe
  /\ \A r \in Administration!Requests : Current(r)
  /\ Administration!EditsAreInformed
  /\ Administration!ConflictIsUnapplied

\* The size of a set is the same in the module of an instance.
LEMMA AdminCardinality == \A S : Administration!Cardinality(S) = Cardinality(S)
  BY DEF Administration!Cardinality, Cardinality

\* Beside one of several owners there is another.
LEMMA AnotherOwner ==
  ASSUME NEW u, Administration!Cardinality(Administration!Owners) > 1
  PROVE  Administration!Owners \ {u} # {}
<1> SUFFICES ASSUME Administration!Owners \subseteq {u} PROVE FALSE
  OBVIOUS
<1>1. IsFiniteSet({u}) /\ Cardinality({u}) = 1
  BY FS_Singleton
<1>2. Cardinality(Administration!Owners) <= 1
  BY <1>1, FS_Subset
<1>3. Cardinality(Administration!Owners) \in Nat
  BY <1>1, FS_Subset, FS_CardinalityType
<1>. QED BY <1>2, <1>3, AdminCardinality

\* The row a change writes, and the tables it leaves alone.
LEMMA ChangeWrites ==
  ASSUME tables \in Tables, NEW c \in Administration!Change,
         tables' = [tables EXCEPT ![c.kind][c.target] = c.value]
  PROVE  /\ tables' \in Tables
         /\ \A k \in Kinds : k # c.kind => tables'[k] = tables[k]
         /\ c.kind \in Kinds
         /\ tables'[c.kind] = [tables[c.kind] EXCEPT ![c.target] = c.value]
         /\ c.kind = "staff" => c \in Administration!StaffChange
         /\ c.kind = "user" => c \in Administration!UserChange
         /\ c.kind = "model" => c \in Administration!ModelChange
         /\ c.kind = "route" => c \in Administration!RouteChange
<1> DEFINE kind == c.kind
           rows == [tables[kind] EXCEPT ![c.target] = c.value]
<1>1. \/ c \in Administration!StaffChange /\ kind = "staff"
      \/ c \in Administration!UserChange /\ kind = "user"
      \/ c \in Administration!TaskChange /\ kind = "task"
      \/ c \in Administration!ModelChange /\ kind = "model"
      \/ c \in Administration!RouteChange /\ kind = "route"
      \/ c \in Administration!SettingsChange /\ kind = "settings"
      \/ c \in Administration!PackChange /\ kind = "pack"
  BY DEF Administration!Change, Administration!StaffChange, Administration!UserChange,
         Administration!TaskChange, Administration!ModelChange, Administration!RouteChange,
         Administration!SettingsChange, Administration!PackChange
<1>2. /\ kind = "staff" => rows \in Members
      /\ kind = "user" => rows \in Allowances
      /\ kind = "model" => rows \in Switches
  BY <1>1, AdminAssumption DEF Tables, Members, Allowances, Switches, Administration!Staff,
         Administration!StaffChange, Administration!UserChange, Administration!ModelChange
<1>3. /\ kind = "task" => rows \in Tasks
      /\ kind = "route" => rows \in Routes
  BY <1>1 DEF Tables, Tasks, Routes, Administration!TaskChange, Administration!RouteChange
<1>4. /\ kind = "settings" => rows \in Settings
      /\ kind = "pack" => rows \in Offers
  BY <1>1 DEF Tables, Settings, Offers, Administration!SettingsChange, Administration!PackChange
<1>5. tables' = [tables EXCEPT ![kind] = rows]
  OBVIOUS
<1>7. kind \in Kinds
  BY <1>1 DEF Kinds, Administration!Catalogue
<1> HIDE DEF kind, rows
<1>8. tables' \in Tables /\ tables'[kind] = rows
      /\ \A k \in Kinds : k # kind => tables'[k] = tables[k]
  BY <1>1, <1>2, <1>3, <1>4, <1>5, <1>7 DEF Tables, Kinds, Administration!Catalogue
<1>. QED BY <1>1, <1>7, <1>8 DEF kind, rows

\* A member is made active while they can sign in, and an owner leaves only
\* when there is another.
LEMMA StaysStaffed ==
  ASSUME AdminInv, NEW a, NEW c \in Administration!Change, Administration!Admissible(a, c),
         tables' = [tables EXCEPT ![c.kind][c.target] = c.value]
  PROVE  Staffed'
<1>1. tables \in Tables /\ tables' \in Tables /\ Staffed
  BY ChangeWrites DEF AdminInv
<1>2. CASE c.kind \notin {"staff", "user"}
  <2>1. tables'.staff = tables.staff /\ tables'.user = tables.user
    BY <1>2, ChangeWrites DEF Kinds
  <2>. QED BY <1>1, <2>1 DEF Staffed, Administration!Owners, Administration!RoleOf,
              Administration!MaySignIn
<1>3. CASE c.kind = "staff"
  <2> DEFINE u == c.target
  <2>1. /\ u \in Users /\ tables'.staff = [tables.staff EXCEPT ![u] = c.value]
        /\ tables'.user = tables.user
        /\ Administration!StaffMayBe(u, c.value) /\ tables.staff \in Members
    BY <1>1, <1>3, ChangeWrites DEF Kinds, Administration!StaffChange, Administration!Admissible,
       Tables
  <2> HIDE DEF u
  <2>2. \A v \in Users \ {u} : tables'.staff[v] = tables.staff[v]
    BY <2>1 DEF Members
  <2>3. tables'.staff[u] = c.value
    BY <2>1 DEF Members
  <2>4. \A v \in Users : Administration!MaySignIn(v)' = Administration!MaySignIn(v)
    BY <2>1 DEF Administration!MaySignIn
  <2>5. ASSUME NEW v \in Users, Administration!RoleOf(v)' # "none" PROVE Administration!MaySignIn(v)
    <3>1. CASE v = u
      BY <2>1, <2>3, <2>5, <3>1 DEF Administration!StaffMayBe, Administration!RoleOf,
         Administration!None
    <3>2. CASE v # u
      BY <1>1, <2>2, <2>5, <3>2 DEF Staffed, Administration!RoleOf
    <3>. QED BY <3>1, <3>2
  <2>6. \A v \in Administration!Owners \ {u} : v \in Administration!Owners'
    BY <2>2 DEF Administration!Owners, Administration!RoleOf
  <2>7. Administration!Owners' # {}
    <3>1. CASE u \in Administration!Owners /\ (c.value.role # "owner" \/ ~c.value.active)
      <4>1. Administration!Cardinality(Administration!Owners) > 1
        BY <2>1, <3>1 DEF Administration!StaffMayBe, Administration!MayStepDown,
           Administration!Owners
      <4>. QED BY <2>6, <4>1, AnotherOwner
    <3>2. CASE u \in Administration!Owners /\ c.value.role = "owner" /\ c.value.active
      BY <2>1, <2>3, <3>2 DEF Administration!Owners, Administration!RoleOf
    <3>3. CASE u \notin Administration!Owners
      BY <1>1, <2>6, <3>3 DEF Staffed
    <3>. QED BY <3>1, <3>2, <3>3
  <2>. QED BY <2>4, <2>5, <2>7 DEF Staffed
<1>4. CASE c.kind = "user"
  <2> DEFINE u == c.target
  <2>1. /\ u \in Users /\ tables'.user = [tables.user EXCEPT ![u] = c.value]
        /\ tables'.staff = tables.staff
        /\ c.value = "suspended" => Administration!RoleOf(u) = "none"
        /\ c.value \in {"suspended", "allowed"} /\ tables.user \in Allowances
    BY <1>1, <1>4, ChangeWrites DEF Kinds, Administration!UserChange, Administration!Admissible,
       Administration!UserMayBe, Administration!None, Tables
  <2> HIDE DEF u
  <2>2. ASSUME NEW v \in Users, Administration!RoleOf(v) # "none" PROVE Administration!MaySignIn(v)'
    <3>1. tables'.user[v] = IF v = u THEN c.value ELSE tables.user[v]
      BY <2>1 DEF Allowances
    <3>2. Administration!MaySignIn(v)
      BY <1>1, <2>2 DEF Staffed
    <3>. QED BY <2>1, <2>2, <3>1, <3>2 DEF Administration!MaySignIn
  <2>3. \A v : Administration!RoleOf(v)' = Administration!RoleOf(v)
    BY <2>1 DEF Administration!RoleOf
  <2>4. Administration!Owners' = Administration!Owners
    BY <2>3 DEF Administration!Owners
  <2>. QED BY <1>1, <2>2, <2>3, <2>4 DEF Staffed
<1>. QED BY <1>2, <1>3, <1>4

\* An enabled route needs its models, and a model of an enabled route stays.
LEMMA RoutesStillServe ==
  ASSUME AdminInv, NEW a, NEW c \in Administration!Change, Administration!Admissible(a, c),
         tables' = [tables EXCEPT ![c.kind][c.target] = c.value]
  PROVE  Administration!RoutesServe'
<1>1. /\ tables.route \in Routes /\ tables'.route \in Routes
      /\ tables.model \in Switches /\ tables'.model \in Switches
      /\ tables \in Tables /\ Administration!RoutesServe
  BY ChangeWrites DEF AdminInv, Tables
<1>2. CASE c.kind \notin {"model", "route"}
  <2>1. tables'.model = tables.model /\ tables'.route = tables.route
    BY <1>2, ChangeWrites DEF Kinds, Administration!Catalogue
  <2>. QED BY <1>1, <2>1 DEF Administration!RoutesServe, Administration!Serves
<1>3. CASE c.kind = "model"
  <2>1. /\ tables'.model = [tables.model EXCEPT ![c.target] = c.value]
        /\ tables'.route = tables.route
        /\ c.target \in Models /\ c.value \in BOOLEAN
        /\ (c.value \/ ~Administration!Routed(c.target))
    <3>1. c \in Administration!ModelChange /\ Administration!ModelMayBe(c.target, c.value)
      BY <1>1, <1>3, ChangeWrites DEF Administration!Admissible
    <3>2. c.target \in Models /\ c.value \in BOOLEAN
      BY <3>1 DEF Administration!ModelChange
    <3>3. tables'.model = [tables.model EXCEPT ![c.target] = c.value]
          /\ tables'.route = tables.route
      BY <1>1, <1>3, ChangeWrites DEF Kinds, Administration!Catalogue
    <3>. QED BY <3>1, <3>2, <3>3 DEF Administration!ModelMayBe
  <2>2. ASSUME NEW t \in DOMAIN tables.route, tables.route[t].enabled
        PROVE  Administration!Serves(t)'
    <3> DEFINE route == tables.route[t]
    <3>1. /\ tables.model[route.model] /\ tables.model[route.planner]
          /\ route.model \in Models /\ route.planner \in Models
      BY <1>1, <2>2 DEF Administration!RoutesServe, Administration!Serves, Routes,
         Administration!Route
    <3>2. ~c.value => c.target \notin {route.model, route.planner}
      BY <2>1, <2>2 DEF Administration!Routed
    <3>3. \A m \in Models : tables'.model[m] = IF m = c.target THEN c.value ELSE tables.model[m]
      BY <1>1, <2>1 DEF Switches
    <3>. QED BY <2>1, <2>2, <3>1, <3>2, <3>3 DEF Administration!Serves
  <2>. QED BY <2>1, <2>2 DEF Administration!RoutesServe
<1>4. CASE c.kind = "route"
  <2>1. /\ tables'.route = [tables.route EXCEPT ![c.target] = c.value]
        /\ tables'.model = tables.model
        /\ c.target = "chat" /\ Administration!RouteMayBe(c.value)
        /\ c.value \in Administration!Route
    <3>1. c \in Administration!RouteChange /\ Administration!RouteMayBe(c.value)
      BY <1>1, <1>4, ChangeWrites DEF Administration!Admissible
    <3>2. c.target = "chat" /\ c.value \in Administration!Route
      BY <3>1 DEF Administration!RouteChange
    <3>. QED BY <1>1, <1>4, <3>1, <3>2, ChangeWrites DEF Kinds, Administration!Catalogue
  <2>2. DOMAIN tables'.route = {"chat"} /\ tables'.route["chat"] = c.value
    BY <1>1, <2>1 DEF Routes
  <2>. QED BY <2>1, <2>2 DEF Administration!RoutesServe, Administration!Serves,
              Administration!RouteMayBe
<1>. QED BY <1>2, <1>3, <1>4

-----------------------------------------------------------------------------
(* The requests of administrators.                                         *)

\* A step of a request that changes no row.
LEMMA RequestKeeps ==
  ASSUME AdminInv, NEW r \in Administration!Requests, UNCHANGED <<tables, productRevision, audit>>,
         request' \in [Administration!Requests -> Edits],
         \A q \in Administration!Requests \ {r} : request'[q] = request[q],
         request'[r].reply # "changed" \/ request'[r].reply = request[r].reply,
         Current(r)'
  PROVE  AdminInv'
<1>1. \A q \in Administration!Requests : Current(q)'
  BY DEF AdminInv, Current
<1>2. Staffed' /\ Administration!RoutesServe' /\ Administration!EditsAreInformed'
  BY DEF AdminInv, Staffed, Administration!Owners, Administration!RoleOf, Administration!MaySignIn,
         Administration!RoutesServe, Administration!Serves, Administration!EditsAreInformed
<1>3. Administration!ConflictIsUnapplied'
  BY DEF AdminInv, Administration!ConflictIsUnapplied, Administration!Applied
<1>. QED BY <1>1, <1>2, <1>3 DEF AdminInv

\* An editor reads the revision and then the rows.
LEMMA CatalogueReadKeeps ==
  ASSUME AdminInv, NEW r \in Administration!Requests,
         Administration!ReadRows(r) \/ \E a \in Users : Administration!ReadRevision(r, a)
  PROVE  AdminInv'
<1>1. request[r] \in Edits /\ Current(r)
  BY DEF AdminInv
<1>2. CASE Administration!ReadRows(r)
  <2> DEFINE step == "editing"
  <2>1. /\ request' = [request EXCEPT ![r].step = step, ![r].basis = tables] /\ tables \in Basis
        /\ step \in Stages /\ step = "editing"
        /\ UNCHANGED <<tables, productRevision, audit>>
    BY <1>2 DEF Administration!ReadRows, AdminInv, Basis, Stages
  <2> HIDE DEF step
  <2>2. /\ request' \in [Administration!Requests -> Edits]
        /\ \A q \in Administration!Requests \ {r} : request'[q] = request[q]
        /\ request'[r].step = step /\ request'[r].basis = tables
        /\ request'[r].revision = request[r].revision /\ request'[r].reply = request[r].reply
    BY <2>1 DEF AdminInv, Edits
  <2>3. Current(r)'
    BY <1>1, <2>1, <2>2 DEF Current, AdminInv
  <2>. QED BY <2>1, <2>2, <2>3, RequestKeeps
<1>3. ASSUME NEW a \in Users, Administration!ReadRevision(r, a) PROVE AdminInv'
  <2> DEFINE step == "reading"
  <2>1. /\ request' = [request EXCEPT ![r].step = step, ![r].actor = a,
                                   ![r].revision = productRevision]
        /\ step \in Stages /\ step = "reading"
        /\ UNCHANGED <<tables, productRevision, audit>> /\ productRevision \in Nat
    BY <1>3 DEF Administration!ReadRevision, AdminInv, Stages
  <2> HIDE DEF step
  <2>2. /\ request' \in [Administration!Requests -> Edits]
        /\ \A q \in Administration!Requests \ {r} : request'[q] = request[q]
        /\ request'[r].step = step /\ request'[r].revision = productRevision
        /\ request'[r].reply = request[r].reply
    BY <2>1 DEF AdminInv, Edits
  <2>3. Current(r)'
    BY <2>1, <2>2 DEF Current
  <2>. QED BY <2>1, <2>2, <2>3, RequestKeeps
<1>. QED BY <1>2, <1>3

\* The change is sent with the row that was read.
LEMMA SendKeeps ==
  ASSUME AdminInv, NEW r \in Administration!Requests, NEW a \in Users,
         NEW c \in Administration!Change,
         Administration!Send(r, a, c)
  PROVE  AdminInv'
<1> DEFINE step == "sent"
           read == request[r].basis
           basis == IF read = Administration!Unread THEN read ELSE [row |-> read[c.kind][c.target]]
<1>1. request[r] \in Edits /\ Current(r) /\ tables \in Tables
  BY DEF AdminInv
<1>2. IF c.kind \in Administration!Catalogue THEN request[r].step = "editing"
      ELSE request[r].step = "unused"
  BY DEF Administration!Send, Administration!Fresh
<1>3. read \in Tables => read # Administration!Unread
  BY DEF Tables, Administration!Unread
<1>4. \/ /\ c.kind \in Administration!Catalogue /\ basis = [row |-> read[c.kind][c.target]]
         /\ read \in Tables
         /\ request[r].revision = productRevision => read[c.kind] = tables[c.kind]
      \/ c.kind \notin Administration!Catalogue /\ basis = Administration!Unread
  BY <1>1, <1>2, <1>3 DEF Current
<1>5. basis \in Basis
  <2>1. CASE basis = Administration!Unread
    BY <2>1 DEF Basis
  <2>2. CASE basis = [row |-> read[c.kind][c.target]] /\ read \in Tables
    <3>1. read[c.kind][c.target] \in RowValues
      BY <2>2 DEF RowValues
    <3>2. basis \in [row : RowValues]
      BY <2>2, <3>1
    <3>. QED BY <3>2 DEF Basis
  <2>. QED BY <1>4, <2>1, <2>2
<1>6. /\ c.kind \in Administration!Catalogue /\ request[r].revision = productRevision =>
           basis.row = tables[c.kind][c.target]
      /\ c \in Changes /\ step \in Stages /\ step = "sent"
  BY <1>4 DEF Changes, Stages
<1>7. request' = [request EXCEPT ![r].step = step, ![r].actor = a, ![r].change = c,
                                  ![r].basis = basis]
  BY DEF Administration!Send
<1>8. UNCHANGED <<tables, productRevision, audit>>
  BY DEF Administration!Send
<1> HIDE DEF step, basis, read
<1> DEFINE next == [request[r] EXCEPT !.step = step, !.actor = a, !.change = c, !.basis = basis]
<1>11. /\ next \in Edits
       /\ next.step = step /\ next.change = c /\ next.basis = basis
       /\ next.revision = request[r].revision /\ next.reply = request[r].reply
  BY <1>1, <1>5, <1>6 DEF Edits
<1>12. request' = [request EXCEPT ![r] = next]
  BY <1>7
<1> HIDE DEF next
<1>9. /\ request' \in [Administration!Requests -> Edits]
      /\ \A q \in Administration!Requests \ {r} : request'[q] = request[q]
      /\ request'[r].step = step /\ request'[r].change = c /\ request'[r].basis = basis
      /\ request'[r].revision = request[r].revision /\ request'[r].reply = request[r].reply
  BY <1>11, <1>12 DEF AdminInv
<1>10. Current(r)'
  BY <1>1, <1>6, <1>8, <1>9 DEF Current
<1>. QED BY <1>8, <1>9, <1>10, RequestKeeps

\* The session of a change, and its repetition.
LEMMA BeginKeeps ==
  ASSUME AdminInv, NEW r \in Administration!Requests,
         Administration!Begin(r) \/ Administration!Repeat(r)
  PROVE  AdminInv'
<1>1. request[r] \in Edits /\ Current(r)
  BY DEF AdminInv
<1>2. UNCHANGED <<tables, productRevision, audit>>
  BY DEF Administration!Begin, Administration!Repeat
<1>3. PICK step \in {"sent", "open", "answered"}, reply \in Replies, repeated \in BOOLEAN :
        /\ reply # "changed" \/ reply = request[r].reply
        /\ request' = [request EXCEPT ![r].step = step, ![r].reply = reply,
                                   ![r].repeated = repeated]
  <2>1. CASE Administration!Repeat(r)
    <3>1. request' = [request EXCEPT ![r].step = "sent", ![r].reply = "none", ![r].repeated = TRUE]
      BY <2>1 DEF Administration!Repeat, Administration!None, AdminInv, Edits
    <3>. QED BY <3>1 DEF Replies
  <2>2. CASE Administration!Begin(r)
    <3>1. \/ request' = [request EXCEPT ![r].step = "open", ![r].reply = request[r].reply,
                                        ![r].repeated = request[r].repeated]
          \/ request' = [request EXCEPT ![r].step = "answered", ![r].reply = "forbidden",
                                        ![r].repeated = request[r].repeated]
      BY <1>1, <2>2 DEF Administration!Begin, Administration!Step, AdminInv, Edits
    <3>2. request[r].reply \in Replies /\ request[r].repeated \in BOOLEAN
      BY <1>1 DEF Edits
    <3>. QED BY <3>1, <3>2 DEF Replies
  <2>. QED BY <2>1, <2>2
<1>4. request[r].step \in {"sent", "answered"} /\ step \in Stages
  BY DEF Administration!Begin, Administration!Repeat, Stages
<1>5. /\ request' \in [Administration!Requests -> Edits]
      /\ \A q \in Administration!Requests \ {r} : request'[q] = request[q]
      /\ request'[r].step = step /\ request'[r].reply = reply
      /\ request'[r].change = request[r].change
      /\ request'[r].basis = request[r].basis /\ request'[r].revision = request[r].revision
  BY <1>3, <1>4 DEF AdminInv, Edits
<1>6. Current(r)'
  BY <1>1, <1>2, <1>4, <1>5 DEF Current
<1>. QED BY <1>2, <1>3, <1>5, <1>6, RequestKeeps

\* What mutate answers, and what it may have written.
LEMMA MutateKeeps ==
  ASSUME AdminInv, NEW r \in Administration!Requests, Administration!Mutate(r)
  PROVE  AdminInv'
<1> DEFINE step == "answered"
           c == request[r].change
           reply == Administration!Answer(r)
           entry == [request |-> r, change |-> c, basis |-> request[r].basis,
                     before |-> tables[c.kind][c.target]]
<1>1. /\ request[r] \in Edits /\ Current(r) /\ tables \in Tables /\ request[r].step = "open"
      /\ c \in Administration!Change
  BY DEF AdminInv, Administration!Mutate, Current
<1>2. /\ reply \in Replies /\ step \in Stages /\ step = "answered"
      /\ reply = "changed" => ~Administration!Applied(r)
      /\ reply = "ok" =>
           /\ Administration!Admissible(request[r].actor, c)
           /\ c.kind \in Administration!Catalogue => request[r].revision = productRevision
  BY DEF Administration!Answer, Replies, Stages
<1>3. request' = [request EXCEPT ![r].step = step, ![r].reply = reply]
  BY DEF Administration!Mutate
<1>4. reply # "ok" => UNCHANGED <<tables, productRevision, audit>>
  BY DEF Administration!Mutate
<1>5. reply = "ok" =>
        /\ tables' = [tables EXCEPT ![c.kind][c.target] = c.value]
        /\ productRevision' = IF c.kind \in Administration!Catalogue THEN productRevision + 1
                              ELSE productRevision
        /\ audit' = audit \cup {entry}
  BY DEF Administration!Mutate
<1> HIDE DEF step, reply
<1>6. /\ request' \in [Administration!Requests -> Edits]
      /\ \A q \in Administration!Requests \ {r} : request'[q] = request[q]
      /\ request'[r].step = step /\ request'[r].reply = reply /\ request'[r].change = c
      /\ request'[r].basis = request[r].basis /\ request'[r].revision = request[r].revision
  BY <1>2, <1>3 DEF AdminInv, Edits
<1>7. CASE reply # "ok"
  <2>1. \A q \in Administration!Requests : Current(q)'
    BY <1>1, <1>2, <1>4, <1>6, <1>7 DEF AdminInv, Current
  <2>2. Staffed' /\ Administration!RoutesServe' /\ Administration!EditsAreInformed'
    BY <1>4, <1>7 DEF AdminInv, Staffed, Administration!Owners, Administration!RoleOf,
       Administration!MaySignIn, Administration!RoutesServe, Administration!Serves,
       Administration!EditsAreInformed
  <2>3. Administration!ConflictIsUnapplied'
    BY <1>2, <1>4, <1>6, <1>7 DEF AdminInv, Administration!ConflictIsUnapplied,
       Administration!Applied
  <2>. QED BY <1>4, <1>6, <1>7, <2>1, <2>2, <2>3 DEF AdminInv
<1>8. CASE reply = "ok"
  <2> HIDE DEF c, entry
  <2>1. Staffed' /\ Administration!RoutesServe' /\ tables' \in Tables
    BY <1>1, <1>2, <1>5, <1>8, StaysStaffed, RoutesStillServe, ChangeWrites
  <2>2. /\ productRevision' \in Nat \ {0} /\ productRevision <= productRevision'
        /\ c.kind \in Administration!Catalogue => productRevision < productRevision'
    BY <1>5, <1>8 DEF AdminInv
  <2>3. \A k \in Administration!Catalogue :
          tables'[k] = tables[k] \/ productRevision < productRevision'
    BY <1>1, <1>5, <1>8, <2>2, ChangeWrites DEF Kinds
  <2>4. ASSUME NEW q \in Administration!Requests PROVE Current(q)'
    <3>1. /\ Current(q) /\ request'[q].basis = request[q].basis
          /\ request'[q].change = request[q].change
          /\ request'[q].revision = request[q].revision
          /\ request'[q].step = request[q].step
             \/ (request[q].step \in {"sent", "open", "answered"} /\ request'[q].step = "answered")
          /\ request[q].revision \in Nat /\ productRevision \in Nat
      BY <1>1, <1>2, <1>6 DEF AdminInv, Edits, c
    <3>2. CASE productRevision < productRevision'
      <4>1. request'[q].revision < productRevision'
        BY <2>2, <3>1, <3>2 DEF Current
      <4>. QED BY <2>2, <3>1, <4>1 DEF Current
    <3>3. CASE productRevision' = productRevision
               /\ \A k \in Administration!Catalogue : tables'[k] = tables[k]
      BY <3>1, <3>3 DEF Current
    <3>. QED BY <2>2, <2>3, <3>1, <3>2, <3>3
  <2>5. c.kind \in Administration!Catalogue => request[r].basis.row = tables[c.kind][c.target]
    BY <1>1, <1>2, <1>8 DEF Current, c
  <2>6. /\ entry.request = r /\ entry.change = c /\ entry.basis = request[r].basis
        /\ entry.before = tables[c.kind][c.target]
    BY DEF entry
  <2>7. Administration!EditsAreInformed'
    BY <1>5, <1>8, <2>5, <2>6 DEF AdminInv, Administration!EditsAreInformed
  <2>8. Administration!ConflictIsUnapplied'
    <3>1. \A q \in Administration!Requests \ {r} :
            Administration!Applied(q)' <=> Administration!Applied(q)
      BY <1>5, <1>8, <2>6 DEF Administration!Applied
    <3>. QED BY <1>6, <1>8, <3>1 DEF AdminInv, Administration!ConflictIsUnapplied
  <2>. QED BY <1>6, <2>1, <2>2, <2>4, <2>7, <2>8 DEF AdminInv
<1>. QED BY <1>7, <1>8

\* Every step of administration keeps all of it.
LEMMA AdminNext ==
  ASSUME AdminInv, [Administration!Next]_(Administration!vars)
  PROVE  AdminInv'
<1>1. CASE UNCHANGED Administration!vars
  BY <1>1 DEF Administration!vars, AdminInv, Current, Staffed, Administration!Owners,
     Administration!RoleOf,
     Administration!MaySignIn, Administration!RoutesServe, Administration!Serves,
     Administration!EditsAreInformed, Administration!ConflictIsUnapplied, Administration!Applied
<1>. QED BY <1>1, CatalogueReadKeeps, SendKeeps, BeginKeeps, MutateKeeps DEF Administration!Next

\* A fresh deployment has its founder, who is an owner and can sign in.
LEMMA AdminInit ==
  ASSUME Administration!Init
  PROVE  AdminInv
<1> DEFINE m == CHOOSE m \in Models : TRUE
<1>1. PICK second \in Grants :
        tables = [staff |-> [u \in Users |->
                               IF u = Founder THEN [role |-> "owner", active |-> TRUE]
                               ELSE IF u \in Verified THEN [role |-> second, active |-> TRUE]
                               ELSE Administration!Nobody],
                  user |-> [u \in Users |-> "allowed"],
                  task |-> [t \in {"chat"} |-> [enabled |-> TRUE]],
                  model |-> [x \in Models |-> TRUE],
                  route |-> [t \in {"chat"} |-> [model |-> m, planner |-> m, enabled |-> TRUE]],
                  settings |-> [k \in {"product"} |-> "closed"],
                  pack |-> [p \in {"starter"} |-> "offered"]]
  BY DEF Administration!Init
<1>2. m \in Models
  BY AdminAssumption
<1> HIDE DEF m
<1>3. /\ tables.staff \in Members /\ tables.user \in Allowances /\ tables.model \in Switches
  BY <1>1, AdminAssumption DEF Members, Allowances, Switches, Administration!Staff,
     Administration!Nobody
<1>4. /\ tables.task \in Tasks /\ tables.route \in Routes
  BY <1>1, <1>2 DEF Tasks, Routes, Administration!Task, Administration!Route
<1>5. /\ tables.settings \in Settings /\ tables.pack \in Offers
  BY <1>1 DEF Settings, Offers, Administration!Pack
<1>6. tables \in Tables
  <2>1. tables = [staff |-> tables.staff, user |-> tables.user, task |-> tables.task,
                  model |-> tables.model,
                  route |-> tables.route, settings |-> tables.settings, pack |-> tables.pack]
    BY <1>1
  <2>. QED BY <1>3, <1>4, <1>5, <2>1 DEF Tables
<1>7. Staffed
  <2>1. Founder \in Administration!Owners
    BY <1>1, AdminAssumption DEF Administration!Owners, Administration!RoleOf
  <2>2. ASSUME NEW u \in Users, Administration!RoleOf(u) # "none" PROVE Administration!MaySignIn(u)
    BY <1>1, <2>2, AdminAssumption DEF Administration!RoleOf, Administration!MaySignIn,
       Administration!None,
       Administration!Nobody
  <2>. QED BY <2>1, <2>2 DEF Staffed
<1>8. Administration!RoutesServe
  BY <1>1, <1>2 DEF Administration!RoutesServe, Administration!Serves
<1>9. /\ productRevision = 1 /\ audit = {}
      /\ request = [r \in Administration!Requests |->
                      [step |-> "unused", actor |-> Founder, change |-> Administration!NoChange,
                       revision |-> 0, basis |-> Administration!Unread, reply |-> "none",
                       repeated |-> FALSE]]
  BY DEF Administration!Init, Administration!None
<1>10. request \in [Administration!Requests -> Edits]
       /\ \A r \in Administration!Requests : Current(r)
  BY <1>9, AdminAssumption DEF Edits, Stages, Replies, Changes, Basis, Current
<1>11. Administration!EditsAreInformed /\ Administration!ConflictIsUnapplied
  BY <1>9 DEF Administration!EditsAreInformed, Administration!ConflictIsUnapplied
<1>12. productRevision \in Nat \ {0}
  BY <1>9
<1>. QED BY <1>6, <1>7, <1>8, <1>10, <1>11, <1>12 DEF AdminInv

\* All of it holds always.
LEMMA AdminInvariance == Spec => []AdminInv
<1>1. Init => AdminInv
  BY AdminInit DEF Init
<1>2. AdminInv /\ [Next]_vars => AdminInv'
  <2>1. [Next]_vars => [Administration!Next]_(Administration!vars)
    BY DEF Next, Only, vars, adminVars, Administration!vars
  <2>. QED BY <2>1, AdminNext
<1>. QED BY <1>1, <1>2, PTL DEF Spec

\* The tables and the requests are of their types.
LEMMA AdminTyped == Spec => []Administration!TypeOK
<1>1. AdminInv => Administration!TypeOK
  <2> SUFFICES ASSUME AdminInv PROVE Administration!TypeOK
    OBVIOUS
  <2>1. tables \in Tables /\ productRevision \in Nat \ {0}
    BY DEF AdminInv
  <2>2. ASSUME NEW r \in Administration!Requests
        PROVE  /\ request[r].step \in Stages /\ request[r].actor \in Users
               /\ request[r].change \in Changes /\ request[r].reply \in Replies
    BY DEF AdminInv, Edits
  <2>. QED BY <2>1, <2>2 DEF Administration!TypeOK, Administration!None, Tables, Members,
              Allowances, Switches, Routes, Tasks, Offers, Stages, Changes, Replies
<1>. QED BY <1>1, AdminInvariance, PTL

\* Whatever owners, admins and editors do to each other at once, one owner
\* can still sign in, and no enabled route has lost a model.
THEOREM AdministrationAlwaysServes == Spec => []AdministrationServes
<1>1. AdminInv => AdministrationServes
  <2> SUFFICES ASSUME AdminInv PROVE Administration!SomeOwnerCanAct
    BY DEF AdminInv, AdministrationServes, Administration!AdministrationServes
  <2>1. PICK u : u \in Administration!Owners
    BY DEF AdminInv, Staffed
  <2>2. u \in Users /\ Administration!RoleOf(u) # "none"
    BY <2>1 DEF Administration!Owners
  <2>. QED BY <2>1, <2>2 DEF AdminInv, Staffed, Administration!SomeOwnerCanAct
<1>. QED BY <1>1, AdminInvariance, PTL

\* No edit of the catalogue overwrites a row that changed since it was read,
\* and none that was applied is answered as a conflict.
THEOREM ChangesAlwaysInformed == Spec => []ChangesAreInformed
<1>1. AdminInv => ChangesAreInformed
  BY DEF AdminInv, ChangesAreInformed, Administration!ChangesAreInformed
<1>. QED BY <1>1, AdminInvariance, PTL
=============================================================================
