------------------------------- MODULE Admin --------------------------------
(***************************************************************************)
(* Administration: members of staff, users, and the catalogue of models,   *)
(* routes, tasks, packs and settings (src/backend/admin.py), and what the  *)
(* rest of the program reads of them (src/backend/runtime_settings.py).    *)
(*                                                                         *)
(* Every change goes through mutate, which locks the product row, reads    *)
(* the actor's membership again, looks the request's key up, compares the  *)
(* revision the editor has seen, and writes one row and its audit entry.   *)
(* That transaction is one action.  What comes before it is not: the       *)
(* editor's reads, the opening of the session, and the repetition of a     *)
(* request whose response was lost.  What a credit adjustment does to the  *)
(* wallet, and a reconciliation to a purchase, is in Wallet and Recharge.  *)
(***************************************************************************)
EXTENDS Integers, FiniteSets

CONSTANTS Users, Models,
          Grants,       \* bound: the roles given, of owner, admin and support
          MaxRequests,  \* bound: changes, each with its Idempotency-Key
          Verified,     \* the users with a confirmed address
          Founder,      \* the first owner
          Configured,   \* what is set of the payment provider's keys and the policies
          Testing       \* the key is one for tests, where those are allowed

VARIABLES
  tables,    \* by kind of change: the rows it may write
  revision,  \* of the product row
  audit,     \* admin_audit
  request    \* [step, actor, change, revision, basis, reply, repeated]

vars == <<tables, revision, audit, request>>

Requests == 1 .. MaxRequests    \* in the order they are begun

Staff == [role : Grants, active : BOOLEAN]
Nobody == [role |-> "support", active |-> FALSE]
None == "none"
Task == [enabled : BOOLEAN]
Route == [model : Models, planner : Models, enabled : BOOLEAN]
Pack == {"offered", "withdrawn"}

\* What a change of each kind may be; names, prices and limits are left out.
\* Tasks and packs may be changed to anything.
StaffChange == [kind : {"staff"}, target : Users, value : Staff]
UserChange == [kind : {"user"}, target : Users, value : {"suspended", "allowed"}]
TaskChange == [kind : {"task"}, target : {"chat"}, value : Task]
ModelChange == [kind : {"model"}, target : Models, value : BOOLEAN]
RouteChange == [kind : {"route"}, target : {"chat"}, value : Route]
SettingsChange == [kind : {"settings"}, target : {"product"}, value : {"checkout", "closed"}]
PackChange == [kind : {"pack"}, target : {"starter"}, value : Pack]

Change == UNION {StaffChange, UserChange, TaskChange, ModelChange, RouteChange, SettingsChange, PackChange}
Catalogue == {"task", "model", "route", "settings", "pack"}
NoChange == [kind |-> "none"]
Unread == [kind |-> "unread"]

Init ==
  /\ \E second \in Grants : LET m == CHOOSE m \in Models : TRUE IN
       tables = [staff |-> [u \in Users |-> IF u = Founder THEN [role |-> "owner", active |-> TRUE]
                                            ELSE IF u \in Verified THEN [role |-> second, active |-> TRUE]
                                            ELSE Nobody],
                 user |-> [u \in Users |-> "allowed"],
                 task |-> [t \in {"chat"} |-> [enabled |-> TRUE]],
                 model |-> [x \in Models |-> TRUE],
                 route |-> [t \in {"chat"} |-> [model |-> m, planner |-> m, enabled |-> TRUE]],
                 settings |-> [k \in {"product"} |-> "closed"],
                 pack |-> [p \in {"starter"} |-> "offered"]]
  /\ revision = 1
  /\ audit = {}
  /\ request = [r \in Requests |-> [step |-> "unused", actor |-> Founder, change |-> NoChange,
                                    revision |-> 0, basis |-> Unread, reply |-> None,
                                    repeated |-> FALSE]]

-----------------------------------------------------------------------------
\* staff_role
RoleOf(u) == IF tables.staff[u].active THEN tables.staff[u].role ELSE None
Owners == {u \in Users : RoleOf(u) = "owner"}

\* require_user: the token is good, the address is confirmed, and the account
\* is not suspended; maintenance does not keep members of staff out.
MaySignIn(u) == u \in Verified /\ tables.user[u] = "allowed"

\* save_model: the models of enabled routes.
Routed(m) == \E t \in DOMAIN tables.route :
               /\ tables.route[t].enabled
               /\ m \in {tables.route[t].model, tables.route[t].planner}

\* Seeded fault: the last owner may step down.
AnyoneMayStepDown(u, value) == TRUE

\* save_staff: keep at least one active owner.
MayStepDown(u, value) ==
  RoleOf(u) = "owner" /\ (value.role # "owner" \/ ~value.active) => Cardinality(Owners) > 1

\* save_staff
StaffMayBe(u, value) ==
  /\ value.active => MaySignIn(u)
  /\ MayStepDown(u, value)

\* update_user, of actor a
UserMayBe(u, value, a) == value = "suspended" => u # a /\ RoleOf(u) = None

\* save_model
ModelMayBe(m, enabled) == ~enabled => ~Routed(m)

\* save_route
RouteMayBe(route) == route.enabled => tables.model[route.model] /\ tables.model[route.planner]

\* checkout_blockers: a test checkout needs neither a webhook nor policies.
Blockers(value) ==
  LET needed == {"key", "secret"} \cup IF Testing THEN {} ELSE {"webhook", "policies"}
  IN (needed \ Configured) \cup IF value = "checkout" THEN {} ELSE {"switch"}

\* save_settings
SettingsMayBe(value) == value = "checkout" => Blockers(value) = {}

\* routing gives a review the models of its task's route, or refuses it.
Serves(t) ==
  LET route == tables.route[t] IN route.enabled /\ tables.model[route.model] /\ tables.model[route.planner]

\* The refusals of each kind's apply.
Admissible(a, c) ==
  CASE c.kind = "staff" -> StaffMayBe(c.target, c.value)
    [] c.kind = "user" -> UserMayBe(c.target, c.value, a)
    [] c.kind = "model" -> ModelMayBe(c.target, c.value)
    [] c.kind = "route" -> RouteMayBe(c.value)
    [] c.kind = "settings" -> SettingsMayBe(c.value)
    [] OTHER -> TRUE

\* Who may do it: staff is changed by owners only.
Allowed(a, kind) == RoleOf(a) \in IF kind = "staff" THEN {"owner"} ELSE {"owner", "admin"}

-----------------------------------------------------------------------------
(* An administrator and the editor page.                                   *)

Step(r, step) == [request EXCEPT ![r].step = step]

Fresh(r) == request[r].step = "unused" /\ \A q \in 1 .. r - 1 : request[q].step # "unused"

\* catalog reads the revision before the rows, which another administrator
\* may change in between.
ReadRevision(r, a) ==
  /\ Fresh(r)
  /\ RoleOf(a) # None
  /\ request' = [request EXCEPT ![r].step = "reading", ![r].actor = a, ![r].revision = revision]
  /\ UNCHANGED <<tables, revision, audit>>

ReadRows(r) ==
  /\ request[r].step = "reading"
  /\ request' = [request EXCEPT ![r].step = "editing", ![r].basis = tables]
  /\ UNCHANGED <<tables, revision, audit>>

\* The change is sent; members and users are changed without a revision.  A
\* change that would change nothing is left out.
Send(r, a, c) ==
  /\ c.value # tables[c.kind][c.target]
  /\ IF c.kind \in Catalogue THEN request[r].step = "editing" /\ request[r].actor = a
                             ELSE Fresh(r)
  /\ request' = [request EXCEPT ![r].step = "sent", ![r].actor = a, ![r].change = c,
                               ![r].basis = IF @ = Unread THEN @ ELSE [row |-> @[c.kind][c.target]]]
  /\ UNCHANGED <<tables, revision, audit>>

\* A response is lost, and the page sends the same change with the same key.
Repeat(r) ==
  /\ request[r].step = "answered" /\ ~request[r].repeated
  /\ request' = [request EXCEPT ![r].step = "sent", ![r].repeated = TRUE, ![r].reply = None]
  /\ UNCHANGED <<tables, revision, audit>>

\* require_user and admin_database open the session of an active member.
Begin(r) ==
  LET a == request[r].actor IN
  /\ request[r].step = "sent"
  /\ request' = IF MaySignIn(a) /\ RoleOf(a) # None THEN Step(r, "open")
                ELSE [request EXCEPT ![r].step = "answered", ![r].reply = "forbidden"]
  /\ UNCHANGED <<tables, revision, audit>>

-----------------------------------------------------------------------------
(* mutate                                                                  *)

Applied(r) == \E e \in audit : e.request = r

\* Seeded fault: the revision is compared before the key is looked up.
AnswerRevisionFirst(r) ==
  LET q == request[r] IN
  CASE ~Allowed(q.actor, q.change.kind) -> "forbidden"
    [] q.change.kind \in Catalogue /\ q.revision # revision -> "changed"
    [] Applied(r) -> "duplicate"
    [] ~Admissible(q.actor, q.change) -> "invalid"
    [] OTHER -> "ok"

\* The order of mutate's checks.
Answer(r) ==
  LET q == request[r] IN
  IF ~Allowed(q.actor, q.change.kind) THEN "forbidden"
  ELSE IF Applied(r) THEN "duplicate"
  ELSE IF q.change.kind \in Catalogue /\ q.revision # revision THEN "changed"
  ELSE IF ~Admissible(q.actor, q.change) THEN "invalid"
  ELSE "ok"

Mutate(r) ==
  LET c == request[r].change IN
  /\ request[r].step = "open"
  /\ request' = [request EXCEPT ![r].step = "answered", ![r].reply = Answer(r)]
  /\ IF Answer(r) = "ok"
     THEN /\ tables' = [tables EXCEPT ![c.kind][c.target] = c.value]
          /\ revision' = IF c.kind \in Catalogue THEN revision + 1 ELSE revision
          /\ audit' = audit \cup {[request |-> r, change |-> c, basis |-> request[r].basis,
                                   before |-> tables[c.kind][c.target]]}
     ELSE UNCHANGED <<tables, revision, audit>>

Next == \E r \in Requests :
          \/ \E a \in Users : ReadRevision(r, a) \/ \E c \in Change : Send(r, a, c)
          \/ ReadRows(r) \/ Repeat(r) \/ Begin(r) \/ Mutate(r)

Spec == Init /\ [][Next]_vars
-----------------------------------------------------------------------------
(* What holds.                                                             *)

TypeOK ==
  /\ tables.staff \in [Users -> Staff \cup {Nobody}] /\ tables.user \in [Users -> {"suspended", "allowed"}]
  /\ tables.model \in [Models -> BOOLEAN] /\ tables.route \in [{"chat"} -> Route]
  /\ tables.task \in [{"chat"} -> Task] /\ tables.pack \in [{"starter"} -> Pack]
  /\ revision \in Nat \ {0}
  /\ \A r \in Requests :
       /\ request[r].step \in {"unused", "reading", "editing", "sent", "open", "answered"}
       /\ request[r].actor \in Users
       /\ request[r].change \in Change \cup {NoChange}
       /\ request[r].reply \in {None, "ok", "duplicate", "forbidden", "changed", "invalid"}

\* Whatever owners do to each other at once, one of them can still sign in:
\* active, verified and not suspended.
SomeOwnerCanAct == \E u \in Owners : MaySignIn(u)

\* routing never refuses an enabled route: its models stay enabled, though
\* models and routes are edited by different people.
RoutesServe == \A t \in DOMAIN tables.route : tables.route[t].enabled => Serves(t)

\* Nobody overwrites a row of the catalogue that changed since they read it.
EditsAreInformed ==
  \A e \in audit : e.change.kind \in Catalogue => e.basis.row = e.before

\* An editor told that the catalogue has changed has not changed it: the
\* repetition of a change that was made is recognised.
ConflictIsUnapplied == \A r \in Requests : request[r].reply = "changed" => ~Applied(r)

AdministrationServes == SomeOwnerCanAct /\ RoutesServe
ChangesAreInformed == EditsAreInformed /\ ConflictIsUnapplied
=============================================================================
