----------------------------- MODULE Workspace ------------------------------
(***************************************************************************)
(* A user's workspace: its first provisioning (src/backend/entitlements.py, *)
(* provision), its accounts and preferences (src/backend/journal_routes.py, *)
(* src/backend/preferences.py) and the page that opens with them.          *)
(*                                                                         *)
(* A request is one transaction under READ COMMITTED: every statement sees *)
(* the commits before it, its writes are seen when it commits, and the     *)
(* Profile row, read FOR UPDATE by some of the requests, is their lock.    *)
(* The page asks for the workspace first; several tabs may do so at once.  *)
(***************************************************************************)
EXTENDS Integers, FiniteSets

CONSTANTS Ids,        \* bound: the accounts there may be
          Requests,   \* bound: the requests made
          Nothing

VARIABLES
  profile,      \* the Profile row exists
  accounts,     \* the Account rows
  preferences,  \* the default account of the `preferences' row, or "unset"
  used,         \* the accounts the Trade rows name
  given,        \* the accounts provisioning has made
  owner,        \* the request that has locked the Profile row
  asked         \* [op, step, account, seen, page]

rows == <<profile, accounts, preferences, used, given>>
vars == <<rows, owner, asked>>

Unasked == [op |-> "none", step |-> "unused", account |-> Nothing,
            seen |-> [preferences |-> Nothing, accounts |-> {}],
            page |-> [default |-> Nothing, accounts |-> {}]]

\* A workspace older than provisioning may have an account; others are in
\* use.
Init ==
  /\ accounts \in {{}} \cup {{a} : a \in Ids}
  /\ \/ profile = FALSE /\ preferences = "unset"
     \/ profile = TRUE /\ preferences \in accounts
  /\ used \in SUBSET accounts
  /\ given = 0
  /\ owner = Nothing
  /\ asked = [r \in Requests |-> Unasked]

-----------------------------------------------------------------------------
\* Seeded fault: the Profile row is read without FOR UPDATE.
NobodyWaits(r) == TRUE

\* lock_user, and provision's own lock
MayLock(r) == owner = Nothing

Begins(r, op, a) == asked' = [asked EXCEPT ![r].op = op, ![r].step = "read", ![r].account = a,
                                           ![r].seen = [preferences |-> preferences, accounts |-> accounts]]
Ends(r) == asked' = [asked EXCEPT ![r].step = "done"]

\* The response is an error and the transaction is rolled back.
Fails(r) == asked' = [asked EXCEPT ![r].step = "failed"] /\ UNCHANGED rows

At(r, op, step) == asked[r].op = op /\ asked[r].step = step
New(r) == asked[r].step = "unused"

-----------------------------------------------------------------------------
(* GET /api/workspace                                                      *)

\* provision: the lock, and the reads.
Open(r) ==
  /\ New(r) /\ MayLock(r)
  /\ owner' = r
  /\ Begins(r, "workspace", Nothing)
  /\ UNCHANGED rows

First(r) == asked[r].seen.preferences = "unset"

\* The settings.
ReadSettings(r) ==
  /\ At(r, "workspace", "read")
  /\ asked' = [asked EXCEPT ![r].step = "listing",
                            ![r].page.default = IF First(r) THEN Nothing ELSE preferences]
  /\ UNCHANGED <<rows, owner>>

\* effective_preferences
EffectiveDefault(default, listed) == IF default \in listed THEN default ELSE Nothing

\* The accounts, the page, and the commit of what provision wrote; another
\* transaction that has written the same preferences makes it fail.
Serve(r) ==
  /\ At(r, "workspace", "listing")
  /\ owner' = IF owner = r THEN Nothing ELSE owner
  /\ \E a \in Ids \cup {Nothing} :
       /\ IF First(r) /\ asked[r].seen.accounts = {} THEN a \in Ids \ accounts ELSE a = Nothing
       /\ LET listed == (accounts \cup {a}) \ {Nothing} IN
          IF First(r) /\ preferences # "unset" /\ profile THEN Fails(r)
          ELSE /\ profile' = TRUE
               /\ accounts' = listed
               /\ preferences' = IF First(r) THEN Nothing ELSE preferences
               /\ given' = given + (IF a = Nothing THEN 0 ELSE 1)
               /\ asked' = [asked EXCEPT ![r].step = "done", ![r].page.accounts = listed,
                              ![r].page.default = EffectiveDefault(@, listed)]
               /\ UNCHANGED used

-----------------------------------------------------------------------------
(* The accounts; none of their requests takes the lock.                    *)

ReadAccount(r, op, a) ==
  /\ New(r) /\ profile
  /\ CASE op = "create" -> a \notin accounts
       [] op = "delete" -> a \in accounts \ used
       [] op = "trade" -> a \in accounts
  /\ Begins(r, op, a)
  /\ UNCHANGED <<rows, owner>>

\* create_account: the first one writes the preferences it has read back.
CreateAccount(r) ==
  /\ At(r, "create", "read")
  /\ asked[r].account \notin accounts
  /\ accounts' = accounts \cup {asked[r].account}
  /\ preferences' = IF asked[r].seen.accounts = {} THEN asked[r].seen.preferences ELSE preferences
  /\ Ends(r)
  /\ UNCHANGED <<profile, used, given, owner>>

\* ForeignKeyConstraint of Trade, when a row it points to goes ...
MayRemove(a) == a \notin used

\* delete_account
DeleteAccount(r) ==
  LET a == asked[r].account IN
  /\ At(r, "delete", "read")
  /\ IF a \in accounts /\ MayRemove(a)
     THEN accounts' = accounts \ {a} /\ Ends(r) /\ UNCHANGED <<profile, preferences, used, given>>
     ELSE Fails(r)
  /\ UNCHANGED owner

\* ... and when one that points there comes: create_trade waits for the lock.
CreateTrade(r) ==
  LET a == asked[r].account IN
  /\ At(r, "trade", "read") /\ MayLock(r)
  /\ IF a \in accounts THEN used' = used \cup {a} /\ Ends(r) /\ UNCHANGED <<profile, accounts, preferences, given>>
                       ELSE Fails(r)
  /\ UNCHANGED owner

\* The last trade of an account is deleted or moved.
DeleteTrade(a) ==
  /\ a \in used
  /\ used' = used \ {a}
  /\ UNCHANGED <<profile, accounts, preferences, given, owner, asked>>

-----------------------------------------------------------------------------
(* save_preferences                                                        *)

ReadPreferences(r, a) ==
  /\ New(r) /\ profile /\ MayLock(r)
  /\ a \in accounts \cup {Nothing}
  /\ owner' = r
  /\ Begins(r, "preferences", a)
  /\ UNCHANGED rows

SavePreferences(r) ==
  /\ At(r, "preferences", "read")
  /\ preferences' = asked[r].account
  /\ owner' = IF owner = r THEN Nothing ELSE owner
  /\ Ends(r)
  /\ UNCHANGED <<profile, accounts, used, given>>

Next ==
  \/ \E r \in Requests :
       \/ Open(r) \/ ReadSettings(r) \/ Serve(r)
       \/ \E op \in {"create", "delete", "trade"}, a \in Ids : ReadAccount(r, op, a)
       \/ CreateAccount(r) \/ DeleteAccount(r) \/ CreateTrade(r)
       \/ \E a \in Ids \cup {Nothing} : ReadPreferences(r, a)
       \/ SavePreferences(r)
  \/ \E a \in Ids : DeleteTrade(a)

Spec == Init /\ [][Next]_vars
-----------------------------------------------------------------------------
(* What holds.                                                             *)

TypeOK ==
  /\ profile \in BOOLEAN /\ accounts \subseteq Ids /\ used \subseteq Ids
  /\ preferences \in Ids \cup {Nothing, "unset"}
  /\ given \in Nat
  /\ owner \in Requests \cup {Nothing}
  /\ \A r \in Requests : asked[r].step \in {"unused", "read", "listing", "done", "failed"}

\* However many tabs open a new workspace at once, it is given one account;
\* the lock and the key of the preferences row each see to that.
ProvisionedOnce == given <= 1

\* No trade is left without its account by a deletion that did not see it.
TradesHaveAccounts == used \subseteq accounts

\* A page opens, and its default account is one of those it lists, whatever
\* was deleted while its preferences were saved or it was being read.
PageOpens == \A r \in Requests : asked[r].op = "workspace" =>
  /\ asked[r].step # "failed"
  /\ asked[r].step = "done" => asked[r].page.default \in asked[r].page.accounts \cup {Nothing}

WorkspaceOpens == ProvisionedOnce /\ TradesHaveAccounts /\ PageOpens
=============================================================================
