--------------------------- MODULE JournalProofs ----------------------------
(***************************************************************************)
(* The workspace opens with an account that is there; neither imports nor  *)
(* reviews lose or repeat what the journal has acknowledged, and an edit   *)
(* takes out a draft only where the user writes the notes or the form was  *)
(* opened before it; a trade keeps the rules it was linked with; and a     *)
(* practice session is honest: for any accounts, trades, playbooks, files, *)
(* prices and fees.                                                        *)
(*                                                                         *)
(* The invariants are DeskInv, that what a request has seen of the         *)
(* provisioning is still so (Informed); JournalInv, that what a request    *)
(* has loaded is still there in the part it will write back (Loaded),      *)
(* which rests on who has the lock (Alone); and PracticeInv, that the      *)
(* journal has the closed trades up to the last export.                    *)
(***************************************************************************)
EXTENDS Services, SumTheorems

-----------------------------------------------------------------------------
(* The workspace.                                                          *)

Steps == {"unused", "read", "listing", "done", "failed"}
Ops == {"none", "workspace", "create", "delete", "trade", "preferences"}
Seen == [preferences : AccountIds \cup {Nothing, "unset"}, accounts : SUBSET AccountIds]
Chosen == AccountIds \cup {Nothing}
Lists == SUBSET AccountIds
Pages == [default : Chosen, accounts : Lists]
Asked == [op : Ops, step : Steps, account : Chosen, seen : Seen, page : Pages]

\* Until the workspace is provisioned nobody has preferences; afterwards no
\* step takes them away.
Provisioned ==
  /\ profile \in BOOLEAN /\ given \in 0 .. 1
  /\ profile => preferences \in AccountIds \cup {Nothing}
  /\ ~profile => preferences = "unset" /\ given = 0

\* A request that opens the workspace holds the lock until it has answered,
\* so what it has seen of the provisioning is still so; the other requests
\* that will write preferences have seen them.
Informed(r) ==
  /\ asked[r].op = "workspace" /\ asked[r].step \in {"read", "listing"} =>
       owner = r /\ (asked[r].seen.preferences = "unset" <=> ~profile)
  /\ asked[r].op = "workspace" =>
       /\ asked[r].step # "failed"
       /\ asked[r].step = "done" => asked[r].page.default \in asked[r].page.accounts \cup {Nothing}
  /\ asked[r].op \in {"create", "preferences"} /\ asked[r].step = "read" =>
       profile /\ asked[r].seen.preferences # "unset"
  /\ asked[r].op = "create" => asked[r].account # Nothing

DeskInv ==
  /\ accounts \in SUBSET AccountIds /\ usedAccounts \in SUBSET accounts
  /\ Provisioned
  /\ asked \in [DeskRequests -> Asked]
  /\ \A r \in DeskRequests : Informed(r)

\* A request that a step does not touch stays informed, if the step does not
\* provision the workspace nor take its lock from it.
LEMMA OthersStayInformed ==
  ASSUME DeskInv, NEW r \in DeskRequests, asked'[r] = asked[r],
         profile' = profile \/ (profile' /\ owner # r), owner = r => owner' = r
  PROVE  Informed(r)'
  BY DEF DeskInv, Informed, Provisioned

\* A request that begins.
LEMMA BeginsInformed ==
  ASSUME DeskInv, NEW r \in DeskRequests, Desk!New(r), NEW op \in Ops, NEW a \in Chosen,
         Desk!Begins(r, op, a), UNCHANGED Desk!rows,
         op \in {"create", "preferences"} => profile, op = "create" => a # Nothing,
         op = "workspace" => owner' = r, owner # Nothing => owner' = owner
  PROVE  DeskInv'
<1> DEFINE now == [preferences |-> preferences, accounts |-> accounts]
           read == "read"
<1>1. /\ now \in Seen /\ read \in Steps /\ read = "read"
      /\ now.preferences = "unset" <=> ~profile
  BY DeskAssumption DEF DeskInv, Provisioned, Seen, Steps
<1>2. asked' = [asked EXCEPT ![r].op = op, ![r].step = read, ![r].account = a, ![r].seen = now]
  BY DEF Desk!Begins
<1> HIDE DEF now, read
<1>3. /\ asked' \in [DeskRequests -> Asked]
      /\ asked'[r].op = op /\ asked'[r].step = read /\ asked'[r].seen = now /\ asked'[r].account = a
      /\ \A q \in DeskRequests \ {r} : asked'[q] = asked[q]
  BY <1>1, <1>2 DEF DeskInv, Asked
<1>4. Informed(r)'
  BY <1>1, <1>3 DEF Informed, Desk!rows
<1>5. ASSUME NEW q \in DeskRequests \ {r} PROVE Informed(q)'
  <2>1. owner = q => owner' = q
    BY DeskAssumption
  <2>. QED BY <1>3, <2>1, OthersStayInformed DEF Desk!rows
<1>6. Provisioned'
  BY DEF DeskInv, Provisioned, Desk!rows
<1>. QED BY <1>3, <1>4, <1>5, <1>6 DEF DeskInv, Desk!rows

\* A request that ends, well or not, with what it may have written.
LEMMA EndsInformed ==
  ASSUME DeskInv, NEW r \in DeskRequests, NEW step \in {"done", "failed"},
         asked' = [asked EXCEPT ![r].step = step], asked[r].op # "workspace",
         UNCHANGED profile, owner' = owner \/ (owner = r /\ owner' = Nothing)
  PROVE  asked' \in [DeskRequests -> Asked] /\ \A q \in DeskRequests : Informed(q)'
<1>1. step \in Steps /\ step # "read" /\ step # "listing"
  BY DEF Steps
<1>2. /\ asked' \in [DeskRequests -> Asked]
      /\ asked'[r].op = asked[r].op /\ asked'[r].step = step /\ asked'[r].account = asked[r].account
      /\ \A q \in DeskRequests \ {r} : asked'[q] = asked[q]
  BY <1>1 DEF DeskInv, Asked
<1>3. Informed(r)'
  BY <1>1, <1>2 DEF Informed, DeskInv
<1>4. ASSUME NEW q \in DeskRequests \ {r} PROVE Informed(q)'
  BY <1>2, OthersStayInformed
<1>. QED BY <1>2, <1>3, <1>4

\* The settings of a page.
LEMMA ReadSettingsInformed ==
  ASSUME DeskInv, NEW r \in DeskRequests, Desk!ReadSettings(r)
  PROVE  DeskInv'
<1> DEFINE default == IF Desk!First(r) THEN Nothing ELSE preferences
           listing == "listing"
<1>1. Informed(r) /\ asked[r].op = "workspace" /\ asked[r].step = "read"
  BY DEF DeskInv, Desk!ReadSettings, Desk!At
<1>2. default \in Chosen /\ listing \in Steps /\ listing = "listing"
  BY <1>1 DEF DeskInv, Provisioned, Informed, Desk!First, Chosen, Steps
<1> DEFINE page == [asked[r].page EXCEPT !.default = default]
<1>3. asked' = [asked EXCEPT ![r].step = listing, ![r].page = page]
  BY DEF Desk!ReadSettings
<1> HIDE DEF default
<1>8. page \in Pages
  BY <1>2 DEF DeskInv, Asked, Pages
<1> HIDE DEF listing, page
<1>4. /\ asked' \in [DeskRequests -> Asked]
      /\ asked'[r].op = asked[r].op /\ asked'[r].step = listing /\ asked'[r].seen = asked[r].seen
      /\ \A q \in DeskRequests \ {r} : asked'[q] = asked[q]
  BY <1>2, <1>3, <1>8 DEF DeskInv, Asked
<1>5. UNCHANGED <<profile, accounts, preferences, usedAccounts, given, owner>>
  BY DEF Desk!ReadSettings, Desk!rows
<1>6. Informed(r)'
  BY <1>1, <1>2, <1>4, <1>5 DEF Informed
<1>7. ASSUME NEW q \in DeskRequests \ {r} PROVE Informed(q)'
  BY <1>4, <1>5, OthersStayInformed
<1>. QED BY <1>4, <1>5, <1>6, <1>7 DEF DeskInv, Provisioned

\* The page: whoever opens a workspace that is not provisioned is the first.
LEMMA ServeInformed ==
  ASSUME DeskInv, NEW r \in DeskRequests, Desk!Serve(r)
  PROVE  DeskInv'
<1>1. Informed(r) /\ asked[r].op = "workspace" /\ asked[r].step = "listing" /\ owner = r
  BY DEF DeskInv, Desk!Serve, Desk!At, Informed
<1>2. Desk!First(r) <=> ~profile
  BY <1>1 DEF Informed, Desk!First
<1> DEFINE listed(a) == (accounts \cup {a}) \ {Nothing}
<1>3. PICK a \in AccountIds \cup {Nothing} :
        /\ a = Nothing \/ (a \in AccountIds /\ ~profile)
        /\ profile' /\ accounts' = listed(a)
        /\ preferences' = IF ~profile THEN Nothing ELSE preferences
        /\ given' = given + (IF a = Nothing THEN 0 ELSE 1)
        /\ asked' = [asked EXCEPT ![r].step = "done", ![r].page.accounts = listed(a),
                       ![r].page.default = Desk!EffectiveDefault(@, listed(a))]
        /\ usedAccounts' = usedAccounts
  BY <1>2 DEF Desk!Serve, DeskInv, Provisioned
<1> DEFINE rows == listed(a)
           default == Desk!EffectiveDefault(asked[r].page.default, rows)
           done == "done"
<1>4. /\ rows \in SUBSET AccountIds /\ accounts \subseteq rows
      /\ default \in Chosen /\ default \in rows \cup {Nothing} /\ done \in Steps /\ done = "done"
  BY DeskAssumption DEF DeskInv, Desk!EffectiveDefault, Chosen, Steps
<1> DEFINE page == [asked[r].page EXCEPT !.accounts = rows, !.default = default]
<1>5. accounts' = rows /\ asked' = [asked EXCEPT ![r].step = done, ![r].page = page]
  BY <1>3 DEF DeskInv, Asked, Pages
<1> HIDE DEF rows, default, listed
<1>10. page \in Pages /\ page.accounts = rows /\ page.default = default
  <2>1. rows \in Lists /\ asked[r].page \in Pages
    BY <1>4 DEF Lists, DeskInv, Asked
  <2>. QED BY <1>4, <2>1 DEF Pages
<1> HIDE DEF done, page
<1>6. /\ asked' \in [DeskRequests -> Asked]
      /\ asked'[r].op = asked[r].op /\ asked'[r].step = done
      /\ asked'[r].page.accounts = rows /\ asked'[r].page.default = default
      /\ \A q \in DeskRequests \ {r} : asked'[q] = asked[q]
  BY <1>4, <1>5, <1>10 DEF DeskInv, Asked
<1>7. Informed(r)'
  BY <1>1, <1>4, <1>6 DEF Informed
<1>8. ASSUME NEW q \in DeskRequests \ {r} PROVE Informed(q)'
  BY <1>1, <1>3, <1>6, OthersStayInformed
<1>9. Provisioned'
  BY <1>3 DEF DeskInv, Provisioned
<1>. QED BY <1>3, <1>4, <1>5, <1>6, <1>7, <1>8, <1>9 DEF DeskInv

\* The requests about accounts, trades and preferences.
LEMMA AccountsInformed ==
  ASSUME DeskInv, NEW r \in DeskRequests,
         \/ Desk!CreateAccount(r) \/ Desk!DeleteAccount(r) \/ Desk!CreateTrade(r)
         \/ Desk!SavePreferences(r)
  PROVE  DeskInv'
<1>1. /\ asked[r] \in Asked /\ Informed(r) /\ Provisioned
      /\ asked[r].account \in Chosen /\ asked[r].seen.preferences \in Chosen \cup {"unset"}
  BY DEF DeskInv, Asked, Seen, Chosen
<1>2. ASSUME Desk!Ends(r) PROVE asked' = [asked EXCEPT ![r].step = "done"]
  BY <1>2 DEF Desk!Ends
<1>3. CASE Desk!CreateAccount(r)
  <2>1. /\ asked[r].op = "create" /\ asked[r].step = "read"
        /\ accounts' = accounts \cup {asked[r].account} /\ asked[r].account # Nothing
        /\ preferences' \in {asked[r].seen.preferences, preferences}
        /\ UNCHANGED <<profile, usedAccounts, given, owner>> /\ Desk!Ends(r)
    BY <1>1, <1>3 DEF Desk!CreateAccount, Desk!At, Informed
  <2>2. asked' \in [DeskRequests -> Asked] /\ \A q \in DeskRequests : Informed(q)'
    BY <1>2, <2>1, EndsInformed
  <2>3. Provisioned'
    BY <1>1, <2>1 DEF Provisioned, Informed, Chosen
  <2>4. accounts' \in SUBSET AccountIds /\ usedAccounts' \in SUBSET accounts'
    BY <1>1, <2>1 DEF DeskInv, Chosen
  <2>. QED BY <2>2, <2>3, <2>4 DEF DeskInv
<1>4. CASE Desk!DeleteAccount(r) \/ Desk!CreateTrade(r)
  <2>1. /\ asked[r].op # "workspace" /\ UNCHANGED <<profile, preferences, given, owner>>
        /\ \E step \in {"done", "failed"} : asked' = [asked EXCEPT ![r].step = step]
        /\ accounts' \in SUBSET AccountIds /\ usedAccounts' \in SUBSET accounts'
    BY <1>4 DEF Desk!DeleteAccount, Desk!CreateTrade, Desk!At, Desk!MayRemove, Desk!Ends,
       Desk!Fails,
                Desk!rows, DeskInv
  <2>2. asked' \in [DeskRequests -> Asked] /\ \A q \in DeskRequests : Informed(q)'
    BY <2>1, EndsInformed
  <2>. QED BY <1>1, <2>1, <2>2 DEF DeskInv, Provisioned
<1>5. CASE Desk!SavePreferences(r)
  <2>1. /\ asked[r].op = "preferences" /\ asked[r].step = "read"
        /\ preferences' = asked[r].account /\ owner' = IF owner = r THEN Nothing ELSE owner
        /\ UNCHANGED <<profile, accounts, usedAccounts, given>> /\ Desk!Ends(r)
    BY <1>5 DEF Desk!SavePreferences, Desk!At
  <2>2. asked' \in [DeskRequests -> Asked] /\ \A q \in DeskRequests : Informed(q)'
    BY <1>2, <2>1, EndsInformed
  <2>3. Provisioned'
    BY <1>1, <2>1 DEF Provisioned, Informed, Chosen
  <2>. QED BY <2>1, <2>2, <2>3 DEF DeskInv
<1>. QED BY <1>3, <1>4, <1>5

\* Every step of the workspace keeps all of it.
LEMMA DeskNext ==
  ASSUME DeskInv, [Desk!Next]_(Desk!vars)
  PROVE  DeskInv'
<1>1. CASE UNCHANGED Desk!vars
  BY <1>1, OthersStayInformed DEF Desk!vars, Desk!rows, DeskInv, Provisioned
<1>2. ASSUME NEW r \in DeskRequests, Desk!Open(r) PROVE DeskInv'
  <2>1. "workspace" \in Ops /\ Nothing \in Chosen
    BY DEF Ops, Chosen
  <2>. QED BY <1>2, <2>1, BeginsInformed DEF Desk!Open, Desk!MayLock
<1>3. ASSUME NEW r \in DeskRequests, NEW op \in {"create", "delete", "trade"}, NEW a \in AccountIds,
             Desk!ReadAccount(r, op, a)
      PROVE  DeskInv'
  <2>1. op \in Ops /\ a \in Chosen
    BY DEF Ops, Chosen
  <2>2. a # Nothing
    BY DeskAssumption
  <2>. QED BY <1>3, <2>1, <2>2, BeginsInformed DEF Desk!ReadAccount
<1>4. ASSUME NEW r \in DeskRequests, NEW a \in AccountIds \cup {Nothing}, Desk!ReadPreferences(r, a)
      PROVE  DeskInv'
  <2>1. "preferences" \in Ops /\ a \in Chosen
    BY DEF Ops, Chosen
  <2>. QED BY <1>4, <2>1, BeginsInformed DEF Desk!ReadPreferences, Desk!MayLock
<1>5. ASSUME NEW a \in AccountIds, Desk!DeleteTrade(a) PROVE DeskInv'
  BY <1>5, OthersStayInformed DEF Desk!DeleteTrade, DeskInv, Provisioned
<1>. QED BY <1>1, <1>2, <1>3, <1>4, <1>5, ReadSettingsInformed, ServeInformed, AccountsInformed
         DEF Desk!Next

\* Only a request has the lock.
LockHeld == owner \in DeskRequests \cup {Nothing}

\* All of it holds always.
LEMMA DeskInvariance == Spec => [](DeskInv /\ LockHeld)
<1>1. Init => DeskInv
  <2> SUFFICES ASSUME Desk!Init PROVE DeskInv
    BY DEF Init
  <2>1. /\ accounts \in SUBSET AccountIds /\ usedAccounts \in SUBSET accounts /\ Provisioned
    <3>1. accounts \in SUBSET AccountIds /\ usedAccounts \in SUBSET accounts
      BY DEF Desk!Init
    <3>2. /\ given = 0
          /\ (profile = FALSE /\ preferences = "unset")
              \/ (profile = TRUE /\ preferences \in accounts)
      BY DEF Desk!Init
    <3>3. given \in 0 .. 1
      BY <3>2
    <3>4. CASE profile = FALSE /\ preferences = "unset"
      BY <3>1, <3>2, <3>3, <3>4 DEF Provisioned
    <3>5. CASE profile = TRUE /\ preferences \in accounts
      BY <3>1, <3>2, <3>3, <3>5 DEF Provisioned
    <3>. QED BY <3>2, <3>4, <3>5
  <2>2. Desk!Unasked \in Asked
    BY DEF Desk!Unasked, Asked, Ops, Steps, Chosen, Seen, Pages, Lists
  <2>3. \A r \in DeskRequests : asked[r] = Desk!Unasked
    BY DEF Desk!Init
  <2>4. \A r \in DeskRequests : Informed(r)
    BY <2>3 DEF Desk!Unasked, Informed
  <2>. QED BY <2>1, <2>2, <2>4 DEF Desk!Init, DeskInv
<1>2. DeskInv /\ [Next]_vars => DeskInv'
  <2>1. [Next]_vars => [Desk!Next]_(Desk!vars)
    BY DEF Next, Only, vars, workspaceVars, Desk!vars, Desk!rows
  <2>. QED BY <2>1, DeskNext
<1>3. Init => LockHeld
  BY DEF Init, Desk!Init, LockHeld
<1>4. LockHeld /\ [Next]_vars => LockHeld'
  <2>1. [Next]_vars => [Desk!Next]_(Desk!vars)
    BY DEF Next, Only, vars, workspaceVars, Desk!vars, Desk!rows
  <2>. QED BY <2>1 DEF LockHeld, Desk!Next, Desk!vars, Desk!Open, Desk!ReadSettings, Desk!Serve,
              Desk!ReadAccount, Desk!CreateAccount, Desk!DeleteAccount, Desk!CreateTrade,
              Desk!ReadPreferences, Desk!SavePreferences, Desk!DeleteTrade
<1>. QED BY <1>1, <1>2, <1>3, <1>4, PTL DEF Spec

\* The rows and the requests are of their types.
LEMMA DeskTyped == Spec => []Desk!TypeOK
<1>1. DeskInv /\ LockHeld => Desk!TypeOK
  <2> SUFFICES ASSUME DeskInv, LockHeld PROVE Desk!TypeOK
    OBVIOUS
  <2>1. \A r \in DeskRequests : asked[r].step \in Steps
    BY DEF DeskInv, Asked
  <2>2. given \in Nat
    BY DEF DeskInv, Provisioned
  <2>3. profile \in BOOLEAN /\ preferences \in AccountIds \cup {Nothing, "unset"}
    BY DEF DeskInv, Provisioned
  <2>4. accounts \subseteq AccountIds /\ usedAccounts \subseteq AccountIds
    BY DEF DeskInv
  <2>. QED BY <2>1, <2>2, <2>3, <2>4 DEF Desk!TypeOK, Steps, LockHeld
<1>. QED BY <1>1, DeskInvariance, PTL

\* However many tabs open a workspace at once, and whatever is created, saved
\* or deleted beside them: it is given one account, no trade loses its own,
\* and every page opens with a default that it lists.
THEOREM WorkspaceAlwaysOpens == Spec => []WorkspaceOpens
<1>1. DeskInv => WorkspaceOpens
  BY DEF DeskInv, Provisioned, Informed, WorkspaceOpens, Desk!WorkspaceOpens, Desk!ProvisionedOnce,
         Desk!TradesHaveAccounts, Desk!PageOpens
<1>. QED BY <1>1, DeskInvariance, PTL

-----------------------------------------------------------------------------
(* The journal.                                                            *)

Texts == Seq(Drafts \cup {"typed"})
Named == Books \cup {"none"}
Versions == 0 .. MaxVersion
Releases == 1 .. MaxVersion
Links == [book : Named, version : Versions]
Additions == SUBSET Drafts
TradeRows == [live : BOOLEAN, identity : Identities, imported : BOOLEAN, stored : BOOLEAN,
              edited : BOOLEAN,
              notes : Texts, kept : Additions, book : Named, rules : Links]
BookRows == [version : Releases, archived : BOOLEAN]
Columns == [identity : Identities, notes : Texts, book : Named, rules : Links]

\* Trades that nobody has edited, and the user's word that a row is new.
Intact(i) == trades[i].live /\ ~trades[i].edited

\* A row has the rules of the playbook it names, and none without one.
Whole(t) == t.rules.book = t.book /\ (t.book = "none" => t.rules = Trading!NoRules)

\* A form has the notes it was opened with, and they the drafts it has shown.
FormShown(q) == q.notes \in Texts /\ q.shown \in Additions /\ q.shown \subseteq Trading!Range(q.notes)

\* An edit changes the rules when it changes the playbook, and only then; its
\* notes are the user's, or those its form has shown.
EditLoaded(q) ==
  /\ q.wrote \in BOOLEAN /\ q.shown \in Additions
  /\ ~q.wrote => q.shown \subseteq Trading!Range(q.to.notes)
  /\ q.trade \in DOMAIN trades /\ q.loaded \in TradeRows /\ q.to \in Columns
  /\ Whole(q.loaded) /\ Whole(q.to)
  /\ q.to.book = q.loaded.book => q.to.rules = q.loaded.rules

\* An append has the trade's notes, which its lock keeps as they are.
AppendHeld(q) == q.trade \in DOMAIN trades /\ q.draft \in Drafts /\ q.notes = trades[q.trade].notes

\* The rows an import has found new are still new, except to edited trades:
\* it holds the user's lock, which everybody takes who makes trades.
ImportNew(q) ==
  /\ q.valid \in Seq(Identities)
  /\ \A a, b \in DOMAIN q.valid : a < b => q.valid[a] # q.valid[b]
  /\ \A n \in DOMAIN q.valid, i \in DOMAIN trades : Intact(i) => trades[i].identity # q.valid[n]

BookLoaded(q) == q.book \in Books /\ q.loaded \in BookRows

Loaded(q) ==
  /\ q.op = "form" => FormShown(q)
  /\ q.op = "edit" => EditLoaded(q)
  /\ q.op = "append" => AppendHeld(q)
  /\ q.op = "import" => ImportNew(q)
  /\ q.op \in {"update", "archive"} => BookLoaded(q)

\* Requests that hold the same lock are the same.
Alone == \A r, s \in open :
  /\ r.request.op = "import" /\ s.request.op = "import" => r = s
  /\ r.request.op = "append" /\ s.request.op = "append" /\ r.request.trade = s.request.trade
       => r = s

Journalled ==
  /\ trades \in Seq(TradeRows)
  /\ \A i \in DOMAIN trades : Whole(trades[i])
  /\ Trading!ImportedOnce /\ Trading!NotesKeepDrafts

JournalInv ==
  /\ Journalled /\ books \in [Books -> BookRows]
  /\ Alone /\ \A r \in open : Loaded(r.request)

\* What a playbook has been rewritten to may be linked with.
LEMMA ReleasesAreVersions ==
  /\ Releases \subseteq Versions /\ 0 \in Versions /\ 1 \in Releases
  /\ \A v \in Releases : v < MaxVersion => v + 1 \in Releases
  BY JournalAssumption DEF Releases, Versions

\* The operators of the journal's own modules, as they are here.
LEMMA TradingRange == \A s : Trading!Range(s) = {s[i] : i \in DOMAIN s}
  BY DEF Trading!Range

\* ... and the size of a set.
LEMMA TradingCardinality == \A S : Trading!Cardinality(S) = Cardinality(S)
  BY DEF Trading!Cardinality, Cardinality

\* No import repeats a trade that is there as it was, said of positions.
LEMMA ImportedOnceIs ==
  Trading!ImportedOnce <=>
    \A i, j \in DOMAIN trades :
      i < j /\ trades[j].imported /\ Intact(i) /\ Intact(j)
        => trades[i].identity # trades[j].identity
  BY DEF Trading!ImportedOnce, Trading!Live, Intact

\* A request begins, or goes on to what it does next.
LEMMA RequestAdded ==
  ASSUME JournalInv, NEW new, NEW q, new.request = q, open' \subseteq open \cup {new},
         UNCHANGED <<trades, books>>, Loaded(q),
         q.op = "import" => Trading!UserFree,
         q.op = "append" => Trading!RowFree(q.trade)
  PROVE  JournalInv'
<1>1. open' \subseteq open \cup {new} /\ new.request = q
  OBVIOUS
<1>2. q.op = "import" => \A r \in open : r.request.op # "import"
  BY DEF Trading!UserFree, Trading!InProgress
<1>3. q.op = "append" => \A r \in open : r.request.op = "append" => r.request.trade # q.trade
  BY DEF Trading!RowFree, Trading!InProgress
<1>4. Alone'
  BY <1>1, <1>2, <1>3 DEF JournalInv, Alone
<1>5. \A r \in open' : Loaded(r.request)'
  BY <1>1 DEF JournalInv, Loaded, FormShown, EditLoaded, AppendHeld, ImportNew, Intact, BookLoaded
<1>6. Journalled'
  BY DEF JournalInv, Journalled, Trading!ImportedOnce, Trading!Live, Trading!NotesKeepDrafts
<1>. QED BY <1>4, <1>5, <1>6 DEF JournalInv

\* A request begins.
LEMMA RequestBegins ==
  ASSUME JournalInv, NEW q, Trading!Begin(q), UNCHANGED <<trades, books>>, Loaded(q),
         q.op = "import" => Trading!UserFree,
         q.op = "append" => Trading!RowFree(q.trade)
  PROVE  JournalInv'
<1> DEFINE new == [id |-> begun, request |-> q]
<1>1. open' = open \cup {new} /\ new.request = q
  BY DEF Trading!Begin
<1> HIDE DEF new
<1>. QED BY <1>1, RequestAdded

\* One row changes: an identity of its own comes with being edited, and the
\* notes change under no append but the one that ends.
LEMMA RowChanges ==
  ASSUME JournalInv, NEW i \in DOMAIN trades, NEW t \in TradeRows,
         trades' = [trades EXCEPT ![i] = t],
         Whole(t), t.kept \subseteq Trading!Range(t.notes),
         t.live /\ ~t.edited
           => Intact(i) /\ t.identity = trades[i].identity /\ t.imported = trades[i].imported,
         UNCHANGED books, open' \subseteq open,
         \A r \in open' : r.request.op = "append" /\ r.request.trade = i
                             => t.notes = trades[i].notes
  PROVE  JournalInv'
<1>1. /\ trades' \in Seq(TradeRows) /\ DOMAIN trades' = DOMAIN trades /\ trades'[i] = t
      /\ \A k \in DOMAIN trades \ {i} : trades'[k] = trades[k]
  BY DEF JournalInv, Journalled
<1>2. \A k \in DOMAIN trades : Whole(trades'[k])
  BY <1>1 DEF JournalInv, Journalled
<1>3. \A k \in DOMAIN trades : Intact(k)' =>
        Intact(k) /\ trades'[k].identity = trades[k].identity
        /\ trades'[k].imported = trades[k].imported
  BY <1>1 DEF Intact
<1>4. Trading!ImportedOnce'
  <2>1. \A k, j \in DOMAIN trades :
          k < j /\ trades'[j].imported /\ Intact(k)' /\ Intact(j)'
            => trades'[k].identity # trades'[j].identity
    BY <1>3, ImportedOnceIs DEF JournalInv, Journalled
  <2>. QED BY <1>1, <2>1 DEF Trading!ImportedOnce, Trading!Live, Intact
<1>5. Trading!NotesKeepDrafts'
  BY <1>1 DEF JournalInv, Journalled, Trading!NotesKeepDrafts
<1>6. ASSUME NEW r \in open' PROVE Loaded(r.request)'
  <2> DEFINE q == r.request
  <2>1. Loaded(q) /\ (q.op = "append" /\ q.trade = i => t.notes = trades[i].notes)
    BY <1>6 DEF JournalInv
  <2> HIDE DEF q
  <2>2. (q.op = "form" => FormShown(q)') /\ (q.op = "edit" => EditLoaded(q)')
    BY <1>1, <2>1 DEF Loaded, FormShown, EditLoaded
  <2>3. q.op = "append" => AppendHeld(q)'
    BY <1>1, <2>1 DEF Loaded, AppendHeld
  <2>4. q.op = "import" => ImportNew(q)'
    BY <1>1, <1>3, <2>1 DEF Loaded, ImportNew
  <2>5. q.op \in {"update", "archive"} => BookLoaded(q)'
    BY <2>1 DEF Loaded, BookLoaded
  <2>. QED BY <2>2, <2>3, <2>4, <2>5 DEF Loaded, q
<1>7. Alone'
  BY DEF JournalInv, Alone
<1>. QED BY <1>1, <1>2, <1>4, <1>5, <1>6, <1>7 DEF JournalInv, Journalled

\* Rows are added, which are new to the trades and to each other if they are
\* imported, and while no import is going on.
LEMMA RowsAdded ==
  ASSUME JournalInv, NEW more \in Seq(TradeRows), trades' = trades \o more,
         \A n \in DOMAIN more : Whole(more[n]) /\ more[n].kept = {},
         \A n \in DOMAIN more : more[n].imported =>
           /\ \A i \in DOMAIN trades : Intact(i) => trades[i].identity # more[n].identity
           /\ \A m \in DOMAIN more : m < n => more[m].identity # more[n].identity,
         UNCHANGED books, open' \subseteq open, \A r \in open' : r.request.op # "import"
  PROVE  JournalInv'
<1> DEFINE k == Len(trades)
           l == Len(more)
<1>1. /\ trades' \in Seq(TradeRows) /\ DOMAIN trades' = 1 .. k + l /\ DOMAIN trades = 1 .. k
      /\ DOMAIN more = 1 .. l /\ k \in Nat /\ l \in Nat
      /\ \A i \in 1 .. k : trades'[i] = trades[i]
      /\ \A n \in 1 .. l : trades'[k + n] = more[n]
  BY DEF JournalInv, Journalled
<1> HIDE DEF k, l
<1>2. \A i \in 1 .. k + l : i \in 1 .. k \/ \E n \in 1 .. l : i = k + n
  <2> SUFFICES ASSUME NEW i \in 1 .. k + l, ~(i \in 1 .. k) PROVE \E n \in 1 .. l : i = k + n
    OBVIOUS
  <2>1. i - k \in 1 .. l /\ i = k + (i - k)
    BY <1>1
  <2>. QED BY <2>1
<1>3. \A i \in DOMAIN trades' :
        Whole(trades'[i]) /\ trades'[i].kept \subseteq Trading!Range(trades'[i].notes)
  <2> SUFFICES ASSUME NEW i \in DOMAIN trades'
               PROVE  Whole(trades'[i]) /\ trades'[i].kept \subseteq Trading!Range(trades'[i].notes)
    OBVIOUS
  <2>1. CASE i \in 1 .. k
    BY <1>1, <2>1 DEF JournalInv, Journalled, Trading!NotesKeepDrafts
  <2>2. ASSUME NEW n \in 1 .. l, i = k + n
        PROVE  Whole(trades'[i]) /\ trades'[i].kept \subseteq Trading!Range(trades'[i].notes)
    <3>1. trades'[i] = more[n] /\ Whole(more[n]) /\ more[n].kept = {}
      BY <1>1, <2>2
    <3>. QED BY <3>1
  <2>. QED BY <1>1, <1>2, <2>1, <2>2
<1>4. ASSUME NEW i \in DOMAIN trades', NEW j \in DOMAIN trades', i < j, trades'[j].imported,
             Intact(i)', Intact(j)'
      PROVE  trades'[i].identity # trades'[j].identity
  <2>1. CASE j \in 1 .. k
    <3>1. i \in 1 .. k
      BY <1>1, <1>4, <2>1
    <3>. QED BY <1>1, <1>4, <2>1, <3>1, ImportedOnceIs DEF JournalInv, Journalled, Intact
  <2>2. ASSUME NEW n \in 1 .. l, j = k + n PROVE trades'[i].identity # trades'[j].identity
    <3>1. /\ trades'[j] = more[n] /\ more[n].imported
          /\ \A a \in DOMAIN trades : Intact(a) => trades[a].identity # more[n].identity
          /\ \A m \in DOMAIN more : m < n => more[m].identity # more[n].identity
      BY <1>1, <1>4, <2>2
    <3>2. CASE i \in 1 .. k
      <4>1. i \in DOMAIN trades /\ Intact(i) /\ trades'[i] = trades[i]
        BY <1>1, <1>4, <3>2 DEF Intact
      <4>. QED BY <3>1, <4>1
    <3>3. ASSUME NEW m \in 1 .. l, i = k + m PROVE trades'[i].identity # trades'[j].identity
      <4>1. trades'[i] = more[m] /\ m < n
        BY <1>1, <1>4, <2>2, <3>3
      <4>2. m \in DOMAIN more
        BY <1>1
      <4>. QED BY <3>1, <4>1, <4>2
    <3>. QED BY <1>1, <1>2, <3>2, <3>3
  <2>. QED BY <1>1, <1>2, <2>1, <2>2
<1>5. Trading!ImportedOnce' /\ Trading!NotesKeepDrafts'
  BY <1>3, <1>4 DEF Trading!ImportedOnce, Trading!Live, Intact, Trading!NotesKeepDrafts
<1>6. ASSUME NEW r \in open' PROVE Loaded(r.request)'
  BY <1>1, <1>6 DEF JournalInv, Loaded, FormShown, EditLoaded, AppendHeld, BookLoaded
<1>7. Alone'
  BY DEF JournalInv, Alone
<1>. QED BY <1>1, <1>3, <1>5, <1>6, <1>7 DEF JournalInv, Journalled

-----------------------------------------------------------------------------
(* Its requests.                                                           *)

\* A new row is a row.
LEMMA RowTyped ==
  ASSUME NEW identity \in Identities, NEW fromFile \in BOOLEAN, NEW b \in Named, NEW rules \in Links
  PROVE  /\ Trading!Row(identity, fromFile, b, rules) \in TradeRows
         /\ Trading!Row(identity, fromFile, b, rules).identity = identity
         /\ Trading!Row(identity, fromFile, b, rules).imported = fromFile
         /\ Trading!Row(identity, fromFile, b, rules).kept = {}
         /\ Trading!Row(identity, fromFile, b, rules).book = b
         /\ Trading!Row(identity, fromFile, b, rules).rules = rules
  BY DEF Trading!Row, TradeRows, Texts, Additions

\* The rules a trade is given go with its playbook.
LEMMA RulesWhole ==
  ASSUME JournalInv, NEW b \in Named,
         NEW t, t.book = "none" \/ (t.book \in Named /\ t.rules \in Links /\ Whole(t))
  PROVE  /\ Trading!Rules(b, t) \in Links /\ Trading!Rules(b, t).book = b
         /\ b = "none" => Trading!Rules(b, t) = Trading!NoRules
         /\ t.rules.book = t.book /\ b = t.book /\ Whole(t) => Trading!Rules(b, t) = t.rules
  BY ReleasesAreVersions DEF JournalInv, Trading!Rules, Trading!Current, Trading!NoRules, Trading!None, Named, Links,
     BookRows, Whole

\* A trade typed in.
LEMMA CreateKeeps ==
  ASSUME JournalInv, NEW x \in Identities, NEW b \in Named, Trading!Create(x, b)
  PROVE  JournalInv'
<1> DEFINE unlinked == [book |-> "none"]
           rules == Trading!Rules(b, unlinked)
           t == Trading!Row(x, FALSE, b, rules)
<1>1. rules \in Links /\ rules.book = b /\ (b = "none" => rules = Trading!NoRules)
  <2>1. unlinked.book = "none"
    OBVIOUS
  <2> HIDE DEF unlinked
  <2>. QED BY <2>1, RulesWhole
<1>2. /\ trades' = Append(trades, t) /\ UNCHANGED <<books, open>>
      /\ \A r \in open : r.request.op # "import"
  BY DEF Trading!Create, Trading!None, Trading!UserFree, Trading!InProgress
<1> HIDE DEF rules
<1>3. t \in TradeRows /\ t.imported = FALSE /\ t.kept = {} /\ t.book = b /\ t.rules = rules
  <2>1. x \in Identities /\ FALSE \in BOOLEAN
    OBVIOUS
  <2>. QED BY <1>1, <2>1 DEF Trading!Row, TradeRows, Texts, Additions
<1> HIDE DEF t
<1>4. <<t>> \in Seq(TradeRows) /\ trades' = trades \o <<t>> /\ \A n \in DOMAIN <<t>> : <<t>>[n] = t
  BY <1>2, <1>3 DEF JournalInv, Journalled
<1>5. Whole(t)
  BY <1>1, <1>3 DEF Whole
<1> DEFINE more == <<t>>
<1> HIDE DEF more
<1>6. /\ more \in Seq(TradeRows) /\ trades' = trades \o more
      /\ \A n \in DOMAIN more : more[n] = t
  BY <1>4 DEF more
<1>. QED BY <1>2, <1>3, <1>5, <1>6, RowsAdded

\* A form takes what the page shows.
LEMMA FormKeeps ==
  ASSUME JournalInv, NEW i \in DOMAIN trades, Trading!OpenForm(i)
  PROVE  JournalInv'
<1> DEFINE q == [op |-> "form", trade |-> i, notes |-> trades[i].notes, shown |-> trades[i].kept]
<1>1. trades[i].notes \in Texts /\ trades[i].kept \in Additions
      /\ trades[i].kept \subseteq Trading!Range(trades[i].notes)
  <2>1. trades[i] \in TradeRows /\ trades[i].kept \subseteq Trading!Range(trades[i].notes)
    BY DEF JournalInv, Journalled, Trading!NotesKeepDrafts
  <2>. QED BY <2>1 DEF TradeRows
<1>2. Trading!Begin(q) /\ UNCHANGED <<trades, books>>
  BY DEF Trading!OpenForm
<1>3. q.op = "form" /\ q.notes = trades[i].notes /\ q.shown = trades[i].kept
  OBVIOUS
<1> HIDE DEF q
<1>4. Loaded(q)
  BY <1>1, <1>3 DEF Loaded, FormShown
<1>. QED BY <1>2, <1>3, <1>4, RequestBegins

\* What an edit will write.
LEMMA LoadKeeps ==
  ASSUME JournalInv, NEW r \in open, NEW x \in Identities, NEW b \in Named,
         NEW wrote \in BOOLEAN,
         Trading!Load(r, x, wrote, b)
  PROVE  JournalInv'
<1> DEFINE form == r.request
           i == form.trade
           n == IF wrote THEN <<"typed">> ELSE form.notes
           rules == Trading!Rules(b, trades[i])
           to == [identity |-> x, notes |-> n, book |-> b, rules |-> rules]
           q == [op |-> "edit", trade |-> i, loaded |-> trades[i], wrote |-> wrote,
                 shown |-> form.shown, to |-> to]
           new == [id |-> r.id, request |-> q]
<1>1. i \in DOMAIN trades /\ FormShown(form)
  BY DEF Trading!Load, Trading!Live, Trading!InProgress, JournalInv, Loaded
<1>2. trades[i] \in TradeRows /\ Whole(trades[i]) /\ trades[i].book \in Named
      /\ trades[i].rules \in Links
  <2>1. trades[i] \in TradeRows /\ Whole(trades[i])
    BY <1>1 DEF JournalInv, Journalled
  <2>. QED BY <2>1 DEF TradeRows
<1>3. /\ rules \in Links /\ rules.book = b /\ (b = "none" => rules = Trading!NoRules)
      /\ b = trades[i].book => rules = trades[i].rules
  <2>1. trades[i].rules.book = trades[i].book
    BY <1>2 DEF Whole
  <2>. QED BY <1>2, <2>1, RulesWhole
<1>4. open' = (open \ {r}) \cup {new} /\ UNCHANGED <<trades, books>>
  BY DEF Trading!Load
<1>5. /\ form.shown \in Additions /\ n \in Texts
      /\ ~wrote => form.shown \subseteq Trading!Range(n)
  <2>1. <<"typed">> \in Texts
    BY DEF Texts
  <2>. QED BY <1>1, <2>1 DEF FormShown
<1> HIDE DEF rules, n
<1>6. to \in Columns /\ to.book = b /\ to.rules = rules /\ to.notes = n
  BY <1>3, <1>5 DEF Columns
<1> HIDE DEF to
<1>7. /\ q.op = "edit" /\ q.trade = i /\ q.loaded = trades[i] /\ q.to = to
      /\ q.wrote = wrote /\ q.shown = form.shown
  OBVIOUS
<1>8. new.request = q
  OBVIOUS
<1> HIDE DEF q, new
<1>9. Loaded(q)
  BY <1>1, <1>2, <1>3, <1>5, <1>6, <1>7 DEF Loaded, EditLoaded, Whole
<1>10. open' \subseteq open \cup {new}
  BY <1>4
<1>. QED BY <1>4, <1>7, <1>8, <1>9, <1>10, RequestAdded

\* An edit writes the columns it changes.
LEMMA SaveKeeps ==
  ASSUME JournalInv, NEW r \in open, Trading!Save(r)
  PROVE  /\ JournalInv'
         /\ \A i \in DOMAIN trades :
              trades'[i].book = trades[i].book /\ trades'[i].rules # trades[i].rules
                => r.request.loaded.book # trades[i].book
<1> DEFINE q == r.request
           i == q.trade
           old == trades[i]
           identity == IF q.to.identity = q.loaded.identity THEN old.identity ELSE q.to.identity
           notes == IF q.to.notes = q.loaded.notes THEN old.notes ELSE q.to.notes
           book == IF q.to.book = q.loaded.book THEN old.book ELSE q.to.book
           rules == IF q.to.rules = q.loaded.rules THEN old.rules ELSE q.to.rules
           kept == Trading!Spared(q, old)
           t == [old EXCEPT !.identity = identity, !.notes = notes, !.book = book, !.rules = rules,
                            !.stored = FALSE, !.edited = TRUE, !.kept = kept]
<1>1. EditLoaded(q)
  BY DEF JournalInv, Loaded, Trading!Save, Trading!InProgress
<1>2. /\ i \in DOMAIN trades /\ q.to \in Columns /\ old \in TradeRows /\ Whole(old)
      /\ old.kept \subseteq Trading!Range(old.notes) /\ q.loaded.book \in Named
  <2>1. i \in DOMAIN trades /\ q.to \in Columns /\ q.loaded \in TradeRows
    BY <1>1 DEF EditLoaded
  <2>2. old \in TradeRows /\ Whole(old)
    BY <2>1 DEF JournalInv, Journalled
  <2>3. old.kept \subseteq Trading!Range(old.notes)
    BY <2>1 DEF JournalInv, Journalled, Trading!NotesKeepDrafts
  <2>. QED BY <2>1, <2>2, <2>3 DEF TradeRows
<1>3. /\ trades' = [trades EXCEPT ![i] = IF ~old.live THEN old ELSE t]
      /\ open' = open \ {r} /\ UNCHANGED books
      /\ \A s \in open : s.request.op = "append" => s.request.trade # i
  <2>1. open' = open \ {r} /\ UNCHANGED books /\ Trading!RowFree(i)
    BY DEF Trading!Save, Trading!End
  <2>2. trades' = [trades EXCEPT ![i] = Trading!Written(q, old)]
    BY DEF Trading!Save
  <2>3. Trading!Written(q, old) = IF ~old.live THEN old ELSE t
    BY DEF Trading!Written
  <2>. QED BY <2>1, <2>2, <2>3 DEF Trading!RowFree, Trading!InProgress
<1>4. identity \in Identities /\ notes \in Texts /\ book \in Named /\ rules \in Links
      /\ kept \in Additions
  <2>1. kept \subseteq old.kept
    BY DEF Trading!Spared
  <2>. QED BY <1>2, <2>1 DEF Columns, TradeRows, Additions
<1>5. rules.book = book /\ (book = "none" => rules = Trading!NoRules)
  BY <1>1, <1>2 DEF EditLoaded, Whole
<1>6. kept \subseteq Trading!Range(notes)
  <2>1. ~q.wrote => q.shown \subseteq Trading!Range(q.to.notes)
    BY <1>1 DEF EditLoaded
  <2>. QED BY <1>2, <2>1 DEF Trading!Spared
<1>7. book = old.book /\ rules # old.rules => q.loaded.book # old.book
  BY <1>1 DEF EditLoaded, Whole
<1> HIDE DEF identity, notes, book, rules, kept, old, i, q
<1>8. /\ t \in TradeRows /\ t.edited = TRUE /\ t.notes = notes /\ t.book = book /\ t.rules = rules
      /\ t.kept = kept
  BY <1>2, <1>4 DEF TradeRows
<1> HIDE DEF t
<1>9. DOMAIN trades' = DOMAIN trades /\ \A k \in DOMAIN trades : k # i => trades'[k] = trades[k]
  BY <1>3
<1>10. CASE ~old.live
  <2>1. trades' = [trades EXCEPT ![i] = old] /\ trades[i] = old
    BY <1>3, <1>10 DEF old
  <2>2. JournalInv'
    BY <1>2, <1>3, <1>10, <2>1, RowChanges DEF JournalInv, Journalled, Trading!NotesKeepDrafts
  <2>. QED BY <1>2, <1>9, <2>1, <2>2
<1>11. CASE old.live
  <2>1. trades' = [trades EXCEPT ![i] = t]
    BY <1>3, <1>11
  <2>2. Whole(t) /\ t.kept \subseteq Trading!Range(t.notes)
    BY <1>5, <1>6, <1>8 DEF Whole
  <2>3. JournalInv'
    <3>1. open' \subseteq open /\ UNCHANGED books
          /\ \A s \in open' : s.request.op = "append" /\ s.request.trade = i
               => t.notes = trades[i].notes
      BY <1>3
    <3>. QED BY <1>2, <1>8, <2>1, <2>2, <3>1, RowChanges
  <2>4. trades'[i] = t /\ trades[i] = old
    BY <1>2, <2>1 DEF old
  <2>. QED BY <1>7, <1>8, <1>9, <2>3, <2>4 DEF q
<1>. QED BY <1>10, <1>11

\* An append adds to the notes it has locked.
LEMMA AppendKeeps ==
  ASSUME JournalInv, NEW r \in open, Trading!AppendWrite(r)
  PROVE  /\ JournalInv'
         /\ \A i \in DOMAIN trades : trades'[i].rules = trades[i].rules
<1> DEFINE q == r.request
           i == q.trade
           old == trades[i]
           notes == Append(q.notes, q.draft)
           kept == old.kept \cup {q.draft}
           t == [old EXCEPT !.notes = notes, !.stored = FALSE, !.kept = kept]
<1>1. q.op = "append" /\ AppendHeld(q)
  BY DEF JournalInv, Loaded, Trading!AppendWrite, Trading!InProgress
<1>2. /\ i \in DOMAIN trades /\ old \in TradeRows /\ Whole(old) /\ q.notes = old.notes
      /\ q.draft \in Drafts
      /\ old.kept \subseteq Trading!Range(old.notes)
  BY <1>1 DEF AppendHeld, JournalInv, Journalled, Trading!NotesKeepDrafts
<1>3. trades' = [trades EXCEPT ![i] = t] /\ open' = open \ {r} /\ UNCHANGED books
  BY <1>2 DEF Trading!AppendWrite, Trading!End, TradeRows
<1>4. old.notes \in Texts /\ old.kept \in Additions
  BY <1>2 DEF TradeRows
<1>5. notes \in Texts /\ kept \in Additions /\ kept \subseteq Trading!Range(notes)
  <2>1. notes \in Texts
    BY <1>2, <1>4 DEF Texts
  <2>2. /\ \A k \in DOMAIN old.notes : k \in DOMAIN notes /\ notes[k] = old.notes[k]
        /\ Len(notes) \in DOMAIN notes /\ notes[Len(notes)] = q.draft
    BY <1>2, <1>4 DEF Texts
  <2>. QED BY <1>2, <1>4, <2>1, <2>2, TradingRange DEF Additions
<1>6. \A s \in open' : s.request.op = "append" => s.request.trade # i
  BY <1>1, <1>3 DEF JournalInv, Alone
<1> HIDE DEF i, q, notes, kept, old
<1>7. /\ t \in TradeRows /\ t.live = old.live /\ t.edited = old.edited /\ t.identity = old.identity
      /\ t.imported = old.imported /\ t.book = old.book /\ t.rules = old.rules
      /\ t.kept = kept /\ t.notes = notes
  BY <1>2, <1>5 DEF TradeRows
<1> HIDE DEF t
<1>8. Whole(t) /\ t.kept \subseteq Trading!Range(t.notes)
  BY <1>2, <1>5, <1>7 DEF Whole
<1>9. old = trades[i]
  BY DEF old
<1>10. t.live /\ ~t.edited
         => Intact(i) /\ t.identity = trades[i].identity /\ t.imported = trades[i].imported
  BY <1>7, <1>9 DEF Intact
<1>11. JournalInv'
  <2>1. open' \subseteq open /\ UNCHANGED books
        /\ \A s \in open' : s.request.op = "append" /\ s.request.trade = i
             => t.notes = trades[i].notes
    BY <1>3, <1>6
  <2>. QED BY <1>2, <1>3, <1>7, <1>8, <1>10, <2>1, RowChanges
<1>12. \A k \in DOMAIN trades : trades'[k].rules = trades[k].rules
  BY <1>2, <1>3, <1>7, <1>9
<1>. QED BY <1>11, <1>12

\* The rows of an import, and the trades it adds.
LEMMA ImportReadKeeps ==
  ASSUME JournalInv, NEW file \in Files, Trading!ImportRead(file)
  PROVE  JournalInv'
<1> DEFINE S == Trading!Valid(file)
<1>1. PICK rows \in Trading!InOrder(S) :
        Trading!Begin([op |-> "import", valid |-> [n \in DOMAIN rows |-> file[rows[n]]]])
  BY DEF Trading!ImportRead
<1> DEFINE new == [n \in DOMAIN rows |-> file[rows[n]]]
           q == [op |-> "import", valid |-> new]
           k == Trading!Cardinality(S)
<1>2. file \in Seq(Identities \cup {Unreadable}) /\ S \subseteq DOMAIN file /\ S \subseteq Int
  BY JournalAssumption DEF Trading!Valid
<1>3. k \in Nat
  <2>1. IsFiniteSet(1 .. Len(file))
    BY <1>2, FS_Interval
  <2>2. IsFiniteSet(S)
    BY <1>2, <2>1, FS_Subset
  <2>. QED BY <2>2, FS_CardinalityType, TradingCardinality
<1>4. rows \in [1 .. k -> S] /\ \A a, b \in 1 .. k : a < b => rows[a] < rows[b]
  BY DEF Trading!InOrder
<1> HIDE DEF k
<1>5. \A n \in S : /\ file[n] \in Identities /\ file[n] \notin Trading!Fingerprints
                   /\ \A m \in S : m < n => file[m] # file[n]
  BY <1>2 DEF Trading!Valid
<1> HIDE DEF S
<1>6. new \in Seq(Identities) /\ DOMAIN new = 1 .. k /\ \A n \in 1 .. k : new[n] = file[rows[n]]
  BY <1>2, <1>3, <1>4, <1>5
<1>7. \A a, b \in DOMAIN new : a < b => new[a] # new[b]
  BY <1>4, <1>5, <1>6
<1>8. \A n \in DOMAIN new, i \in DOMAIN trades : Intact(i) => trades[i].identity # new[n]
  BY <1>4, <1>5, <1>6 DEF Intact, Trading!Fingerprints, Trading!Live
<1> HIDE DEF new
<1>9. q.op = "import" /\ q.valid = new
  OBVIOUS
<1>10. Trading!Begin(q) /\ UNCHANGED <<trades, books>> /\ Trading!UserFree
  BY <1>1 DEF Trading!ImportRead, new
<1> HIDE DEF q
<1>11. Loaded(q)
  BY <1>6, <1>7, <1>8, <1>9 DEF Loaded, ImportNew
<1>. QED BY <1>9, <1>10, <1>11, RequestBegins

\* An import writes rows that were new when it read, and nothing was saved since.
LEMMA ImportWriteKeeps ==
  ASSUME JournalInv, NEW r \in open, Trading!ImportWrite(r)
  PROVE  JournalInv' /\ \A i \in DOMAIN trades : trades'[i] = trades[i]
<1> DEFINE q == r.request
           new == q.valid
           more == [n \in DOMAIN new |-> Trading!Row(new[n], TRUE, "none", Trading!NoRules)]
<1>1. q.op = "import" /\ ImportNew(q)
  BY DEF JournalInv, Loaded, Trading!ImportWrite, Trading!InProgress
<1>2. trades' = trades \o more /\ open' = open \ {r} /\ UNCHANGED books
  BY DEF Trading!ImportWrite, Trading!End, Trading!None
<1>3. \A s \in open' : s.request.op # "import"
  BY <1>1, <1>2 DEF JournalInv, Alone
<1>4. ASSUME NEW n \in DOMAIN new
      PROVE  more[n] \in TradeRows /\ more[n].identity = new[n] /\ more[n].imported = TRUE
             /\ more[n].kept = {} /\ Whole(more[n])
  <2>1. new[n] \in Identities /\ "none" \in Named /\ Trading!NoRules \in Links
    BY <1>1, ReleasesAreVersions DEF ImportNew, Named, Links, Trading!NoRules, Trading!None
  <2>2. more[n] = Trading!Row(new[n], TRUE, "none", Trading!NoRules)
    BY <1>4
  <2> HIDE DEF more
  <2>3. more[n] \in TradeRows /\ more[n].identity = new[n] /\ more[n].imported = TRUE
        /\ more[n].kept = {} /\ more[n].book = "none" /\ more[n].rules = Trading!NoRules
    BY <2>1, <2>2 DEF Trading!Row, TradeRows, Texts, Additions
  <2>4. Whole(more[n])
    BY <2>3 DEF Whole, Trading!NoRules, Trading!None
  <2>. QED BY <2>3, <2>4
<1>5. more \in Seq(TradeRows) /\ DOMAIN more = DOMAIN new
  <2>1. new \in Seq(Identities)
    BY <1>1 DEF ImportNew
  <2>2. DOMAIN new = 1 .. Len(new) /\ Len(new) \in Nat
    BY <2>1
  <2>3. more = [n \in 1 .. Len(new) |-> more[n]]
    BY <2>2
  <2> HIDE DEF more
  <2>4. \A n \in 1 .. Len(new) : more[n] \in TradeRows
    BY <1>4, <2>2
  <2>5. more \in [1 .. Len(new) -> TradeRows]
    BY <2>3, <2>4
  <2>. QED BY <2>2, <2>5
<1> HIDE DEF more
<1>6. \A n \in DOMAIN more : more[n].imported =>
        /\ \A i \in DOMAIN trades : Intact(i) => trades[i].identity # more[n].identity
        /\ \A m \in DOMAIN more : m < n => more[m].identity # more[n].identity
  <2> SUFFICES ASSUME NEW n \in DOMAIN more
               PROVE  /\ \A i \in DOMAIN trades : Intact(i) => trades[i].identity # more[n].identity
                      /\ \A m \in DOMAIN more : m < n => more[m].identity # more[n].identity
    OBVIOUS
  <2>1. n \in DOMAIN new /\ more[n].identity = new[n]
    BY <1>4, <1>5
  <2>2. \A m \in DOMAIN more : more[m].identity = new[m]
    BY <1>4, <1>5
  <2>. QED BY <1>1, <1>5, <2>1, <2>2 DEF ImportNew
<1>7. JournalInv'
  <2>1. open' \subseteq open /\ \A n \in DOMAIN more : Whole(more[n]) /\ more[n].kept = {}
    BY <1>2, <1>4, <1>5
  <2>. QED BY <1>2, <1>3, <1>5, <1>6, <2>1, RowsAdded
<1>8. \A i \in DOMAIN trades : trades'[i] = trades[i]
  BY <1>2, <1>5 DEF JournalInv, Journalled
<1>. QED BY <1>7, <1>8

\* The playbooks, which no trade is written by, and the deletion of a trade.
LEMMA BookKeeps ==
  ASSUME JournalInv, NEW b \in Books, NEW op \in {"update", "archive"}, Trading!BookRead(op, b)
  PROVE  JournalInv'
<1> DEFINE q == [op |-> op, book |-> b, loaded |-> books[b]]
<1>1. Trading!Begin(q) /\ UNCHANGED <<trades, books>>
  BY DEF Trading!BookRead
<1>2. q.op = op /\ q.book = b /\ q.loaded = books[b]
  OBVIOUS
<1> HIDE DEF q
<1>3. Loaded(q)
  BY <1>2 DEF Loaded, BookLoaded, JournalInv
<1>. QED BY <1>1, <1>2, <1>3, RequestBegins

\* A playbook is rewritten or archived beside the trades that link to it.
LEMMA BookWriteKeeps ==
  ASSUME JournalInv, NEW r \in open, Trading!BookWrite(r)
  PROVE  JournalInv' /\ trades' = trades
<1> DEFINE q == r.request
           row == IF q.op = "update" THEN [version |-> q.loaded.version + 1, archived |-> FALSE]
                  ELSE [q.loaded EXCEPT !.archived = TRUE]
<1>1. q.book \in Books /\ q.loaded \in BookRows
  BY DEF JournalInv, Loaded, BookLoaded, Trading!BookWrite
<1>2. books' = [books EXCEPT ![q.book] = row] /\ trades' = trades /\ open' = open \ {r}
  BY DEF Trading!BookWrite, Trading!End
<1>7. q.op = "update" => q.loaded.version < MaxVersion
  BY DEF Trading!BookWrite
<1>3. row \in BookRows
  <2> DEFINE loaded == q.loaded
             flag == TRUE
             archived == [loaded EXCEPT !.archived = flag]
  <2>4. loaded \in BookRows /\ flag \in BOOLEAN
    BY <1>1
  <2> HIDE DEF q, loaded, flag
  <2>5. loaded.version \in Releases
    BY <2>4 DEF BookRows
  <2>6. archived \in BookRows
    BY <2>4 DEF BookRows
  <2>1. q.op = "update" => loaded.version + 1 \in Releases
    BY <1>7, <2>5, ReleasesAreVersions DEF loaded
  <2>2. CASE q.op = "update"
    BY <2>1, <2>2 DEF BookRows, loaded
  <2>3. CASE q.op # "update"
    BY <2>6, <2>3 DEF loaded, flag
  <2>. QED BY <2>2, <2>3
<1> HIDE DEF row
<1>4. books' \in [Books -> BookRows]
  BY <1>1, <1>2, <1>3 DEF JournalInv
<1>5. Alone' /\ Journalled'
  BY <1>2 DEF JournalInv, Alone, Journalled, Trading!ImportedOnce, Trading!Live,
     Trading!NotesKeepDrafts
<1>6. \A s \in open' : Loaded(s.request)'
  BY <1>2 DEF JournalInv, Loaded, FormShown, EditLoaded, AppendHeld, ImportNew, Intact, BookLoaded
<1>. QED BY <1>2, <1>4, <1>5, <1>6 DEF JournalInv

\* A trade is deleted, and no review is adding to it.
LEMMA DeleteKeeps ==
  ASSUME JournalInv, NEW i \in DOMAIN trades, Trading!Delete(i)
  PROVE  JournalInv' /\ \A k \in DOMAIN trades : trades'[k].rules = trades[k].rules
<1> DEFINE old == trades[i]
           t == [old EXCEPT !.live = FALSE]
<1>1. /\ old \in TradeRows /\ Whole(old) /\ old.kept \subseteq Trading!Range(old.notes)
  BY DEF JournalInv, Journalled, Trading!NotesKeepDrafts
<1>2. /\ trades' = [trades EXCEPT ![i] = t] /\ UNCHANGED <<books, open>>
      /\ \A r \in open : r.request.op = "append" => r.request.trade # i
  BY <1>1 DEF Trading!Delete, Trading!RowFree, Trading!InProgress, TradeRows
<1> HIDE DEF old
<1>3. /\ t \in TradeRows /\ t.live = FALSE /\ t.notes = old.notes /\ t.kept = old.kept
      /\ t.book = old.book /\ t.rules = old.rules
  BY <1>1 DEF TradeRows
<1> HIDE DEF t
<1>4. Whole(t)
  BY <1>1, <1>3 DEF Whole
<1>5. JournalInv'
  <2>1. open' \subseteq open
        /\ \A s \in open' : s.request.op = "append" /\ s.request.trade = i
             => t.notes = trades[i].notes
    BY <1>2
  <2>. QED BY <1>1, <1>2, <1>3, <1>4, <2>1, RowChanges
<1>. QED BY <1>2, <1>3, <1>5 DEF old

\* A save gives a trade the rules of a playbook that it had not when it was
\* loaded; nothing else changes the rules of a trade.
RulesKept ==
  \A i \in DOMAIN trades :
    trades'[i].book = trades[i].book /\ trades'[i].rules # trades[i].rules
      => \E r \in open \ open' : r.request.loaded.book # trades[i].book

\* Every step of the journal keeps all of it.
LEMMA JournalNext ==
  ASSUME JournalInv, Trading!Next
  PROVE  JournalInv' /\ RulesKept
<1>1. ASSUME NEW x \in Identities, NEW b \in Named, Trading!Create(x, b)
      PROVE  JournalInv' /\ RulesKept
  <2>1. \A i \in DOMAIN trades : trades'[i] = trades[i]
    <3>1. PICK row : trades' = Append(trades, row)
      BY <1>1 DEF Trading!Create
    <3>. QED BY <3>1 DEF JournalInv, Journalled
  <2>. QED BY <1>1, <2>1, CreateKeeps DEF RulesKept
<1>2. ASSUME NEW i \in DOMAIN trades, Trading!OpenForm(i) PROVE JournalInv' /\ RulesKept
  BY <1>2, FormKeeps DEF RulesKept, Trading!OpenForm
<1>11. ASSUME NEW r \in open, NEW x \in Identities, NEW wrote \in BOOLEAN, NEW b \in Named,
              Trading!Load(r, x, wrote, b)
       PROVE  JournalInv' /\ RulesKept
  <2>1. trades' = trades
    BY <1>11 DEF Trading!Load
  <2>. QED BY <1>11, <2>1, LoadKeeps DEF RulesKept
<1>3. ASSUME NEW i \in DOMAIN trades, NEW d \in Drafts, NEW e, Trading!AppendRead(i, d, e)
      PROVE  JournalInv' /\ RulesKept
  <2> DEFINE q == [op |-> "append", trade |-> i, draft |-> d, notes |-> trades[i].notes]
  <2>1. Trading!Begin(q) /\ UNCHANGED <<trades, books>> /\ Trading!RowFree(i)
    BY <1>3 DEF Trading!AppendRead
  <2>2. q.op = "append" /\ q.trade = i /\ q.draft = d /\ q.notes = trades[i].notes
    OBVIOUS
  <2> HIDE DEF q
  <2>3. Loaded(q)
    BY <2>2 DEF Loaded, AppendHeld
  <2>. QED BY <2>1, <2>2, <2>3, RequestBegins DEF RulesKept
<1>4. ASSUME NEW file \in Files, Trading!ImportRead(file) PROVE JournalInv' /\ RulesKept
  BY <1>4, ImportReadKeeps DEF RulesKept, Trading!ImportRead
<1>5. ASSUME NEW b \in Books, NEW op \in {"update", "archive"}, Trading!BookRead(op, b)
      PROVE  JournalInv' /\ RulesKept
  BY <1>5, BookKeeps DEF RulesKept, Trading!BookRead
<1>6. ASSUME NEW i \in DOMAIN trades, Trading!Delete(i) PROVE JournalInv' /\ RulesKept
  BY <1>6, DeleteKeeps DEF RulesKept
<1>7. ASSUME NEW r \in open, Trading!Save(r) PROVE JournalInv' /\ RulesKept
  <2>1. r \in open \ open'
    BY <1>7 DEF Trading!Save, Trading!End
  <2>. QED BY <1>7, <2>1, SaveKeeps DEF RulesKept
<1>8. ASSUME NEW r \in open, Trading!AppendWrite(r) PROVE JournalInv' /\ RulesKept
  BY <1>8, AppendKeeps DEF RulesKept
<1>9. ASSUME NEW r \in open, Trading!ImportWrite(r) PROVE JournalInv' /\ RulesKept
  BY <1>9, ImportWriteKeeps DEF RulesKept
<1>10. ASSUME NEW r \in open, Trading!BookWrite(r) PROVE JournalInv' /\ RulesKept
  BY <1>10, BookWriteKeeps DEF RulesKept
<1>. QED BY <1>1, <1>2, <1>3, <1>4, <1>5, <1>6, <1>7, <1>8, <1>9, <1>10,
         <1>11 DEF Trading!Next, Named, Trading!None

\* ... and so does every step of the services.
LEMMA JournalStep ==
  ASSUME JournalInv, [Next]_vars
  PROVE  JournalInv' /\ [RulesKept]_(Trading!vars)
<1>1. [Trading!Next]_(Trading!vars)
  BY DEF Next, Only, vars, journalVars, Trading!vars
<1>2. CASE UNCHANGED Trading!vars
  BY <1>2 DEF Trading!vars, JournalInv, Journalled, Trading!ImportedOnce, Trading!Live, Intact,
     Trading!NotesKeepDrafts, Alone, Loaded, FormShown, EditLoaded, AppendHeld, ImportNew, BookLoaded
<1>. QED BY <1>1, <1>2, JournalNext

\* The journal begins empty or with one trade.
LEMMA JournalInit ==
  ASSUME Trading!Init
  PROVE  JournalInv
<1>1. PICK i \in Identities, s \in BOOLEAN :
        trades = <<>> \/ trades = <<Trading!Row(i, s, "none", Trading!NoRules)>>
  BY DEF Trading!Init, Trading!None
<1> DEFINE t == Trading!Row(i, s, "none", Trading!NoRules)
<1>2. i \in Identities /\ "none" \in Named /\ Trading!NoRules \in Links
  BY ReleasesAreVersions DEF Named, Links, Trading!NoRules, Trading!None
<1>3. t \in TradeRows /\ t.kept = {} /\ t.book = "none" /\ t.rules = Trading!NoRules
  BY <1>2 DEF Trading!Row, TradeRows, Texts, Additions
<1>4. Whole(t)
  BY <1>3 DEF Whole, Trading!NoRules, Trading!None
<1> HIDE DEF t
<1>5. Journalled
  <2>1. CASE trades = <<>>
    BY <2>1 DEF Journalled, Trading!ImportedOnce, Trading!NotesKeepDrafts
  <2>2. CASE trades = <<t>>
    <3>1. trades \in Seq(TradeRows) /\ DOMAIN trades = {1} /\ trades[1] = t
      BY <1>3, <2>2
    <3>. QED BY <1>3, <1>4, <3>1 DEF Journalled, Trading!ImportedOnce, Trading!NotesKeepDrafts
  <2>. QED BY <1>1, <2>1, <2>2 DEF t
<1>6. open = {} /\ books \in [Books -> BookRows]
  BY ReleasesAreVersions DEF Trading!Init, BookRows
<1>. QED BY <1>5, <1>6 DEF JournalInv, Alone

\* All of it holds always.
LEMMA JournalInvariance == Spec => []JournalInv
<1>1. Init => JournalInv
  BY JournalInit DEF Init
<1>. QED BY <1>1, JournalStep, PTL DEF Spec

\* Requests are begun up to their bound.
BegunWithin == begun \in 0 .. MaxRequests

\* The rows, the playbooks and the requests counted are of their types.
LEMMA JournalTyped == Spec => []Trading!TypeOK
<1>1. Init => BegunWithin
  BY JournalAssumption DEF Init, Trading!Init, BegunWithin
<1>2. BegunWithin /\ [Next]_vars => BegunWithin'
  <2> SUFFICES ASSUME BegunWithin, [Trading!Next]_(Trading!vars) PROVE BegunWithin'
    BY DEF Next, Only, vars, journalVars, Trading!vars
  <2>1. begun' = begun \/ (begun < MaxRequests /\ begun' = begun + 1)
    BY DEF Trading!Next, Trading!vars, Trading!Create, Trading!OpenForm, Trading!Load, Trading!Delete,
       Trading!AppendRead, Trading!ImportRead, Trading!BookRead, Trading!Save,
       Trading!AppendWrite, Trading!ImportWrite, Trading!BookWrite, Trading!Begin, Trading!End
  <2>. QED BY <2>1, JournalAssumption DEF BegunWithin
<1>3. JournalInv /\ BegunWithin => Trading!TypeOK
  <2> SUFFICES ASSUME JournalInv, BegunWithin PROVE Trading!TypeOK
    OBVIOUS
  <2>1. ASSUME NEW i \in DOMAIN trades
        PROVE  /\ trades[i].identity \in Identities /\ trades[i].live \in BOOLEAN
               /\ trades[i].stored \in BOOLEAN /\ trades[i].edited \in BOOLEAN
               /\ trades[i].notes \in Texts /\ trades[i].kept \in Additions
               /\ trades[i].book \in Named /\ trades[i].rules \in Links
    <3>1. trades[i] \in TradeRows
      BY DEF JournalInv, Journalled
    <3>. QED BY <3>1 DEF TradeRows
  <2>2. books \in [Books -> BookRows] /\ begun \in 0 .. MaxRequests
    BY DEF JournalInv, BegunWithin
  <2>. QED BY <2>1, <2>2 DEF Trading!TypeOK, Trading!Linked, Trading!None, Texts, Additions,
              Named, Links, Versions, BookRows, Releases
<1>. QED BY <1>1, <1>2, <1>3, JournalInvariance, PTL DEF Spec

\* No import repeats a trade.  A draft whose addition was acknowledged is lost
\* only to a user who writes the notes, or who saves a form that was opened
\* before it with notes that are not those the server loads: neither to another
\* review that adds to the same notes, nor to an edit whose form has shown it,
\* nor to one that was loaded before it with the notes that were there.
THEOREM NothingEverLost == Spec => []NothingIsLost
<1>1. JournalInv => NothingIsLost
  BY DEF JournalInv, Journalled, NothingIsLost, Trading!NothingIsLost
<1>. QED BY <1>1, JournalInvariance, PTL

\* A trade has the rules of the playbook it names, and keeps those it was
\* linked with, though the playbook is rewritten or archived.
THEOREM HistoryAlwaysKept == Spec => HistoryIsKept
<1>1. JournalInv => Trading!LinkIsWhole
  BY DEF JournalInv, Journalled, Whole, Trading!LinkIsWhole
<1>2. JournalInv /\ [Next]_vars => [RulesKept]_(Trading!vars)
  BY JournalStep
<1>3. [][RulesKept]_(Trading!vars) <=> Trading!RulesAreKept
  BY DEF RulesKept, Trading!RulesAreKept
<1>. QED BY <1>1, <1>2, <1>3, JournalInvariance, PTL DEF Spec, HistoryIsKept, Trading!HistoryIsKept

-----------------------------------------------------------------------------
(* The practice session.                                                   *)

Positions == [side : Replay!Sides, entry : Replay!Levels, stop : Replay!Levels,
              target : Replay!Levels, fees : Fees]

\* The journal has the closed trades up to the last export, and the balance
\* is the sum of all of them.
PracticeInv ==
  /\ candle \in Replay!Candles
  /\ position \in Positions \cup {Replay!NoPosition}
  /\ closed \in Seq(Int)
  /\ balance = SumFunctionOnSet(closed, DOMAIN closed)
  /\ exported \in Nat /\ exported <= Len(closed)
  /\ imported \in Seq(Int) /\ Len(imported) = exported
  /\ \A i \in 1 .. exported : imported[i] = closed[i]

\* The sums of the replay are those of the theorems.
LEMMA ReplaySum == \A f, S : Replay!SumFunctionOnSet(f, S) = SumFunctionOnSet(f, S)
  BY DEF Replay!SumFunctionOnSet, Replay!FoldFunctionOnSet, Replay!MapThenFoldSet,
         SumFunctionOnSet, FoldFunctionOnSet, MapThenFoldSet

\* Two sequences that agree everywhere.
LEMMA SameSequence ==
  ASSUME NEW s \in Seq(Int), NEW t \in Seq(Int), Len(s) = Len(t),
         \A i \in 1 .. Len(s) : s[i] = t[i]
  PROVE  s = t
  OBVIOUS

\* One more closed trade adds its profit.
LEMMA AppendSum ==
  ASSUME NEW s \in Seq(Int), NEW x \in Int
  PROVE  /\ Append(s, x) \in Seq(Int) /\ Len(Append(s, x)) = Len(s) + 1
         /\ \A i \in 1 .. Len(s) : Append(s, x)[i] = s[i]
         /\ SumFunctionOnSet(Append(s, x), DOMAIN Append(s, x)) = SumFunctionOnSet(s, DOMAIN s) + x
<1> DEFINE t == Append(s, x)
           n == Len(s)
<1>1. /\ n \in Nat /\ DOMAIN s = 1 .. n /\ DOMAIN t = 1 .. n + 1 /\ t[n + 1] = x
      /\ t \in Seq(Int) /\ Len(t) = n + 1 /\ \A i \in 1 .. n : t[i] = s[i] /\ s[i] \in Int
  OBVIOUS
<1> HIDE DEF t, n
<1>2. 1 .. n + 1 = (1 .. n) \cup {n + 1} /\ n + 1 \notin 1 .. n
  BY <1>1
<1>3. IsFiniteSet(1 .. n)
  BY <1>1, FS_Interval
<1>4. \A i \in (1 .. n) \cup {n + 1} : t[i] \in Int
  BY <1>1
<1>5. SumFunctionOnSet(t, (1 .. n) \cup {n + 1}) = SumFunctionOnSet(t, 1 .. n) + t[n + 1]
  BY <1>2, <1>3, <1>4, SumAdd
<1>6. SumFunctionOnSet(t, 1 .. n) = SumFunctionOnSet(s, 1 .. n)
  BY <1>1, <1>3, SumSame
<1>7. SumFunctionOnSet(t, DOMAIN t) = SumFunctionOnSet(s, DOMAIN s) + x
  BY <1>1, <1>2, <1>5, <1>6
<1>. QED BY <1>1, <1>7 DEF t, n

\* Closing a position at a price.
LEMMA CloseKeeps ==
  ASSUME PracticeInv, NEW price \in Int, Replay!Held, Replay!Close(position, price),
         candle' \in Replay!Candles, UNCHANGED <<exported, imported>>
  PROVE  PracticeInv' /\ position' = Replay!NoPosition
         /\ closed' = Append(closed, (price - position.entry) * position.side - position.fees)
<1> DEFINE pnl == (price - position.entry) * position.side - position.fees
<1>1. position \in Positions
  BY DEF PracticeInv, Replay!Held
<1>2. pnl \in Int
  <2> DEFINE e == position.entry
             d == position.side
             f == position.fees
  <2>3. e \in Int /\ d \in {1, -1} /\ f \in Fees
    BY <1>1, PracticeAssumption DEF Positions, Replay!Levels, Replay!Prices, Replay!NoLevel,
       Replay!Sides
  <2>4. Fees \subseteq Int
    BY PracticeAssumption
  <2>1. e \in Int /\ d \in {1, -1} /\ f \in Int
    BY <2>3, <2>4
  <2> HIDE DEF e, d, f
  <2>2. (price - e) * d - f \in Int
    BY <2>1
  <2>. QED BY <2>2 DEF e, d, f
<1>3. closed' = Append(closed, pnl) /\ balance' = balance + pnl /\ position' = Replay!NoPosition
  BY DEF Replay!Close
<1> HIDE DEF pnl
<1>4. /\ closed' \in Seq(Int) /\ Len(closed') = Len(closed) + 1
      /\ \A i \in 1 .. Len(closed) : closed'[i] = closed[i]
      /\ balance' = SumFunctionOnSet(closed', DOMAIN closed')
  BY <1>2, <1>3, AppendSum DEF PracticeInv
<1> DEFINE n == Len(closed)
<1>5. n \in Nat
  BY DEF PracticeInv
<1>6. exported <= Len(closed') /\ \A i \in 1 .. exported : imported[i] = closed'[i]
  <2>1. exported <= n /\ exported \in Nat /\ Len(closed') = n + 1
    BY <1>4 DEF PracticeInv
  <2> HIDE DEF n
  <2>2. exported <= Len(closed') /\ \A i \in 1 .. exported : i \in 1 .. n
    BY <1>5, <2>1
  <2>. QED BY <1>4, <2>2 DEF PracticeInv, n
<1>7. PracticeInv'
  BY <1>3, <1>4, <1>6 DEF PracticeInv
<1>. QED BY <1>3, <1>7 DEF pnl

\* The price a candle closes a position at is one it has traded at, and no
\* better than the stop it went through.
LEMMA FillIsFair ==
  ASSUME NEW p \in Positions, NEW c \in Replay!Candles
  PROVE  /\ \A price \in Replay!Fill(p, c) :
              /\ price \in c.low .. c.high
              /\ Replay!Stopped(p, Replay!Worst(p, c)) /\ ~Replay!Reached(p, c.open)
                   => Replay!NoBetter(p.side, price, p.stop)
         /\ Replay!Fill(p, c) = {} =>
              ~Replay!Stopped(p, Replay!Worst(p, c)) /\ ~Replay!Reached(p, Replay!Best(p, c))
<1>1. /\ p.side \in {1, -1} /\ p.stop \in Int /\ p.target \in Int
      /\ c.open \in Int /\ c.low \in Int /\ c.high \in Int /\ c.low <= c.open /\ c.open <= c.high
  BY PracticeAssumption DEF Positions, Replay!Levels, Replay!Prices, Replay!NoLevel, Replay!Sides,
     Replay!Candles
<1>2. CASE p.side = 1
  BY <1>1, <1>2 DEF Replay!Fill, Replay!Stopped, Replay!Reached, Replay!Worst, Replay!Best,
     Replay!NoBetter
<1>3. CASE p.side = -1
  BY <1>1, <1>3 DEF Replay!Fill, Replay!Stopped, Replay!Reached, Replay!Worst, Replay!Best,
     Replay!NoBetter
<1>. QED BY <1>1, <1>2, <1>3

\* What a candle does to a position is fair.
Fair ==
  bar' # bar /\ Replay!Held =>
    LET p == position
        through == Replay!Stopped(p, Replay!Worst(p, candle')) IN
    IF position' = Replay!NoPosition
    THEN \E price \in candle'.low .. candle'.high :
           /\ closed' = Append(closed, (price - p.entry) * p.side - p.fees)
           /\ through /\ ~Replay!Reached(p, candle'.open) => Replay!NoBetter(p.side, price, p.stop)
    ELSE ~through /\ ~Replay!Reached(p, Replay!Best(p, candle'))

\* A candle is fair to the position it comes upon.
LEMMA StepKeeps ==
  ASSUME PracticeInv, NEW c \in Replay!Candles, Replay!Step(c)
  PROVE  PracticeInv' /\ Fair
<1>1. candle' = c /\ UNCHANGED <<exported, imported>>
  BY DEF Replay!Step, Replay!journal
<1>2. CASE ~Replay!Held
  <2>1. UNCHANGED <<position, closed, balance>>
    BY <1>2 DEF Replay!Step, Replay!account
  <2>. QED BY <1>1, <1>2, <2>1 DEF PracticeInv, Fair
<1>3. CASE Replay!Held /\ Replay!Fill(position, c) = {}
  <2>1. UNCHANGED <<position, closed, balance>> /\ position \in Positions
    BY <1>3 DEF Replay!Step, Replay!account, PracticeInv, Replay!Held
  <2>2. ~Replay!Stopped(position, Replay!Worst(position, c))
        /\ ~Replay!Reached(position, Replay!Best(position, c))
    BY <1>3, <2>1, FillIsFair
  <2>3. position' # Replay!NoPosition
    BY <1>3, <2>1 DEF Replay!Held
  <2>. QED BY <1>1, <2>1, <2>2, <2>3 DEF PracticeInv, Fair
<1>4. CASE Replay!Held /\ Replay!Fill(position, c) # {}
  <2>1. PICK price \in Replay!Fill(position, c) : Replay!Close(position, price)
    BY <1>4 DEF Replay!Step
  <2>2. position \in Positions
    BY <1>4 DEF PracticeInv, Replay!Held
  <2>3. /\ price \in c.low .. c.high
        /\ Replay!Stopped(position, Replay!Worst(position, c)) /\ ~Replay!Reached(position, c.open)
             => Replay!NoBetter(position.side, price, position.stop)
    BY <2>2, FillIsFair
  <2>4. price \in Int
    BY <2>3
  <2>5. PracticeInv' /\ position' = Replay!NoPosition
        /\ closed' = Append(closed, (price - position.entry) * position.side - position.fees)
    BY <1>1, <1>4, <2>1, <2>4, CloseKeeps
  <2>. QED BY <1>1, <2>3, <2>5 DEF Fair
<1>. QED BY <1>2, <1>3, <1>4

\* An export brings the trades since the last one.
LEMMA ExportKeeps ==
  ASSUME PracticeInv, Replay!Export
  PROVE  PracticeInv'
<1> DEFINE n == Len(closed)
           rest == SubSeq(closed, exported + 1, n)
           k == exported
           m == n - k
<1>1. /\ k \in Nat /\ n \in Nat /\ k < n /\ Len(imported) = k
      /\ closed \in Seq(Int) /\ imported \in Seq(Int)
  BY DEF PracticeInv, Replay!Export
<1>2. rest \in Seq(Int) /\ Len(rest) = m /\ \A i \in 1 .. m : rest[i] = closed[k + i]
  BY <1>1
<1>3. imported' = imported \o rest /\ exported' = n
      /\ UNCHANGED <<candle, position, closed, balance>>
  BY DEF Replay!Export, Replay!ExportedSoFar, Replay!market, Replay!account
<1>4. m \in Nat /\ k + m = n
  BY <1>1
<1> HIDE DEF rest, n, m
<1>5. /\ imported' \in Seq(Int) /\ Len(imported') = k + m
      /\ \A i \in 1 .. k + m : imported'[i] = IF i <= k THEN imported[i] ELSE rest[i - k]
  <2> DEFINE z == imported'
  <2>1. imported \in Seq(Int) /\ rest \in Seq(Int) /\ Len(imported) = k /\ Len(rest) = m
        /\ k \in Nat /\ m \in Nat /\ z = imported \o rest
    BY <1>1, <1>2, <1>3, <1>4
  <2> HIDE DEF z, k
  <2>2. z \in Seq(Int) /\ Len(z) = k + m
    BY ONLY <2>1
  <2>3. ASSUME NEW i \in 1 .. k + m PROVE z[i] = IF i <= k THEN imported[i] ELSE rest[i - k]
    BY ONLY <2>1
  <2>. QED BY <2>2, <2>3 DEF z, k
<1>6. imported' \in Seq(Int) /\ Len(imported') = n
  BY <1>4, <1>5
<1>7. \A i \in 1 .. n : imported'[i] = closed[i]
  <2> SUFFICES ASSUME NEW i \in 1 .. n PROVE imported'[i] = closed[i]
    OBVIOUS
  <2>1. CASE i <= k
    BY <1>1, <1>4, <1>5, <2>1 DEF PracticeInv
  <2>2. CASE i > k
    <3>1. imported'[i] = rest[i - k] /\ i - k \in 1 .. m /\ k + (i - k) = i
      BY <1>1, <1>4, <1>5, <2>2
    <3>. QED BY <1>2, <3>1
  <2>. QED BY <1>1, <2>1, <2>2
<1>. QED BY <1>1, <1>3, <1>6, <1>7 DEF PracticeInv, n

\* Every step of a session keeps all of it.
LEMMA PracticeNext ==
  ASSUME PracticeInv, Replay!Next
  PROVE  PracticeInv' /\ Fair
<1>1. ASSUME NEW s \in Replay!Sides, NEW stop \in Replay!Levels, NEW target \in Replay!Levels,
             NEW f \in Fees, Replay!Open(s, stop, target, f)
      PROVE  PracticeInv' /\ Fair
  <2>1. position' \in Positions
    BY <1>1, PracticeAssumption DEF Replay!Open, PracticeInv, Positions, Replay!Candles,
       Replay!Levels
  <2>2. UNCHANGED <<bar, candle, closed, balance, exported, imported>>
    BY <1>1 DEF Replay!Open, Replay!market, Replay!journal
  <2>. QED BY <2>1, <2>2 DEF PracticeInv, Fair
<1>2. CASE Replay!ManualClose
  <2>1. Replay!Held /\ Replay!Close(position, candle.close)
        /\ UNCHANGED <<bar, candle, exported, imported>>
    BY <1>2 DEF Replay!ManualClose, Replay!market, Replay!journal
  <2>2. candle.close \in Int /\ candle' \in Replay!Candles
    BY <2>1, PracticeAssumption DEF PracticeInv, Replay!Candles, Replay!Prices
  <2>. QED BY <2>1, <2>2, CloseKeeps DEF Fair
<1>3. ASSUME NEW stop \in Replay!Levels, NEW target \in Replay!Levels, Replay!Bracket(stop, target)
      PROVE  PracticeInv' /\ Fair
  <2>1. position' \in Positions
    BY <1>3 DEF Replay!Bracket, PracticeInv, Positions, Replay!Held
  <2>2. UNCHANGED <<bar, candle, closed, balance, exported, imported>>
    BY <1>3 DEF Replay!Bracket, Replay!market, Replay!journal
  <2>. QED BY <2>1, <2>2 DEF PracticeInv, Fair
<1>4. CASE Replay!Export
  BY <1>4, ExportKeeps DEF Replay!Export, Replay!market, Fair
<1>. QED BY <1>1, <1>2, <1>3, <1>4, StepKeeps DEF Replay!Next

\* ... and so does every step of the services.
LEMMA PracticeStep ==
  ASSUME PracticeInv, [Next]_vars
  PROVE  PracticeInv' /\ [Fair]_(Replay!vars)
<1>1. [Replay!Next]_(Replay!vars)
  BY DEF Next, Only, vars, practiceVars, Replay!vars, Replay!market, Replay!account, Replay!journal
<1>2. CASE UNCHANGED Replay!vars
  BY <1>2 DEF Replay!vars, Replay!market, Replay!account, Replay!journal, PracticeInv
<1>. QED BY <1>1, <1>2, PracticeNext

\* A session begins with nothing closed and nothing exported.
LEMMA PracticeInit == Replay!Init => PracticeInv
<1> SUFFICES ASSUME Replay!Init PROVE PracticeInv
  OBVIOUS
<1>1. closed = <<>> /\ balance = 0 /\ exported = 0 /\ imported = <<>>
      /\ position = Replay!NoPosition
  BY DEF Replay!Init
<1>2. candle \in Replay!Candles
  BY PracticeAssumption DEF Replay!Init, Replay!Candles, Replay!Prices
<1>3. DOMAIN closed = {}
  BY <1>1
<1>4. SumFunctionOnSet(closed, DOMAIN closed) = 0
  BY <1>3, SumEmpty
<1>. QED BY <1>1, <1>2, <1>4 DEF PracticeInv

\* The cursor stays on the candles.
CursorInside == bar \in 0 .. Bars

\* All of it holds always.
LEMMA PracticeInvariance == Spec => [](PracticeInv /\ CursorInside)
<1>1. Init => PracticeInv /\ CursorInside
  BY PracticeInit, PracticeAssumption DEF Init, Replay!Init, CursorInside
<1>2. PracticeInv /\ [Next]_vars => PracticeInv'
  BY PracticeStep
<1>3. CursorInside /\ [Next]_vars => CursorInside'
  <2> SUFFICES ASSUME CursorInside, [Replay!Next]_(Replay!vars) PROVE CursorInside'
    BY DEF Next, Only, vars, practiceVars, Replay!vars, Replay!market, Replay!account,
       Replay!journal
  <2>1. bar' = bar \/ (bar # Bars /\ bar' = bar + 1)
    BY DEF Replay!Next, Replay!vars, Replay!market, Replay!Step, Replay!Finished, Replay!Open,
       Replay!ManualClose, Replay!Bracket, Replay!Export
  <2>. QED BY <2>1, PracticeAssumption DEF CursorInside
<1>. QED BY <1>1, <1>2, <1>3, PTL DEF Spec

\* The candles, the position and the trades are of their types.
LEMMA PracticeTyped == Spec => []Replay!TypeOK
<1>1. PracticeInv /\ CursorInside => Replay!TypeOK
  <2> SUFFICES ASSUME PracticeInv, CursorInside PROVE Replay!TypeOK
    OBVIOUS
  <2>1. balance \in Int
    <3>1. \A i \in DOMAIN closed : closed[i] \in Int
      BY DEF PracticeInv
    <3>2. IsFiniteSet(DOMAIN closed)
      <4>1. Len(closed) \in Nat /\ DOMAIN closed = 1 .. Len(closed)
        BY DEF PracticeInv
      <4>. QED BY <4>1, FS_Interval
    <3>. QED BY <3>1, <3>2, SumType DEF PracticeInv
  <2>2. position \in [side : Replay!Sides \cup {0}, entry : Replay!Levels, stop : Replay!Levels,
                      target : Replay!Levels, fees : Fees \cup {0}]
    BY DEF PracticeInv, Positions, Replay!NoPosition, Replay!Levels, Replay!NoLevel
  <2>. QED BY <2>1, <2>2 DEF PracticeInv, CursorInside, Replay!TypeOK
<1>. QED BY <1>1, PracticeInvariance, PTL

\* However a session is replayed, closed and exported, the journal has its
\* trades once each, the balance is theirs, and no candle flatters its user.
THEOREM PracticeAlwaysHonest == Spec => PracticeIsHonest
<1>1. PracticeInv => Replay!ExportedOnce
  <2> SUFFICES ASSUME PracticeInv PROVE Replay!ExportedOnce
    OBVIOUS
  <2>1. imported = SubSeq(closed, 1, Len(imported))
    <3> DEFINE k == Len(imported)
               n == Len(closed)
               s == SubSeq(closed, 1, k)
    <3>1. k \in Nat /\ n \in Nat /\ k <= n /\ closed \in Seq(Int) /\ imported \in Seq(Int)
      BY DEF PracticeInv
    <3>2. s \in Seq(Int) /\ Len(s) = k /\ \A i \in 1 .. k : s[i] = closed[i]
      BY <3>1
    <3>3. \A i \in 1 .. k : imported[i] = closed[i]
      BY DEF PracticeInv
    <3> HIDE DEF s
    <3>4. imported = s
      BY <3>1, <3>2, <3>3, SameSequence
    <3>. QED BY <3>4 DEF s
  <2>. QED BY <2>1, ReplaySum DEF PracticeInv, Replay!ExportedOnce
<1>2. PracticeInv /\ [Next]_vars => [Fair]_(Replay!vars)
  BY PracticeStep
<1>3. [][Fair]_(Replay!vars) <=> Replay!FillsAreFair
  BY DEF Fair, Replay!FillsAreFair
<1>. QED BY <1>1, <1>2, <1>3, PracticeInvariance, PTL DEF Spec, PracticeIsHonest,
         Replay!PracticeIsHonest
=============================================================================
