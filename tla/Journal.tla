------------------------------ MODULE Journal -------------------------------
(***************************************************************************)
(* Trades, imports, playbooks and the notes an AI review adds              *)
(* (src/backend/journal_routes.py, src/backend/importer.py).               *)
(*                                                                         *)
(* A request is one transaction under READ COMMITTED, here the reads it    *)
(* starts with and the writes it commits.  A row it has loaded is written  *)
(* back in the columns it has changed only.  Imports, and what creates a   *)
(* trade, hold the user's lock; edits of a trade hold nothing, and an      *)
(* append holds the trade's row.  An edit begins on the page, whose form   *)
(* sends back all the fields it was opened with (src/src/Journal.tsx).     *)
(***************************************************************************)
EXTENDS Integers, Sequences, SequencesExt

CONSTANTS Identities,    \* what a fingerprint is taken of
          Books, Drafts, \* the playbooks; the drafts that reviews have written
          Files,         \* bound: the files imported, sequences of identities
          Unreadable,    \* what a row that is no trade is instead
          MaxRows,       \* 20,000 rows of a file
          MaxTrades, MaxVersion, MaxRequests,   \* bounds
          MaxOpen,       \* bound: the requests in progress at once
          NoteLimit      \* 10,000 characters, in notes

VARIABLES
  trades,    \* the rows, in the order they were made
  books,     \* the playbook Records
  open,      \* the requests in progress
  begun      \* how many there have been

vars == <<trades, books, open, begun>>

None == "none"
NoRules == [book |-> None, version |-> 0]

\* stored: the fingerprint column; edited: the user has saved the trade; kept:
\* the drafts whose addition was acknowledged, but those that a user has since
\* written over, or a form that had not shown them.
Row(identity, imported, book, rules) ==
  [live |-> TRUE, identity |-> identity, imported |-> imported, stored |-> imported,
   edited |-> FALSE, notes |-> <<>>, kept |-> {}, book |-> book, rules |-> rules]

Init ==
  /\ \E i \in Identities, s \in BOOLEAN : trades \in {<<>>, <<Row(i, s, None, NoRules)>>}
  /\ books = [b \in Books |-> [version |-> 1, archived |-> FALSE]]
  /\ open = {}
  /\ begun = 0

Live(i) == i \in DOMAIN trades /\ trades[i].live

-----------------------------------------------------------------------------
(* Requests.                                                               *)

Begin(request) ==
  /\ begun < MaxRequests
  /\ begun' = begun + 1
  /\ open' = open \cup {[id |-> begun, request |-> request]}

End(r) == open' = open \ {r} /\ UNCHANGED begun
InProgress(op) == {r \in open : r.request.op = op}

\* lock_user: an import holds it from its first read to its commit.
UserFree == InProgress("import") = {}

\* A trade's row is locked by the append that has read it.
RowFree(i) == \A r \in InProgress("append") : r.request.trade # i

Current(b) == [book |-> b, version |-> books[b].version]

\* Seeded fault: every save takes the playbook's present rules.
PresentRules(b, existing) == IF b = None THEN NoRules ELSE Current(b)

\* trade_playbook: a trade keeps the rules it was linked with.
Rules(b, existing) ==
  IF b = None THEN NoRules
  ELSE IF existing.book = b THEN existing.rules ELSE Current(b)

\* The playbook must be active, unless the trade has it.
MayLink(b, existing) == b \in Books \ {existing.book} => ~books[b].archived

-----------------------------------------------------------------------------
(* create_trade, update_trade, delete_trade                                *)

Create(identity, b) ==
  /\ UserFree
  /\ begun < MaxRequests /\ begun' = begun + 1
  /\ Len(trades) < MaxTrades
  /\ MayLink(b, [book |-> None])
  /\ trades' = Append(trades, Row(identity, FALSE, b, Rules(b, [book |-> None])))
  /\ UNCHANGED <<books, open>>

\* TradeEditor: a form is opened on the trade as the page has it.  One that is
\* closed is one that is never saved.
OpenForm(i) ==
  /\ Live(i)
  /\ Begin([op |-> "form", trade |-> i, notes |-> trades[i].notes, shown |-> trades[i].kept])
  /\ UNCHANGED <<trades, books>>

\* It is saved, with the notes that the user has written or with those it was
\* opened with: the trade is loaded and its new values are worked out ...
Load(r, identity, wrote, b) ==
  LET q == r.request
      i == q.trade
      notes == IF wrote THEN <<"typed">> ELSE q.notes IN
  /\ r \in InProgress("form")
  /\ Live(i)
  /\ MayLink(b, trades[i])
  /\ open' = (open \ {r}) \cup
       {[id |-> r.id, request |->
           [op |-> "edit", trade |-> i, loaded |-> trades[i], wrote |-> wrote, shown |-> q.shown,
            to |-> [identity |-> identity, notes |-> notes, book |-> b, rules |-> Rules(b, trades[i])]]]}
  /\ UNCHANGED <<trades, books, begun>>

\* The drafts that it does not write over, or writes with the notes it has shown.
Spared(q, row) ==
  CASE q.wrote -> {}
    [] ~q.wrote /\ q.to.notes = q.loaded.notes -> row.kept
    [] OTHER -> row.kept \cap q.shown

\* Seeded fault: every column is written back, as the edit has it.
EveryColumn(q, row) ==
  IF ~row.live THEN row
  ELSE [row EXCEPT !.identity = q.to.identity, !.notes = q.to.notes, !.book = q.to.book,
                   !.rules = q.to.rules, !.stored = FALSE, !.edited = TRUE, !.kept = Spared(q, row)]

\* ... and those that differ from what was loaded are written to what the row
\* is by then.
Written(q, row) ==
  LET Column(c) == IF q.to[c] = q.loaded[c] THEN row[c] ELSE q.to[c] IN
  IF ~row.live THEN row
  ELSE [row EXCEPT !.identity = Column("identity"), !.notes = Column("notes"),
                   !.book = Column("book"), !.rules = Column("rules"),
                   !.stored = FALSE, !.edited = TRUE,
                   !.kept = Spared(q, row)]

Save(r) ==
  LET q == r.request IN
  /\ r \in InProgress("edit")
  /\ RowFree(q.trade)
  /\ trades' = [trades EXCEPT ![q.trade] = Written(q, @)]
  /\ End(r)
  /\ UNCHANGED books

Delete(i) ==
  /\ Live(i) /\ RowFree(i)
  /\ begun < MaxRequests /\ begun' = begun + 1
  /\ trades' = [trades EXCEPT ![i].live = FALSE]
  /\ UNCHANGED <<books, open>>

-----------------------------------------------------------------------------
(* append_ai_note, with the notes its page has shown.                      *)

AppendRead(i, draft, expected) ==
  /\ Live(i) /\ RowFree(i)
  /\ trades[i].notes = expected
  /\ Len(expected) < NoteLimit
  /\ Begin([op |-> "append", trade |-> i, draft |-> draft, notes |-> trades[i].notes])
  /\ UNCHANGED <<trades, books>>

AppendWrite(r) ==
  LET q == r.request IN
  /\ r \in InProgress("append")
  /\ trades' = [trades EXCEPT ![q.trade].notes = Append(q.notes, q.draft),
                              ![q.trade].stored = FALSE,
                              ![q.trade].kept = @ \cup {q.draft}]
  /\ End(r)
  /\ UNCHANGED books

-----------------------------------------------------------------------------
(* preview_rows and commit_import                                          *)

\* Seeded fault: the stored fingerprints are compared, which an edit and an
\* append clear.
StoredFingerprints == {trades[i].identity : i \in {j \in DOMAIN trades : Live(j) /\ trades[j].stored}}

\* The fingerprints are taken again of the trades that are there.
Fingerprints == {trades[i].identity : i \in {j \in DOMAIN trades : Live(j)}}

\* read_table: a file that can be read has rows, and not too many.
Readable(file) == Len(file) \in 1 .. MaxRows

\* A row that can be read is valid unless a trade or an earlier row of the
\* file is the same.
Valid(file) ==
  {n \in DOMAIN file : file[n] \notin {Unreadable} \cup Fingerprints \cup {file[m] : m \in 1 .. n - 1}}

\* The order of the file.
InOrder(rows) == {s \in [1 .. Cardinality(rows) -> rows] : \A a, b \in DOMAIN s : a < b => s[a] < s[b]}

ImportRead(file) ==
  /\ UserFree
  /\ Readable(file)
  /\ \E rows \in InOrder(Valid(file)) :
       Begin([op |-> "import", valid |-> [n \in DOMAIN rows |-> file[rows[n]]]])
  /\ UNCHANGED <<trades, books>>

ImportWrite(r) ==
  LET new == r.request.valid IN
  /\ r \in InProgress("import")
  /\ Len(trades) + Len(new) <= MaxTrades
  /\ trades' = trades \o [n \in DOMAIN new |-> Row(new[n], TRUE, None, NoRules)]
  /\ End(r)
  /\ UNCHANGED books

-----------------------------------------------------------------------------
(* update_record and delete_record, of a playbook.                         *)

BookRead(op, b) ==
  /\ op = "update" => ~books[b].archived
  /\ Begin([op |-> op, book |-> b, loaded |-> books[b]])
  /\ UNCHANGED <<trades, books>>

\* The record's data is one column.
BookWrite(r) ==
  LET q == r.request IN
  /\ q.op \in {"update", "archive"}
  /\ q.op = "update" => q.loaded.version < MaxVersion
  /\ books' = [books EXCEPT ![q.book] =
                 IF q.op = "update" THEN [version |-> q.loaded.version + 1, archived |-> FALSE]
                                    ELSE [q.loaded EXCEPT !.archived = TRUE]]
  /\ End(r)
  /\ UNCHANGED trades

\* What the pages show of a trade's notes.
Pages(i) == {trades[i].notes} \cup {r.request.notes : r \in {r \in InProgress("form") : r.request.trade = i}}

Next ==
  \/ /\ Cardinality(open) < MaxOpen
     /\ \/ \E x \in Identities, b \in Books \cup {None} : Create(x, b)
        \/ \E i \in DOMAIN trades : OpenForm(i) \/ Delete(i)
        \/ \E i \in DOMAIN trades, d \in Drafts : \E e \in Pages(i) : AppendRead(i, d, e)
        \/ \E f \in Files : ImportRead(f)
        \/ \E b \in Books, op \in {"update", "archive"} : BookRead(op, b)
  \/ \E r \in open, x \in Identities, wrote \in BOOLEAN, b \in Books \cup {None} : Load(r, x, wrote, b)
  \/ \E r \in open : Save(r) \/ AppendWrite(r) \/ ImportWrite(r) \/ BookWrite(r)

Spec == Init /\ [][Next]_vars
-----------------------------------------------------------------------------
(* What holds.                                                             *)

Linked == [book : Books \cup {None}, version : 0 .. MaxVersion]

TypeOK ==
  /\ \A i \in DOMAIN trades :
       /\ trades[i].identity \in Identities /\ {trades[i].live, trades[i].stored, trades[i].edited} \subseteq BOOLEAN
       /\ trades[i].notes \in Seq(Drafts \cup {"typed"}) /\ trades[i].kept \subseteq Drafts
       /\ trades[i].book \in Books \cup {None} /\ trades[i].rules \in Linked
  /\ books \in [Books -> [version : 1 .. MaxVersion, archived : BOOLEAN]]
  /\ begun \in 0 .. MaxRequests

\* An import never adds a trade that is there already, though another import
\* runs, a trade is being entered, or a review has added to its notes; only
\* an edit gives a trade another's identity.
ImportedOnce ==
  \A i, j \in DOMAIN trades :
    i < j /\ trades[j].imported /\ (\A k \in {i, j} : Live(k) /\ ~trades[k].edited)
      => trades[i].identity # trades[j].identity

\* A draft whose addition was acknowledged stays in the notes until a user
\* writes them, or saves a form that was opened before it and whose notes are
\* not those the server loads: such a form sends old notes, and a draft it has
\* not shown is written over.  No other addition takes a draft out, and no
\* edit of other fields does whose form has shown it, or whose form has the
\* notes that are loaded though the draft is added before they are saved.
NotesKeepDrafts == \A i \in DOMAIN trades : trades[i].kept \subseteq Range(trades[i].notes)

NothingIsLost == ImportedOnce /\ NotesKeepDrafts

\* A trade has the rules of the playbook it names, ...
LinkIsWhole == \A i \in DOMAIN trades : trades[i].rules.book = trades[i].book

\* ... and keeps those it was linked with, though the playbook is rewritten
\* or archived: new ones come only with a save that has not seen the link.
RulesAreKept ==
  [][\A i \in DOMAIN trades :
       trades'[i].book = trades[i].book /\ trades'[i].rules # trades[i].rules
         => \E r \in open \ open' : r.request.loaded.book # trades[i].book]_vars

HistoryIsKept == []LinkIsWhole /\ RulesAreKept

\* tests/test_wallet.py:138: a playbook that was deleted is listed no more.
DeletedStaysDeleted == [][\A b \in Books : books[b].archived => books'[b].archived]_vars
=============================================================================
