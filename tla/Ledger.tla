------------------------------- MODULE Ledger -------------------------------
(***************************************************************************)
(* The ledger: backend/finance/ledger.go.                                  *)
(*                                                                         *)
(* Entries are created, changed, soft-deleted and undone by the members of *)
(* the WhatsApp group and by the sessions of the web panel.  Every change  *)
(* is one SQL transaction that locks the entry's row, writes it and        *)
(* appends an audit event with the row before and after.  The members'     *)
(* requests all come from one goroutine, the worker of the workspace       *)
(* (Inbox); the panel's come concurrently with it and with each other.     *)
(*                                                                         *)
(* Undoing is longer: the event to revert is picked by a query of its own, *)
(* then a transaction locks the event, asks whether a later change is in   *)
(* effect, locks the row and reverts it.  Those are the three steps of     *)
(* UndoLast, RestoreTransaction and revertEvent below.                     *)
(*                                                                         *)
(* An entry is named by what it comes from: an item of a message, or one   *)
(* submission of the panel's form.  The unique key on (source_inbox_id,    *)
(* source_item) makes creating it twice fail.  Inputs are those that pass  *)
(* the checks on single fields; one that does not changes nothing.         *)
(***************************************************************************)
EXTENDS Naturals, Sequences, FiniteSets

CONSTANTS
  Members,      \* who writes in the group
  Sessions,     \* requests of the panel that may run at the same time
  Txs,
  Batches,      \* the sequences of entries one call may create
  Categories,
  KindOf,       \* the kind a category begins with
  NoCategory,
  Amounts,
  Dates,
  Drafts,       \* the entries one may ask to create
  Patches,      \* the changes one may ask for
  Keep,         \* a field a patch leaves alone
  Editable,     \* bound: the categories the panel changes
  MaxEvents     \* bound: the length of the audit trail

Types == {"EXPENSE", "INCOME", "TRANSFER", "REFUND"}
Kinds == {"EXPENSE", "INCOME"}
Reasons == {"category_missing", "low_confidence", "amount_not_in_message",
            "possible_duplicate", "date_unclear"}

(* The columns of an entry that matter here. `possible_duplicate_of` is set *)
(* and cleared together with its reason; the free text fields behave like a *)
(* date that no reason is about.                                            *)
Contents == [type : Types, category : Categories \cup {NoCategory}, amount : Amounts, date : Dates,
             reasons : SUBSET Reasons, status : {"CONFIRMED", "PENDING"}]

ASSUME LedgerAssumption ==
  /\ KindOf \in [Categories -> Kinds]
  /\ NoCategory \notin Categories
  /\ Keep \notin Types /\ Keep \notin Categories /\ Keep \notin Amounts /\ Keep \notin Dates
  /\ Batches \subseteq Seq(Txs) /\ <<>> \notin Batches
  /\ \A b \in Batches : \A i, j \in DOMAIN b : b[i] = b[j] => i = j
  /\ Drafts \subseteq [type : Types, category : Categories \cup {NoCategory}, amount : Amounts,
                       date : Dates, reasons : SUBSET Reasons]
  /\ Patches \subseteq [type : Types \cup {Keep}, category : Categories \cup {Keep},
                        amount : Amounts \cup {Keep}, date : Dates \cup {Keep}, confirm : BOOLEAN]
  /\ Editable \subseteq Categories
  /\ MaxEvents \in Nat
  /\ Members \cap Sessions = {}

(* The goroutine that serves the members, and those that serve the panel.  *)
Chat == "chat"
Clients == {Chat} \cup Sessions

VARIABLES
  row,        \* [Txs -> Rows]
  events,     \* finance_transaction_events, by id
  undo,       \* the undo a client is in the middle of
  kind,       \* [Categories -> Kinds]
  archived,   \* categories
  kindSince   \* history: how long the trail was when a category's kind last changed

categoryVars == <<kind, archived, kindSince>>
vars == <<row, events, undo, categoryVars>>

NoRow == [there |-> FALSE]
Row(c, deleted) == [there |-> TRUE, content |-> c, deleted |-> deleted]
Exists(r) == r.there
Visible(r) == r.there /\ ~r.deleted

NoUndo == [step |-> "idle"]

Init ==
  /\ row = [t \in Txs |-> NoRow]
  /\ events = <<>>
  /\ undo = [c \in Clients |-> NoUndo]
  /\ kind = KindOf
  /\ archived = {}
  /\ kindSince = [k \in Categories |-> 0]

-----------------------------------------------------------------------------
(* normalizeInput. The category is read, not locked: a change of it that    *)
(* commits before the entry does is one that comes right after.            *)

KindFor(type) == IF type = "INCOME" THEN "INCOME" ELSE "EXPENSE"

(* Mutant: the kind of the category is not compared with the type.         *)
AcceptableAnyKind(in) ==
  in.type = "TRANSFER" \/ in.category \in {NoCategory} \cup (Categories \ archived)

Acceptable(in) ==
  \/ in.type = "TRANSFER"
  \/ in.category = NoCategory
  \/ in.category \in Categories \ archived /\ kind[in.category] = KindFor(in.type)

Normalized(in) ==
  LET category == IF in.type = "TRANSFER" THEN NoCategory ELSE in.category
      missing == category = NoCategory /\ in.type # "TRANSFER"
      reasons == in.reasons \cup (IF missing THEN {"category_missing"} ELSE {})
  IN [type |-> in.type, category |-> category, amount |-> in.amount, date |-> in.date,
      reasons |-> reasons, status |-> IF reasons = {} THEN "CONFIRMED" ELSE "PENDING"]

-----------------------------------------------------------------------------
(* The audit trail.                                                        *)

Event(t, action, actor, before, after) ==
  [tx |-> t, action |-> action, actor |-> actor, before |-> before, after |-> after, undoneBy |-> 0]

Room(n) == Len(events) + n <= MaxEvents

(* Who asks, and through which client.                                     *)
Requests == {<<m, Chat>> : m \in Members} \cup {<<s, s>> : s \in Sessions}

-----------------------------------------------------------------------------
(* CreateTransactions: all of a batch or nothing.                          *)
CreateTransactions(req, batch, drafts) ==
  LET fresh == [i \in DOMAIN batch |-> Row(Normalized(drafts[i]), FALSE)]
  IN /\ undo[req[2]] = NoUndo
     /\ Room(Len(batch))
     /\ \A i \in DOMAIN batch : ~Exists(row[batch[i]]) /\ Acceptable(drafts[i])
     /\ row' = [t \in Txs |-> IF \E i \in DOMAIN batch : batch[i] = t
                              THEN fresh[CHOOSE i \in DOMAIN batch : batch[i] = t]
                              ELSE row[t]]
     /\ events' = events \o
          [i \in DOMAIN batch |-> Event(batch[i], "CREATE", req[1], NoRow, fresh[i])]
     /\ UNCHANGED <<undo, categoryVars>>

(* The input UpdateTransaction builds from the row and the patch.          *)
Patched(c, p) ==
  LET switched == p.type # Keep /\ p.type # c.type
      wrongKind == c.category # NoCategory /\ kind[c.category] # KindFor(p.type)
  IN [type |-> IF p.type = Keep THEN c.type ELSE p.type,
      category |-> IF p.category # Keep THEN p.category
                   ELSE IF switched /\ wrongKind THEN NoCategory ELSE c.category,
      amount |-> IF p.amount = Keep THEN c.amount ELSE p.amount,
      date |-> IF p.date = Keep THEN c.date ELSE p.date,
      reasons |-> IF p.confirm THEN {}
                  ELSE c.reasons \ ({"category_missing"}
                         \cup (IF p.amount = Keep THEN {} ELSE {"amount_not_in_message"})
                         \cup (IF p.date = Keep THEN {} ELSE {"date_unclear"}))]

(* UpdateTransaction: a patch that changes nothing leaves no event.        *)
UpdateTransaction(req, t, p) ==
  LET before == row[t]
      in == Patched(before.content, p)
      after == Row(Normalized(in), FALSE)
  IN /\ undo[req[2]] = NoUndo
     /\ Room(1)
     /\ Visible(before)
     /\ Acceptable(in)
     /\ after # before
     /\ row' = [row EXCEPT ![t] = after]
     /\ events' = Append(events, Event(t, "UPDATE", req[1], before, after))
     /\ UNCHANGED <<undo, categoryVars>>

DeleteTransaction(req, t) ==
  LET after == [row[t] EXCEPT !.deleted = TRUE]
  IN /\ undo[req[2]] = NoUndo
     /\ Room(1)
     /\ Visible(row[t])
     /\ row' = [row EXCEPT ![t] = after]
     /\ events' = Append(events, Event(t, "DELETE", req[1], row[t], after))
     /\ UNCHANGED <<undo, categoryVars>>

-----------------------------------------------------------------------------
(* Undoing.                                                                *)

InEffect(i) == events[i].action # "UNDO" /\ events[i].undoneBy = 0

(* UndoLast: the member's last change still in effect; the 24 hours of      *)
(* UndoWindow may have passed, then there is nothing to undo.              *)
UndoLast(m) ==
  /\ undo[Chat] = NoUndo
  /\ \E i \in DOMAIN events :
       /\ InEffect(i) /\ events[i].actor = m
       /\ \A j \in DOMAIN events : InEffect(j) /\ events[j].actor = m => j <= i
       /\ undo' = [undo EXCEPT ![Chat] = [step |-> "picked", event |-> i, actor |-> m, seen |-> 0]]
  /\ UNCHANGED <<row, events, categoryVars>>

(* RestoreTransaction: the last DELETE of the entry still in effect.       *)
RestoreTransaction(s, t) ==
  LET Deletion(i) == InEffect(i) /\ events[i].tx = t /\ events[i].action = "DELETE"
  IN /\ undo[s] = NoUndo
     /\ \E i \in DOMAIN events :
          /\ Deletion(i)
          /\ \A j \in DOMAIN events : Deletion(j) => j <= i
          /\ undo' = [undo EXCEPT ![s] = [step |-> "picked", event |-> i, actor |-> s, seen |-> 0]]
     /\ UNCHANGED <<row, events, categoryVars>>

(* Mutant: nobody asks for later changes.                                  *)
LaterChangeIgnored(i) == FALSE

LaterChange(i) ==
  \E j \in DOMAIN events : j > i /\ events[j].tx = events[i].tx /\ InEffect(j)

(* It has seen the whole trail; the row is not locked yet.                  *)
Checked(u) == [u EXCEPT !.step = "checked", !.seen = Len(events)]

(* Mutant: the event is neither locked nor asked whether it is undone.     *)
LockEventBlindly(c) ==
  /\ undo[c].step = "picked"
  /\ undo' = [undo EXCEPT ![c] =
       IF LaterChange(undo[c].event) THEN NoUndo ELSE Checked(@)]
  /\ UNCHANGED <<row, events, categoryVars>>

(* revertEvent: the event is locked (whoever holds it goes first), found   *)
(* undone or not, and a later change in effect refuses the undo.           *)
LockEvent(c) ==
  LET i == undo[c].event
  IN /\ undo[c].step = "picked"
     /\ \A d \in Clients : undo[d].step = "checked" => undo[d].event # i
     /\ undo' = [undo EXCEPT ![c] =
          IF ~InEffect(i) \/ LaterChange(i) THEN NoUndo ELSE Checked(@)]
     /\ UNCHANGED <<row, events, categoryVars>>

(* revertEvent: lock the row, which others may have changed since the check, *)
(* write what it was, append the UNDO event and mark the reverted one.     *)
Reverted(current, e) ==
  CASE e.action = "CREATE" -> [current EXCEPT !.deleted = TRUE]
    [] e.action = "DELETE" -> [current EXCEPT !.deleted = FALSE]
    [] e.action = "UPDATE" -> e.before

(* Mutant: the reverted event is marked but the UNDO event is not written. *)
RevertEventUnrecorded(c) ==
  LET i == undo[c].event
      e == events[i]
  IN /\ undo[c].step = "checked"
     /\ Room(1)
     /\ row' = [row EXCEPT ![e.tx] = Reverted(@, e)]
     /\ events' = [events EXCEPT ![i].undoneBy = Len(events) + 1]
     /\ undo' = [undo EXCEPT ![c] = NoUndo]
     /\ UNCHANGED categoryVars

RevertEvent(c) ==
  LET i == undo[c].event
      e == events[i]
      after == Reverted(row[e.tx], e)
  IN /\ undo[c].step = "checked"
     /\ Room(1)
     /\ row' = [row EXCEPT ![e.tx] = after]
     /\ events' = Append([events EXCEPT ![i].undoneBy = Len(events) + 1],
                         Event(e.tx, "UNDO", undo[c].actor, row[e.tx], after))
     /\ undo' = [undo EXCEPT ![c] = NoUndo]
     /\ UNCHANGED categoryVars

(* The process dies, the request is cancelled or the database fails: the   *)
(* transaction is rolled back.                                             *)
Abort(c) ==
  /\ undo[c] # NoUndo
  /\ undo' = [undo EXCEPT ![c] = NoUndo]
  /\ UNCHANGED <<row, events, categoryVars>>

(* UpdateCategory with its `archived` flag and its kind. Nothing looks at   *)
(* the entries that use the category. Its second statement, which gives the *)
(* subcategories the parent's kind, is one more such change of each; the    *)
(* rules of the tree are CategoryTree's.                                   *)
UpdateCategory(k) ==
  \E shut \in BOOLEAN, to \in Kinds :
    /\ archived' = IF shut THEN archived \cup {k} ELSE archived \ {k}
    /\ kind' = [kind EXCEPT ![k] = to]
    /\ kindSince' = IF to = kind[k] THEN kindSince ELSE [kindSince EXCEPT ![k] = Len(events)]
    /\ UNCHANGED <<row, events, undo>>

-----------------------------------------------------------------------------
Next ==
  \/ \E req \in Requests :
       \/ \E b \in Batches : \E d \in [DOMAIN b -> Drafts] : CreateTransactions(req, b, d)
       \/ \E t \in Txs : DeleteTransaction(req, t) \/ \E p \in Patches : UpdateTransaction(req, t, p)
  \/ \E m \in Members : UndoLast(m)
  \/ \E s \in Sessions, t \in Txs : RestoreTransaction(s, t)
  \/ \E c \in Clients : LockEvent(c) \/ RevertEvent(c) \/ Abort(c)
  \/ \E k \in Editable : UpdateCategory(k)

Spec == Init /\ [][Next]_vars

-----------------------------------------------------------------------------
(* Properties.                                                             *)

Rows == {NoRow} \cup [there : {TRUE}, content : Contents, deleted : BOOLEAN]
Events == [tx : Txs, action : {"CREATE", "UPDATE", "DELETE", "UNDO"}, actor : Members \cup Sessions,
           before : Rows, after : Rows, undoneBy : 0..MaxEvents]
Undos == {NoUndo} \cup [step : {"picked", "checked"}, event : 1..MaxEvents, actor : Members \cup Sessions,
                      seen : 0..MaxEvents]

TypeOK ==
  /\ \A t \in Txs : row[t] = NoRow \/
       (row[t].there /\ row[t].deleted \in BOOLEAN /\ row[t].content.reasons \in SUBSET Reasons)
  /\ Len(events) <= MaxEvents
  /\ \A i \in DOMAIN events : events[i].tx \in Txs /\ events[i].undoneBy \in 0..Len(events)
  /\ \A c \in Clients : undo[c] = NoUndo \/ undo[c].event \in DOMAIN events
  /\ kind \in [Categories -> Kinds]
  /\ archived \in SUBSET Categories
  /\ kindSince \in [Categories -> 0..Len(events)]

(* The audit trail tells the whole story of an entry: it begins with its    *)
(* CREATE, every event starts from the row the previous one left, and the   *)
(* row is what the last one wrote - whoever else wrote at the same time.    *)
(* (ledger.go 292-294: "before and after snapshots in the same SQL          *)
(* transaction")                                                            *)
AuditChain ==
  \A t \in Txs :
    LET trail == {i \in DOMAIN events : events[i].tx = t}
        Previous(i) == {j \in trail : j < i}
        IsLast(j, S) == j \in S /\ \A k \in S : k <= j
    IN /\ trail = {} => row[t] = NoRow
       /\ \A i \in trail :
            /\ Previous(i) = {} => events[i].before = NoRow /\ events[i].action = "CREATE"
            /\ \A j \in trail : IsLast(j, Previous(i)) => events[i].before = events[j].after
            /\ IsLast(i, trail) => row[t] = events[i].after

(* A change is reverted at most once: every UNDO event reverts exactly one  *)
(* earlier event of its entry, also when a member and the panel undo the    *)
(* same deletion at the same time. (ledger.go 513-520)                      *)
UndoneOnce ==
  \A j \in DOMAIN events :
    LET reverted == {i \in DOMAIN events : events[i].undoneBy = j}
    IN /\ events[j].action # "UNDO" => reverted = {}
       /\ events[j].action = "UNDO" => Cardinality(reverted) = 1
       /\ \A i \in reverted : i < j /\ events[i].tx = events[j].tx

(* An entry that counts in the totals lacks nothing, whatever was patched,  *)
(* archived, moved to another kind and undone before: it has no open doubt, *)
(* and a category of the right kind (a transfer has none) - unless it had   *)
(* the very same content already when the kind of its category changed,     *)
(* which UpdateCategory does without a look at the entries.                *)
(* (normalizeInput, ledger.go 50-52 and 110-114; categories.go 220-260)    *)
ConfirmedIsComplete ==
  \A t \in Txs :
    Exists(row[t]) /\ row[t].content.status = "CONFIRMED" =>
      LET c == row[t].content
          HadIt(n) == \E i \in 1..n : events[i].tx = t /\ events[i].after.content = c
      IN /\ c.reasons = {}
         /\ IF c.type = "TRANSFER" THEN c.category = NoCategory
            ELSE /\ c.category \in Categories
                 /\ kind[c.category] = KindFor(c.type) \/ HadIt(kindSince[c.category])

(* What an undo may drop: a change that is reverted was locked by whoever    *)
(* reverts it, and any later change of the entry still in effect came after *)
(* it looked - in the window between its check and its row lock, never      *)
(* before. (revertEvent, ledger.go 513-537)                                *)
UndoDropsNothingSeen ==
  [][\A i \in DOMAIN events :
       events[i].undoneBy = 0 /\ events'[i].undoneBy # 0 =>
         \E c \in Clients :
           /\ undo[c].step = "checked" /\ undo[c].event = i
           /\ \A k \in DOMAIN events :
                events[k].tx = events[i].tx /\ InEffect(k) => k <= i \/ undo[c].seen < k]_vars

(* The reversal of change i dropped change k of the entry: k was made later *)
(* and was in effect.                                                      *)
Drops(i, k) ==
  LET j == events[i].undoneBy
  IN /\ j # 0 /\ i < k /\ k < j
     /\ events[k].tx = events[i].tx
     /\ events[k].action # "UNDO"
     /\ events[k].undoneBy = 0 \/ j < events[k].undoneBy

Torn == {t \in Txs : \E i, k \in DOMAIN events : events[i].tx = t /\ Drops(i, k)}

(* The trail implements a stack of changes per entry: the events in effect. *)
(* An undo takes away the change that was on top when it looked            *)
(* (ErrUndoStale, ledger.go 453-455); if another was put on top meanwhile,  *)
(* the entry is torn.                                                      *)
EffectiveTrail(t) == {i \in DOMAIN events : events[i].tx = t /\ InEffect(i)}

Shown(r) == IF Visible(r) THEN r.content ELSE NoRow

Stack == INSTANCE UndoStack WITH
           Contents <- Contents \cup {NoRow},
           Nothing <- NoRow,
           Numbers <- 1..MaxEvents,
           changes <- [t \in Txs |-> {[at |-> i, result |-> Shown(events[i].after)] : i \in EffectiveTrail(t)}],
           shown <- [t \in Txs |-> Shown(row[t])],
           looked <- {<<events[undo[c].event].tx, undo[c].event>> :
                        c \in {d \in Clients : undo[d].step = "checked"}},
           torn <- Torn

StackSpec == Stack!Spec

-----------------------------------------------------------------------------
(* What the documentation says and the code does not do.                   *)

(* ErrUndoStale, ledger.go 453-455: "the transaction changed after the      *)
(* action the actor wants to undo; reverting it would silently drop the     *)
(* later change". When an event is reverted, no later change of the entry   *)
(* is in effect.                                                           *)
UndoDropsNothing == \A i, k \in DOMAIN events : ~Drops(i, k)
=============================================================================
