---------------------------- MODULE LedgerProofs ----------------------------
(***************************************************************************)
(* Proofs about Ledger, for any clients, entries, batches, categories,     *)
(* drafts and patches, and any length of the audit trail.                  *)
(*                                                                         *)
(* Four invariants.  The trail of an entry is a chain that ends in its     *)
(* row.  Every UNDO event reverted one event, and an event that a client   *)
(* has locked is in effect and locked by nobody else.  Every row there is  *)
(* or was, to which an undo may go back, is complete if CONFIRMED; and its *)
(* category fits, or did until its kind was changed.                       *)
(***************************************************************************)
EXTENDS Ledger, FiniteSetTheorems, SequenceTheorems, WellFoundedInduction, TLAPS

(* Rows that were inserted.                                                *)
Full == [there : {TRUE}, content : Contents, deleted : BOOLEAN]

(* What normalizeInput is given.                                           *)
Inputs == [type : Types, category : Categories \cup {NoCategory}, amount : Amounts, date : Dates,
           reasons : SUBSET Reasons]

LedgerTypes ==
  /\ row \in [Txs -> Rows]
  /\ events \in Seq(Events) /\ Len(events) <= MaxEvents
  /\ undo \in [Clients -> Undos]
  /\ archived \in SUBSET Categories

(* The chain of one entry, whose row is r, in the trail es.                *)
Chained(es, r, t) ==
  /\ (\A i \in DOMAIN es : es[i].tx # t) => r = NoRow
  /\ \A i \in DOMAIN es : es[i].tx = t =>
       /\ (\A j \in DOMAIN es : es[j].tx = t => i <= j) => es[i].before = NoRow /\ es[i].action = "CREATE"
       /\ \A j \in DOMAIN es :
            es[j].tx = t /\ j < i /\ (\A k \in DOMAIN es : es[k].tx = t /\ k < i => k <= j)
            => es[i].before = es[j].after
       /\ (\A k \in DOMAIN es : es[k].tx = t => k <= i) => r = es[i].after

CompleteRow(r) ==
  Exists(r) /\ r.content.status = "CONFIRMED" =>
    /\ r.content.reasons = {}
    /\ IF r.content.type = "TRANSFER" THEN r.content.category = NoCategory
       ELSE r.content.category \in Categories

RowsInv ==
  /\ \A t \in Txs : CompleteRow(row[t])
  /\ \A i \in DOMAIN events :
       /\ events[i].after \in Full /\ (events[i].action # "CREATE" => events[i].before \in Full)
       /\ CompleteRow(events[i].before)
       /\ Exists(row[events[i].tx])

ChainInv == \A t \in Txs : Chained(events, row[t], t)

UndoneInv ==
  /\ \A i \in DOMAIN events :
       /\ events[i].undoneBy <= Len(events)
       /\ events[i].undoneBy # 0 =>
            /\ i < events[i].undoneBy
            /\ events[events[i].undoneBy].tx = events[i].tx
            /\ events[events[i].undoneBy].action = "UNDO"
       /\ events[i].action = "UNDO" => \E k \in DOMAIN events : events[k].undoneBy = i
  /\ \A i, k \in DOMAIN events : events[i].undoneBy = events[k].undoneBy /\ events[i].undoneBy # 0 => i = k

LockInv ==
  /\ \A c \in Clients : undo[c] # NoUndo => undo[c].event \in DOMAIN events
  /\ \A c \in Clients : undo[c].step = "checked" =>
       /\ InEffect(undo[c].event)
       /\ undo[c].seen \in 0 .. Len(events)
       /\ \A k \in DOMAIN events :
            events[k].tx = events[undo[c].event].tx /\ InEffect(k) => k <= undo[c].event \/ undo[c].seen < k
  /\ \A c, d \in Clients :
       undo[c].step = "checked" /\ undo[d].step = "checked" /\ undo[c].event = undo[d].event => c = d

LedgerInv == LedgerTypes /\ RowsInv /\ ChainInv /\ UndoneInv /\ LockInv

(* The contents an entry may have now or get back: each was written once,   *)
(* and if CONFIRMED it fits its category, or was there before the category  *)
(* last changed its kind.                                                  *)
Written(t, c) == \E i \in DOMAIN events : events[i].tx = t /\ events[i].after.content = c

Fits(t, c) ==
  c.status = "CONFIRMED" /\ c.category \in Categories =>
    \/ kind[c.category] = KindFor(c.type)
    \/ \E i \in DOMAIN events :
         i <= kindSince[c.category] /\ events[i].tx = t /\ events[i].after.content = c

KindInv ==
  /\ kind \in [Categories -> Kinds]
  /\ kindSince \in [Categories -> 0 .. Len(events)]
  /\ \A t \in Txs : Exists(row[t]) => Written(t, row[t].content) /\ Fits(t, row[t].content)
  /\ \A i \in DOMAIN events : Exists(events[i].before) =>
       Written(events[i].tx, events[i].before.content) /\ Fits(events[i].tx, events[i].before.content)

(* How a step takes the rows and the trail further: an event starts from    *)
(* the row it finds, and a row that is written gets a content it has, had,  *)
(* or that normalizeInput accepts.                                         *)
Accepted(t) ==
  /\ \E in \in Inputs : Acceptable(in) /\ row'[t].content = Normalized(in)
  /\ \E k \in DOMAIN events' : events'[k].tx = t /\ events'[k].after = row'[t]

Grown ==
  /\ kind' = kind /\ kindSince' = kindSince
  /\ Len(events) <= Len(events')
  /\ \A k \in DOMAIN events :
       /\ k \in DOMAIN events' /\ events'[k].tx = events[k].tx
       /\ events'[k].before = events[k].before /\ events'[k].after = events[k].after
  /\ \A k \in DOMAIN events' : k \in DOMAIN events \/ events'[k].before = row[events'[k].tx]
  /\ \A t \in Txs :
       \/ row'[t] = row[t]
       \/ Exists(row[t]) /\ row'[t].content = row[t].content
       \/ \E i \in DOMAIN events :
            events[i].tx = t /\ Exists(events[i].before) /\ row'[t].content = events[i].before.content
       \/ Accepted(t)

-----------------------------------------------------------------------------
(* Rows.                                                                   *)

LEMMA RowKinds ==
  /\ Rows = {NoRow} \cup Full
  /\ NoRow \notin Full /\ ~Exists(NoRow)
  /\ \A r \in Full : Exists(r)
  /\ \A r \in Rows : Exists(r) <=> r \in Full
<1>1. NoRow.there = FALSE
  BY DEF NoRow
<1>2. \A r \in Full : r.there = TRUE
  BY DEF Full
<1>3. Rows = {NoRow} \cup Full
  BY DEF Rows, Full
<1> QED
  BY <1>1, <1>2, <1>3 DEF Exists

LEMMA NormalizedComplete ==
  ASSUME NEW in \in Inputs, Acceptable(in)
  PROVE  /\ Row(Normalized(in), FALSE) \in Full
         /\ CompleteRow(Row(Normalized(in), FALSE))
  BY LedgerAssumption DEF Normalized, Row, Full, Contents, Inputs, Acceptable, CompleteRow, Exists, Types, Reasons

LEMMA PatchedInput ==
  ASSUME NEW c \in Contents, NEW p \in Patches
  PROVE  Patched(c, p) \in Inputs
<1>1. p \in [type : Types \cup {Keep}, category : Categories \cup {Keep},
             amount : Amounts \cup {Keep}, date : Dates \cup {Keep}, confirm : BOOLEAN]
  BY LedgerAssumption
<1> QED
  BY <1>1 DEF Patched, Contents, Inputs

-----------------------------------------------------------------------------
(* The chain.                                                              *)

LEMMA ChainAppend ==
  ASSUME NEW es \in Seq(Events), NEW e \in Events, NEW t \in Txs, NEW r, NEW s, Chained(es, r, t),
         e.tx = t => e.before = r /\ r # NoRow /\ s = e.after,
         e.tx # t => s = r
  PROVE  Chained(Append(es, e), s, t)
<1>1. PICK new : new = Append(es, e)
  OBVIOUS
<1>2. /\ Len(es) \in Nat /\ DOMAIN es = 1 .. Len(es) /\ DOMAIN new = 1 .. Len(es) + 1
      /\ new[Len(es) + 1] = e /\ \A i \in DOMAIN es : new[i] = es[i]
  BY <1>1
<1>3. CASE e.tx # t
  <2>1. \A i \in DOMAIN new : new[i].tx = t <=> i \in DOMAIN es /\ es[i].tx = t
    BY <1>2, <1>3
  <2>2. \A i \in DOMAIN es : new[i] = es[i] /\ i \in DOMAIN new
    BY <1>2
  <2> QED
    BY <1>1, <1>3, <2>1, <2>2 DEF Chained
<1>4. CASE e.tx = t
  <2>1. PICK n \in DOMAIN new : n = Len(es) + 1 /\ new[n] = e /\ n \notin DOMAIN es
                               /\ (\A i \in DOMAIN es : i < n /\ i \in Nat) /\ n \in Nat
    BY <1>2
  <2>2. \A i \in DOMAIN new : i = n \/ (i \in DOMAIN es /\ new[i] = es[i] /\ i < n)
    BY <1>2, <2>1
  <2>3. \A i \in DOMAIN es : i \in DOMAIN new /\ new[i] = es[i]
    BY <1>2
  <2>4. PICK first \in DOMAIN es : es[first].tx = t
    BY <1>4 DEF Chained
  <2>5. ASSUME NEW i \in DOMAIN new, new[i].tx = t, \A j \in DOMAIN new : new[j].tx = t => i <= j
        PROVE  new[i].before = NoRow /\ new[i].action = "CREATE"
    <3>1. i # n
      BY <2>1, <2>3, <2>4, <2>5
    <3>2. i \in DOMAIN es /\ new[i] = es[i]
      BY <2>2, <3>1
    <3> QED
      BY <2>3, <2>5, <3>2 DEF Chained
  <2>6. ASSUME NEW i \in DOMAIN new, NEW j \in DOMAIN new, new[i].tx = t, new[j].tx = t, j < i,
               \A k \in DOMAIN new : new[k].tx = t /\ k < i => k <= j
        PROVE  new[i].before = new[j].after
    <3>1. j \in DOMAIN es /\ new[j] = es[j]
      BY <2>1, <2>2, <2>6
    <3>2. CASE i = n
      <4>1. \A k \in DOMAIN es : es[k].tx = t => k <= j
        BY <2>1, <2>3, <2>6, <3>2
      <4> QED
        BY <1>4, <2>1, <2>6, <3>1, <3>2, <4>1 DEF Chained
    <3>3. CASE i \in DOMAIN es /\ new[i] = es[i]
      <4>1. \A k \in DOMAIN es : es[k].tx = t /\ k < i => k <= j
        BY <2>3, <2>6
      <4> QED
        BY <2>6, <3>1, <3>3, <4>1 DEF Chained
    <3> QED
      BY <2>2, <3>2, <3>3
  <2>7. ASSUME NEW i \in DOMAIN new, new[i].tx = t, \A k \in DOMAIN new : new[k].tx = t => k <= i
        PROVE  s = new[i].after
    <3>1. i = n
      BY <1>4, <2>1, <2>2, <2>7
    <3> QED
      BY <1>4, <2>1, <3>1
  <2>8. ~(\A i \in DOMAIN new : new[i].tx # t)
    BY <1>4, <2>1
  <2>9. Chained(new, s, t)
    BY <2>5, <2>6, <2>7, <2>8, Zenon DEF Chained
  <2> QED
    BY <1>1, <2>9, Zenon
<1> QED
  BY <1>3, <1>4

(* Marking an event as undone leaves the chain alone.                      *)
LEMMA ChainMark ==
  ASSUME NEW es, NEW fs, NEW t, NEW r, Chained(es, r, t), DOMAIN fs = DOMAIN es,
         \A i \in DOMAIN es : fs[i].tx = es[i].tx /\ fs[i].action = es[i].action
                              /\ fs[i].before = es[i].before /\ fs[i].after = es[i].after
  PROVE  Chained(fs, r, t)
  BY DEF Chained

(* Events of other entries leave it alone too.                             *)
LEMMA ChainOther ==
  ASSUME NEW es, NEW fs, NEW t, NEW r, Chained(es, r, t), DOMAIN es \subseteq DOMAIN fs,
         \A i \in DOMAIN es : fs[i] = es[i],
         \A i \in DOMAIN fs \ DOMAIN es : fs[i].tx # t
  PROVE  Chained(fs, r, t)
<1>1. \A i \in DOMAIN fs : fs[i].tx = t => i \in DOMAIN es /\ fs[i] = es[i]
  OBVIOUS
<1>2. \A i \in DOMAIN es : i \in DOMAIN fs /\ fs[i] = es[i]
  OBVIOUS
<1> QED
  BY <1>1, <1>2 DEF Chained

(* The one event of an entry begins its chain.                             *)
LEMMA ChainFresh ==
  ASSUME NEW fs, NEW t, NEW r, DOMAIN fs \subseteq Nat, NEW n \in DOMAIN fs,
         fs[n].tx = t, fs[n].action = "CREATE", fs[n].before = NoRow, fs[n].after = r,
         \A i \in DOMAIN fs : fs[i].tx = t => i = n
  PROVE  Chained(fs, r, t)
  BY DEF Chained

-----------------------------------------------------------------------------
(* What a step does to the changes in effect of entry t, whose row it takes *)
(* from r to s and whose trail from es to fs.                              *)
Effective(es, t) == {i \in DOMAIN es : es[i].tx = t /\ es[i].action # "UNDO" /\ es[i].undoneBy = 0}

Recorded(es, fs, t) ==
  \A i \in Effective(es, t) :
    fs[i].action = es[i].action /\ fs[i].before = es[i].before /\ fs[i].after = es[i].after

Leaves(es, fs, r, s, t) ==
  /\ Effective(fs, t) = Effective(es, t) /\ Recorded(es, fs, t)
  /\ s = r

Pushes(es, fs, r, s, t, n) ==
  /\ n \in 1 .. MaxEvents /\ \A i \in Effective(es, t) : i < n
  /\ Effective(fs, t) = Effective(es, t) \cup {n} /\ Recorded(es, fs, t)
  /\ fs[n].after = s
  /\ \/ fs[n].action = "CREATE" /\ Effective(es, t) = {}
     \/ /\ fs[n].action \in {"UPDATE", "DELETE"}
        /\ Visible(r) /\ fs[n].before = r
        /\ fs[n].action = "DELETE" => s = [r EXCEPT !.deleted = TRUE]

Pops(es, fs, r, s, t, i) ==
  /\ i \in Effective(es, t) /\ \A j \in Effective(es, t) : j <= i
  /\ Effective(fs, t) = Effective(es, t) \ {i} /\ Recorded(es, fs, t)
  /\ s = Reverted(r, es[i])

LeavesRow(t) == Leaves(events, events', row[t], row'[t], t)
PushesRow(t, n) == Pushes(events, events', row[t], row'[t], t, n)
PopsRow(t, i) == Pops(events, events', row[t], row'[t], t, i)

(* What a step does to the trail: more changes, or one change marked as     *)
(* undone by the UNDO event it appends.                                    *)
Extends ==
  /\ \A k \in DOMAIN events : k \in DOMAIN events' /\ events'[k] = events[k]
  /\ \A k \in DOMAIN events' : k \in DOMAIN events \/ events'[k].undoneBy = 0

Marks(i) ==
  /\ Len(events) + 1 \in DOMAIN events' /\ Len(events) + 1 \notin DOMAIN events
  /\ events'[Len(events) + 1].undoneBy = 0 /\ events'[Len(events) + 1].action = "UNDO"
  /\ \A k \in DOMAIN events' : k = Len(events) + 1 \/ k \in DOMAIN events
  /\ \A k \in DOMAIN events :
       /\ k \in DOMAIN events' /\ k < Len(events) + 1
       /\ events'[k].tx = events[k].tx /\ events'[k].action = events[k].action
       /\ events'[k].undoneBy = IF k = i THEN Len(events) + 1 ELSE events[k].undoneBy

LEMMA AppendOther ==
  ASSUME NEW es \in Seq(Events), NEW e \in Events, NEW t, e.tx # t \/ e.action = "UNDO"
  PROVE  Effective(Append(es, e), t) = Effective(es, t) /\ Recorded(es, Append(es, e), t)
<1>1. PICK fs : fs = Append(es, e)
  OBVIOUS
<1>2. /\ DOMAIN es = 1 .. Len(es) /\ DOMAIN fs = 1 .. Len(es) + 1 /\ Len(es) \in Nat
      /\ fs[Len(es) + 1] = e /\ \A i \in DOMAIN es : fs[i] = es[i]
  BY <1>1
<1>3. \A i : i \in DOMAIN fs <=> i \in DOMAIN es \/ i = Len(es) + 1
  BY <1>2
<1>4. Effective(fs, t) = Effective(es, t)
  BY <1>2, <1>3 DEF Effective
<1>5. Recorded(es, fs, t)
  BY <1>2 DEF Effective, Recorded
<1> QED
  BY <1>1, <1>4, <1>5

LEMMA AppendChange ==
  ASSUME NEW es \in Seq(Events), NEW e \in Events, NEW t, e.tx = t, e.action # "UNDO", e.undoneBy = 0,
         Len(es) + 1 <= MaxEvents, NEW r,
         /\ e.action \in {"UPDATE", "DELETE"} /\ Visible(r) /\ e.before = r
         /\ e.action = "DELETE" => e.after = [r EXCEPT !.deleted = TRUE]
  PROVE  Pushes(es, Append(es, e), r, e.after, t, Len(es) + 1)
<1>1. PICK fs, n : fs = Append(es, e) /\ n = Len(es) + 1
  OBVIOUS
<1>2. /\ DOMAIN es = 1 .. Len(es) /\ DOMAIN fs = 1 .. Len(es) + 1 /\ Len(es) \in Nat
      /\ fs[n] = e /\ \A i \in DOMAIN es : fs[i] = es[i]
  BY <1>1
<1>3. \A i : i \in DOMAIN fs <=> i \in DOMAIN es \/ i = n
  BY <1>1, <1>2
<1>4. Effective(fs, t) = Effective(es, t) \cup {n}
  BY <1>2, <1>3 DEF Effective
<1>5. Recorded(es, fs, t)
  BY <1>2 DEF Effective, Recorded
<1>6. n \in 1 .. MaxEvents /\ \A i \in DOMAIN es : i < n
  BY <1>1, <1>2, LedgerAssumption
<1>7. \A i \in Effective(es, t) : i < n
  BY <1>6 DEF Effective
<1>8. Pushes(es, fs, r, e.after, t, n)
  BY <1>2, <1>4, <1>5, <1>6, <1>7 DEF Pushes
<1> QED
  BY <1>1, <1>8

-----------------------------------------------------------------------------
(* Events that are changes disturb neither what was undone nor what is      *)
(* locked: who holds a lock has not seen them.                             *)
LEMMA Extended ==
  ASSUME LedgerTypes, UndoneInv, LockInv, undo' = undo,
         NEW n \in Nat, DOMAIN events' = 1 .. n, Len(events) <= n, Len(events') = n,
         \A k \in DOMAIN events : events'[k] = events[k],
         \A k \in DOMAIN events' : k \notin DOMAIN events =>
           events'[k].action # "UNDO" /\ events'[k].undoneBy = 0
  PROVE  UndoneInv' /\ LockInv'
<1>1. /\ Len(events) \in Nat /\ DOMAIN events = 1 .. Len(events)
      /\ DOMAIN events \subseteq DOMAIN events'
      /\ \A k \in DOMAIN events : events[k].undoneBy \in Nat
  <2>1. /\ Len(events) \in Nat /\ DOMAIN events = 1 .. Len(events)
        /\ \A k \in DOMAIN events : events[k] \in Events
    BY DEF LedgerTypes
  <2>2. DOMAIN events \subseteq DOMAIN events'
    BY <2>1
  <2>3. \A k \in DOMAIN events : events[k].undoneBy \in Nat
    BY <2>1, LedgerAssumption DEF Events
  <2> QED
    BY <2>1, <2>2, <2>3
<1>2. UndoneInv'
  <2>1. ASSUME NEW i \in DOMAIN events'
        PROVE  /\ events'[i].undoneBy <= Len(events')
               /\ events'[i].undoneBy # 0 =>
                    /\ i < events'[i].undoneBy
                    /\ events'[events'[i].undoneBy].tx = events'[i].tx
                    /\ events'[events'[i].undoneBy].action = "UNDO"
               /\ events'[i].action = "UNDO" => \E k \in DOMAIN events' : events'[k].undoneBy = i
    <3>1. CASE i \in DOMAIN events
      <4>1. events'[i] = events[i] /\ events[i].undoneBy \in 0 .. Len(events)
        BY <1>1, <3>1 DEF UndoneInv
      <4>2. events[i].undoneBy # 0 => events'[events[i].undoneBy] = events[events[i].undoneBy]
        BY <1>1, <4>1
      <4> QED
        BY <1>1, <3>1, <4>1, <4>2 DEF UndoneInv
    <3>2. CASE i \notin DOMAIN events
      BY <3>2
    <3> QED
      BY <3>1, <3>2
  <2>2. \A i, k \in DOMAIN events' : events'[i].undoneBy = events'[k].undoneBy /\ events'[i].undoneBy # 0 => i = k
    BY <1>1 DEF UndoneInv
  <2> QED
    BY <2>1, <2>2 DEF UndoneInv
<1>3. LockInv'
  <2>1. \A c \in Clients : undo[c].step = "checked" => undo[c].event \in DOMAIN events
    BY DEF LockInv, NoUndo
  <2>2. ASSUME NEW c \in Clients, undo[c].step = "checked"
        PROVE  /\ InEffect(undo[c].event)'
               /\ undo[c].seen \in 0 .. Len(events')
               /\ \A k \in DOMAIN events' :
                    events'[k].tx = events'[undo[c].event].tx /\ InEffect(k)'
                      => k <= undo[c].event \/ undo[c].seen < k
    <3>1. InEffect(undo[c].event)'
      BY <2>1, <2>2 DEF LockInv, InEffect
    <3>2. undo[c].seen \in 0 .. Len(events)
      BY <2>2 DEF LockInv
    <3>3. undo[c].seen \in 0 .. Len(events')
      BY <1>1, <3>2
    <3>4. ASSUME NEW k \in DOMAIN events', events'[k].tx = events'[undo[c].event].tx, InEffect(k)'
          PROVE  k <= undo[c].event \/ undo[c].seen < k
      <4>1. CASE k \in DOMAIN events
        <5>1. events[k].tx = events[undo[c].event].tx /\ InEffect(k)
          BY <2>1, <2>2, <3>4, <4>1 DEF InEffect
        <5> QED
          BY <2>2, <4>1, <5>1 DEF LockInv
      <4>2. CASE k \notin DOMAIN events
        BY <1>1, <3>2, <4>2
      <4> QED
        BY <4>1, <4>2
    <3> QED
      BY <3>1, <3>3, <3>4
  <2> QED
    BY <1>1, <2>1, <2>2 DEF LockInv
<1> QED
  BY <1>2, <1>3

-----------------------------------------------------------------------------
(* One change of one entry: UpdateTransaction and DeleteTransaction.       *)
LEMMA OneChange ==
  ASSUME LedgerInv, NEW t \in Txs, NEW after \in Full, CompleteRow(after), row[t] \in Full,
         NEW e \in Events, e.tx = t, e.action \in {"UPDATE", "DELETE"}, e.before = row[t], e.after = after,
         e.undoneBy = 0, Room(1), Visible(row[t]),
         e.action = "DELETE" => after = [row[t] EXCEPT !.deleted = TRUE],
         row' = [row EXCEPT ![t] = after], events' = Append(events, e), UNCHANGED <<undo, categoryVars>>
  PROVE  LedgerInv' /\ PushesRow(t, Len(events) + 1) /\ \A u \in Txs : u # t => LeavesRow(u)
<1>1. LedgerTypes /\ RowsInv /\ ChainInv /\ UndoneInv /\ LockInv
  BY DEF LedgerInv
<1>2. PICK n \in Nat : n = Len(events) + 1
  BY <1>1 DEF LedgerTypes
<1>3. /\ events \in Seq(Events) /\ Len(events) \in Nat /\ DOMAIN events = 1 .. Len(events)
      /\ Len(events) <= n /\ n <= MaxEvents
  BY <1>1, <1>2 DEF LedgerTypes, Room
<1>4. /\ events' \in Seq(Events) /\ Len(events') = n /\ DOMAIN events' = 1 .. n /\ events'[n] = e
      /\ \A k \in DOMAIN events : events'[k] = events[k]
  BY <1>2, <1>3
<1>5. \A k \in DOMAIN events' : k = n \/ k \in DOMAIN events
  BY <1>2, <1>3, <1>4
<1>6. row \in [Txs -> Rows] /\ row' \in [Txs -> Rows] /\ row'[t] = after
      /\ \A u \in Txs : u # t => row'[u] = row[u]
  BY <1>1, RowKinds DEF LedgerTypes
<1>7. LedgerTypes'
  BY <1>1, <1>3, <1>4, <1>6 DEF LedgerTypes, categoryVars
<1>8. RowsInv'
  <2>1. \A u \in Txs : CompleteRow(row'[u])
    BY <1>1, <1>6 DEF RowsInv
  <2>2. \A u \in Txs : Exists(row[u]) => Exists(row'[u])
    BY <1>6, RowKinds
  <2>3. \A i \in DOMAIN events : events[i].tx \in Txs
    <3>1. \A i \in DOMAIN events : events[i] \in Events
      BY <1>3
    <3> QED
      BY <3>1 DEF Events
  <2>4. ASSUME NEW i \in DOMAIN events'
        PROVE  /\ events'[i].after \in Full /\ (events'[i].action # "CREATE" => events'[i].before \in Full)
               /\ CompleteRow(events'[i].before)
               /\ Exists(row'[events'[i].tx])
    <3>1. CASE i = n
      BY <1>1, <1>4, <1>6, <3>1, RowKinds DEF RowsInv
    <3>2. CASE i \in DOMAIN events
      BY <1>1, <1>4, <2>2, <2>3, <3>2 DEF RowsInv
    <3> QED
      BY <1>5, <3>1, <3>2
  <2> QED
    BY <2>1, <2>4 DEF RowsInv
<1>9. ChainInv'
  <2>1. ASSUME NEW u \in Txs
        PROVE  Chained(events', row'[u], u)
    <3>1. Chained(events, row[u], u)
      BY <1>1 DEF ChainInv
    <3>2. /\ e.tx = u => e.before = row[u] /\ row[u] # NoRow /\ row'[u] = e.after
          /\ e.tx # u => row'[u] = row[u]
      BY <1>6, RowKinds
    <3>3. PICK old, new : old = row[u] /\ new = row'[u]
      OBVIOUS
    <3>4. PICK es : es = events
      OBVIOUS
    <3>5. Chained(Append(es, e), new, u)
      BY <1>3, <3>1, <3>2, <3>3, <3>4, ChainAppend
    <3> QED
      BY <3>3, <3>4, <3>5
  <2> QED
    BY <2>1 DEF ChainInv
<1>10. UndoneInv' /\ LockInv'
  BY <1>1, <1>3, <1>4, <1>5, Extended
<1>11. PushesRow(t, Len(events) + 1)
  <2>1. PICK es, r : es = events /\ r = row[t]
    OBVIOUS
  <2>2. Pushes(es, Append(es, e), r, e.after, t, Len(es) + 1)
    BY <1>2, <1>3, <2>1, AppendChange
  <2> QED
    BY <1>6, <2>1, <2>2 DEF PushesRow
<1>12. ASSUME NEW u \in Txs, u # t
       PROVE  LeavesRow(u)
  <2>1. PICK es : es = events
    OBVIOUS
  <2>2. Effective(Append(es, e), u) = Effective(es, u) /\ Recorded(es, Append(es, e), u)
    BY <1>3, <1>12, <2>1, AppendOther
  <2> QED
    BY <1>6, <1>12, <2>1, <2>2 DEF LeavesRow, Leaves
<1> QED
  BY <1>7, <1>8, <1>9, <1>10, <1>11, <1>12 DEF LedgerInv

LEMMA RequestKinds ==
  ASSUME NEW req \in Requests
  PROVE  req[1] \in Members \cup Sessions /\ req[2] \in Clients
  BY DEF Requests, Clients

LEMMA OneGrows ==
  ASSUME LedgerInv, NEW t \in Txs, NEW after, NEW e \in Events, e.tx = t, e.before = row[t], e.after = after,
         row' = [row EXCEPT ![t] = after], events' = Append(events, e), UNCHANGED <<undo, categoryVars>>,
         \/ Exists(row[t]) /\ after.content = row[t].content
         \/ \E in \in Inputs : Acceptable(in) /\ after.content = Normalized(in),
         e.undoneBy = 0
  PROVE  Grown /\ Extends
<1>1. LedgerTypes
  BY DEF LedgerInv
<1>2. PICK n \in Nat : n = Len(events) + 1
  BY <1>1 DEF LedgerTypes
<1>3. events \in Seq(Events) /\ DOMAIN events = 1 .. Len(events) /\ Len(events) \in Nat
  BY <1>1 DEF LedgerTypes
<1>4. /\ Len(events') = n /\ DOMAIN events' = 1 .. n /\ events'[n] = e
      /\ \A k \in DOMAIN events : events'[k] = events[k]
  BY <1>2, <1>3
<1>5. \A k \in DOMAIN events' : k = n \/ k \in DOMAIN events
  BY <1>2, <1>3, <1>4
<1>6. row'[t] = after /\ \A u \in Txs : u # t => row'[u] = row[u]
  BY <1>1 DEF LedgerTypes
<1>7. /\ kind' = kind /\ kindSince' = kindSince /\ Len(events) <= Len(events')
      /\ \A k \in DOMAIN events : k \in DOMAIN events'
  BY <1>2, <1>3, <1>4 DEF categoryVars
<1>8. \A k \in DOMAIN events' : k \in DOMAIN events \/ events'[k].before = row[events'[k].tx]
  BY <1>4, <1>5
<1>9. (Exists(row[t]) /\ row'[t].content = row[t].content) \/ Accepted(t)
  <2>1. n \in DOMAIN events' /\ events'[n].tx = t /\ events'[n].after = row'[t]
    BY <1>2, <1>4, <1>6
  <2> QED
    BY <1>6, <2>1 DEF Accepted
<1> QED
  BY <1>4, <1>5, <1>6, <1>7, <1>8, <1>9 DEF Grown, Extends

LEMMA UpdateKeeps ==
  ASSUME LedgerInv, NEW req \in Requests, NEW t \in Txs, NEW p \in Patches, UpdateTransaction(req, t, p)
  PROVE  LedgerInv' /\ Grown /\ Extends /\ PushesRow(t, Len(events) + 1) /\ \A u \in Txs : u # t => LeavesRow(u)
<1>1. PICK before, after : before = row[t] /\ after = Row(Normalized(Patched(before.content, p)), FALSE)
  OBVIOUS
<1>2. /\ Room(1) /\ Visible(before) /\ Acceptable(Patched(before.content, p))
      /\ row' = [row EXCEPT ![t] = after]
      /\ events' = Append(events, Event(t, "UPDATE", req[1], before, after))
      /\ UNCHANGED <<undo, categoryVars>>
  BY <1>1 DEF UpdateTransaction
<1>3. before \in Full
  BY <1>1, <1>2, RowKinds DEF LedgerInv, LedgerTypes, Visible, Exists
<1>4. Patched(before.content, p) \in Inputs
  BY <1>3, PatchedInput DEF Full
<1>5. after \in Full /\ CompleteRow(after)
  BY <1>1, <1>2, <1>4, NormalizedComplete
<1>6. PICK e : e = Event(t, "UPDATE", req[1], before, after)
  OBVIOUS
<1>7. e \in Events /\ e.tx = t /\ e.action = "UPDATE" /\ e.before = before /\ e.after = after /\ e.undoneBy = 0
  BY <1>3, <1>5, <1>6, RequestKinds, RowKinds, LedgerAssumption DEF Event, Events
<1>8. Grown /\ Extends
  <2>1. PICK in \in Inputs : in = Patched(before.content, p) /\ Acceptable(in) /\ after.content = Normalized(in)
    BY <1>1, <1>2, <1>4 DEF Row
  <2> QED
    BY <1>1, <1>2, <1>6, <1>7, <2>1, OneGrows
<1> QED
  BY <1>1, <1>2, <1>3, <1>5, <1>6, <1>7, <1>8, OneChange

LEMMA DeleteKeeps ==
  ASSUME LedgerInv, NEW req \in Requests, NEW t \in Txs, DeleteTransaction(req, t)
  PROVE  LedgerInv' /\ Grown /\ Extends /\ PushesRow(t, Len(events) + 1) /\ \A u \in Txs : u # t => LeavesRow(u)
<1>1. PICK before, after : before = row[t] /\ after = [before EXCEPT !.deleted = TRUE]
  OBVIOUS
<1>2. /\ Room(1) /\ Visible(before)
      /\ row' = [row EXCEPT ![t] = after]
      /\ events' = Append(events, Event(t, "DELETE", req[1], before, after))
      /\ UNCHANGED <<undo, categoryVars>>
  BY <1>1 DEF DeleteTransaction
<1>3. before \in Full
  BY <1>1, <1>2, RowKinds DEF LedgerInv, LedgerTypes, Visible, Exists
<1>4. CompleteRow(before)
  BY <1>1 DEF LedgerInv, RowsInv
<1>5. after \in Full /\ CompleteRow(after)
  BY <1>1, <1>3, <1>4 DEF Full, CompleteRow, Exists
<1>6. PICK e : e = Event(t, "DELETE", req[1], before, after)
  OBVIOUS
<1>7. e \in Events /\ e.tx = t /\ e.action = "DELETE" /\ e.before = before /\ e.after = after /\ e.undoneBy = 0
  BY <1>3, <1>5, <1>6, RequestKinds, RowKinds, LedgerAssumption DEF Event, Events
<1>8. Grown /\ Extends
  <2>1. Exists(before) /\ after.content = before.content
    BY <1>1, <1>3, RowKinds DEF Full
  <2> QED
    BY <1>1, <1>2, <1>6, <1>7, <2>1, OneGrows
<1> QED
  BY <1>1, <1>2, <1>3, <1>5, <1>6, <1>7, <1>8, OneChange

-----------------------------------------------------------------------------
LEMMA EventKind ==
  ASSUME NEW t \in Txs, NEW action \in {"CREATE", "UPDATE", "DELETE", "UNDO"},
         NEW actor \in Members \cup Sessions, NEW before \in Rows, NEW after \in Rows
  PROVE  /\ Event(t, action, actor, before, after) \in Events
         /\ Event(t, action, actor, before, after).tx = t
         /\ Event(t, action, actor, before, after).action = action
         /\ Event(t, action, actor, before, after).before = before
         /\ Event(t, action, actor, before, after).after = after
         /\ Event(t, action, actor, before, after).undoneBy = 0
  BY LedgerAssumption DEF Event, Events

LEMMA Concatenated ==
  ASSUME NEW S, NEW s \in Seq(S), NEW t \in Seq(S)
  PROVE  /\ s \o t \in Seq(S) /\ Len(s \o t) = Len(s) + Len(t)
         /\ \A i \in 1 .. Len(s) + Len(t) : (s \o t)[i] = IF i <= Len(s) THEN s[i] ELSE t[i - Len(s)]
  BY ConcatProperties

(* A batch creates entries that have no event yet, one event each.         *)
LEMMA CreateKeeps ==
  ASSUME LedgerInv, NEW req \in Requests, NEW b \in Batches, NEW d \in [DOMAIN b -> Drafts],
         CreateTransactions(req, b, d)
  PROVE  /\ LedgerInv' /\ Grown /\ Extends
         /\ \A i \in DOMAIN b : PushesRow(b[i], Len(events) + i)
         /\ \A t \in Txs : (\A i \in DOMAIN b : b[i] # t) => LeavesRow(t)
<1> DEFINE Fresh(i) == Row(Normalized(d[i]), FALSE)
           New(i) == Event(b[i], "CREATE", req[1], NoRow, Fresh(i))
           Placed(i) == Len(events) + i
<1>1. LedgerTypes /\ RowsInv /\ ChainInv /\ UndoneInv /\ LockInv
  BY DEF LedgerInv
<1>2. /\ b \in Seq(Txs) /\ Len(b) \in Nat /\ DOMAIN b = 1 .. Len(b)
      /\ \A i \in DOMAIN b : b[i] \in Txs
      /\ \A i, j \in DOMAIN b : b[i] = b[j] => i = j
  <2>1. b \in Seq(Txs)
    BY LedgerAssumption
  <2> QED
    BY <2>1, LedgerAssumption
<1>3. PICK m \in Nat, n \in Nat : m = Len(events) /\ n = m + Len(b)
  BY <1>1, <1>2 DEF LedgerTypes
<1>4. events \in Seq(Events) /\ DOMAIN events = 1 .. m /\ n <= MaxEvents /\ m <= n
  BY <1>1, <1>2, <1>3 DEF LedgerTypes, Room, CreateTransactions
<1>5. \A i \in DOMAIN b : ~Exists(row[b[i]]) /\ Acceptable(d[i])
  BY DEF CreateTransactions
<1>6. \A i \in DOMAIN b : Fresh(i) \in Full /\ CompleteRow(Fresh(i))
  <2>1. Drafts \subseteq Inputs
    BY LedgerAssumption DEF Inputs
  <2> QED
    BY <1>5, <2>1, NormalizedComplete
<1>7. \A i \in DOMAIN b :
        /\ New(i) \in Events /\ New(i).tx = b[i] /\ New(i).action = "CREATE" /\ New(i).undoneBy = 0
        /\ New(i).before = NoRow /\ New(i).after = Fresh(i)
  <2>1. SUFFICES ASSUME NEW i \in DOMAIN b
                 PROVE  /\ New(i) \in Events /\ New(i).tx = b[i] /\ New(i).action = "CREATE"
                        /\ New(i).undoneBy = 0 /\ New(i).before = NoRow /\ New(i).after = Fresh(i)
    OBVIOUS
  <2>2. PICK fresh, t, actor : fresh = Fresh(i) /\ t = b[i] /\ actor = req[1]
    OBVIOUS
  <2>3. t \in Txs /\ actor \in Members \cup Sessions /\ NoRow \in Rows /\ fresh \in Rows
    BY <1>2, <1>6, <2>2, RowKinds, RequestKinds
  <2>4. New(i) = Event(t, "CREATE", actor, NoRow, fresh)
    BY <2>2
  <2>5. PICK e : e = Event(t, "CREATE", actor, NoRow, fresh)
    OBVIOUS
  <2>6. /\ e \in Events /\ e.tx = t /\ e.action = "CREATE" /\ e.undoneBy = 0
        /\ e.before = NoRow /\ e.after = fresh
    BY <2>3, <2>5, LedgerAssumption DEF Event, Events
  <2>7. New(i) = e
    BY <2>4, <2>5
  <2> HIDE DEF New
  <2> QED
    BY <2>2, <2>6, <2>7
<1>8. PICK tail : tail = [i \in DOMAIN b |-> New(i)]
  OBVIOUS
<1> HIDE DEF New, Fresh
<1>9. tail \in Seq(Events) /\ Len(tail) = Len(b) /\ \A i \in DOMAIN b : tail[i] = New(i)
  <2>1. tail \in [1 .. Len(b) -> Events]
    BY <1>2, <1>7, <1>8
  <2>2. tail \in Seq(Events)
    BY <1>2, <2>1, SeqDef
  <2>3. Len(tail) = Len(b)
    BY <1>2, <2>1, <2>2, LenProperties
  <2> QED
    BY <1>8, <2>2, <2>3
<1>10. events' = events \o tail
  BY <1>8 DEF CreateTransactions, New, Fresh
<1>11. /\ events' \in Seq(Events) /\ Len(events') = n /\ DOMAIN events' = 1 .. n
       /\ \A k \in DOMAIN events : events'[k] = events[k]
       /\ \A i \in DOMAIN b : Placed(i) \in DOMAIN events' /\ Placed(i) \notin DOMAIN events
                              /\ events'[Placed(i)] = New(i)
  <2>1. /\ events' \in Seq(Events) /\ Len(events') = n
        /\ \A i \in 1 .. n : events'[i] = IF i <= m THEN events[i] ELSE tail[i - m]
    <3>1. PICK es : es = events
      OBVIOUS
    <3>2. /\ es \o tail \in Seq(Events) /\ Len(es \o tail) = Len(es) + Len(tail)
          /\ \A i \in 1 .. Len(es) + Len(tail) :
               (es \o tail)[i] = IF i <= Len(es) THEN es[i] ELSE tail[i - Len(es)]
      <4>1. PICK S : S = Events
        OBVIOUS
      <4>2. es \in Seq(S) /\ tail \in Seq(S)
        BY <1>4, <1>9, <3>1, <4>1
      <4>3. /\ es \o tail \in Seq(S) /\ Len(es \o tail) = Len(es) + Len(tail)
            /\ \A i \in 1 .. Len(es) + Len(tail) :
                 (es \o tail)[i] = IF i <= Len(es) THEN es[i] ELSE tail[i - Len(es)]
        BY <4>2, Concatenated, Zenon
      <4> QED
        BY <4>1, <4>3, Zenon
    <3>3. Len(es) = m /\ Len(es) + Len(tail) = n
      BY <1>3, <1>9, <3>1
    <3> QED
      BY <1>10, <3>1, <3>2, <3>3, Zenon
  <2>2. DOMAIN events' = 1 .. n
    BY <2>1, LenProperties
  <2>3. \A i \in DOMAIN b : m + i \in 1 .. n /\ m + i \notin 1 .. m /\ ~(m + i <= m) /\ m + i - m = i
    BY <1>2, <1>3
  <2>4. ASSUME NEW i \in DOMAIN b
        PROVE  events'[m + i] = New(i)
    <3>1. PICK k : k = m + i
      OBVIOUS
    <3>2. k \in 1 .. n /\ ~(k <= m) /\ k - m = i
      <4>1. PICK l \in Nat : l = Len(b)
        BY <1>2
      <4>2. i \in 1 .. l /\ n = m + l
        BY <1>2, <1>3, <4>1
      <4> QED
        BY <3>1, <4>2
    <3>3. events'[k] = tail[k - m]
      BY <2>1, <3>2
    <3>4. tail[k - m] = New(i)
      BY <1>9, <3>2
    <3> QED
      BY <3>1, <3>3, <3>4, Zenon
  <2>5. \A k \in DOMAIN events : events'[k] = events[k]
    BY <1>3, <1>4, <2>1
  <2> QED
    BY <1>3, <1>4, <2>1, <2>2, <2>3, <2>4, <2>5
<1>12. \A k \in DOMAIN events' : k \in DOMAIN events \/ \E i \in DOMAIN b : k = m + i /\ events'[k] = New(i)
  <2>1. ASSUME NEW k \in 1 .. n, k \notin 1 .. m
        PROVE  \E i \in DOMAIN b : k = m + i
    <3>1. k - m \in DOMAIN b /\ k = m + (k - m)
      BY <1>2, <1>3, <2>1
    <3> QED
      BY <3>1
  <2> QED
    BY <1>3, <1>4, <1>11, <2>1
<1>13. row' = [t \in Txs |-> IF \E i \in DOMAIN b : b[i] = t
                             THEN [i \in DOMAIN b |-> Fresh(i)][CHOOSE i \in DOMAIN b : b[i] = t] ELSE row[t]]
  BY DEF CreateTransactions, Fresh
<1>14. /\ \A i \in DOMAIN b : row'[b[i]] = Fresh(i)
       /\ \A t \in Txs : (\A i \in DOMAIN b : b[i] # t) => row'[t] = row[t]
  <2>1. ASSUME NEW i \in DOMAIN b
        PROVE  row'[b[i]] = Fresh(i)
    <3>1. (CHOOSE k \in DOMAIN b : b[k] = b[i]) = i
      BY <1>2
    <3> QED
      BY <1>2, <1>13, <3>1
  <2>2. \A t \in Txs : (\A i \in DOMAIN b : b[i] # t) => row'[t] = row[t]
    BY <1>13
  <2> QED
    BY <2>1, <2>2
<1>15. \A i \in DOMAIN events : events[i].tx \in Txs /\ \A k \in DOMAIN b : events[i].tx # b[k]
  <2>1. \A i \in DOMAIN events : events[i] \in Events
    BY <1>4
  <2>2. \A i \in DOMAIN events : events[i].tx \in Txs
    BY <2>1 DEF Events
  <2> QED
    BY <1>1, <1>5, <2>2 DEF RowsInv
<1>16. LedgerTypes'
  <2>1. row' \in [Txs -> Rows]
    <3>1. ASSUME NEW t \in Txs
          PROVE  row'[t] \in Rows
      BY <1>1, <1>6, <1>14, RowKinds DEF LedgerTypes
    <3> QED
      BY <1>13, <3>1
  <2> QED
    BY <1>1, <1>4, <1>11, <2>1 DEF LedgerTypes, CreateTransactions, categoryVars
<1>17. RowsInv'
  <2>1. \A t \in Txs : CompleteRow(row'[t])
    BY <1>1, <1>6, <1>14 DEF RowsInv
  <2>2. ASSUME NEW k \in DOMAIN events'
        PROVE  /\ events'[k].after \in Full /\ (events'[k].action # "CREATE" => events'[k].before \in Full)
               /\ CompleteRow(events'[k].before)
               /\ Exists(row'[events'[k].tx])
    <3>1. CASE k \in DOMAIN events
      BY <1>1, <1>11, <1>14, <1>15, <3>1 DEF RowsInv
    <3>2. ASSUME NEW i \in DOMAIN b, events'[k] = New(i)
          PROVE  /\ events'[k].after \in Full /\ (events'[k].action # "CREATE" => events'[k].before \in Full)
                 /\ CompleteRow(events'[k].before)
                 /\ Exists(row'[events'[k].tx])
      <4>1. CompleteRow(NoRow)
        BY RowKinds DEF CompleteRow
      <4>2. events'[k].after = Fresh(i) /\ events'[k].action = "CREATE" /\ events'[k].before = NoRow
            /\ row'[events'[k].tx] = Fresh(i)
        BY <1>7, <1>14, <3>2
      <4> QED
        BY <1>6, <4>1, <4>2, RowKinds
    <3> QED
      BY <1>12, <3>1, <3>2
  <2> QED
    BY <2>1, <2>2 DEF RowsInv
<1>18. ChainInv'
  <2>1. ASSUME NEW t \in Txs
        PROVE  Chained(events', row'[t], t)
    <3>1. CASE \A i \in DOMAIN b : b[i] # t
      <4>1. Chained(events, row'[t], t)
        BY <1>1, <1>14, <3>1 DEF ChainInv
      <4>2. \A k \in DOMAIN events' : k \notin DOMAIN events => events'[k].tx # t
        BY <1>7, <1>12, <3>1
      <4>3. DOMAIN events \subseteq DOMAIN events' /\ \A k \in DOMAIN events : events'[k] = events[k]
        BY <1>3, <1>4, <1>11
      <4>4. PICK es, fs, r : es = events /\ fs = events' /\ r = row'[t]
        OBVIOUS
      <4>5. Chained(fs, r, t)
        BY <4>1, <4>2, <4>3, <4>4, ChainOther
      <4> QED
        BY <4>4, <4>5
    <3>2. ASSUME NEW i \in DOMAIN b, b[i] = t
          PROVE  Chained(events', row'[t], t)
      <4>1. PICK p : p = Placed(i)
        OBVIOUS
      <4>2. /\ p \in DOMAIN events' /\ events'[p].tx = t /\ events'[p].action = "CREATE"
            /\ events'[p].before = NoRow /\ events'[p].after = row'[t]
        BY <1>7, <1>11, <1>14, <3>2, <4>1
      <4>3. ASSUME NEW k \in DOMAIN events', events'[k].tx = t
            PROVE  k = p
        <5>1. k \notin DOMAIN events
          BY <1>11, <1>15, <3>2, <4>3
        <5>2. PICK h \in DOMAIN b : k = m + h /\ events'[k] = New(h)
          BY <1>12, <5>1
        <5>3. h = i
          BY <1>2, <1>7, <3>2, <4>3, <5>2
        <5> QED
          BY <1>3, <4>1, <5>2, <5>3
      <4>4. PICK fs, r : fs = events' /\ r = row'[t]
        OBVIOUS
      <4>5. DOMAIN fs \subseteq Nat
        BY <1>11, <4>4
      <4>6. Chained(fs, r, t)
        BY <4>2, <4>3, <4>4, <4>5, ChainFresh
      <4> QED
        BY <4>4, <4>6
    <3> QED
      BY <3>1, <3>2
  <2> QED
    BY <2>1 DEF ChainInv
<1>19. UndoneInv' /\ LockInv'
  <2>1. ASSUME NEW k \in DOMAIN events', k \notin DOMAIN events
        PROVE  events'[k].action # "UNDO" /\ events'[k].undoneBy = 0
    <3>1. PICK i \in DOMAIN b : events'[k] = New(i)
      BY <1>12, <2>1
    <3> QED
      BY <1>7, <3>1
  <2>2. undo' = undo
    BY DEF CreateTransactions
  <2> QED
    BY <1>1, <1>3, <1>4, <1>11, <2>1, <2>2, Extended
<1>20. ASSUME NEW i \in DOMAIN b
       PROVE  PushesRow(b[i], Len(events) + i)
  <2>1. PICK es, fs, r, s, t, p :
          es = events /\ fs = events' /\ r = row[b[i]] /\ s = row'[b[i]] /\ t = b[i] /\ p = Placed(i)
    OBVIOUS
  <2>2. /\ p \in DOMAIN fs /\ fs[p].tx = t /\ fs[p].action = "CREATE" /\ fs[p].undoneBy = 0 /\ fs[p].after = s
    BY <1>7, <1>11, <1>14, <2>1
  <2>3. Effective(es, t) = {}
    BY <1>15, <2>1 DEF Effective
  <2>4. \A k \in DOMAIN fs : fs[k].tx = t => k = p
    <3>1. ASSUME NEW k \in DOMAIN fs, fs[k].tx = t
          PROVE  k = p
      <4>1. k \notin DOMAIN events
        BY <1>11, <1>15, <2>1, <3>1
      <4>2. PICK h \in DOMAIN b : k = m + h /\ events'[k] = New(h)
        BY <1>12, <2>1, <3>1, <4>1
      <4>3. h = i
        BY <1>2, <1>7, <2>1, <3>1, <4>2
      <4> QED
        BY <1>3, <2>1, <4>2, <4>3
    <3> QED
      BY <3>1
  <2>5. Effective(fs, t) = {p}
    BY <2>2, <2>4 DEF Effective
  <2>6. p \in 1 .. MaxEvents
    BY <1>3, <1>4, <1>11, <2>1, <2>2, LedgerAssumption
  <2>7. Pushes(es, fs, r, s, t, p)
    BY <2>2, <2>3, <2>5, <2>6 DEF Pushes, Recorded
  <2> QED
    BY <1>3, <2>1, <2>7 DEF PushesRow
<1>21. ASSUME NEW t \in Txs, \A i \in DOMAIN b : b[i] # t
       PROVE  LeavesRow(t)
  <2>1. PICK es, fs : es = events /\ fs = events'
    OBVIOUS
  <2>2. \A k \in DOMAIN fs : k \notin DOMAIN es => fs[k].tx # t
    BY <1>7, <1>12, <1>21, <2>1
  <2>3. \A k \in DOMAIN es : k \in DOMAIN fs /\ fs[k] = es[k]
    BY <1>3, <1>4, <1>11, <2>1
  <2>4. Effective(fs, t) = Effective(es, t) /\ Recorded(es, fs, t)
    BY <2>2, <2>3 DEF Effective, Recorded
  <2> QED
    BY <1>14, <1>21, <2>1, <2>4 DEF LeavesRow, Leaves
<1>22. Grown /\ Extends
  <2>1. /\ kind' = kind /\ kindSince' = kindSince /\ Len(events) <= Len(events')
        /\ \A k \in DOMAIN events : k \in DOMAIN events' /\ events'[k] = events[k]
    <3>1. kind' = kind /\ kindSince' = kindSince
      BY DEF CreateTransactions, categoryVars
    <3>2. \A k \in 1 .. m : k \in 1 .. n
      BY <1>3, <1>4
    <3> QED
      BY <1>3, <1>4, <1>11, <3>1, <3>2
  <2>2. ASSUME NEW k \in DOMAIN events', k \notin DOMAIN events
        PROVE  events'[k].before = row[events'[k].tx] /\ events'[k].undoneBy = 0
    <3>1. PICK i \in DOMAIN b : events'[k] = New(i)
      BY <1>12, <2>2
    <3>2. row[b[i]] = NoRow
      BY <1>1, <1>2, <1>5, RowKinds DEF LedgerTypes
    <3> QED
      BY <1>7, <3>1, <3>2
  <2>3. ASSUME NEW i \in DOMAIN b
        PROVE  Accepted(b[i])
    <3>1. d[i] \in Inputs /\ Acceptable(d[i]) /\ Fresh(i).content = Normalized(d[i])
      <4>1. Drafts \subseteq Inputs
        BY LedgerAssumption DEF Inputs
      <4> QED
        BY <1>5, <4>1 DEF Fresh, Row
    <3>2. /\ Placed(i) \in DOMAIN events' /\ events'[Placed(i)].tx = b[i]
          /\ events'[Placed(i)].after = row'[b[i]] /\ row'[b[i]] = Fresh(i)
      BY <1>7, <1>11, <1>14
    <3>3. PICK in, p : in = d[i] /\ p = Placed(i)
      OBVIOUS
    <3> QED
      BY <3>1, <3>2, <3>3 DEF Accepted
  <2>4. \A t \in Txs : row'[t] = row[t] \/ Accepted(t)
    BY <1>14, <2>3
  <2> QED
    BY <2>1, <2>2, <2>4 DEF Grown, Extends
<1> QED
  BY <1>3, <1>16, <1>17, <1>18, <1>19, <1>20, <1>21, <1>22 DEF LedgerInv

-----------------------------------------------------------------------------
(* Steps that write neither a row nor an event.                            *)
LEMMA SameTrail ==
  ASSUME LedgerInv, UNCHANGED <<row, events>>, undo' \in [Clients -> Undos], archived' \subseteq Categories, LockInv'
  PROVE  LedgerInv'
<1>1. LedgerTypes' /\ RowsInv'
  BY DEF LedgerInv, LedgerTypes, RowsInv, CompleteRow, Exists
<1>2. ChainInv' /\ UndoneInv'
  BY DEF LedgerInv, ChainInv, Chained, UndoneInv
<1> QED
  BY <1>1, <1>2 DEF LedgerInv

(* Picking an event to revert: UndoLast and RestoreTransaction.            *)
LEMMA PickKeeps ==
  ASSUME LedgerInv, NEW c \in Clients, NEW actor \in Members \cup Sessions, NEW i \in DOMAIN events,
         undo' = [undo EXCEPT ![c] = [step |-> "picked", event |-> i, actor |-> actor, seen |-> 0]],
         UNCHANGED <<row, events, categoryVars>>
  PROVE  LedgerInv'
<1>1. LedgerTypes /\ LockInv
  BY DEF LedgerInv
<1>2. i \in 1 .. MaxEvents
  BY <1>1, LedgerAssumption DEF LedgerTypes
<1>3. PICK u : u = [step |-> "picked", event |-> i, actor |-> actor, seen |-> 0]
  OBVIOUS
<1>4. u \in Undos /\ u.step = "picked" /\ u.event = i
  BY <1>2, <1>3, LedgerAssumption DEF Undos
<1>5. undo' \in [Clients -> Undos] /\ undo'[c] = u /\ \A d \in Clients : d # c => undo'[d] = undo[d]
  BY <1>1, <1>3, <1>4 DEF LedgerTypes
<1>6. LockInv'
  BY <1>1, <1>4, <1>5 DEF LockInv, InEffect
<1> QED
  BY <1>1, <1>5, <1>6, SameTrail DEF LedgerTypes, categoryVars

(* A client that gives up holds nothing.                                   *)
LEMMA ReleaseKeeps ==
  ASSUME LedgerInv, NEW c \in Clients, undo' = [undo EXCEPT ![c] = NoUndo], UNCHANGED <<row, events, categoryVars>>
  PROVE  LedgerInv'
<1>1. LedgerTypes /\ LockInv
  BY DEF LedgerInv
<1>2. NoUndo \in Undos /\ NoUndo.step # "checked"
  BY DEF Undos, NoUndo
<1>3. undo' \in [Clients -> Undos] /\ undo'[c] = NoUndo /\ \A d \in Clients : d # c => undo'[d] = undo[d]
  BY <1>1, <1>2 DEF LedgerTypes
<1>4. LockInv'
  BY <1>1, <1>2, <1>3 DEF LockInv, InEffect
<1> QED
  BY <1>1, <1>3, <1>4, SameTrail DEF LedgerTypes, categoryVars

(* The event is locked when nobody else holds it, it is in effect and no    *)
(* later change of the entry is.                                           *)
LEMMA LockKeeps ==
  ASSUME LedgerInv, NEW c \in Clients, LockEvent(c)
  PROVE  LedgerInv'
<1>1. LedgerTypes /\ LockInv
  BY DEF LedgerInv
<1>2. PICK i : i = undo[c].event
  OBVIOUS
<1>3. /\ undo[c].step = "picked" /\ UNCHANGED <<row, events, categoryVars>>
      /\ \A d \in Clients : undo[d].step = "checked" => undo[d].event # i
      /\ undo' = [undo EXCEPT ![c] = IF ~InEffect(i) \/ LaterChange(i) THEN NoUndo
                                     ELSE [undo[c] EXCEPT !.step = "checked", !.seen = Len(events)]]
  BY <1>2 DEF LockEvent, Checked
<1>4. CASE ~InEffect(i) \/ LaterChange(i)
  BY <1>3, <1>4, ReleaseKeeps
<1>5. CASE InEffect(i) /\ ~LaterChange(i)
  <2>1. PICK old : old = undo[c]
    OBVIOUS
  <2>l. PICK l : l = Len(events)
    OBVIOUS
  <2>2. PICK u : u = [old EXCEPT !.step = "checked", !.seen = l]
    OBVIOUS
  <2>3. old \in [step : {"picked", "checked"}, event : 1 .. MaxEvents, actor : Members \cup Sessions,
                 seen : 0 .. MaxEvents]
    BY <1>1, <1>3, <2>1 DEF LedgerTypes, Undos, NoUndo
  <2>4. u \in Undos /\ u.step = "checked" /\ u.event = i /\ u.seen = l
    <3>1. l \in 0 .. MaxEvents
      BY <1>1, <2>l, LedgerAssumption DEF LedgerTypes
    <3> QED
      BY <1>2, <2>1, <2>2, <2>3, <3>1 DEF Undos
  <2>5. undo' \in [Clients -> Undos] /\ undo'[c] = u /\ \A d \in Clients : d # c => undo'[d] = undo[d]
    BY <1>1, <1>3, <1>5, <2>1, <2>l, <2>2, <2>4 DEF LedgerTypes
  <2>6. undo[c] # NoUndo
    BY <1>3 DEF NoUndo
  <2>7. LockInv'
    <3>1. \A d \in Clients : undo'[d] # NoUndo => undo'[d].event \in DOMAIN events'
      BY <1>1, <1>2, <1>3, <2>4, <2>5, <2>6 DEF LockInv
    <3>2. ASSUME NEW d \in Clients, undo'[d].step = "checked"
          PROVE  /\ InEffect(undo[d].event)'
                 /\ undo'[d].seen \in 0 .. Len(events')
                 /\ \A k \in DOMAIN events' :
                      events'[k].tx = events'[undo'[d].event].tx /\ InEffect(k)'
                        => k <= undo'[d].event \/ undo'[d].seen < k
      <4>1. \A k : InEffect(k)' <=> InEffect(k)
        BY <1>3 DEF InEffect
      <4>2. events' = events
        BY <1>3
      <4>3. CASE d = c
        <5>1. \A k \in DOMAIN events : events[k].tx = events[i].tx /\ InEffect(k) => k <= i
          BY <1>1, <1>2, <1>3, <1>5, <2>6 DEF LaterChange, LockInv, LedgerTypes
        <5>2. l \in 0 .. Len(events)
          BY <1>1, <2>l DEF LedgerTypes
        <5>3. undo'[d].event = i /\ undo'[d].seen = l
          BY <2>4, <2>5, <4>3
        <5>4. InEffect(undo[d].event)'
          BY <1>5, <4>1, <5>3
        <5> QED
          BY <4>1, <4>2, <5>1, <5>2, <5>3, <5>4
      <4>4. CASE d # c
        <5>1. undo'[d] = undo[d]
          BY <2>5, <4>4
        <5>2. /\ InEffect(undo[d].event)
              /\ undo[d].seen \in 0 .. Len(events)
              /\ \A k \in DOMAIN events :
                   events[k].tx = events[undo[d].event].tx /\ InEffect(k) => k <= undo[d].event \/ undo[d].seen < k
          BY <1>1, <3>2, <5>1 DEF LockInv
        <5>3. InEffect(undo[d].event)'
          BY <4>2, <5>1, <5>2 DEF InEffect
        <5> QED
          BY <4>1, <4>2, <5>1, <5>2, <5>3
      <4> QED
        BY <4>3, <4>4
    <3>3. \A d, h \in Clients :
            undo'[d].step = "checked" /\ undo'[h].step = "checked" /\ undo'[d].event = undo'[h].event => d = h
      <4>1. \A d \in Clients : d # c /\ undo'[d].step = "checked" =>
              undo'[d] = undo[d] /\ undo'[d].event # undo'[c].event
        BY <1>3, <2>4, <2>5
      <4>2. \A d, h \in Clients :
              d # c /\ h # c /\ undo'[d].step = "checked" /\ undo'[h].step = "checked"
              /\ undo'[d].event = undo'[h].event => d = h
        BY <1>1, <4>1 DEF LockInv
      <4> QED
        BY <4>1, <4>2
    <3> QED
      BY <3>1, <3>2, <3>3 DEF LockInv
  <2> QED
    BY <1>1, <1>3, <2>5, <2>7, SameTrail DEF LedgerTypes, categoryVars
<1> QED
  BY <1>4, <1>5

-----------------------------------------------------------------------------
(* Reverting.                                                              *)
LEMMA RevertedRow ==
  ASSUME NEW current \in Full, CompleteRow(current), NEW e \in Events, e.action # "UNDO",
         e.action # "CREATE" => e.before \in Full, CompleteRow(e.before)
  PROVE  Reverted(current, e) \in Full /\ CompleteRow(Reverted(current, e))
<1>1. e.action \in {"CREATE", "UPDATE", "DELETE"}
  BY DEF Events
<1>2. \A v \in BOOLEAN : [current EXCEPT !.deleted = v] \in Full /\ CompleteRow([current EXCEPT !.deleted = v])
  BY DEF Full, CompleteRow, Exists
<1>3. CASE e.action = "CREATE"
  BY <1>2, <1>3 DEF Reverted
<1>4. CASE e.action = "DELETE"
  BY <1>2, <1>4 DEF Reverted
<1>5. CASE e.action = "UPDATE"
  BY <1>5 DEF Reverted
<1> QED
  BY <1>1, <1>3, <1>4, <1>5

LEMMA RevertKeeps ==
  ASSUME LedgerInv, NEW c \in Clients, RevertEvent(c)
  PROVE  /\ LedgerInv' /\ Grown /\ Marks(undo[c].event)
         /\ \A s : /\ Effective(events', s) = Effective(events, s) \ {undo[c].event}
                 /\ Recorded(events, events', s)
         /\ ~LaterChange(undo[c].event) => PopsRow(events[undo[c].event].tx, undo[c].event)
         /\ \A s \in Txs : s # events[undo[c].event].tx => LeavesRow(s)
<1>1. LedgerTypes /\ RowsInv /\ ChainInv /\ UndoneInv /\ LockInv
  BY DEF LedgerInv
<1>2. PICK i, e, t, before, after, actor, n :
        /\ i = undo[c].event /\ e = events[i] /\ t = e.tx /\ before = row[t] /\ after = Reverted(before, e)
        /\ actor = undo[c].actor /\ n = Len(events) + 1
  OBVIOUS
<1>3. /\ undo[c].step = "checked" /\ Room(1)
      /\ row' = [row EXCEPT ![t] = after]
      /\ events' = Append([events EXCEPT ![i].undoneBy = n], Event(t, "UNDO", actor, before, after))
      /\ undo' = [undo EXCEPT ![c] = NoUndo]
      /\ archived' = archived
  BY <1>2 DEF RevertEvent, categoryVars
<1>4. /\ events \in Seq(Events) /\ Len(events) \in Nat /\ DOMAIN events = 1 .. Len(events)
      /\ n \in Nat /\ n <= MaxEvents /\ n = Len(events) + 1
      /\ \A k \in DOMAIN events : events[k] \in Events
  BY <1>1, <1>2, <1>3, LedgerAssumption DEF LedgerTypes, Room
<1>5. i \in DOMAIN events /\ InEffect(i)
      /\ actor \in Members \cup Sessions
  <2>1. undo[c] # NoUndo
    BY <1>3 DEF NoUndo
  <2> QED
    BY <1>1, <1>2, <1>3, <2>1 DEF LockInv, LedgerTypes, Undos
<1>6. e \in Events /\ t \in Txs /\ e.action # "UNDO" /\ e.undoneBy = 0
  <2>1. e \in Events
    BY <1>2, <1>4, <1>5
  <2> QED
    BY <1>2, <1>5, <2>1 DEF Events, InEffect
<1>7. row \in [Txs -> Rows] /\ before \in Full /\ CompleteRow(before)
  BY <1>1, <1>2, <1>5, <1>6, RowKinds DEF LedgerTypes, RowsInv
<1>8. after \in Full /\ CompleteRow(after)
  <2>1. (e.action # "CREATE" => e.before \in Full) /\ CompleteRow(e.before)
    BY <1>1, <1>2, <1>5 DEF RowsInv
  <2> QED
    BY <1>2, <1>6, <1>7, <2>1, RevertedRow
<1>9. PICK marked : marked = [e EXCEPT !.undoneBy = n]
  OBVIOUS
<1>10. /\ marked \in Events /\ marked.tx = t /\ marked.action = e.action /\ marked.before = e.before
       /\ marked.after = e.after /\ marked.undoneBy = n
  <2>1. n \in 0 .. MaxEvents /\ e.tx = t
    BY <1>2, <1>4, LedgerAssumption
  <2> QED
    BY <1>6, <1>9, <2>1 DEF Events
<1>11. PICK es : es = [events EXCEPT ![i] = marked]
  OBVIOUS
<1>12. /\ es \in Seq(Events) /\ Len(es) = Len(events) /\ DOMAIN es = DOMAIN events /\ es[i] = marked
       /\ \A k \in DOMAIN events : k # i => es[k] = events[k]
  <2>1. es \in Seq(Events) /\ Len(es) = Len(events)
    BY <1>4, <1>5, <1>10, <1>11, ExceptSeq
  <2> QED
    BY <1>4, <1>5, <1>11, <2>1
<1>13. PICK u : u = Event(t, "UNDO", actor, before, after)
  OBVIOUS
<1>14. /\ u \in Events /\ u.tx = t /\ u.action = "UNDO" /\ u.before = before /\ u.after = after /\ u.undoneBy = 0
  BY <1>5, <1>6, <1>7, <1>8, <1>13, RowKinds, LedgerAssumption DEF Event, Events
<1>15. events' = Append(es, u)
  BY <1>2, <1>3, <1>9, <1>11, <1>13
<1>16. /\ events' \in Seq(Events) /\ Len(events') = n /\ DOMAIN events' = 1 .. n
       /\ events'[n] = u /\ \A k \in DOMAIN events : events'[k] = es[k] /\ k \in DOMAIN events' /\ k < n
  BY <1>4, <1>12, <1>14, <1>15
<1>17. /\ \A k \in DOMAIN events' : k = n \/ (k \in DOMAIN events /\ k < n)
       /\ \A k \in DOMAIN events : events'[k].tx = events[k].tx /\ events'[k].action = events[k].action
            /\ events'[k].before = events[k].before /\ events'[k].after = events[k].after
       /\ events'[i].undoneBy = n
       /\ \A k \in DOMAIN events : k # i => events'[k].undoneBy = events[k].undoneBy
       /\ n \notin DOMAIN events
  <2>1. n \notin DOMAIN events /\ \A k \in DOMAIN events' : k = n \/ (k \in DOMAIN events /\ k < n)
    BY <1>4, <1>16
  <2>2. events'[i] = marked /\ \A k \in DOMAIN events : k # i => events'[k] = events[k]
    BY <1>5, <1>12, <1>16
  <2>3. \A k \in DOMAIN events : events'[k].tx = events[k].tx /\ events'[k].action = events[k].action
          /\ events'[k].before = events[k].before /\ events'[k].after = events[k].after
    BY <1>2, <1>10, <2>2
  <2> QED
    BY <1>10, <2>1, <2>2, <2>3
<1>18. row' \in [Txs -> Rows] /\ row'[t] = after /\ \A s \in Txs : s # t => row'[s] = row[s]
  BY <1>3, <1>6, <1>7, <1>8, RowKinds
<1>19. undo' \in [Clients -> Undos] /\ undo'[c] = NoUndo /\ \A d \in Clients : d # c => undo'[d] = undo[d]
  BY <1>1, <1>3 DEF LedgerTypes, Undos
<1>20. LedgerTypes'
  BY <1>1, <1>3, <1>4, <1>16, <1>18, <1>19 DEF LedgerTypes
<1>21. RowsInv'
  <2>1. \A s \in Txs : CompleteRow(row'[s])
    BY <1>1, <1>8, <1>18 DEF RowsInv
  <2>2. \A s \in Txs : Exists(row[s]) => Exists(row'[s])
    BY <1>8, <1>18, RowKinds
  <2>3. \A k \in DOMAIN events : events[k].tx \in Txs
    BY <1>4 DEF Events
  <2>4. ASSUME NEW k \in DOMAIN events'
        PROVE  /\ events'[k].after \in Full /\ (events'[k].action # "CREATE" => events'[k].before \in Full)
               /\ CompleteRow(events'[k].before)
               /\ Exists(row'[events'[k].tx])
    <3>1. CASE k = n
      BY <1>7, <1>8, <1>14, <1>16, <1>18, <3>1, RowKinds
    <3>2. CASE k \in DOMAIN events
      BY <1>1, <1>17, <2>2, <2>3, <3>2 DEF RowsInv
    <3> QED
      BY <1>17, <3>1, <3>2
  <2> QED
    BY <2>1, <2>4 DEF RowsInv
<1>22. ChainInv'
  <2>1. ASSUME NEW s \in Txs
        PROVE  Chained(events', row'[s], s)
    <3>1. Chained(events, row[s], s)
      BY <1>1 DEF ChainInv
    <3>2. PICK old, new, trail : old = row[s] /\ new = row'[s] /\ trail = events
      OBVIOUS
    <3>3. \A k \in DOMAIN trail : es[k].tx = trail[k].tx /\ es[k].action = trail[k].action
            /\ es[k].before = trail[k].before /\ es[k].after = trail[k].after
      BY <1>2, <1>10, <1>12, <3>2
    <3>4. Chained(es, old, s)
      BY <1>12, <3>1, <3>2, <3>3, ChainMark
    <3>5. /\ u.tx = s => u.before = old /\ old # NoRow /\ new = u.after
          /\ u.tx # s => new = old
      BY <1>2, <1>7, <1>14, <1>18, <3>2, RowKinds
    <3>6. Chained(Append(es, u), new, s)
      BY <1>12, <1>14, <3>4, <3>5, ChainAppend
    <3> QED
      BY <1>15, <3>2, <3>6
  <2> QED
    BY <2>1 DEF ChainInv
<1>23. UndoneInv'
  <2>1. \A k \in DOMAIN events : events[k].undoneBy \in 0 .. Len(events)
    BY <1>1, <1>4, LedgerAssumption DEF UndoneInv, Events
  <2>2. ASSUME NEW k \in DOMAIN events'
        PROVE  /\ events'[k].undoneBy <= Len(events')
               /\ events'[k].undoneBy # 0 =>
                    /\ k < events'[k].undoneBy
                    /\ events'[events'[k].undoneBy].tx = events'[k].tx
                    /\ events'[events'[k].undoneBy].action = "UNDO"
               /\ events'[k].action = "UNDO" => \E h \in DOMAIN events' : events'[h].undoneBy = k
    <3>1. CASE k = n
      BY <1>4, <1>5, <1>14, <1>16, <1>17, <3>1
    <3>2. CASE k = i
      <4>1. events'[k].undoneBy = n /\ k < n /\ n = Len(events')
        BY <1>5, <1>16, <1>17, <3>2
      <4>2. events'[n].tx = events'[k].tx /\ events'[n].action = "UNDO" /\ events'[k].action # "UNDO"
        BY <1>2, <1>5, <1>6, <1>14, <1>16, <1>17, <3>2
      <4> QED
        BY <1>4, <4>1, <4>2
    <3>3. CASE k \in DOMAIN events /\ k # i
      <4>1. events'[k].undoneBy = events[k].undoneBy /\ events[k].undoneBy \in 0 .. Len(events)
        BY <1>17, <2>1, <3>3
      <4>2. events[k].undoneBy # 0 =>
              /\ k < events[k].undoneBy /\ events[k].undoneBy \in DOMAIN events
              /\ events[events[k].undoneBy].tx = events[k].tx
              /\ events[events[k].undoneBy].action = "UNDO"
        BY <1>1, <1>4, <3>3, <4>1 DEF UndoneInv
      <4>3. ASSUME events'[k].action = "UNDO"
            PROVE  \E h \in DOMAIN events' : events'[h].undoneBy = k
        <5>1. PICK h \in DOMAIN events : events[h].undoneBy = k
          BY <1>1, <1>17, <3>3, <4>3 DEF UndoneInv
        <5>2. h # i
          BY <1>2, <1>4, <1>6, <3>3, <5>1
        <5> QED
          BY <1>16, <1>17, <5>1, <5>2
      <4> QED
        BY <1>4, <1>16, <1>17, <3>3, <4>1, <4>2, <4>3
    <3> QED
      BY <1>5, <1>17, <3>1, <3>2, <3>3
  <2>3. ASSUME NEW k \in DOMAIN events', NEW h \in DOMAIN events',
               events'[k].undoneBy = events'[h].undoneBy, events'[k].undoneBy # 0
        PROVE  k = h
    <3>1. k \in DOMAIN events /\ h \in DOMAIN events
      BY <1>14, <1>16, <1>17, <2>3
    <3>2. CASE k # i /\ h # i
      BY <1>1, <1>17, <2>3, <3>1, <3>2 DEF UndoneInv
    <3>3. CASE k = i \/ h = i
      BY <1>4, <1>17, <2>1, <2>3, <3>1, <3>3
    <3> QED
      BY <3>2, <3>3
  <2> QED
    BY <2>2, <2>3 DEF UndoneInv
<1>24. LockInv'
  <2>1. ASSUME NEW d \in Clients, d # c, undo[d] # NoUndo
        PROVE  undo[d].event \in DOMAIN events /\ undo[d].event \in DOMAIN events'
    BY <1>1, <1>16, <2>1 DEF LockInv
  <2>2. ASSUME NEW d \in Clients, undo'[d].step = "checked"
        PROVE  /\ InEffect(undo[d].event)'
               /\ undo'[d].seen \in 0 .. Len(events')
               /\ \A k \in DOMAIN events' :
                    events'[k].tx = events'[undo'[d].event].tx /\ InEffect(k)'
                      => k <= undo'[d].event \/ undo'[d].seen < k
    <3>1. d # c /\ undo'[d] = undo[d] /\ undo[d] # NoUndo
      BY <1>19, <2>2 DEF NoUndo
    <3>2. PICK h : h = undo[d].event
      OBVIOUS
    <3>3. /\ h \in DOMAIN events /\ h # i /\ InEffect(h) /\ undo[d].seen \in 0 .. Len(events)
          /\ \A k \in DOMAIN events :
               events[k].tx = events[h].tx /\ InEffect(k) => k <= h \/ undo[d].seen < k
      BY <1>1, <1>2, <1>3, <2>1, <2>2, <3>1, <3>2 DEF LockInv
    <3>4. InEffect(h)'
      BY <1>17, <3>3 DEF InEffect
    <3>5. ASSUME NEW k \in DOMAIN events', events'[k].tx = events'[h].tx, InEffect(k)'
          PROVE  k <= h \/ undo[d].seen < k
      <4>1. k # n
        BY <1>14, <1>16, <3>5 DEF InEffect
      <4>2. k \in DOMAIN events /\ k # i
        BY <1>4, <1>17, <3>5, <4>1 DEF InEffect
      <4>3. events[k].tx = events[h].tx /\ InEffect(k)
        BY <1>17, <3>3, <3>5, <4>2 DEF InEffect
      <4> QED
        BY <3>3, <4>2, <4>3
    <3>6. undo[d].seen \in 0 .. Len(events')
      BY <1>4, <1>16, <3>3
    <3> QED
      BY <3>1, <3>2, <3>4, <3>5, <3>6
  <2>3. \A d, h \in Clients :
          undo'[d].step = "checked" /\ undo'[h].step = "checked" /\ undo'[d].event = undo'[h].event => d = h
    BY <1>1, <1>19 DEF LockInv, NoUndo
  <2>4. \A d \in Clients : undo'[d] # NoUndo => undo'[d].event \in DOMAIN events'
    BY <1>19, <2>1
  <2> QED
    BY <2>2, <2>3, <2>4 DEF LockInv
<1>26. ASSUME NEW s
       PROVE  /\ Effective(events', s) = Effective(events, s) \ {i}
              /\ Recorded(events, events', s)
  <2>1. PICK old, new : old = events /\ new = events'
    OBVIOUS
  <2>2. Effective(new, s) = Effective(old, s) \ {i}
    BY <1>4, <1>5, <1>14, <1>16, <1>17, <2>1 DEF Effective
  <2>3. Recorded(old, new, s)
    BY <1>17, <2>1 DEF Effective, Recorded
  <2> QED
    BY <2>1, <2>2, <2>3
<1>27. ASSUME ~LaterChange(i)
       PROVE  PopsRow(t, i)
  <2>1. i \in Effective(events, t) /\ \A j \in Effective(events, t) : j <= i
    BY <1>2, <1>4, <1>5, <1>27 DEF Effective, InEffect, LaterChange
  <2>2. row'[t] = Reverted(row[t], events[i])
    BY <1>2, <1>18
  <2> QED
    BY <1>26, <2>1, <2>2 DEF PopsRow, Pops
<1>28. ASSUME NEW s \in Txs, s # t
       PROVE  LeavesRow(s)
  <2>1. i \notin Effective(events, s)
    BY <1>2, <1>28 DEF Effective
  <2> QED
    BY <1>18, <1>26, <1>28, <2>1 DEF LeavesRow, Leaves
<1>29. Grown
  <2>1. /\ kind' = kind /\ kindSince' = kindSince /\ Len(events) <= Len(events')
        /\ \A k \in DOMAIN events : k \in DOMAIN events'
    <3>1. kind' = kind /\ kindSince' = kindSince
      BY DEF RevertEvent, categoryVars
    <3> QED
      BY <1>4, <1>16, <3>1
  <2>2. \A k \in DOMAIN events' : k \in DOMAIN events \/ events'[k].before = row[events'[k].tx]
    <3>1. events'[n].before = before /\ events'[n].tx = t /\ row[t] = before
      BY <1>2, <1>7, <1>14, <1>16
    <3>2. \A k \in DOMAIN events' : k = n \/ k \in DOMAIN events
      BY <1>17
    <3> QED
      BY <3>1, <3>2
  <2>3. \/ Exists(row[t]) /\ row'[t].content = row[t].content
        \/ Exists(e.before) /\ row'[t].content = e.before.content
    <3>1. e.action \in {"CREATE", "UPDATE", "DELETE"}
      BY <1>6 DEF Events
    <3>2. CASE e.action = "CREATE" \/ e.action = "DELETE"
      <4>1. \A v \in BOOLEAN : [before EXCEPT !.deleted = v].content = before.content
        BY <1>7 DEF Full
      <4>2. after.content = before.content
        BY <1>2, <3>2, <4>1 DEF Reverted
      <4> QED
        BY <1>2, <1>7, <1>18, <4>2, RowKinds
    <3>3. CASE e.action = "UPDATE"
      <4>1. e.before \in Full
        BY <1>1, <1>2, <1>5, <3>3 DEF RowsInv
      <4> QED
        BY <1>2, <1>18, <3>3, <4>1, RowKinds DEF Reverted
    <3> QED
      BY <3>1, <3>2, <3>3
  <2> QED
    BY <1>2, <1>5, <1>17, <1>18, <2>1, <2>2, <2>3 DEF Grown
<1>30. Marks(i)
  BY <1>2, <1>14, <1>16, <1>17 DEF Marks
<1> QED
  BY <1>2, <1>20, <1>21, <1>22, <1>23, <1>24, <1>26, <1>27, <1>28, <1>29, <1>30 DEF LedgerInv

-----------------------------------------------------------------------------
LEMMA InitInv == Init => LedgerInv
<1> SUFFICES ASSUME Init PROVE LedgerInv
  OBVIOUS
<1>1. /\ row = [t \in Txs |-> NoRow] /\ events = <<>> /\ archived = {}
      /\ undo = [c \in Clients |-> NoUndo]
  BY DEF Init
<1>2. Len(events) = 0 /\ DOMAIN events = {} /\ events \in Seq(Events)
  BY <1>1
<1>3. NoUndo \in Undos /\ NoUndo.step # "checked"
  BY DEF Undos, NoUndo
<1>4. LedgerTypes
  BY <1>1, <1>2, <1>3, RowKinds, LedgerAssumption DEF LedgerTypes
<1>5. RowsInv
  BY <1>1, <1>2, RowKinds DEF RowsInv, CompleteRow
<1>6. ChainInv
  BY <1>1, <1>2 DEF ChainInv, Chained
<1>7. UndoneInv
  BY <1>2 DEF UndoneInv
<1>8. LockInv
  BY <1>1, <1>3 DEF LockInv
<1> QED
  BY <1>4, <1>5, <1>6, <1>7, <1>8 DEF LedgerInv

LEMMA NextInv == LedgerInv /\ [Next]_vars => LedgerInv'
<1> SUFFICES ASSUME LedgerInv, [Next]_vars PROVE LedgerInv'
  OBVIOUS
<1>1. ASSUME NEW req \in Requests, NEW b \in Batches, NEW d \in [DOMAIN b -> Drafts], CreateTransactions(req, b, d)
      PROVE  LedgerInv'
  BY <1>1, CreateKeeps
<1>2. ASSUME NEW req \in Requests, NEW t \in Txs, DeleteTransaction(req, t)
      PROVE  LedgerInv'
  BY <1>2, DeleteKeeps
<1>3. ASSUME NEW req \in Requests, NEW t \in Txs, NEW p \in Patches, UpdateTransaction(req, t, p)
      PROVE  LedgerInv'
  BY <1>3, UpdateKeeps
<1>4. ASSUME NEW m \in Members, UndoLast(m)
      PROVE  LedgerInv'
  <2>1. PICK i \in DOMAIN events :
          undo' = [undo EXCEPT ![Chat] = [step |-> "picked", event |-> i, actor |-> m, seen |-> 0]]
    BY <1>4 DEF UndoLast
  <2> QED
    BY <1>4, <2>1, PickKeeps DEF UndoLast, Clients
<1>5. ASSUME NEW s \in Sessions, NEW t \in Txs, RestoreTransaction(s, t)
      PROVE  LedgerInv'
  <2>1. PICK i \in DOMAIN events :
          undo' = [undo EXCEPT ![s] = [step |-> "picked", event |-> i, actor |-> s, seen |-> 0]]
    BY <1>5 DEF RestoreTransaction
  <2> QED
    BY <1>5, <2>1, PickKeeps DEF RestoreTransaction, Clients
<1>6. ASSUME NEW c \in Clients, LockEvent(c)
      PROVE  LedgerInv'
  BY <1>6, LockKeeps
<1>7. ASSUME NEW c \in Clients, RevertEvent(c)
      PROVE  LedgerInv'
  BY <1>7, RevertKeeps
<1>8. ASSUME NEW c \in Clients, Abort(c)
      PROVE  LedgerInv'
  BY <1>8, ReleaseKeeps DEF Abort
<1>9. ASSUME NEW k \in Editable, UpdateCategory(k)
      PROVE  LedgerInv'
  <2>1. archived' \subseteq Categories /\ UNCHANGED <<row, events, undo>>
    BY <1>9, LedgerAssumption DEF UpdateCategory, LedgerInv, LedgerTypes
  <2>2. undo' \in [Clients -> Undos] /\ LockInv'
    BY <2>1 DEF LedgerInv, LedgerTypes, LockInv, InEffect
  <2> QED
    BY <2>1, <2>2, SameTrail
<1>10. CASE UNCHANGED vars
  <2>1. UNCHANGED <<row, events, undo, archived>>
    BY <1>10 DEF vars, categoryVars
  <2>2. archived' \subseteq Categories /\ undo' \in [Clients -> Undos] /\ LockInv'
    BY <2>1 DEF LedgerInv, LedgerTypes, LockInv, InEffect
  <2> QED
    BY <2>1, <2>2, SameTrail
<1> QED
  BY <1>1, <1>2, <1>3, <1>4, <1>5, <1>6, <1>7, <1>8, <1>9, <1>10 DEF Next

LEMMA Invariant == Spec => []LedgerInv
  BY InitInv, NextInv, PTL DEF Spec

-----------------------------------------------------------------------------
(* Kinds.                                                                  *)

LEMMA AcceptedFits ==
  ASSUME KindInv, NEW t, NEW in \in Inputs, Acceptable(in)
  PROVE  LET c == Normalized(in)
         IN c.status = "CONFIRMED" /\ c.category \in Categories => kind[c.category] = KindFor(c.type)
<1>1. CASE in.type = "TRANSFER"
  BY <1>1, LedgerAssumption DEF Normalized
<1>2. CASE in.type # "TRANSFER" /\ in.category = NoCategory
  BY <1>2, LedgerAssumption DEF Normalized
<1>3. CASE in.type # "TRANSFER" /\ in.category # NoCategory
  BY <1>3 DEF Normalized, Acceptable
<1> QED
  BY <1>1, <1>2, <1>3

LEMMA GrownKinds ==
  ASSUME LedgerInv, LedgerInv', KindInv, Grown
  PROVE  KindInv'
<1>1. /\ kind' = kind /\ kindSince' = kindSince /\ Len(events) <= Len(events')
      /\ \A k \in DOMAIN events :
           /\ k \in DOMAIN events' /\ events'[k].tx = events[k].tx
           /\ events'[k].before = events[k].before /\ events'[k].after = events[k].after
  BY DEF Grown
<1>2. Len(events) \in Nat /\ Len(events') \in Nat
  BY DEF LedgerInv, LedgerTypes
<1>3. kind' \in [Categories -> Kinds] /\ kindSince' \in [Categories -> 0 .. Len(events')]
  <2>1. 0 .. Len(events) \subseteq 0 .. Len(events')
    BY <1>1, <1>2
  <2> QED
    BY <1>1, <2>1 DEF KindInv
<1>4. ASSUME NEW t, NEW c, Written(t, c), Fits(t, c)
      PROVE  Written(t, c)' /\ Fits(t, c)'
  BY <1>1, <1>4 DEF Written, Fits
<1>5. ASSUME NEW t \in Txs, Exists(row'[t]), NEW c, c = row'[t].content
      PROVE  Written(t, c)' /\ Fits(t, c)'
  <2>1. CASE Exists(row[t]) /\ c = row[t].content
    BY <1>4, <2>1 DEF KindInv
  <2>2. ASSUME NEW i \in DOMAIN events, events[i].tx = t, Exists(events[i].before), c = events[i].before.content
        PROVE  Written(t, c)' /\ Fits(t, c)'
    BY <1>4, <2>2 DEF KindInv
  <2>3. CASE Accepted(t)
    <3>1. PICK in \in Inputs : Acceptable(in) /\ c = Normalized(in)
      BY <1>5, <2>3 DEF Accepted
    <3>2. PICK k \in DOMAIN events' : events'[k].tx = t /\ events'[k].after = row'[t]
      BY <2>3 DEF Accepted
    <3>3. c.status = "CONFIRMED" /\ c.category \in Categories => kind[c.category] = KindFor(c.type)
      BY <3>1, AcceptedFits
    <3> QED
      BY <1>1, <1>5, <3>2, <3>3 DEF Written, Fits
  <2>4. \/ row'[t] = row[t]
        \/ Exists(row[t]) /\ row'[t].content = row[t].content
        \/ \E i \in DOMAIN events :
             events[i].tx = t /\ Exists(events[i].before) /\ row'[t].content = events[i].before.content
        \/ Accepted(t)
    BY DEF Grown
  <2> QED
    BY <1>5, <2>1, <2>2, <2>3, <2>4
<1>6. ASSUME NEW k \in DOMAIN events', Exists(events'[k].before), NEW t, t = events'[k].tx,
             NEW c, c = events'[k].before.content
      PROVE  Written(t, c)' /\ Fits(t, c)'
  <2>1. CASE k \in DOMAIN events
    BY <1>1, <1>4, <1>6, <2>1 DEF KindInv
  <2>2. CASE k \notin DOMAIN events
    <3>1. events'[k].before = row[t]
      BY <1>6, <2>2 DEF Grown
    <3>2. t \in Txs
      <4>1. events'[k] \in Events
        BY <1>6 DEF LedgerInv, LedgerTypes
      <4> QED
        BY <1>6, <4>1 DEF Events
    <3> QED
      BY <1>4, <1>6, <3>1, <3>2 DEF KindInv
  <2> QED
    BY <2>1, <2>2
<1> QED
  BY <1>3, <1>5, <1>6 DEF KindInv

(* The entries keep what they have when the kind of their category changes: *)
(* from then on it is something they had before.                           *)
LEMMA CategoryKinds ==
  ASSUME LedgerInv, KindInv, NEW k \in Editable, UpdateCategory(k)
  PROVE  KindInv'
<1>1. PICK shut \in BOOLEAN, to \in Kinds :
        /\ kind' = [kind EXCEPT ![k] = to]
        /\ kindSince' = IF to = kind[k] THEN kindSince ELSE [kindSince EXCEPT ![k] = Len(events)]
        /\ UNCHANGED <<row, events>>
  BY DEF UpdateCategory
<1>2. PICK n \in Nat : n = Len(events) /\ DOMAIN events = 1 .. n
  BY DEF LedgerInv, LedgerTypes
<1>3. k \in Categories /\ kind \in [Categories -> Kinds] /\ kindSince \in [Categories -> 0 .. n]
  BY <1>2, LedgerAssumption DEF KindInv
<1>4. kind' \in [Categories -> Kinds] /\ kindSince' \in [Categories -> 0 .. n]
  BY <1>1, <1>2, <1>3
<1>5. \A c \in Categories : (kind'[c] = kind[c] /\ kindSince'[c] = kindSince[c]) \/ kindSince'[c] = n
  BY <1>1, <1>2, <1>3
<1>6. ASSUME NEW t, NEW c, Written(t, c), Fits(t, c)
      PROVE  Written(t, c)' /\ Fits(t, c)'
  <2>1. Written(t, c)'
    BY <1>1, <1>6 DEF Written
  <2>2. Fits(t, c)'
    BY <1>1, <1>2, <1>5, <1>6 DEF Written, Fits
  <2> QED
    BY <2>1, <2>2
<1>7. ASSUME NEW t \in Txs, Exists(row'[t]), NEW c, c = row'[t].content
      PROVE  Written(t, c)' /\ Fits(t, c)'
  BY <1>1, <1>6, <1>7 DEF KindInv
<1>8. ASSUME NEW i \in DOMAIN events', Exists(events'[i].before), NEW t, t = events'[i].tx,
             NEW c, c = events'[i].before.content
      PROVE  Written(t, c)' /\ Fits(t, c)'
  BY <1>1, <1>6, <1>8 DEF KindInv
<1> QED
  BY <1>1, <1>2, <1>4, <1>7, <1>8 DEF KindInv

LEMMA KindsNext == LedgerInv /\ LedgerInv' /\ KindInv /\ [Next]_vars => KindInv'
<1> SUFFICES ASSUME LedgerInv, LedgerInv', KindInv, [Next]_vars PROVE KindInv'
  OBVIOUS
<1>1. CASE Grown
  BY <1>1, GrownKinds
<1>2. CASE UNCHANGED <<row, events, kind, kindSince>>
  BY <1>2 DEF KindInv, Written, Fits
<1>3. ASSUME NEW k \in Editable, UpdateCategory(k)
      PROVE  KindInv'
  BY <1>3, CategoryKinds
<1>4. \/ Grown \/ UNCHANGED <<row, events, kind, kindSince>>
      \/ \E k \in Editable : UpdateCategory(k)
  BY CreateKeeps, UpdateKeeps, DeleteKeeps, RevertKeeps
     DEF Next, UndoLast, RestoreTransaction, LockEvent, Abort, vars, categoryVars
<1> QED
  BY <1>1, <1>2, <1>3, <1>4

LEMMA KindsInit == Init => KindInv
<1> SUFFICES ASSUME Init PROVE KindInv
  OBVIOUS
<1>1. /\ row = [t \in Txs |-> NoRow] /\ events = <<>> /\ kind = KindOf
      /\ kindSince = [k \in Categories |-> 0]
  BY DEF Init
<1>2. Len(events) = 0 /\ DOMAIN events = {} /\ ~Exists(NoRow)
  BY <1>1, RowKinds
<1> QED
  BY <1>1, <1>2, LedgerAssumption DEF KindInv

LEMMA KindsInvariant == Spec => []KindInv
  BY KindsInit, KindsNext, Invariant, PTL DEF Spec


-----------------------------------------------------------------------------
(* A step appends changes, reverts one, or leaves rows and trail alone.    *)
LEMMA StepKinds ==
  ASSUME LedgerInv, [Next]_vars
  PROVE  \/ Extends /\ undo' = undo
         \/ \E c \in Clients : RevertEvent(c)
         \/ UNCHANGED <<row, events>>
<1>1. \/ (\E req \in Requests, b \in Batches : \E d \in [DOMAIN b -> Drafts] : CreateTransactions(req, b, d))
      \/ (\E req \in Requests, t \in Txs : DeleteTransaction(req, t))
      \/ (\E req \in Requests, t \in Txs, p \in Patches : UpdateTransaction(req, t, p))
      \/ (\E c \in Clients : RevertEvent(c))
      \/ UNCHANGED <<row, events>>
  BY DEF Next, UndoLast, RestoreTransaction, LockEvent, Abort, UpdateCategory, vars
<1> QED
  BY <1>1, CreateKeeps, UpdateKeeps, DeleteKeeps
     DEF CreateTransactions, DeleteTransaction, UpdateTransaction

(* The rows, the trail and the undos in progress have their types.         *)
THEOREM LedgerTyped == Spec => []TypeOK
<1>1. LedgerInv /\ KindInv => TypeOK
  <2> SUFFICES ASSUME LedgerInv, KindInv PROVE TypeOK
    OBVIOUS
  <2>1. LedgerTypes /\ UndoneInv /\ LockInv
    BY DEF LedgerInv
  <2>2. \A t \in Txs : row[t] = NoRow \/
          (row[t].there /\ row[t].deleted \in BOOLEAN /\ row[t].content.reasons \in SUBSET Reasons)
    BY <2>1 DEF LedgerTypes, Rows, Contents
  <2>3. \A i \in DOMAIN events : events[i].tx \in Txs /\ events[i].undoneBy \in 0 .. Len(events)
    <3>1. \A i \in DOMAIN events : events[i] \in Events
      BY <2>1 DEF LedgerTypes
    <3>2. Len(events) \in Nat
      BY <2>1 DEF LedgerTypes
    <3> QED
      BY <2>1, <3>1, <3>2, LedgerAssumption DEF Events, UndoneInv
  <2> QED
    BY <2>1, <2>2, <2>3 DEF TypeOK, LedgerTypes, LockInv, KindInv
<1> QED
  BY <1>1, Invariant, KindsInvariant, PTL

(* Whoever writes at the same time, the trail of an entry is a chain from   *)
(* its CREATE to the row (ledger.go 292-294).                              *)
THEOREM TrailTellsAll == Spec => []AuditChain
<1>1. LedgerInv => AuditChain
  <2> SUFFICES ASSUME LedgerInv, NEW t \in Txs
               PROVE  LET trail == {i \in DOMAIN events : events[i].tx = t}
                          Previous(i) == {j \in trail : j < i}
                          IsLast(j, S) == j \in S /\ \A k \in S : k <= j
                      IN /\ trail = {} => row[t] = NoRow
                         /\ \A i \in trail :
                              /\ Previous(i) = {} => events[i].before = NoRow /\ events[i].action = "CREATE"
                              /\ \A j \in trail : IsLast(j, Previous(i)) => events[i].before = events[j].after
                              /\ IsLast(i, trail) => row[t] = events[i].after
    BY DEF AuditChain
  <2> DEFINE trail == {i \in DOMAIN events : events[i].tx = t}
             Previous(i) == {j \in trail : j < i}
             IsLast(j, S) == j \in S /\ \A k \in S : k <= j
  <2>1. Chained(events, row[t], t) /\ DOMAIN events \subseteq Nat
    BY DEF LedgerInv, LedgerTypes, ChainInv
  <2>2. trail = {} => row[t] = NoRow
    BY <2>1 DEF Chained
  <2>3. ASSUME NEW i \in trail
        PROVE  /\ Previous(i) = {} => events[i].before = NoRow /\ events[i].action = "CREATE"
               /\ \A j \in trail : IsLast(j, Previous(i)) => events[i].before = events[j].after
               /\ IsLast(i, trail) => row[t] = events[i].after
    <3>1. ASSUME Previous(i) = {}
          PROVE  events[i].before = NoRow /\ events[i].action = "CREATE"
      <4>1. \A j \in DOMAIN events : events[j].tx = t => i <= j
        BY <2>1, <3>1
      <4> QED
        BY <2>1, <4>1 DEF Chained
    <3>2. \A j \in trail : IsLast(j, Previous(i)) => events[i].before = events[j].after
      BY <2>1 DEF Chained
    <3>3. IsLast(i, trail) => row[t] = events[i].after
      BY <2>1 DEF Chained
    <3> QED
      BY <3>1, <3>2, <3>3
  <2> QED
    BY <2>2, <2>3
<1> QED
  BY <1>1, Invariant, PTL

(* However two undos of the same change interleave, it is reverted once     *)
(* (ledger.go 513-520).                                                    *)
THEOREM RevertedOnce == Spec => []UndoneOnce
<1>1. LedgerInv => UndoneOnce
  <2> SUFFICES ASSUME LedgerInv, NEW j \in DOMAIN events
               PROVE  LET reverted == {i \in DOMAIN events : events[i].undoneBy = j}
                      IN /\ events[j].action # "UNDO" => reverted = {}
                         /\ events[j].action = "UNDO" => Cardinality(reverted) = 1
                         /\ \A i \in reverted : i < j /\ events[i].tx = events[j].tx
    BY DEF UndoneOnce
  <2> DEFINE reverted == {i \in DOMAIN events : events[i].undoneBy = j}
  <2>1. UndoneInv /\ j # 0
    BY DEF LedgerInv, LedgerTypes
  <2>2. \A i \in reverted : i < j /\ events[i].tx = events[j].tx /\ events[j].action = "UNDO"
    BY <2>1 DEF UndoneInv
  <2>3. ASSUME events[j].action = "UNDO"
        PROVE  Cardinality(reverted) = 1
    <3>1. PICK i \in DOMAIN events : events[i].undoneBy = j
      BY <2>1, <2>3 DEF UndoneInv
    <3>2. reverted = {i}
      BY <2>1, <3>1 DEF UndoneInv
    <3> QED
      BY <3>2, FS_Singleton
  <2> QED
    BY <2>2, <2>3
<1> QED
  BY <1>1, Invariant, PTL

(* Whatever was patched, archived, moved to another kind and undone, a      *)
(* CONFIRMED entry has no open doubt and a category of its kind, or of the  *)
(* kind it had until it was changed under the entry (ledger.go 50-52 and    *)
(* 110-114, categories.go 220-260).                                        *)
THEOREM ConfirmedLacksNothing == Spec => []ConfirmedIsComplete
<1>1. LedgerInv /\ KindInv => ConfirmedIsComplete
  <2> SUFFICES ASSUME LedgerInv, KindInv, NEW t \in Txs,
                      Exists(row[t]), row[t].content.status = "CONFIRMED"
               PROVE  LET c == row[t].content
                          HadIt(n) == \E i \in 1 .. n : events[i].tx = t /\ events[i].after.content = c
                      IN /\ c.reasons = {}
                         /\ IF c.type = "TRANSFER" THEN c.category = NoCategory
                            ELSE /\ c.category \in Categories
                                 /\ kind[c.category] = KindFor(c.type) \/ HadIt(kindSince[c.category])
    BY DEF ConfirmedIsComplete
  <2>1. PICK c : c = row[t].content
    OBVIOUS
  <2>2. /\ c.reasons = {}
        /\ IF c.type = "TRANSFER" THEN c.category = NoCategory ELSE c.category \in Categories
    BY <2>1 DEF LedgerInv, RowsInv, CompleteRow
  <2>3. ASSUME c.category \in Categories
        PROVE  \/ kind[c.category] = KindFor(c.type)
               \/ \E i \in 1 .. kindSince[c.category] : events[i].tx = t /\ events[i].after.content = c
    <3>1. PICK n \in Nat : n = kindSince[c.category] /\ n <= Len(events) /\ DOMAIN events = 1 .. Len(events)
      <4>1. kindSince[c.category] \in 0 .. Len(events)
        BY <2>3 DEF KindInv
      <4> QED
        BY <4>1 DEF LedgerInv, LedgerTypes
    <3>2. \A i \in DOMAIN events : i <= n => i \in 1 .. n
      BY <3>1
    <3>3. Fits(t, c)
      BY <2>1 DEF KindInv
    <3> QED
      BY <2>1, <2>3, <3>1, <3>2, <3>3 DEF Fits
  <2> QED
    BY <2>1, <2>2, <2>3
<1> QED
  BY <1>1, Invariant, KindsInvariant, PTL

(* An undo drops no change that was there when it looked, however the undos *)
(* of the members and of the panel interleave with other changes            *)
(* (ledger.go 513-537). What came after it looked it may drop, as a run     *)
(* shows.                                                                  *)
THEOREM SeenIsKept == Spec => UndoDropsNothingSeen
<1> DEFINE Kept == \A i \in DOMAIN events :
                     events[i].undoneBy = 0 /\ events'[i].undoneBy # 0 =>
                       \E c \in Clients :
                         /\ undo[c].step = "checked" /\ undo[c].event = i
                         /\ \A k \in DOMAIN events :
                              events[k].tx = events[i].tx /\ InEffect(k) => k <= i \/ undo[c].seen < k
<1>1. ASSUME LedgerInv, [Next]_vars
      PROVE  Kept
  <2>1. SUFFICES ASSUME NEW i \in DOMAIN events, events[i].undoneBy = 0, events'[i].undoneBy # 0
                 PROVE  \E c \in Clients :
                          /\ undo[c].step = "checked" /\ undo[c].event = i
                          /\ \A k \in DOMAIN events :
                               events[k].tx = events[i].tx /\ InEffect(k) => k <= i \/ undo[c].seen < k
    OBVIOUS
  <2>2. PICK c \in Clients : RevertEvent(c)
    BY <1>1, <2>1, StepKinds DEF Extends
  <2>3. undo[c].step = "checked"
    BY <2>2 DEF RevertEvent
  <2>4. undo[c].event = i
    <3>1. Marks(undo[c].event)
      BY <1>1, <2>2, RevertKeeps
    <3> QED
      BY <2>1, <3>1 DEF Marks
  <2> QED
    BY <1>1, <2>3, <2>4 DEF LedgerInv, LockInv
<1>2. LedgerInv /\ [Next]_vars => [Kept]_vars
  BY <1>1
<1> QED
  BY <1>2, Invariant, PTL DEF Spec, UndoDropsNothingSeen

-----------------------------------------------------------------------------
(* The refinement of UndoStack. As long as an entry is not torn, its        *)
(* changes in effect are chained among themselves, as the whole trail is:   *)
(* each started from what the one below it left, only the   *)
(* lowest one created the entry, and the row is what the top one left. So   *)
(* taking the top one away brings back what the one below left.            *)

Stacked(es, r, t) ==
  /\ Effective(es, t) = {} => ~Visible(r)
  /\ \A i \in Effective(es, t) :
       /\ es[i].action = "CREATE" <=> \A j \in Effective(es, t) : i <= j
       /\ (\A j \in Effective(es, t) : j <= i) => r = es[i].after
       /\ es[i].action = "DELETE" => Visible(es[i].before) /\ es[i].after = [es[i].before EXCEPT !.deleted = TRUE]
       /\ \A p \in Effective(es, t) :
            p < i /\ (\A k \in Effective(es, t) : k < i => k <= p) => es[i].before = es[p].after

StackInv == \A t \in Txs : t \notin Torn => Stacked(events, row[t], t)

LEMMA LeavesStacked ==
  ASSUME NEW es, NEW fs, NEW r, NEW s, NEW t, Leaves(es, fs, r, s, t), Stacked(es, r, t)
  PROVE  Stacked(fs, s, t)
<1> DEFINE E == Effective(es, t)
           F == Effective(fs, t)
<1>1. F = E /\ s = r /\ \A i \in E : fs[i].action = es[i].action /\ fs[i].before = es[i].before /\ fs[i].after = es[i].after
  BY DEF Leaves, Recorded
<1>2. /\ E = {} => ~Visible(r)
      /\ \A i \in E :
           /\ es[i].action = "CREATE" <=> \A j \in E : i <= j
           /\ (\A j \in E : j <= i) => r = es[i].after
           /\ es[i].action = "DELETE" => Visible(es[i].before) /\ es[i].after = [es[i].before EXCEPT !.deleted = TRUE]
           /\ \A p \in E : p < i /\ (\A k \in E : k < i => k <= p) => es[i].before = es[p].after
  BY DEF Stacked
<1> HIDE DEF E, F
<1>3. /\ F = {} => ~Visible(s)
      /\ \A i \in F :
           /\ fs[i].action = "CREATE" <=> \A j \in F : i <= j
           /\ (\A j \in F : j <= i) => s = fs[i].after
           /\ fs[i].action = "DELETE" => Visible(fs[i].before) /\ fs[i].after = [fs[i].before EXCEPT !.deleted = TRUE]
           /\ \A p \in F : p < i /\ (\A k \in F : k < i => k <= p) => fs[i].before = fs[p].after
  BY <1>1, <1>2
<1> QED
  BY <1>3 DEF E, F, Stacked

LEMMA PushesStacked ==
  ASSUME NEW es \in Seq(Events), NEW fs, NEW r, NEW s, NEW t, NEW n, Pushes(es, fs, r, s, t, n), Stacked(es, r, t)
  PROVE  Stacked(fs, s, t)
<1> DEFINE E == Effective(es, t)
           F == Effective(fs, t)
<1>1. /\ n \in Nat /\ F = E \cup {n} /\ fs[n].after = s /\ \A i \in E : i \in Nat /\ i < n
      /\ \A i \in E : fs[i].action = es[i].action /\ fs[i].before = es[i].before /\ fs[i].after = es[i].after
  BY DEF Pushes, Recorded, Effective
<1>2. /\ E = {} => ~Visible(r)
      /\ \A i \in E :
           /\ es[i].action = "CREATE" <=> \A j \in E : i <= j
           /\ (\A j \in E : j <= i) => r = es[i].after
           /\ es[i].action = "DELETE" => Visible(es[i].before) /\ es[i].after = [es[i].before EXCEPT !.deleted = TRUE]
           /\ \A p \in E : p < i /\ (\A k \in E : k < i => k <= p) => es[i].before = es[p].after
  BY DEF Stacked
<1>3. \/ fs[n].action = "CREATE" /\ E = {}
      \/ /\ fs[n].action \in {"UPDATE", "DELETE"} /\ E # {}
         /\ Visible(r) /\ fs[n].before = r
         /\ fs[n].action = "DELETE" => s = [r EXCEPT !.deleted = TRUE]
  BY <1>2 DEF Pushes
<1> HIDE DEF E, F
<1>4. ASSUME NEW i \in F
      PROVE  fs[i].action = "CREATE" <=> \A j \in F : i <= j
  <2>1. CASE i = n /\ E = {}
    BY <1>1, <1>3, <2>1
  <2>2. CASE i = n /\ E # {}
    <3>1. PICK e \in E : TRUE
      BY <2>2
    <3>2. e \in F /\ ~(n <= e)
      BY <1>1, <3>1
    <3> QED
      BY <1>3, <2>2, <3>2
  <2>3. CASE i # n
    <3>1. i \in E /\ i <= n
      BY <1>1, <1>4, <2>3
    <3>2. (\A j \in F : i <= j) <=> (\A j \in E : i <= j)
      BY <1>1, <3>1
    <3> QED
      BY <1>1, <1>2, <3>1, <3>2
  <2> QED
    BY <2>1, <2>2, <2>3
<1>5. ASSUME NEW i \in F, \A j \in F : j <= i
      PROVE  s = fs[i].after
  BY <1>1, <1>5
<1>6. ASSUME NEW i \in F, fs[i].action = "DELETE"
      PROVE  Visible(fs[i].before) /\ fs[i].after = [fs[i].before EXCEPT !.deleted = TRUE]
  BY <1>1, <1>2, <1>3, <1>6
<1>7. ASSUME NEW i \in F, NEW p \in F, p < i, \A k \in F : k < i => k <= p
      PROVE  fs[i].before = fs[p].after
  <2>1. CASE i = n
    <3>1. p \in E /\ \A k \in E : k <= p
      BY <1>1, <1>7, <2>1
    <3>2. es[p].after = r /\ fs[n].before = r
      BY <1>2, <1>3, <3>1
    <3> QED
      BY <1>1, <2>1, <3>1, <3>2
  <2>2. CASE i # n
    <3>1. i \in E /\ p \in E
      BY <1>1, <1>7, <2>2
    <3>2. \A k \in E : k < i => k <= p
      BY <1>1, <1>7
    <3>3. es[i].before = es[p].after
      BY <1>2, <1>7, <3>1, <3>2
    <3> QED
      BY <1>1, <3>1, <3>3
  <2> QED
    BY <2>1, <2>2
<1>8. F # {}
  BY <1>1
<1> QED
  BY <1>4, <1>5, <1>6, <1>7, <1>8 DEF E, F, Stacked

LEMMA PopsStacked ==
  ASSUME NEW es \in Seq(Events), NEW fs, NEW r \in Full, NEW s, NEW t, NEW i, Pops(es, fs, r, s, t, i),
         Stacked(es, r, t), es[i].action # "CREATE" => es[i].before \in Full
  PROVE  Stacked(fs, s, t)
<1> DEFINE E == Effective(es, t)
           F == Effective(fs, t)
<1>1. /\ i \in E /\ F = E \ {i} /\ \A j \in E : j \in Nat /\ j <= i
      /\ \A j \in E : fs[j].action = es[j].action /\ fs[j].before = es[j].before /\ fs[j].after = es[j].after
      /\ s = Reverted(r, es[i])
  BY DEF Pops, Recorded, Effective
<1>2. /\ E = {} => ~Visible(r)
      /\ \A k \in E :
           /\ es[k].action = "CREATE" <=> \A j \in E : k <= j
           /\ (\A j \in E : j <= k) => r = es[k].after
           /\ es[k].action = "DELETE" => Visible(es[k].before) /\ es[k].after = [es[k].before EXCEPT !.deleted = TRUE]
           /\ \A p \in E : p < k /\ (\A j \in E : j < k => j <= p) => es[k].before = es[p].after
  BY DEF Stacked
<1>3. es[i].action \in {"CREATE", "UPDATE", "DELETE"}
  <2>1. es[i] \in Events /\ es[i].action # "UNDO"
    BY DEF Pops, Effective
  <2> QED
    BY <2>1 DEF Events
<1> HIDE DEF E, F
<1>4. \A k, p \in E : p < k /\ (\A j \in E : j < k => j <= p) => es[k].before = es[p].after
  BY <1>2
<1>5. CASE es[i].action = "CREATE"
  <2>1. F = {}
    <3>1. \A j \in E : i <= j
      BY <1>1, <1>2, <1>5
    <3>2. \A j \in E : j = i
      BY <1>1, <3>1
    <3> QED
      BY <1>1, <3>2
  <2>2. ~Visible(s)
    BY <1>1, <1>5 DEF Reverted, Visible, Full
  <2> QED
    BY <2>1, <2>2 DEF F, Stacked
<1>6. CASE es[i].action # "CREATE"
  <2>1. F # {} /\ s = es[i].before
    <3>1. F # {}
      <4>1. PICK j \in E : ~(i <= j)
        BY <1>1, <1>2, <1>6
      <4>2. j # i
        BY <1>1, <4>1
      <4> QED
        BY <1>1, <4>2
    <3>2. CASE es[i].action = "UPDATE"
      BY <1>1, <3>1, <3>2 DEF Reverted
    <3>3. CASE es[i].action = "DELETE"
      <4>1. PICK before : before = es[i].before
        OBVIOUS
      <4>2. before \in Full /\ before.deleted = FALSE /\ r = [before EXCEPT !.deleted = TRUE]
        <5>1. before \in Full /\ r = es[i].after
          BY <1>1, <1>2, <1>6, <4>1
        <5>2. Visible(before) /\ es[i].after = [before EXCEPT !.deleted = TRUE]
          BY <1>1, <1>2, <3>3, <4>1
        <5> QED
          BY <5>1, <5>2 DEF Visible, Full
      <4>3. [r EXCEPT !.deleted = FALSE] = before
        BY <4>2 DEF Full
      <4>4. Reverted(r, es[i]) = [r EXCEPT !.deleted = FALSE]
        BY <3>3 DEF Reverted
      <4> QED
        BY <1>1, <3>1, <4>1, <4>3, <4>4
    <3> QED
      BY <1>3, <1>6, <3>1, <3>2, <3>3
  <2>2. ASSUME NEW k \in F
        PROVE  fs[k].action = "CREATE" <=> \A j \in F : k <= j
    <3>1. k \in E /\ k <= i
      BY <1>1, <2>2
    <3>2. (\A j \in F : k <= j) <=> (\A j \in E : k <= j)
      BY <1>1, <3>1
    <3> QED
      BY <1>1, <1>2, <3>1, <3>2
  <2>3. ASSUME NEW k \in F, \A j \in F : j <= k
        PROVE  s = fs[k].after
    <3>1. k \in E /\ k < i /\ \A j \in E : j < i => j <= k
      BY <1>1, <2>3
    <3>2. es[i].before = es[k].after
      BY <1>1, <1>4, <3>1
    <3> QED
      BY <1>1, <2>1, <3>1, <3>2
  <2>4. ASSUME NEW k \in F, fs[k].action = "DELETE"
        PROVE  Visible(fs[k].before) /\ fs[k].after = [fs[k].before EXCEPT !.deleted = TRUE]
    BY <1>1, <1>2, <2>4
  <2>5. ASSUME NEW k \in F, NEW p \in F, p < k, \A j \in F : j < k => j <= p
        PROVE  fs[k].before = fs[p].after
    <3>1. k \in E /\ p \in E /\ \A j \in E : j < k => j <= p
      BY <1>1, <2>5
    <3>2. es[k].before = es[p].after
      BY <1>2, <2>5, <3>1
    <3> QED
      BY <1>1, <3>1, <3>2
  <2> QED
    BY <2>1, <2>2, <2>3, <2>4, <2>5 DEF F, Stacked
<1> QED
  BY <1>5, <1>6

-----------------------------------------------------------------------------
(* What tears an entry.                                                    *)

LEMMA TrailNumbers ==
  ASSUME LedgerInv
  PROVE  /\ Len(events) \in Nat /\ DOMAIN events = 1 .. Len(events)
         /\ \A k \in DOMAIN events : /\ events[k].undoneBy \in 0 .. Len(events)
                                    /\ events[k].tx \in Txs
<1>1. Len(events) \in Nat /\ DOMAIN events = 1 .. Len(events) /\ \A k \in DOMAIN events : events[k] \in Events
  BY DEF LedgerInv, LedgerTypes
<1>2. \A k \in DOMAIN events : events[k].undoneBy \in 0 .. MaxEvents /\ events[k].tx \in Txs
  BY <1>1 DEF Events
<1>3. \A k \in DOMAIN events : events[k].undoneBy <= Len(events)
  BY DEF LedgerInv, UndoneInv
<1> QED
  BY <1>1, <1>2, <1>3, LedgerAssumption

LEMMA ExtendsTorn ==
  ASSUME LedgerInv, LedgerInv', Extends
  PROVE  Torn' = Torn
<1>1. /\ Len(events) \in Nat /\ DOMAIN events = 1 .. Len(events)
      /\ \A k \in DOMAIN events : events[k].undoneBy \in 0 .. Len(events)
  BY TrailNumbers
<1>2. DOMAIN events' \subseteq Nat \ {0}
  BY DEF LedgerInv, LedgerTypes
<1>3. ASSUME NEW i \in DOMAIN events', NEW k \in DOMAIN events', Drops(i, k)'
      PROVE  i \in DOMAIN events /\ k \in DOMAIN events /\ Drops(i, k)
  <2>1. i \in DOMAIN events /\ events'[i] = events[i]
    BY <1>3 DEF Extends, Drops
  <2>2. k \in DOMAIN events /\ events'[k] = events[k]
    BY <1>1, <1>2, <1>3, <2>1 DEF Extends, Drops
  <2> QED
    BY <1>3, <2>1, <2>2 DEF Drops
<1>4. ASSUME NEW i \in DOMAIN events, NEW k \in DOMAIN events, Drops(i, k)
      PROVE  i \in DOMAIN events' /\ k \in DOMAIN events' /\ Drops(i, k)'
  BY <1>4 DEF Extends, Drops
<1> QED
  BY <1>3, <1>4 DEF Torn, Extends

LEMMA MarksTorn ==
  ASSUME LedgerInv, NEW i \in DOMAIN events, InEffect(i), Marks(i)
  PROVE  Torn' = Torn \cup (IF LaterChange(i) THEN {events[i].tx} ELSE {})
<1>1. PICK n \in Nat : n = Len(events) + 1
  BY TrailNumbers
<1>2. \A k \in DOMAIN events : events[k].undoneBy \in Nat /\ events[k].undoneBy < n /\ k \in Nat /\ k < n
  BY <1>1, TrailNumbers
<1>3. /\ n \in DOMAIN events' /\ n \notin DOMAIN events
      /\ events'[n].undoneBy = 0 /\ events'[n].action = "UNDO"
      /\ \A k \in DOMAIN events' : k = n \/ k \in DOMAIN events
      /\ \A k \in DOMAIN events :
           /\ k \in DOMAIN events' /\ events'[k].tx = events[k].tx /\ events'[k].action = events[k].action
           /\ events'[k].undoneBy = IF k = i THEN n ELSE events[k].undoneBy
  BY <1>1 DEF Marks
<1>4. events[i].undoneBy = 0 /\ i \in Nat
  BY <1>2 DEF InEffect
<1>5. ASSUME NEW x \in DOMAIN events, NEW k \in DOMAIN events, x # i
      PROVE  Drops(x, k)' <=> Drops(x, k)
  <2>1. CASE k # i
    BY <1>3, <1>5, <2>1 DEF Drops
  <2>2. CASE k = i
    <3>1. events'[x].undoneBy = events[x].undoneBy /\ events[x].undoneBy < n /\ events'[k].undoneBy = n
          /\ events[k].undoneBy = 0
      BY <1>2, <1>3, <1>4, <1>5, <2>2
    <3> QED
      BY <1>3, <3>1 DEF Drops
  <2> QED
    BY <2>1, <2>2
<1>6. ASSUME NEW k \in DOMAIN events
      PROVE  Drops(i, k)' <=> k > i /\ events[k].tx = events[i].tx /\ InEffect(k)
  <2>1. CASE k = i
    BY <1>4, <2>1 DEF Drops
  <2>2. CASE k # i
    <3>1. /\ events'[i].undoneBy = n /\ n # 0 /\ k < n /\ ~(n < events'[k].undoneBy)
          /\ events'[k].undoneBy = events[k].undoneBy
      BY <1>2, <1>3, <2>2
    <3> QED
      BY <1>2, <1>3, <1>4, <3>1 DEF Drops, InEffect
  <2> QED
    BY <2>1, <2>2
<1>7. \A k : ~Drops(n, k)' /\ ~Drops(i, k)
  BY <1>3, <1>4 DEF Drops
<1>8. \A x \in DOMAIN events : ~Drops(x, n)'
  BY <1>3 DEF Drops
<1>9. LaterChange(i) <=> \E k \in DOMAIN events : Drops(i, k)'
  BY <1>6 DEF LaterChange
<1>10. ASSUME NEW t \in Txs
       PROVE  t \in Torn' <=> t \in Torn \/ (t = events[i].tx /\ LaterChange(i))
  <2>1. t \in Torn' <=> \E x, k \in DOMAIN events : events[x].tx = t /\ Drops(x, k)'
    BY <1>3, <1>7, <1>8 DEF Torn
  <2>2. t \in Torn <=> \E x, k \in DOMAIN events : x # i /\ events[x].tx = t /\ Drops(x, k)
    BY <1>7 DEF Torn
  <2> QED
    BY <1>5, <1>9, <2>1, <2>2
<1>11. events[i].tx \in Txs
  BY TrailNumbers
<1> QED
  BY <1>10, <1>11 DEF Torn

LEMMA SameTorn ==
  ASSUME UNCHANGED events
  PROVE  Torn' = Torn
  BY DEF Torn, Drops

LEMMA StackedNext ==
  ASSUME LedgerInv, LedgerInv', StackInv, [Next]_vars
  PROVE  StackInv'
<1>1. ASSUME NEW t \in Txs, LeavesRow(t), t \notin Torn
      PROVE  Stacked(events', row'[t], t)
  <2>1. PICK es, fs, r, s : es = events /\ fs = events' /\ r = row[t] /\ s = row'[t]
    OBVIOUS
  <2>2. Leaves(es, fs, r, s, t) /\ Stacked(es, r, t)
    BY <1>1, <2>1 DEF LeavesRow, StackInv
  <2> QED
    BY <2>1, <2>2, LeavesStacked
<1>2. ASSUME NEW t \in Txs, NEW n, PushesRow(t, n), t \notin Torn
      PROVE  Stacked(events', row'[t], t)
  <2>1. PICK es, fs, r, s : es = events /\ fs = events' /\ r = row[t] /\ s = row'[t]
    OBVIOUS
  <2>2. Pushes(es, fs, r, s, t, n) /\ Stacked(es, r, t) /\ es \in Seq(Events)
    BY <1>2, <2>1 DEF PushesRow, StackInv, LedgerInv, LedgerTypes
  <2> QED
    BY <2>1, <2>2, PushesStacked
<1>3. ASSUME NEW t \in Txs, NEW i, PopsRow(t, i), t \notin Torn
      PROVE  Stacked(events', row'[t], t)
  <2>1. PICK es, fs, r, s : es = events /\ fs = events' /\ r = row[t] /\ s = row'[t]
    OBVIOUS
  <2>2. Pops(es, fs, r, s, t, i) /\ Stacked(es, r, t) /\ es \in Seq(Events)
    BY <1>3, <2>1 DEF PopsRow, StackInv, LedgerInv, LedgerTypes
  <2>3. i \in DOMAIN es /\ es[i].tx = t
    BY <2>2 DEF Pops, Effective
  <2>4. r \in Full /\ (es[i].action # "CREATE" => es[i].before \in Full)
    BY <2>1, <2>3, RowKinds DEF LedgerInv, LedgerTypes, RowsInv
  <2> QED
    BY <2>1, <2>2, <2>4, PopsStacked
<1>4. CASE UNCHANGED <<row, events>>
  BY <1>4, SameTorn DEF StackInv, Stacked, Effective
<1>5. ASSUME NEW req \in Requests, NEW b \in Batches, NEW d \in [DOMAIN b -> Drafts], CreateTransactions(req, b, d)
      PROVE  StackInv'
  <2>1. Torn' = Torn
    BY <1>5, CreateKeeps, ExtendsTorn
  <2>2. ASSUME NEW t \in Txs, t \notin Torn
        PROVE  Stacked(events', row'[t], t)
    <3>1. CASE \A i \in DOMAIN b : b[i] # t
      BY <1>1, <1>5, <2>2, <3>1, CreateKeeps
    <3>2. ASSUME NEW i \in DOMAIN b, b[i] = t
          PROVE  Stacked(events', row'[t], t)
      <4>1. PushesRow(t, Len(events) + i)
        BY <1>5, <3>2, CreateKeeps
      <4> QED
        BY <1>2, <2>2, <4>1
    <3> QED
      BY <3>1, <3>2
  <2> QED
    BY <2>1, <2>2 DEF StackInv
<1>6. ASSUME NEW t \in Txs, PushesRow(t, Len(events) + 1), \A u \in Txs : u # t => LeavesRow(u), Extends
      PROVE  StackInv'
  <2>1. Torn' = Torn
    BY <1>6, ExtendsTorn
  <2> QED
    BY <1>1, <1>2, <1>6, <2>1 DEF StackInv
<1>7. ASSUME NEW c \in Clients, RevertEvent(c)
      PROVE  StackInv'
  <2>1. PICK i, t : i = undo[c].event /\ t = events[undo[c].event].tx
    OBVIOUS
  <2>2. /\ Marks(i) /\ (~LaterChange(i) => PopsRow(t, i)) /\ \A s \in Txs : s # t => LeavesRow(s)
    BY <1>7, <2>1, RevertKeeps
  <2>3. i \in DOMAIN events /\ InEffect(i)
    <3>1. undo[c].step = "checked" /\ undo[c] # NoUndo
      BY <1>7 DEF RevertEvent, NoUndo
    <3> QED
      BY <2>1, <3>1 DEF LedgerInv, LockInv
  <2>4. Torn' = Torn \cup (IF LaterChange(i) THEN {t} ELSE {})
    BY <2>1, <2>2, <2>3, MarksTorn
  <2> QED
    BY <1>1, <1>3, <2>2, <2>4 DEF StackInv
<1>8. \/ \E req \in Requests : \E b \in Batches : \E d \in [DOMAIN b -> Drafts] : CreateTransactions(req, b, d)
      \/ \E t \in Txs : Extends /\ PushesRow(t, Len(events) + 1) /\ \A u \in Txs : u # t => LeavesRow(u)
      \/ \E c \in Clients : RevertEvent(c)
      \/ UNCHANGED <<row, events>>
  BY UpdateKeeps, DeleteKeeps DEF Next, UndoLast, RestoreTransaction, LockEvent, Abort, UpdateCategory, vars
<1> QED
  BY <1>4, <1>5, <1>6, <1>7, <1>8

(* What UndoStack sees.                                                    *)
Changes == [t \in Txs |-> {[at |-> i, result |-> Shown(events[i].after)] : i \in EffectiveTrail(t)}]
View == [t \in Txs |-> Shown(row[t])]
Looked == {<<events[undo[c].event].tx, undo[c].event>> : c \in {d \in Clients : undo[d].step = "checked"}}

LEMMA TrailIsEffective == \A t : EffectiveTrail(t) = Effective(events, t)
  BY DEF EffectiveTrail, Effective, InEffect
LEMMA SameChanges ==
  ASSUME UNCHANGED <<row, events>>
  PROVE  UNCHANGED <<Changes, View, Torn>>
<1>1. \A t : EffectiveTrail(t)' = EffectiveTrail(t)
  BY DEF EffectiveTrail, InEffect
<1> QED
  BY <1>1, SameTorn DEF Changes, View

(* What is in the abstract stacks.                                         *)
StackOf(es, t) == {[at |-> i, result |-> Shown(es[i].after)] : i \in Effective(es, t)}

LEMMA LeavesStack ==
  ASSUME NEW es, NEW fs, NEW r, NEW s, NEW t, Leaves(es, fs, r, s, t)
  PROVE  StackOf(fs, t) = StackOf(es, t) /\ Shown(s) = Shown(r)
<1>1. Effective(fs, t) = Effective(es, t) /\ s = r /\ \A i \in Effective(es, t) : fs[i].after = es[i].after
  BY DEF Leaves, Recorded
<1> QED
  BY <1>1 DEF StackOf

LEMMA PushesStack ==
  ASSUME NEW es, NEW fs, NEW r, NEW s, NEW t, NEW n, Pushes(es, fs, r, s, t, n)
  PROVE  /\ n \in 1 .. MaxEvents
         /\ StackOf(fs, t) = StackOf(es, t) \cup {[at |-> n, result |-> Shown(s)]}
         /\ \A c \in StackOf(es, t) : c.at < n
<1>1. /\ Effective(fs, t) = Effective(es, t) \cup {n} /\ \A i \in Effective(es, t) : fs[i].after = es[i].after
      /\ fs[n].after = s /\ n \in 1 .. MaxEvents /\ \A i \in Effective(es, t) : i < n
  BY DEF Pushes, Recorded
<1>2. StackOf(fs, t) = StackOf(es, t) \cup {[at |-> n, result |-> Shown(s)]}
  BY <1>1 DEF StackOf
<1>3. \A c \in StackOf(es, t) : c.at < n
  BY <1>1 DEF StackOf
<1> QED
  BY <1>1, <1>2, <1>3

(* The highest of some positions of a trail.                               *)
LEMMA Highest ==
  ASSUME NEW n \in Nat, NEW S \in SUBSET (1 .. n), S # {}
  PROVE  \E m \in S : \A k \in S : k <= m
<1> DEFINE Behind == {n - k : k \in S}
<1>1. Behind \in SUBSET Nat /\ Behind # {}
  BY DEF Behind
<1>2. PICK d \in Behind : \A e \in Behind : <<e, d>> \notin OpToRel(<, Nat)
  BY <1>1, NatLessThanWellFounded, WFMin, Zenon
<1>3. PICK m \in S : d = n - m
  OBVIOUS
<1>4. ASSUME NEW k \in S
      PROVE  k <= m
  <2>1. n - k \in Behind /\ n - k \in Nat /\ d \in Nat
    BY <1>3
  <2>2. ~(n - k < d)
    BY <1>2, <2>1 DEF OpToRel
  <2>3. k \in 1 .. n /\ m \in 1 .. n
    OBVIOUS
  <2> QED
    BY <1>3, <2>2, <2>3
<1> QED
  BY <1>4

LEMMA SeenStack ==
  ASSUME NEW fs \in Seq(Events), NEW s, NEW t, Stacked(fs, s, t)
  PROVE  Shown(s) = Stack!Seen(StackOf(fs, t))
<1>1. CASE Effective(fs, t) = {}
  <2>1. StackOf(fs, t) = {} /\ Shown(s) = NoRow
    BY <1>1 DEF StackOf, Stacked, Shown
  <2> QED
    BY <2>1 DEF Stack!Seen
<1>2. CASE Effective(fs, t) # {}
  <2>1. PICK m \in Effective(fs, t) : \A k \in Effective(fs, t) : k <= m
    <3>1. PICK n \in Nat : DOMAIN fs = 1 .. n
      OBVIOUS
    <3>2. Effective(fs, t) \in SUBSET (1 .. n)
      BY <3>1 DEF Effective
    <3> QED
      BY <1>2, <3>2, Highest
  <2>2. s = fs[m].after /\ \A k \in Effective(fs, t) : k \in Nat
    <3>1. s = fs[m].after
      BY <2>1 DEF Stacked
    <3>2. \A k \in Effective(fs, t) : k \in Nat
      BY DEF Effective
    <3> QED
      BY <3>1, <3>2
  <2>3. PICK top, S : top = [at |-> m, result |-> Shown(s)] /\ S = StackOf(fs, t)
    OBVIOUS
  <2>4. top \in S /\ \A d \in S : d.at <= top.at /\ (top.at <= d.at => d = top)
    BY <2>1, <2>2, <2>3 DEF StackOf
  <2>5. \A c \in S : (\A d \in S : d.at <= c.at) <=> c = top
    BY <2>4
  <2>6. (CHOOSE c \in S : Stack!IsTop(c, S)) = top
    BY <2>4, <2>5 DEF Stack!IsTop
  <2>7. Stack!Seen(S) = top.result
    BY <2>4, <2>6 DEF Stack!Seen
  <2> QED
    BY <2>3, <2>7
<1> QED
  BY <1>1, <1>2

LEMMA ShownTyped ==
  ASSUME NEW r \in Rows
  PROVE  Shown(r) \in Contents \cup {NoRow}
<1>1. CASE r = NoRow
  BY <1>1 DEF Shown, Visible, NoRow
<1>2. CASE r \in Full
  BY <1>2 DEF Shown, Full
<1> QED
  BY <1>1, <1>2, RowKinds

LEMMA MappedChanges == Changes = [t \in Txs |-> StackOf(events, t)]
  BY TrailIsEffective DEF Changes, StackOf

LEMMA ChangeStep ==
  ASSUME LedgerInv, LedgerInv', Extends, undo' = undo, NEW S \in SUBSET Txs, NEW number \in [S -> 1 .. MaxEvents],
         \A t \in S : PushesRow(t, number[t]), \A t \in Txs : t \notin S => LeavesRow(t)
  PROVE  Stack!Change(S)
<1>1. PICK es, fs, old, new : es = events /\ fs = events' /\ old = row /\ new = row'
  OBVIOUS
<1>2. \A t \in S : Pushes(es, fs, old[t], new[t], t, number[t])
  BY <1>1 DEF PushesRow
<1>3. \A t \in Txs : t \notin S => Leaves(es, fs, old[t], new[t], t)
  BY <1>1 DEF LeavesRow
<1>4. \A t \in S : /\ StackOf(fs, t) = StackOf(es, t) \cup {[at |-> number[t], result |-> Shown(new[t])]}
                   /\ \A c \in StackOf(es, t) : c.at < number[t]
  BY <1>2, PushesStack
<1>5. \A t \in Txs : t \notin S => StackOf(fs, t) = StackOf(es, t) /\ Shown(new[t]) = Shown(old[t])
  BY <1>3, LeavesStack
<1>6. /\ Changes = [t \in Txs |-> StackOf(es, t)] /\ Changes' = [t \in Txs |-> StackOf(fs, t)]
      /\ View = [t \in Txs |-> Shown(old[t])] /\ View' = [t \in Txs |-> Shown(new[t])]
  <2>1. \A t : EffectiveTrail(t)' = Effective(fs, t)
    BY <1>1 DEF EffectiveTrail, Effective, InEffect
  <2> QED
    BY <1>1, <2>1, MappedChanges DEF View, Changes, StackOf
<1>7. View' \in [Txs -> Contents \cup {NoRow}]
  <2>1. \A t \in Txs : new[t] \in Rows
    BY <1>1 DEF LedgerInv, LedgerTypes
  <2>2. \A t \in Txs : Shown(new[t]) \in Contents \cup {NoRow}
    BY <2>1, ShownTyped
  <2> QED
    BY <1>6, <2>2
<1>8. \A t \in Txs \ S : View'[t] = View[t]
  BY <1>5, <1>6
<1>9. \A t \in S : \A c \in Changes[t] : c.at < number[t]
  BY <1>4, <1>6
<1>10. Changes' = [t \in Txs |-> IF t \in S THEN Changes[t] \cup {[at |-> number[t], result |-> View'[t]]}
                                 ELSE Changes[t]]
  BY <1>4, <1>5, <1>6
<1>11. \E k \in [S -> 1 .. MaxEvents] :
         /\ \A t \in S : \A c \in Changes[t] : c.at < k[t]
         /\ Changes' = [t \in Txs |-> IF t \in S THEN Changes[t] \cup {[at |-> k[t], result |-> View'[t]]}
                                      ELSE Changes[t]]
  BY <1>9, <1>10
<1>12. Torn' = Torn
  BY ExtendsTorn
<1>13. Looked' = Looked
  <2>1. \A c \in Clients : undo[c].step = "checked" => events'[undo[c].event] = events[undo[c].event]
    BY DEF LedgerInv, LockInv, NoUndo, Extends
  <2> QED
    BY <2>1 DEF Looked
<1> QED
  BY <1>7, <1>8, <1>11, <1>12, <1>13 DEF Stack!Change, Changes, View, Looked

(* A client lets go of the change it aimed at, which no other aims at.      *)
LEMMA LookedDrop ==
  ASSUME LedgerInv, NEW c \in Clients, undo[c].step = "checked", undo' = [undo EXCEPT ![c] = NoUndo],
         \A k \in DOMAIN events : k \in DOMAIN events' /\ events'[k].tx = events[k].tx,
         NEW i, i = undo[c].event, NEW t, t = events[i].tx
  PROVE  <<t, i>> \in Looked /\ Looked' = Looked \ {<<t, i>>}
<1>1. undo \in [Clients -> Undos] /\ NoUndo.step # "checked"
  BY DEF LedgerInv, LedgerTypes, NoUndo
<1>2. \A d \in Clients : undo'[d] = IF d = c THEN NoUndo ELSE undo[d]
  BY <1>1
<1>3. \A d \in Clients : undo[d].step = "checked" =>
        /\ undo[d].event \in DOMAIN events
        /\ d # c => undo[d].event # i
  BY <1>1 DEF LedgerInv, LockInv, NoUndo
<1>4. <<t, i>> \in Looked
  BY DEF Looked
<1>5. ASSUME NEW p \in Looked'
      PROVE  p \in Looked \ {<<t, i>>}
  <2>1. PICK d \in Clients : undo'[d].step = "checked" /\ p = <<events'[undo'[d].event].tx, undo'[d].event>>
    BY <1>5 DEF Looked
  <2>2. d # c /\ undo[d].step = "checked" /\ p = <<events[undo[d].event].tx, undo[d].event>>
    BY <1>1, <1>2, <1>3, <2>1
  <2> QED
    BY <1>3, <2>2 DEF Looked
<1>6. ASSUME NEW p \in Looked, p # <<t, i>>
      PROVE  p \in Looked'
  <2>1. PICK d \in Clients : undo[d].step = "checked" /\ p = <<events[undo[d].event].tx, undo[d].event>>
    BY <1>6 DEF Looked
  <2>2. undo'[d].step = "checked" /\ p = <<events'[undo'[d].event].tx, undo'[d].event>>
    BY <1>2, <1>3, <1>6, <2>1
  <2> QED
    BY <2>2 DEF Looked
<1> QED
  BY <1>4, <1>5, <1>6

(* A change is on top when no later one is in effect.                       *)
LEMMA TopOf ==
  ASSUME LedgerInv, NEW i \in DOMAIN events, InEffect(i), NEW t, t = events[i].tx,
         NEW x, x = [at |-> i, result |-> Shown(events[i].after)]
  PROVE  /\ x \in Changes[t]
         /\ Stack!IsTop(x, Changes[t]) <=> ~LaterChange(i)
<1>1. Changes[t] = StackOf(events, t)
  BY MappedChanges, TrailNumbers
<1>2. i \in Effective(events, t) /\ \A j \in Effective(events, t) : j \in Nat /\ i \in Nat
  BY TrailNumbers DEF Effective, InEffect
<1>3. x \in Changes[t]
  BY <1>1, <1>2 DEF StackOf
<1>4. (\A d \in Changes[t] : d.at <= i) <=> \A j \in Effective(events, t) : j <= i
  <2>1. ASSUME NEW j \in Effective(events, t)
        PROVE  \E d \in Changes[t] : d.at = j
    <3>1. PICK d : d = [at |-> j, result |-> Shown(events[j].after)]
      OBVIOUS
    <3>2. d \in Changes[t] /\ d.at = j
      BY <1>1, <3>1 DEF StackOf
    <3> QED
      BY <3>2
  <2>2. \A d \in Changes[t] : d.at \in Effective(events, t)
    BY <1>1 DEF StackOf
  <2> QED
    BY <2>1, <2>2
<1>5. (\A j \in Effective(events, t) : j <= i) <=> ~LaterChange(i)
  BY <1>2, TrailNumbers DEF Effective, InEffect, LaterChange
<1> QED
  BY <1>3, <1>4, <1>5 DEF Stack!IsTop

LEMMA LookStep ==
  ASSUME LedgerInv, NEW c \in Clients, LockEvent(c)
  PROVE  [Stack!Next]_(Stack!vars)
<1>1. PICK i, t : i = undo[c].event /\ t = events[i].tx
  OBVIOUS
<1>2. /\ undo[c].step = "picked" /\ UNCHANGED <<row, events>>
      /\ \A d \in Clients : undo[d].step = "checked" => undo[d].event # i
      /\ undo' = [undo EXCEPT ![c] = IF ~InEffect(i) \/ LaterChange(i) THEN NoUndo
                                     ELSE [undo[c] EXCEPT !.step = "checked", !.seen = Len(events)]]
  BY <1>1 DEF LockEvent, Checked
<1>3. undo \in [Clients -> Undos] /\ i \in DOMAIN events /\ NoUndo.step # "checked"
  BY <1>1, <1>2 DEF LedgerInv, LedgerTypes, LockInv, NoUndo
<1>4. UNCHANGED <<Changes, View, Torn>>
  BY <1>2, SameChanges
<1>5. CASE ~InEffect(i) \/ LaterChange(i)
  <2>1. \A d \in Clients : undo'[d] = IF d = c THEN NoUndo ELSE undo[d]
    BY <1>2, <1>3, <1>5
  <2>2. Looked' = Looked
    BY <1>2, <1>3, <2>1 DEF Looked
  <2> QED
    BY <1>4, <2>2 DEF Stack!vars, Changes, View, Looked
<1>6. CASE InEffect(i) /\ ~LaterChange(i)
  <2>1. PICK u : u = [undo[c] EXCEPT !.step = "checked", !.seen = Len(events)]
    OBVIOUS
  <2>2. u.step = "checked" /\ u.event = i
    <3>1. undo[c] \in [step : {"picked", "checked"}, event : 1 .. MaxEvents, actor : Members \cup Sessions,
                       seen : 0 .. MaxEvents]
      BY <1>2, <1>3 DEF Undos, NoUndo
    <3> QED
      BY <1>1, <2>1, <3>1
  <2>3. \A d \in Clients : undo'[d] = IF d = c THEN u ELSE undo[d]
    BY <1>2, <1>3, <1>6, <2>1
  <2>4. Looked' = Looked \cup {<<t, i>>}
    BY <1>1, <1>2, <2>2, <2>3 DEF Looked
  <2>5. <<t, i>> \notin Looked
    BY <1>2 DEF Looked
  <2>6. PICK x : x = [at |-> i, result |-> Shown(events[i].after)]
    OBVIOUS
  <2>7. x \in Changes[t] /\ Stack!IsTop(x, Changes[t]) /\ x.at = i
    BY <1>1, <1>3, <1>6, <2>6, TopOf
  <2>8. t \in Txs
    BY <1>1, <1>3, TrailNumbers
  <2>9. Stack!Look(t)
    <3>1. \E y \in Changes[t] : Stack!IsTop(y, Changes[t]) /\ <<t, y.at>> \notin Looked
                               /\ Looked' = Looked \cup {<<t, y.at>>}
      BY <2>4, <2>5, <2>7
    <3> QED
      BY <1>4, <3>1 DEF Stack!Look, Changes, View, Looked
  <2> QED
    BY <2>8, <2>9 DEF Stack!Next
<1> QED
  BY <1>5, <1>6

LEMMA AbortStep ==
  ASSUME LedgerInv, NEW c \in Clients, Abort(c)
  PROVE  [Stack!Next]_(Stack!vars)
<1>1. PICK i, t : i = undo[c].event /\ t = events[i].tx
  OBVIOUS
<1>2. undo[c] # NoUndo /\ UNCHANGED <<row, events>> /\ undo' = [undo EXCEPT ![c] = NoUndo]
  BY DEF Abort
<1>3. UNCHANGED <<Changes, View, Torn>>
  BY <1>2, SameChanges
<1>4. undo \in [Clients -> Undos] /\ i \in DOMAIN events /\ NoUndo.step # "checked" /\ i \in 1 .. MaxEvents
  <2>1. undo \in [Clients -> Undos] /\ i \in DOMAIN events /\ NoUndo.step # "checked"
    BY <1>1, <1>2 DEF LedgerInv, LedgerTypes, LockInv, NoUndo
  <2>2. i \in 1 .. MaxEvents
    BY <1>1, <1>2, <2>1 DEF Undos
  <2> QED
    BY <2>1, <2>2
<1>5. CASE undo[c].step = "checked"
  <2>1. <<t, i>> \in Looked /\ Looked' = Looked \ {<<t, i>>}
    BY <1>1, <1>2, <1>5, LookedDrop
  <2>2. Stack!GiveUp(t, i)
    BY <1>3, <2>1 DEF Stack!GiveUp, Changes, View, Looked
  <2>3. t \in Txs
    BY <1>1, <1>4, TrailNumbers
  <2> QED
    BY <1>4, <2>2, <2>3 DEF Stack!Next
<1>6. CASE undo[c].step # "checked"
  <2>1. \A d \in Clients : undo'[d] = IF d = c THEN NoUndo ELSE undo[d]
    BY <1>2, <1>4
  <2>2. Looked' = Looked
    BY <1>2, <1>4, <1>6, <2>1 DEF Looked
  <2> QED
    BY <1>3, <2>2 DEF Stack!vars, Changes, View, Looked
<1> QED
  BY <1>5, <1>6

LEMMA UndoStep ==
  ASSUME LedgerInv, LedgerInv', StackInv', NEW c \in Clients, RevertEvent(c),
         NEW i, i = undo[c].event, NEW t, t = events[i].tx
  PROVE  t \in Txs /\ Stack!Undo(t)
<1>1. /\ Marks(i) /\ (~LaterChange(i) => PopsRow(t, i)) /\ \A s \in Txs : s # t => LeavesRow(s)
      /\ \A s : Effective(events', s) = Effective(events, s) \ {i} /\ Recorded(events, events', s)
  BY RevertKeeps
<1>2. i \in DOMAIN events /\ InEffect(i) /\ undo[c].step = "checked"
  <2>1. undo[c].step = "checked" /\ undo[c] # NoUndo
    BY DEF RevertEvent, NoUndo
  <2> QED
    BY <2>1 DEF LedgerInv, LockInv
<1>3. t \in Txs
  BY <1>2, TrailNumbers
<1>4. <<t, i>> \in Looked /\ Looked' = Looked \ {<<t, i>>}
  <2>1. undo' = [undo EXCEPT ![c] = NoUndo]
    BY DEF RevertEvent
  <2>2. \A k \in DOMAIN events : k \in DOMAIN events' /\ events'[k].tx = events[k].tx
    BY <1>1 DEF Marks
  <2> QED
    BY <1>2, <2>1, <2>2, LookedDrop
<1>5. PICK x : x = [at |-> i, result |-> Shown(events[i].after)]
  OBVIOUS
<1>6. x \in Changes[t] /\ x.at = i /\ (Stack!IsTop(x, Changes[t]) <=> ~LaterChange(i))
  BY <1>2, <1>5, TopOf
<1>7. PICK es, fs, old, new : es = events /\ fs = events' /\ old = row /\ new = row'
  OBVIOUS
<1>8. /\ Changes = [u \in Txs |-> StackOf(es, u)] /\ Changes' = [u \in Txs |-> StackOf(fs, u)]
      /\ View = [u \in Txs |-> Shown(old[u])] /\ View' = [u \in Txs |-> Shown(new[u])]
  <2>1. \A u : EffectiveTrail(u)' = Effective(fs, u)
    BY <1>7 DEF EffectiveTrail, Effective, InEffect
  <2> QED
    BY <1>7, <2>1, MappedChanges DEF View, Changes, StackOf
<1>9. \A u \in Txs : u # t => StackOf(fs, u) = StackOf(es, u) /\ Shown(new[u]) = Shown(old[u])
  BY <1>1, <1>7, LeavesStack DEF LeavesRow
<1>10. StackOf(fs, t) = StackOf(es, t) \ {x}
  <2>1. Effective(fs, t) = Effective(es, t) \ {i} /\ \A j \in Effective(es, t) : fs[j].after = es[j].after
    BY <1>1, <1>7 DEF Recorded
  <2> QED
    BY <1>5, <1>7, <2>1 DEF StackOf
<1>11. Changes' = [Changes EXCEPT ![t] = Changes[t] \ {x}]
  BY <1>8, <1>9, <1>10
<1>12. Torn' = Torn \cup (IF LaterChange(i) THEN {t} ELSE {})
  BY <1>1, <1>2, MarksTorn
<1>13. ASSUME ~LaterChange(i), t \notin Torn
       PROVE  View' = [View EXCEPT ![t] = Stack!Seen(Changes'[t])] /\ Torn' = Torn
  <2>1. Torn' = Torn
    BY <1>12, <1>13
  <2>2. fs \in Seq(Events) /\ Stacked(fs, new[t], t)
    BY <1>3, <1>7, <1>13, <2>1 DEF LedgerInv, LedgerTypes, StackInv
  <2>3. PICK y : y = Stack!Seen(StackOf(fs, t)) /\ y = Shown(new[t])
    BY <2>2, SeenStack
  <2>4. View' = [View EXCEPT ![t] = y]
    BY <1>8, <1>9, <2>3
  <2>5. Stack!Seen(Changes'[t]) = y
    <3>1. Changes'[t] = StackOf(fs, t)
      BY <1>3, <1>8
    <3> QED
      BY <2>3, <3>1, Zenon
  <2> QED
    BY <2>1, <2>4, <2>5
<1>14. ASSUME LaterChange(i) \/ t \in Torn
       PROVE  /\ \E any \in Contents \cup {NoRow} : View' = [View EXCEPT ![t] = any]
              /\ Torn' = Torn \cup {t}
  <2>1. Torn' = Torn \cup {t}
    BY <1>12, <1>14
  <2>2. Shown(new[t]) \in Contents \cup {NoRow}
    <3>1. new[t] \in Rows
      BY <1>3, <1>7 DEF LedgerInv, LedgerTypes
    <3> QED
      BY <3>1, ShownTyped
  <2>3. View' = [View EXCEPT ![t] = Shown(new[t])]
    BY <1>8, <1>9
  <2> QED
    BY <2>1, <2>2, <2>3
<1>15. IF Stack!IsTop(x, Changes[t]) /\ t \notin Torn
       THEN View' = [View EXCEPT ![t] = Stack!Seen(Changes'[t])] /\ UNCHANGED Torn
       ELSE /\ \E any \in Contents \cup {NoRow} : View' = [View EXCEPT ![t] = any]
            /\ Torn' = Torn \cup {t}
  BY <1>6, <1>13, <1>14
<1>16. /\ <<t, x.at>> \in Looked /\ Looked' = Looked \ {<<t, x.at>>}
       /\ Changes' = [Changes EXCEPT ![t] = @ \ {x}]
  BY <1>4, <1>6, <1>11
<1>17. \E y \in Changes[t] :
         /\ <<t, y.at>> \in Looked
         /\ Looked' = Looked \ {<<t, y.at>>}
         /\ Changes' = [Changes EXCEPT ![t] = @ \ {y}]
         /\ IF Stack!IsTop(y, Changes[t]) /\ t \notin Torn
            THEN View' = [View EXCEPT ![t] = Stack!Seen(Changes'[t])] /\ UNCHANGED Torn
            ELSE /\ \E any \in Contents \cup {NoRow} : View' = [View EXCEPT ![t] = any]
                 /\ Torn' = Torn \cup {t}
  BY <1>6, <1>15, <1>16
<1> QED
  BY <1>3, <1>17 DEF Stack!Undo, Changes, View, Looked

LEMMA StackNext ==
  ASSUME LedgerInv, LedgerInv', StackInv', [Next]_vars
  PROVE  [Stack!Next]_(Stack!vars)
<1>1. CASE UNCHANGED <<row, events>> /\ \A c \in Clients : \/ undo'[c] = undo[c]
                                                           \/ undo[c].step # "checked" /\ undo'[c].step # "checked"
  <2>1. UNCHANGED <<Changes, View, Torn>>
    BY <1>1, SameChanges
  <2>2. Looked' = Looked
    BY <1>1 DEF Looked
  <2> QED
    BY <2>1, <2>2 DEF Stack!vars, Changes, View, Looked
<1>2. ASSUME NEW req \in Requests, NEW b \in Batches, NEW d \in [DOMAIN b -> Drafts], CreateTransactions(req, b, d)
      PROVE  Stack!Next
  <2>1. /\ \A i \in DOMAIN b : PushesRow(b[i], Len(events) + i)
        /\ \A t \in Txs : (\A i \in DOMAIN b : b[i] # t) => LeavesRow(t)
    BY <1>2, CreateKeeps
  <2>2. \A i \in DOMAIN b : b[i] \in Txs
    BY LedgerAssumption
  <2>3. PICK S \in SUBSET Txs : S = {b[i] : i \in DOMAIN b}
    BY <2>2
  <2>4. PICK l : l = Len(events)
    OBVIOUS
  <2>5. \A i \in DOMAIN b : l + i \in 1 .. MaxEvents
    BY <2>1, <2>4 DEF PushesRow, Pushes
  <2>6. PICK number : number = [t \in S |-> l + (CHOOSE i \in DOMAIN b : b[i] = t)]
    OBVIOUS
  <2>7. ASSUME NEW t \in S
        PROVE  PushesRow(t, number[t]) /\ number[t] \in 1 .. MaxEvents
    <3>1. PICK i : i = CHOOSE j \in DOMAIN b : b[j] = t
      OBVIOUS
    <3>2. i \in DOMAIN b /\ b[i] = t
      BY <2>3, <3>1
    <3> QED
      BY <2>1, <2>4, <2>5, <2>6, <3>1, <3>2
  <2>8. number \in [S -> 1 .. MaxEvents]
    BY <2>6, <2>7
  <2>9. \A t \in Txs : t \notin S => LeavesRow(t)
    BY <2>1, <2>3
  <2>10. Stack!Change(S)
    <3>1. Extends /\ undo' = undo
      BY <1>2, CreateKeeps DEF CreateTransactions
    <3> QED
      BY <2>7, <2>8, <2>9, <3>1, ChangeStep
  <2> QED
    BY <2>10 DEF Stack!Next
<1>3. ASSUME NEW t \in Txs, PushesRow(t, Len(events) + 1), \A u \in Txs : u # t => LeavesRow(u),
             Extends, undo' = undo
      PROVE  Stack!Next
  <2>1. PICK S, number, l : S = {t} /\ number = [u \in S |-> l] /\ l = Len(events) + 1
    OBVIOUS
  <2>2. l \in 1 .. MaxEvents /\ PushesRow(t, l)
    BY <1>3, <2>1 DEF PushesRow, Pushes
  <2>3. number \in [S -> 1 .. MaxEvents] /\ \A u \in S : PushesRow(u, number[u])
    BY <2>1, <2>2
  <2>4. S \in SUBSET Txs
    BY <2>1
  <2>5. Stack!Change(S)
    BY <1>3, <2>1, <2>3, <2>4, ChangeStep
  <2> QED
    BY <2>4, <2>5 DEF Stack!Next
<1>4. ASSUME NEW c \in Clients, RevertEvent(c)
      PROVE  Stack!Next
  BY <1>4, UndoStep DEF Stack!Next
<1>5. ASSUME NEW c \in Clients, undo[c] = NoUndo, NEW u, u.step = "picked", undo' = [undo EXCEPT ![c] = u],
             UNCHANGED <<row, events>>
      PROVE  [Stack!Next]_(Stack!vars)
  <2>1. undo \in [Clients -> Undos] /\ NoUndo.step # "checked"
    BY DEF LedgerInv, LedgerTypes, NoUndo
  <2>2. \A d \in Clients : \/ undo'[d] = undo[d]
                           \/ undo[d].step # "checked" /\ undo'[d].step # "checked"
    BY <1>5, <2>1
  <2> QED
    BY <1>1, <1>5, <2>2
<1>6. ASSUME NEW m \in Members, UndoLast(m)
      PROVE  [Stack!Next]_(Stack!vars)
  <2>1. PICK i \in DOMAIN events :
          undo' = [undo EXCEPT ![Chat] = [step |-> "picked", event |-> i, actor |-> m, seen |-> 0]]
    BY <1>6 DEF UndoLast
  <2>2. PICK u : u = [step |-> "picked", event |-> i, actor |-> m, seen |-> 0]
    OBVIOUS
  <2>3. u.step = "picked"
    BY <2>2
  <2> QED
    BY <2>3, <1>5, <1>6, <2>1, <2>2 DEF UndoLast, Clients
<1>7. ASSUME NEW s \in Sessions, NEW t \in Txs, RestoreTransaction(s, t)
      PROVE  [Stack!Next]_(Stack!vars)
  <2>1. PICK i \in DOMAIN events :
          undo' = [undo EXCEPT ![s] = [step |-> "picked", event |-> i, actor |-> s, seen |-> 0]]
    BY <1>7 DEF RestoreTransaction
  <2>2. PICK u : u = [step |-> "picked", event |-> i, actor |-> s, seen |-> 0]
    OBVIOUS
  <2>3. u.step = "picked"
    BY <2>2
  <2> QED
    BY <2>3, <1>5, <1>7, <2>1, <2>2 DEF RestoreTransaction, Clients
<1>8. CASE UNCHANGED <<row, events, undo>>
  BY <1>1, <1>8
<1>9. \/ \E req \in Requests : \E b \in Batches : \E d \in [DOMAIN b -> Drafts] : CreateTransactions(req, b, d)
      \/ \E t \in Txs : PushesRow(t, Len(events) + 1) /\ Extends /\ undo' = undo
                           /\ \A u \in Txs : u # t => LeavesRow(u)
      \/ (\E m \in Members : UndoLast(m)) \/ \E s \in Sessions, t \in Txs : RestoreTransaction(s, t)
      \/ \E c \in Clients : LockEvent(c) \/ Abort(c)
      \/ \E c \in Clients : RevertEvent(c)
      \/ UNCHANGED <<row, events, undo>>
  BY UpdateKeeps, DeleteKeeps DEF Next, UpdateTransaction, DeleteTransaction, UpdateCategory, vars
<1>10. CASE \E c \in Clients : LockEvent(c) \/ Abort(c)
  BY <1>10, LookStep, AbortStep
<1>11. CASE \E req \in Requests : \E b \in Batches : \E d \in [DOMAIN b -> Drafts] : CreateTransactions(req, b, d)
  BY <1>2, <1>11
<1>12. CASE \E t \in Txs : PushesRow(t, Len(events) + 1) /\ Extends /\ undo' = undo
                           /\ \A u \in Txs : u # t => LeavesRow(u)
  BY <1>3, <1>12
<1>13. CASE \E c \in Clients : RevertEvent(c)
  BY <1>4, <1>13
<1>14. CASE (\E m \in Members : UndoLast(m)) \/ \E s \in Sessions, t \in Txs : RestoreTransaction(s, t)
  BY <1>6, <1>7, <1>14
<1> QED
  BY <1>8, <1>9, <1>10, <1>11, <1>12, <1>13, <1>14

(* The ledger implements the stack of changes, whatever was undone, redone  *)
(* and refused before: what everybody sees of an entry is the result of its *)
(* top change, and an undo takes away the one that was on top when it       *)
(* looked. Only an undo that another change overtook meanwhile tears an     *)
(* entry (ledger.go 453-455, 513-560).                                     *)
THEOREM ImplementsStack == Spec => StackSpec
<1>1. Init => StackInv
  BY DEF Init, StackInv, Stacked, Effective, Visible, NoRow
<1>2. Init => Stack!Init
  <2> SUFFICES ASSUME Init PROVE Stack!Init
    OBVIOUS
  <2>1. Torn = {}
    BY DEF Init, Torn
  <2>2. Looked = {}
    BY DEF Init, Looked, NoUndo
  <2> QED
    BY <2>1, <2>2 DEF Init, Stack!Init, EffectiveTrail, Shown, Visible, NoRow, Looked
<1>3. LedgerInv /\ LedgerInv' /\ StackInv /\ [Next]_vars => StackInv'
  BY StackedNext
<1>4. LedgerInv /\ LedgerInv' /\ StackInv' /\ [Next]_vars => [Stack!Next]_(Stack!vars)
  BY StackNext
<1> QED
  BY <1>1, <1>2, <1>3, <1>4, Invariant, PTL DEF Spec, StackSpec, Stack!Spec
=============================================================================
