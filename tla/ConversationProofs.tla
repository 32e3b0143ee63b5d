------------------------- MODULE ConversationProofs -------------------------
(***************************************************************************)
(* Proofs about Conversation, for any members, entries, doubts and answers *)
(* and any number of messages, rounds, attempts, tools, faults and changes *)
(* made in the panel.                                                      *)
(*                                                                         *)
(* What a turn has read stays true while no tool succeeded: the question   *)
(* it found is still open, valid and awaits the same.  An entry has one    *)
(* question at most in its life.  A question is asked once when opened,    *)
(* once for each attempt counted short of MaxRounds and once for each      *)
(* answer that left doubts.  And, as long as nothing failed and the panel  *)
(* was not used, an open question fits its draft unless the turn is        *)
(* between the change of the entry and that of the question.               *)
(***************************************************************************)
EXTENDS Conversation, FiniteSetTheorems, SequenceTheorems, TLAPS

Statuses == {"OPEN", "EXECUTED", "CANCELLED", "EXPIRED", "SUPERSEDED"}

Pcs == {"find", "look", "apply", "settle", "reask", "giveup", "refuse", "cancel", "model", "open", "sync", "reply"}

Pasts == [deleted : BOOLEAN, reasons : SUBSET Reasons]

Entries == [there : BOOLEAN, deleted : BOOLEAN, reasons : SUBSET Reasons, past : SUBSET Pasts]

Questions == [member : Members, tx : Txs, awaiting : Awaited, suggested : BOOLEAN, status : Statuses,
              question : Nat, attempts : Nat, recent : BOOLEAN, valid : BOOLEAN]

(* The fields of a question and of a turn, for records made with EXCEPT.    *)
IsQuestion(q) ==
  /\ DOMAIN q = {"member", "tx", "awaiting", "suggested", "status", "question", "attempts", "recent", "valid"}
  /\ q.member \in Members /\ q.tx \in Txs /\ q.awaiting \in Awaited /\ q.suggested \in BOOLEAN
  /\ q.status \in Statuses /\ q.question \in Nat /\ q.attempts \in Nat
  /\ q.recent \in BOOLEAN /\ q.valid \in BOOLEAN

IsTurn(r) ==
  /\ DOMAIN r = {"pc", "member", "answer", "quoted", "attempt", "act", "awaiting", "suggested", "opened", "tx",
                 "reasons", "deleted", "tools", "viaTool", "ok", "broken", "changed"}
  /\ r.pc \in Pcs /\ r.member \in Members /\ r.answer \in Answers /\ r.quoted \in Nat /\ r.attempt \in Nat
  /\ r.act \in Nat /\ r.awaiting \in Awaited \cup {"none"} /\ r.suggested \in BOOLEAN /\ r.opened \in Nat
  /\ r.tx \in Txs \cup {0} /\ r.reasons \in SUBSET Reasons /\ r.deleted \in BOOLEAN /\ r.tools \in Nat
  /\ r.viaTool \in BOOLEAN /\ r.ok \in BOOLEAN /\ r.broken \in BOOLEAN /\ r.changed \in BOOLEAN

TableTypes ==
  /\ entry \in [Txs -> Entries]
  /\ actions \in Seq(Questions) /\ asked \in Seq(Nat)
  /\ \A i \in DOMAIN actions : actions[i].question <= Len(asked)
  /\ \A q \in DOMAIN asked : asked[q] \in DOMAIN actions
  /\ turns \in Nat /\ faults \in Nat /\ edits \in Nat

TurnTyped ==
  turn = Idle \/ (IsTurn(turn) /\ turn.act <= Len(actions) /\ turn.opened <= Len(actions))

(* What a turn has at hand where it needs it.                              *)
StepInv ==
  /\ turn.pc \in {"apply", "settle", "reask", "giveup", "refuse", "cancel"} => turn.act # 0
  /\ turn.pc = "find" => turn.act = 0
  /\ turn.pc \in {"find", "look", "reask", "refuse"} => ~turn.ok
  /\ turn.pc = "apply" /\ ~turn.viaTool => ~turn.ok
  /\ turn.pc \in {"settle", "open", "sync"} => turn.tx \in Txs
  /\ turn.pc = "open" =>
       turn.reasons # {} /\ entry[turn.tx].there /\ \A i \in DOMAIN actions : actions[i].tx # turn.tx

(* An entry has one question in its life, and was there before it.          *)
OwnInv ==
  /\ \A i, j \in DOMAIN actions : actions[i].tx = actions[j].tx => i = j
  /\ \A i \in DOMAIN actions : entry[actions[i].tx].there

(* What was read of the question is still so until a tool succeeds.        *)
ReadInv ==
  turn.pc \notin {"idle", "find", "reply"} /\ turn.act # 0 /\ ~turn.ok =>
    Open(turn.act) /\ actions[turn.act].valid /\ turn.awaiting = actions[turn.act].awaiting

(* The entry was changed and its question not yet.                         *)
InFlux(i) ==
  \/ turn.pc \in {"settle", "cancel"} /\ turn.act = i
  \/ turn.pc = "sync" /\ actions[i].tx = turn.tx

(* A step of the turn that changes questions alone.                        *)
OnlyTable == UNCHANGED <<entry, asked, turns, faults, edits>>

Fits(i) ==
  LET e == entry[actions[i].tx]
  IN Pending(e) /\ actions[i].awaiting = AwaitingFor(e.reasons)

Alone == faults = 0 /\ edits = 0

FitInv ==
  Alone =>
    /\ \A i \in DOMAIN actions : Open(i) /\ ~InFlux(i) => Fits(i)
    /\ turn.pc \in {"settle", "open", "sync"} =>
         /\ entry[turn.tx].there /\ entry[turn.tx].reasons = turn.reasons
         /\ turn.pc = "settle" => turn.tx = actions[turn.act].tx
         /\ entry[turn.tx].deleted = (turn.pc = "sync" /\ turn.deleted)

ConversationInv ==
  TableTypes /\ TurnTyped /\ StepInv /\ OneOpenQuestion /\ OwnInv /\ ReadInv /\ FitInv

-----------------------------------------------------------------------------
(* Records and tables.                                                     *)

(* A question has the fields IsQuestion names, and nothing else.           *)
LEMMA QuestionFields == \A q \in Questions : IsQuestion(q)
  BY DEF Questions, IsQuestion

LEMMA FieldsQuestion ==
  ASSUME NEW q, IsQuestion(q), q = [f \in DOMAIN q |-> q[f]]
  PROVE  q \in Questions
  BY DEF Questions, IsQuestion

(* A table whose rows are replaced, each by a row, is a table of as many.   *)
LEMMA SameShape ==
  ASSUME NEW S, NEW s \in Seq(S), NEW f, f = [i \in DOMAIN s |-> f[i]], \A i \in DOMAIN s : f[i] \in S
  PROVE  f \in Seq(S) /\ Len(f) = Len(s) /\ DOMAIN f = DOMAIN s
<1>1. Len(s) \in Nat /\ DOMAIN s = 1..Len(s)
  BY LenProperties
<1>2. f \in [1..Len(s) -> S]
  BY <1>1
<1>3. f \in Seq(S)
  BY <1>1, <1>2, SeqDef
<1>4. Len(f) = Len(s)
  BY <1>1, <1>2, <1>3, LenProperties
<1>. QED
  BY <1>2, <1>1, <1>3, <1>4

LEMMA TableSize ==
  ASSUME TableTypes
  PROVE  /\ Len(actions) \in Nat /\ DOMAIN actions = 1..Len(actions)
         /\ Len(asked) \in Nat /\ DOMAIN asked = 1..Len(asked)
         /\ \A i \in DOMAIN actions : actions[i] \in Questions /\ IsQuestion(actions[i])
<1>1. \A i \in DOMAIN actions : actions[i] \in Questions
  BY ElementOfSeq, LenProperties DEF TableTypes
<1>. QED
  BY <1>1, LenProperties, QuestionFields DEF TableTypes

-----------------------------------------------------------------------------
(* What becomes of a question.                                             *)

(* The question is still that member's about that entry, and was not       *)
(* settled before if its status changes.                                   *)
Kept(p, q) ==
  /\ q.member = p.member /\ q.tx = p.tx
  /\ p.status # "OPEN" => q.status = p.status

KeptTable ==
  /\ actions' \in Seq(Questions)
  /\ Len(actions') = Len(actions) /\ DOMAIN actions' = DOMAIN actions
  /\ \A i \in DOMAIN actions : Kept(actions[i], actions'[i])

StillThere ==
  entry' \in [Txs -> Entries] /\ \A t \in Txs : entry[t].there => entry'[t].there

(* Questions that are only kept stay one per member and one per entry.     *)
LEMMA KeptRules ==
  ASSUME TableTypes, OneOpenQuestion, OwnInv, KeptTable, StillThere
  PROVE  OneOpenQuestion' /\ OwnInv'
<1>1. \A i \in DOMAIN actions : IsQuestion(actions[i])
  BY TableSize
<1>2. OneOpenQuestion'
  BY Zenon DEF OneOpenQuestion, Open, KeptTable, Kept
<1>3. OwnInv'
  <2>1. \A i, j \in DOMAIN actions' : actions'[i].tx = actions'[j].tx => i = j
    BY DEF OwnInv, KeptTable, Kept
  <2>2. \A i \in DOMAIN actions' : entry'[actions'[i].tx].there
    BY <1>1 DEF OwnInv, KeptTable, Kept, StillThere, IsQuestion
  <2>. QED
    BY <2>1, <2>2 DEF OwnInv
<1>. QED
  BY <1>2, <1>3
(* The changes of a row the table makes.                                   *)
LEMMA RowClosed ==
  ASSUME NEW q \in Questions, NEW status \in Statuses, NEW p, p = [q EXCEPT !.status = status]
  PROVE  /\ p \in Questions
         /\ p.status = status /\ p.member = q.member /\ p.tx = q.tx /\ p.awaiting = q.awaiting
         /\ p.question = q.question /\ p.attempts = q.attempts /\ p.valid = q.valid
<1>1. IsQuestion(q)
  BY QuestionFields
<1>2. IsQuestion(p) /\ p = [f \in DOMAIN p |-> p[f]]
  BY <1>1 DEF IsQuestion
<1>3. p \in Questions
  BY <1>2, FieldsQuestion
<1>. QED
  BY <1>1, <1>3 DEF IsQuestion

LEMMA RowOld ==
  ASSUME NEW q \in Questions,
         NEW p, p \in {[q EXCEPT !.recent = FALSE], [q EXCEPT !.valid = FALSE]}
  PROVE  /\ p \in Questions
         /\ p.status = q.status /\ p.member = q.member /\ p.tx = q.tx /\ p.awaiting = q.awaiting
         /\ p.question = q.question /\ p.attempts = q.attempts
<1>1. IsQuestion(q)
  BY QuestionFields
<1>2. IsQuestion(p) /\ p = [f \in DOMAIN p |-> p[f]]
  BY <1>1 DEF IsQuestion
<1>3. p \in Questions
  BY <1>2, FieldsQuestion
<1>. QED
  BY <1>1, <1>3 DEF IsQuestion
-----------------------------------------------------------------------------
(* The changes of the table.                                               *)

SameAsk(p, q) ==
  q.awaiting = p.awaiting /\ q.question = p.question /\ q.attempts = p.attempts /\ q.valid = p.valid

(* One row is replaced.                                                    *)
LEMMA OneRow ==
  ASSUME TableTypes, NEW i \in DOMAIN actions, NEW q \in Questions,
         actions' = [actions EXCEPT ![i] = q], Kept(actions[i], q)
  PROVE  KeptTable /\ actions'[i] = q /\ \A j \in DOMAIN actions : j # i => actions'[j] = actions[j]
<1>1. actions \in Seq(Questions) /\ \A j \in DOMAIN actions : actions[j] \in Questions
  BY TableSize DEF TableTypes
<1>2. /\ actions' = [j \in DOMAIN actions |-> actions'[j]]
      /\ actions'[i] = q /\ \A j \in DOMAIN actions : j # i => actions'[j] = actions[j]
  OBVIOUS
<1>3. \A j \in DOMAIN actions : actions'[j] \in Questions
  BY <1>1, <1>2
<1>4. actions' \in Seq(Questions) /\ Len(actions') = Len(actions) /\ DOMAIN actions' = DOMAIN actions
  BY <1>1, <1>2, <1>3, SameShape
<1>. QED
  BY <1>2, <1>4 DEF KeptTable, Kept

LEMMA ResolvedTable ==
  ASSUME TableTypes, NEW i \in DOMAIN actions, NEW status \in Statuses \ {"OPEN"},
         actions' = Resolved(i, status)
  PROVE  /\ KeptTable
         /\ \A j \in DOMAIN actions :
              /\ SameAsk(actions[j], actions'[j])
              /\ actions'[j].status = IF j = i /\ Open(j) THEN status ELSE actions[j].status
<1>1. CASE Open(i)
  <2>. DEFINE q == [actions[i] EXCEPT !.status = status]
  <2>1. actions[i] \in Questions
    BY TableSize
  <2>2. q \in Questions /\ q.status = status /\ Kept(actions[i], q) /\ SameAsk(actions[i], q)
    BY <1>1, <2>1, RowClosed DEF Kept, SameAsk, Open
  <2>3. actions' = [actions EXCEPT ![i] = q]
    BY <1>1 DEF Resolved
  <2>. HIDE DEF q
  <2>4. KeptTable /\ actions'[i] = q /\ \A j \in DOMAIN actions : j # i => actions'[j] = actions[j]
    BY <2>2, <2>3, OneRow
  <2>. QED
    BY <1>1, <2>2, <2>4 DEF SameAsk
<1>2. CASE ~Open(i)
  <2>1. actions' = actions
    BY <1>2 DEF Resolved
  <2>. QED
    BY <1>2, <2>1 DEF SameAsk, KeptTable, Kept, TableTypes
<1>. QED
  BY <1>1, <1>2

LEMMA ReaskedTable ==
  ASSUME TableTypes, NEW i \in DOMAIN actions, NEW awaiting \in Awaited, NEW suggested \in BOOLEAN,
         NEW counted \in Nat, actions' = Reasked(i, awaiting, suggested, counted)
  PROVE  /\ KeptTable
         /\ \A j \in DOMAIN actions : j # i => actions'[j] = actions[j]
         /\ actions'[i].status = actions[i].status /\ actions'[i].question = actions[i].question
         /\ actions'[i].awaiting = awaiting /\ actions'[i].valid
         /\ actions'[i].attempts = actions[i].attempts + counted
<1>1. IsQuestion(actions[i])
  BY TableSize
<1>2. PICK q : q = [actions[i] EXCEPT !.awaiting = awaiting, !.suggested = suggested, !.attempts = @ + counted,
                                    !.recent = TRUE, !.valid = TRUE]
  OBVIOUS
<1>3. /\ q \in Questions /\ q.status = actions[i].status /\ q.question = actions[i].question
      /\ q.member = actions[i].member /\ q.tx = actions[i].tx
      /\ q.awaiting = awaiting /\ q.valid /\ q.attempts = actions[i].attempts + counted
  <2>1. q = [f \in DOMAIN q |-> q[f]] /\ DOMAIN q = DOMAIN actions[i]
    BY <1>2
  <2>2. IsQuestion(q)
    BY <1>1, <1>2, <2>1 DEF IsQuestion
  <2>3. q \in Questions
    BY <2>1, <2>2, FieldsQuestion
  <2>. QED
    BY <1>1, <1>2, <2>3 DEF IsQuestion
<1>4. actions' = [actions EXCEPT ![i] = q]
  BY <1>2 DEF Reasked
<1>5. KeptTable /\ actions'[i] = q /\ \A j \in DOMAIN actions : j # i => actions'[j] = actions[j]
  BY <1>3, <1>4, OneRow DEF Kept
<1>. QED
  BY <1>3, <1>5

LEMMA SentTable ==
  ASSUME TableTypes, NEW i \in DOMAIN actions, NEW message \in Nat,
         actions' = [actions EXCEPT ![i] = [@ EXCEPT !.question = message, !.recent = TRUE]]
  PROVE  /\ KeptTable
         /\ \A j \in DOMAIN actions : j # i => actions'[j] = actions[j]
         /\ actions'[i].status = actions[i].status /\ actions'[i].question = message
         /\ actions'[i].awaiting = actions[i].awaiting /\ actions'[i].valid = actions[i].valid
         /\ actions'[i].attempts = actions[i].attempts
<1>1. IsQuestion(actions[i])
  BY TableSize
<1>2. PICK q : q = [actions[i] EXCEPT !.question = message, !.recent = TRUE]
  OBVIOUS
<1>3. /\ q \in Questions /\ q.status = actions[i].status /\ q.question = message
      /\ q.member = actions[i].member /\ q.tx = actions[i].tx
      /\ q.awaiting = actions[i].awaiting /\ q.valid = actions[i].valid /\ q.attempts = actions[i].attempts
  <2>1. q = [f \in DOMAIN q |-> q[f]] /\ DOMAIN q = DOMAIN actions[i]
    BY <1>2
  <2>2. IsQuestion(q)
    BY <1>1, <1>2, <2>1 DEF IsQuestion
  <2>3. q \in Questions
    BY <2>1, <2>2, FieldsQuestion
  <2>. QED
    BY <1>1, <1>2, <2>3 DEF IsQuestion
<1>4. actions' = [actions EXCEPT ![i] = q]
  BY <1>2
<1>5. KeptTable /\ actions'[i] = q /\ \A j \in DOMAIN actions : j # i => actions'[j] = actions[j]
  BY <1>3, <1>4, OneRow DEF Kept
<1>. QED
  BY <1>3, <1>5

LEMMA OldTable ==
  ASSUME TableTypes, NEW i \in DOMAIN actions,
         \/ actions' = [actions EXCEPT ![i].recent = FALSE]
         \/ actions' = [actions EXCEPT ![i].valid = FALSE]
  PROVE  /\ KeptTable
         /\ \A j \in DOMAIN actions :
              /\ actions'[j].status = actions[j].status /\ actions'[j].question = actions[j].question
              /\ actions'[j].awaiting = actions[j].awaiting /\ actions'[j].attempts = actions[j].attempts
<1>1. actions[i] \in Questions
  BY TableSize
<1>2. PICK q : /\ q \in {[actions[i] EXCEPT !.recent = FALSE], [actions[i] EXCEPT !.valid = FALSE]}
               /\ actions' = [actions EXCEPT ![i] = q]
  OBVIOUS
<1>3. /\ q \in Questions /\ q.status = actions[i].status /\ q.question = actions[i].question
      /\ q.member = actions[i].member /\ q.tx = actions[i].tx
      /\ q.awaiting = actions[i].awaiting /\ q.attempts = actions[i].attempts
  BY <1>1, <1>2, RowOld
<1>4. KeptTable /\ actions'[i] = q /\ \A j \in DOMAIN actions : j # i => actions'[j] = actions[j]
  BY <1>2, <1>3, OneRow DEF Kept
<1>. QED
  BY <1>3, <1>4
LEMMA AwaitedFor == \A reasons : AwaitingFor(reasons) \in Awaited
  BY DEF AwaitingFor, Awaited

ExpiredAsk(p, q) ==
  SameAsk(p, q) /\ q.status = IF p.status = "OPEN" /\ ~p.valid THEN "EXPIRED" ELSE p.status

LEMMA ExpiredTable ==
  ASSUME TableTypes,
         actions' = [i \in DOMAIN actions |->
           IF Open(i) /\ i \notin {j \in DOMAIN actions : Open(j) /\ actions[j].valid}
             THEN [actions[i] EXCEPT !.status = "EXPIRED"] ELSE actions[i]]
  PROVE  KeptTable /\ \A i \in DOMAIN actions : ExpiredAsk(actions[i], actions'[i])
<1>1. actions \in Seq(Questions) /\ actions' = [i \in DOMAIN actions |-> actions'[i]]
  BY DEF TableTypes
<1>2. ASSUME NEW i \in DOMAIN actions
      PROVE  actions'[i] \in Questions /\ Kept(actions[i], actions'[i]) /\ ExpiredAsk(actions[i], actions'[i])
  <2>1. actions[i] \in Questions /\ IsQuestion(actions[i])
    BY TableSize
  <2>2. CASE Open(i) /\ ~actions[i].valid
    <3>1. actions'[i] = [actions[i] EXCEPT !.status = "EXPIRED"]
      BY <2>2
    <3>2. PICK q : q = [actions[i] EXCEPT !.status = "EXPIRED"]
      OBVIOUS
    <3>3. /\ q \in Questions /\ q.status = "EXPIRED" /\ q.member = actions[i].member /\ q.tx = actions[i].tx
          /\ SameAsk(actions[i], q)
      BY <2>1, <3>2, RowClosed DEF Statuses, SameAsk
    <3>. QED
      BY <2>2, <3>1, <3>2, <3>3 DEF Kept, ExpiredAsk, Open
  <2>3. CASE ~(Open(i) /\ ~actions[i].valid)
    <3>1. actions'[i] = actions[i]
      BY <2>3, <2>1 DEF IsQuestion
    <3>. QED
      BY <2>1, <2>3, <3>1 DEF Kept, SameAsk, ExpiredAsk, Open
  <2>. QED
    BY <2>1, <2>2, <2>3
<1>3. actions' \in Seq(Questions) /\ Len(actions') = Len(actions) /\ DOMAIN actions' = DOMAIN actions
  <2>1. \A i \in DOMAIN actions : actions'[i] \in Questions
    BY <1>2
  <2>. QED
    BY <1>1, <2>1, SameShape
<1>. QED
  BY <1>2, <1>3 DEF KeptTable

SyncedAsk(p, q, t, reasons, deleted) ==
  /\ q.question = p.question /\ q.attempts = p.attempts /\ q.valid = p.valid
  /\ IF p.tx # t \/ p.status # "OPEN" THEN q.status = p.status /\ q.awaiting = p.awaiting
     ELSE IF deleted \/ reasons = {} THEN q.status \in Statuses \ {"OPEN"}
     ELSE q.status = p.status /\ q.awaiting = AwaitingFor(reasons)

LEMMA SyncedTable ==
  ASSUME TableTypes, NEW t \in Txs, NEW reasons \in SUBSET Reasons, NEW deleted \in BOOLEAN,
         actions' = SyncPendingForTx(t, reasons, deleted)
  PROVE  KeptTable /\ \A i \in DOMAIN actions : SyncedAsk(actions[i], actions'[i], t, reasons, deleted)
<1>1. actions \in Seq(Questions) /\ actions' = [i \in DOMAIN actions |-> actions'[i]]
  BY DEF TableTypes, SyncPendingForTx
<1>2. ASSUME NEW i \in DOMAIN actions
      PROVE  /\ actions'[i] \in Questions /\ Kept(actions[i], actions'[i])
             /\ SyncedAsk(actions[i], actions'[i], t, reasons, deleted)
  <2>1. actions[i] \in Questions /\ IsQuestion(actions[i])
    BY TableSize
  <2>2. CASE actions[i].tx # t \/ ~Open(i)
    <3>1. actions'[i] = actions[i]
      BY <2>2 DEF SyncPendingForTx
    <3>. QED
      BY <2>1, <2>2, <3>1 DEF Kept, SyncedAsk, Open
  <2>3. CASE ~(actions[i].tx # t \/ ~Open(i)) /\ (deleted \/ reasons = {})
    <3>1. PICK status : status = IF deleted THEN "CANCELLED" ELSE "EXECUTED"
      OBVIOUS
    <3>2. PICK q : q = [actions[i] EXCEPT !.status = status]
      OBVIOUS
    <3>3. actions'[i] = q
      BY <2>3, <3>1, <3>2 DEF SyncPendingForTx
    <3>4. /\ q \in Questions /\ q.status = status /\ q.member = actions[i].member /\ q.tx = actions[i].tx
          /\ SameAsk(actions[i], q)
      BY <2>1, <3>1, <3>2, RowClosed DEF Statuses, SameAsk
    <3>. QED
      BY <2>3, <3>1, <3>3, <3>4 DEF Kept, SyncedAsk, SameAsk, Open, Statuses
  <2>4. CASE ~(actions[i].tx # t \/ ~Open(i)) /\ ~deleted /\ reasons # {}
    <3>1. PICK q : q = [actions[i] EXCEPT !.awaiting = AwaitingFor(reasons), !.recent = TRUE] /\ actions'[i] = q
      BY <2>4 DEF SyncPendingForTx
    <3>2. q = [f \in DOMAIN q |-> q[f]] /\ DOMAIN q = DOMAIN actions[i]
      BY <3>1
    <3>3. AwaitingFor(reasons) \in Awaited
      BY AwaitedFor
    <3>4. IsQuestion(q)
      BY <2>1, <3>1, <3>2, <3>3 DEF IsQuestion
    <3>5. q \in Questions
      BY <3>2, <3>4, FieldsQuestion
    <3>6. /\ q.status = actions[i].status /\ q.member = actions[i].member /\ q.tx = actions[i].tx
          /\ q.question = actions[i].question /\ q.attempts = actions[i].attempts /\ q.valid = actions[i].valid
          /\ q.awaiting = AwaitingFor(reasons)
      BY <2>1, <3>1 DEF IsQuestion
    <3>. QED
      BY <2>4, <3>1, <3>5, <3>6 DEF Kept, SyncedAsk, Open
  <2>. QED
    BY <2>2, <2>3, <2>4
<1>3. actions' \in Seq(Questions) /\ Len(actions') = Len(actions) /\ DOMAIN actions' = DOMAIN actions
  <2>1. \A i \in DOMAIN actions : actions'[i] \in Questions
    BY <1>2
  <2>. QED
    BY <1>1, <2>1, SameShape
<1>. QED
  BY <1>2, <1>3 DEF KeptTable
SupersededAsk(p, q, m) ==
  SameAsk(p, q) /\ q.status = IF p.member = m /\ p.status = "OPEN" THEN "SUPERSEDED" ELSE p.status

LEMMA OpenedTable ==
  ASSUME TableTypes, NEW m \in Members, NEW t \in Txs, NEW awaiting \in Awaited, NEW suggested \in BOOLEAN,
         actions' = OpenPending(m, t, awaiting, suggested)
  PROVE  /\ actions' \in Seq(Questions) /\ Len(actions') = Len(actions) + 1
         /\ DOMAIN actions' = DOMAIN actions \cup {Len(actions) + 1}
         /\ \A i \in DOMAIN actions :
              Kept(actions[i], actions'[i]) /\ SupersededAsk(actions[i], actions'[i], m)
         /\ actions'[Len(actions) + 1] =
              [member |-> m, tx |-> t, awaiting |-> awaiting, suggested |-> suggested,
               status |-> "OPEN", question |-> 0, attempts |-> 0, recent |-> TRUE, valid |-> TRUE]
<1>1. PICK old : old = [i \in DOMAIN actions |->
        IF actions[i].member = m /\ Open(i) THEN [actions[i] EXCEPT !.status = "SUPERSEDED"] ELSE actions[i]]
  OBVIOUS
<1>2. PICK new : new = [member |-> m, tx |-> t, awaiting |-> awaiting, suggested |-> suggested,
                        status |-> "OPEN", question |-> 0, attempts |-> 0, recent |-> TRUE, valid |-> TRUE]
  OBVIOUS
<1>3. actions' = Append(old, new)
  BY <1>1, <1>2 DEF OpenPending
<1>4. new \in Questions
  BY <1>2 DEF Questions, Statuses
<1>5. ASSUME NEW i \in DOMAIN actions
      PROVE  /\ old[i] \in Questions
             /\ Kept(actions[i], old[i]) /\ SupersededAsk(actions[i], old[i], m)
  <2>1. actions[i] \in Questions
    BY TableSize
  <2>2. CASE actions[i].member = m /\ Open(i)
    <3>1. PICK q : q = [actions[i] EXCEPT !.status = "SUPERSEDED"]
      OBVIOUS
    <3>2. old[i] = q
      BY <1>1, <2>2, <3>1
    <3>3. /\ q \in Questions /\ q.status = "SUPERSEDED" /\ q.member = actions[i].member /\ q.tx = actions[i].tx
          /\ SameAsk(actions[i], q)
      BY <2>1, <3>1, RowClosed DEF Statuses, SameAsk
    <3>. QED
      BY <2>2, <3>2, <3>3 DEF Kept, SupersededAsk, Open
  <2>3. CASE ~(actions[i].member = m /\ Open(i))
    <3>1. old[i] = actions[i]
      BY <1>1, <2>3
    <3>. QED
      BY <2>1, <2>3, <3>1 DEF Kept, SupersededAsk, SameAsk, Open
  <2>. QED
    BY <2>2, <2>3
<1>6. actions \in Seq(Questions) /\ old = [i \in DOMAIN actions |-> old[i]]
  BY <1>1 DEF TableTypes
<1>7. old \in Seq(Questions) /\ Len(old) = Len(actions) /\ DOMAIN old = DOMAIN actions
  BY <1>5, <1>6, SameShape
<1>8. Len(actions) \in Nat /\ DOMAIN actions = 1..Len(actions)
  BY TableSize
<1>9. /\ actions' \in Seq(Questions) /\ Len(actions') = Len(actions) + 1
      /\ \A i \in 1..Len(actions) : actions'[i] = old[i]
      /\ actions'[Len(actions) + 1] = new
  BY <1>3, <1>4, <1>7, AppendProperties
<1>10. DOMAIN actions' = 1..(Len(actions) + 1)
  BY <1>9, LenProperties
<1>. QED
  BY <1>2, <1>5, <1>8, <1>9, <1>10

-----------------------------------------------------------------------------
(* What the questions that are kept need to stay within bounds.            *)
LEMMA KeptTypes ==
  ASSUME TableTypes, KeptTable, StillThere, UNCHANGED asked,
         turns' \in Nat, faults' \in Nat, edits' \in Nat,
         \A i \in DOMAIN actions : actions'[i].question = actions[i].question
  PROVE  TableTypes'
BY DEF TableTypes, KeptTable, StillThere

(* The turn starts again, or ends.                                         *)
LEMMA RetriedTurn ==
  ASSUME TurnTyped, TableTypes, turn # Idle
  PROVE  \/ Retried = Idle
         \/ /\ IsTurn(Retried) /\ Retried.pc = "find" /\ Retried.act = 0 /\ Retried.opened = 0
            /\ ~Retried.ok
<1>1. IsTurn(turn)
  BY DEF TurnTyped
<1>2. CASE Retried # Idle
  <2>1. Retried = Turn(turn.member, turn.answer, turn.quoted, turn.attempt + 1, FALSE)
    BY <1>2 DEF Retried
  <2>. QED
    BY <1>1, <2>1 DEF IsTurn, Turn, Pcs
<1>. QED
  BY <1>2
LEMMA BusyTurn ==
  ASSUME TurnTyped, turn.pc \in Pcs
  PROVE  IsTurn(turn) /\ turn # Idle /\ turn.act <= Len(actions) /\ turn.opened <= Len(actions)
BY DEF TurnTyped, Idle, Pcs

LEMMA GoTurn ==
  ASSUME IsTurn(turn), NEW pc \in Pcs, Go(pc)
  PROVE  /\ IsTurn(turn') /\ turn'.pc = pc
         /\ turn'.act = turn.act /\ turn'.opened = turn.opened /\ turn'.awaiting = turn.awaiting
         /\ turn'.ok = turn.ok /\ turn'.viaTool = turn.viaTool
         /\ turn'.tx = turn.tx /\ turn'.reasons = turn.reasons /\ turn'.deleted = turn.deleted
<1>1. turn' = [turn EXCEPT !.pc = pc] /\ DOMAIN turn' = DOMAIN turn
  BY DEF Go
<1>. QED
  BY <1>1 DEF IsTurn

(* A step of the turn alone, not while an entry is ahead of its question.  *)
LEMMA TurnMoves ==
  ASSUME ConversationInv, UNCHANGED <<entry, actions, asked>>,
         turns' \in Nat, faults' \in Nat, edits' \in Nat, TurnTyped', StepInv', ReadInv',
         Alone' => /\ Alone /\ turn.pc \notin {"settle", "cancel", "sync"}
                   /\ turn'.pc \notin {"settle", "open", "sync"}
  PROVE  ConversationInv'
<1>1. TableTypes' /\ OneOpenQuestion' /\ OwnInv'
  BY DEF ConversationInv, TableTypes, OneOpenQuestion, OwnInv, Open
<1>2. FitInv'
  <2>. SUFFICES ASSUME Alone'
                PROVE  \A i \in DOMAIN actions' : Open(i)' => Fits(i)'
    BY DEF FitInv
  <2>1. \A i \in DOMAIN actions : Open(i) => Fits(i)
    BY DEF ConversationInv, FitInv, InFlux
  <2>. QED
    BY <2>1 DEF Open, Fits, Pending, Live
<1>. QED
  BY <1>1, <1>2 DEF ConversationInv

(* The turn ends, or starts again, where it changed no entry, or a         *)
(* statement failed.                                                       *)
LEMMA TurnRetried ==
  ASSUME ConversationInv, UNCHANGED <<entry, actions, asked>>,
         turns' \in Nat, faults' \in Nat, edits' \in Nat, turn # Idle, turn' = Retried,
         Alone' => Alone /\ turn.pc \notin {"settle", "cancel", "sync"}
  PROVE  ConversationInv'
<1>1. Len(actions) \in Nat
  BY TableSize DEF ConversationInv
<1>2. \/ turn' = Idle
      \/ IsTurn(turn') /\ turn'.pc = "find" /\ turn'.act = 0 /\ turn'.opened = 0 /\ ~turn'.ok
  BY RetriedTurn DEF ConversationInv
<1>3. TurnTyped' /\ StepInv' /\ ReadInv' /\ turn'.pc \notin {"settle", "open", "sync"}
  BY <1>1, <1>2 DEF TurnTyped, StepInv, ReadInv, Idle
<1>. QED
  BY <1>3, TurnMoves
LEMMA SameNumbers ==
  ASSUME ConversationInv, UNCHANGED <<turns, faults, edits>>
  PROVE  /\ turns' \in Nat /\ faults' \in Nat /\ edits' \in Nat
         /\ (faults' = 0) = (faults = 0) /\ Alone' = Alone
BY DEF ConversationInv, TableTypes, Alone

LEMMA ReceiveInv ==
  ASSUME ConversationInv, NEW m \in Members, NEW answer \in Answers, NEW quoted \in 0..Len(asked),
         Receive(m, answer, quoted)
  PROVE  ConversationInv'
<1>1. /\ Len(actions) \in Nat /\ Len(asked) \in Nat /\ turns \in Nat /\ faults \in Nat /\ edits \in Nat
  BY TableSize DEF ConversationInv, TableTypes
<1>2. /\ turn = Idle /\ turn' = Turn(m, answer, quoted, 1, FALSE) /\ UNCHANGED <<entry, actions, asked>>
      /\ turns' \in Nat /\ faults' = faults /\ edits' = edits
  BY <1>1 DEF Receive
<1>3. IsTurn(turn') /\ turn'.pc = "find" /\ turn'.act = 0 /\ turn'.opened = 0 /\ ~turn'.ok
  BY <1>1, <1>2 DEF IsTurn, Turn, Pcs
<1>4. TurnTyped' /\ StepInv' /\ ReadInv'
  BY <1>1, <1>3 DEF TurnTyped, StepInv, ReadInv
<1>. QED
  BY <1>1, <1>2, <1>3, <1>4, TurnMoves DEF Alone, Idle

(* A step that goes on with what it has: the question found is the same.   *)
LEMMA GoInv ==
  ASSUME ConversationInv, OnlyTurn, NEW pc \in Pcs \ {"find", "settle", "open", "sync"}, Go(pc),
         turn.pc \in {"look", "apply", "model"},
         pc \in {"apply", "reask", "giveup", "refuse", "cancel"} => turn.act # 0,
         pc \in {"look", "apply", "reask", "refuse"} => ~turn.ok
  PROVE  ConversationInv'
<1>1. IsTurn(turn) /\ turn.act <= Len(actions) /\ turn.opened <= Len(actions)
  BY BusyTurn DEF ConversationInv, Pcs
<1>2. /\ IsTurn(turn') /\ turn'.pc = pc
      /\ turn'.act = turn.act /\ turn'.opened = turn.opened /\ turn'.awaiting = turn.awaiting /\ turn'.ok = turn.ok
  BY <1>1, GoTurn
<1>3. UNCHANGED <<entry, actions, asked>>
  BY DEF OnlyTurn
<1>4. TurnTyped' /\ StepInv'
  BY <1>1, <1>2, <1>3 DEF TurnTyped, StepInv
<1>5. ReadInv'
  BY <1>1, <1>2, <1>3 DEF ConversationInv, ReadInv, Open, Pcs
<1>. QED
  BY <1>2, <1>3, <1>4, <1>5, SameNumbers, TurnMoves DEF OnlyTurn, Same

LEMMA LookReceiptInv ==
  ASSUME ConversationInv, LookReceipt
  PROVE  ConversationInv'
BY GoInv DEF LookReceipt, Pcs

LEMMA LookPendingInv ==
  ASSUME ConversationInv, LookPending
  PROVE  ConversationInv'
<1>1. /\ turn.pc = "look" /\ turn.act # 0 /\ OnlyTurn
      /\ \E pc \in {"apply", "reask", "refuse", "model"} : Go(pc)
  BY DEF LookPending
<1>2. ~turn.ok
  BY <1>1 DEF ConversationInv, StepInv
<1>. QED
  BY <1>1, <1>2, GoInv DEF Pcs

LEMMA ApplyPendingFailsInv ==
  ASSUME ConversationInv, ApplyPendingFails
  PROVE  ConversationInv'
<1>1. turn.pc = "apply" /\ turn.act # 0 /\ OnlyTurn
  BY DEF ApplyPendingFails, ConversationInv, StepInv
<1>2. CASE turn.viaTool
  BY <1>1, <1>2, GoInv DEF ApplyPendingFails, Pcs
<1>3. CASE ~turn.viaTool /\ Live(Draft)
  <2>1. ~turn.ok
    BY <1>1, <1>3 DEF ConversationInv, StepInv
  <2>. QED
    BY <1>1, <1>3, <2>1, GoInv DEF ApplyPendingFails, Pcs
<1>4. CASE ~turn.viaTool /\ ~Live(Draft)
  BY <1>1, <1>4, SameNumbers, TurnRetried DEF ApplyPendingFails, OnlyTurn, Same, Idle
<1>. QED
  BY <1>2, <1>3, <1>4

LEMMA CompletePendingInv ==
  ASSUME ConversationInv, CompletePending
  PROVE  ConversationInv'
<1>1. /\ turn.pc = "model" /\ turn.act # 0 /\ OnlyTurn
      /\ turn' = [turn EXCEPT !.pc = "apply", !.viaTool = TRUE, !.tools = @ + 1]
  BY DEF CompletePending, MayChange, MayCreate
<1>2. IsTurn(turn) /\ turn.act <= Len(actions) /\ turn.opened <= Len(actions)
  BY <1>1, BusyTurn DEF ConversationInv, Pcs
<1>3. DOMAIN turn' = DOMAIN turn
  BY <1>1
<1>4. IsTurn(turn')
  BY <1>1, <1>2, <1>3 DEF IsTurn, Pcs
<1>5. /\ turn'.pc = "apply" /\ turn'.viaTool /\ turn'.act = turn.act /\ turn'.opened = turn.opened
      /\ turn'.awaiting = turn.awaiting /\ turn'.ok = turn.ok
  BY <1>1, <1>2 DEF IsTurn
<1>6. TurnTyped' /\ StepInv' /\ ReadInv'
  BY <1>1, <1>2, <1>4, <1>5 DEF OnlyTurn, TurnTyped, StepInv, ConversationInv, ReadInv, Open
<1>. QED
  BY <1>1, <1>5, <1>6, SameNumbers, TurnMoves DEF OnlyTurn, Same

LEMMA ModelAnswersInv ==
  ASSUME ConversationInv, ModelAnswers
  PROVE  ConversationInv'
<1>1. turn.pc = "model" /\ OnlyTurn
  BY DEF ModelAnswers
<1>2. CASE Go("reply")
  BY <1>1, <1>2, GoInv DEF Pcs
<1>3. CASE turn' = Retried
  BY <1>1, <1>3, SameNumbers, TurnRetried DEF OnlyTurn, Same, Idle
<1>4. CASE ~turn.ok /\ turn.act # 0 /\ Go("reask")
  BY <1>1, <1>4, GoInv DEF Pcs
<1>. QED
  BY <1>2, <1>3, <1>4 DEF ModelAnswers

LEMMA FaultInv ==
  ASSUME ConversationInv, Fault
  PROVE  ConversationInv'
<1>1. /\ turn # Idle /\ faults' = faults + 1 /\ turns' = turns /\ edits' = edits
      /\ UNCHANGED <<entry, actions, asked>>
  BY DEF Fault
<1>2. turns' \in Nat /\ faults' \in Nat /\ edits' \in Nat /\ faults' # 0
  BY <1>1 DEF ConversationInv, TableTypes
<1>3. CASE turn' = Retried
  BY <1>1, <1>2, <1>3, TurnRetried DEF Alone
<1>4. CASE /\ turn.pc \in {"open", "sync", "settle"}
           /\ turn' = [turn EXCEPT !.pc = "model", !.viaTool = FALSE, !.broken = TRUE]
  <2>1. IsTurn(turn) /\ turn.act <= Len(actions) /\ turn.opened <= Len(actions)
    BY <1>4, BusyTurn DEF ConversationInv, Pcs
  <2>2. DOMAIN turn' = DOMAIN turn
    BY <1>4
  <2>3. IsTurn(turn')
    BY <1>4, <2>1, <2>2 DEF IsTurn, Pcs
  <2>4. /\ turn'.pc = "model" /\ turn'.act = turn.act /\ turn'.opened = turn.opened
        /\ turn'.awaiting = turn.awaiting /\ turn'.ok = turn.ok
    BY <1>4, <2>1 DEF IsTurn
  <2>5. TurnTyped' /\ StepInv'
    BY <1>1, <2>1, <2>3, <2>4 DEF TurnTyped, StepInv
  <2>6. ReadInv'
    BY <1>1, <1>4, <2>4 DEF ConversationInv, ReadInv, Open
  <2>. QED
    BY <1>1, <1>2, <2>5, <2>6, TurnMoves DEF Alone
<1>. QED
  BY <1>3, <1>4 DEF Fault
(* A step that changes questions, none of them that the entries are ahead  *)
(* of, and the turn.                                                       *)
LEMMA TableMoves ==
  ASSUME ConversationInv, KeptTable, OnlyTable, TurnTyped', StepInv', ReadInv',
         \A i \in DOMAIN actions : actions'[i].question = actions[i].question,
         FitInv'
  PROVE  ConversationInv'
<1>1. StillThere
  BY DEF ConversationInv, TableTypes, OnlyTable, StillThere
<1>2. TableTypes'
  BY <1>1, KeptTypes, SameNumbers DEF ConversationInv, OnlyTable
<1>3. OneOpenQuestion' /\ OwnInv'
  BY <1>1, KeptRules DEF ConversationInv
<1>. QED
  BY <1>2, <1>3 DEF ConversationInv

LEMMA ActivePendingInv ==
  ASSUME ConversationInv, ActivePending
  PROVE  ConversationInv' /\ KeptTable
<1>1. turn.pc = "find" /\ OnlyTable
  BY DEF ActivePending, OnlyActions, OnlyTable, Same
<1>2. IsTurn(turn) /\ turn.act = 0 /\ ~turn.ok /\ turn.opened <= Len(actions)
  BY <1>1, BusyTurn DEF ConversationInv, StepInv, Pcs
<1>3. TableTypes
  BY DEF ConversationInv
<1>4. KeptTable /\ \A i \in DOMAIN actions : ExpiredAsk(actions[i], actions'[i])
  BY <1>3, ExpiredTable, Zenon DEF ActivePending
<1>5. \A i \in DOMAIN actions : IsQuestion(actions[i])
  BY <1>3, TableSize
<1>6. Len(actions) \in Nat /\ DOMAIN actions = 1..Len(actions)
  BY <1>3, TableSize
<1>7. \/ \E i \in DOMAIN actions : Open(i) /\ actions[i].valid /\ Found(i)
      \/ Go("look")
  BY DEF ActivePending
<1>8. turn'.pc = "look" /\ TurnTyped' /\ StepInv' /\ ReadInv'
  <2>1. CASE Go("look")
    <3>1. IsTurn(turn') /\ turn'.pc = "look" /\ turn'.act = 0 /\ turn'.opened = turn.opened /\ ~turn'.ok
      BY <1>2, <2>1, GoTurn DEF Pcs
    <3>. QED
      BY <1>2, <1>4, <1>6, <3>1 DEF TurnTyped, StepInv, ReadInv, KeptTable
  <2>2. ASSUME NEW i \in DOMAIN actions, Open(i), actions[i].valid, Found(i)
        PROVE  turn'.pc = "look" /\ TurnTyped' /\ StepInv' /\ ReadInv'
    <3>1. /\ turn' = [turn EXCEPT !.pc = "look", !.act = i, !.awaiting = actions[i].awaiting,
                                  !.suggested = actions[i].suggested]
          /\ DOMAIN turn' = DOMAIN turn
      BY <2>2 DEF Found
    <3>2. actions[i].awaiting \in Awaited /\ actions[i].suggested \in BOOLEAN /\ i \in Nat /\ i <= Len(actions)
      BY <1>5, <1>6 DEF IsQuestion
    <3>3. IsTurn(turn')
      BY <1>2, <3>1, <3>2 DEF IsTurn, Pcs
    <3>4. /\ turn'.pc = "look" /\ turn'.act = i /\ turn'.opened = turn.opened /\ ~turn'.ok
          /\ turn'.awaiting = actions[i].awaiting
      BY <1>2, <3>1 DEF IsTurn
    <3>5. Open(i)' /\ actions'[i].valid /\ actions'[i].awaiting = actions[i].awaiting
      BY <1>4, <2>2 DEF ExpiredAsk, SameAsk, Open
    <3>. QED
      BY <1>2, <1>4, <1>6, <3>2, <3>3, <3>4, <3>5 DEF TurnTyped, StepInv, ReadInv, KeptTable, Open
  <2>. QED
    BY <1>7, <2>1, <2>2
<1>9. FitInv'
  <2>. SUFFICES ASSUME Alone', NEW i \in DOMAIN actions, Open(i)'
                PROVE  Fits(i)'
    BY <1>4, <1>8 DEF FitInv, KeptTable
  <2>1. Open(i) /\ actions'[i].tx = actions[i].tx /\ actions'[i].awaiting = actions[i].awaiting
    BY <1>4 DEF KeptTable, Kept, ExpiredAsk, SameAsk, Open
  <2>2. Fits(i)
    BY <1>1, <2>1 DEF ConversationInv, FitInv, InFlux, OnlyTable, Alone
  <2>. QED
    BY <1>1, <2>1, <2>2 DEF Fits, Pending, Live, OnlyTable
<1>10. \A i \in DOMAIN actions : actions'[i].question = actions[i].question
  BY <1>4 DEF ExpiredAsk, SameAsk
<1>. QED
  BY <1>1, <1>4, <1>8, <1>9, <1>10, TableMoves
(* Questions are closed, and the turn goes on outside the changes.          *)
ClosedAsk(p, q) == SameAsk(p, q) /\ (q.status = "OPEN" => p.status = "OPEN")

LEMMA ClosingTable ==
  ASSUME ConversationInv, KeptTable, OnlyTable, TurnTyped', StepInv', ReadInv',
         \A i \in DOMAIN actions : ClosedAsk(actions[i], actions'[i]),
         turn'.pc \notin {"settle", "open", "sync"},
         \A i \in DOMAIN actions : InFlux(i) => actions'[i].status # "OPEN"
  PROVE  ConversationInv'
<1>1. FitInv'
  <2>. SUFFICES ASSUME Alone', NEW i \in DOMAIN actions, Open(i)'
                PROVE  Fits(i)'
    BY DEF FitInv, KeptTable
  <2>1. Open(i) /\ actions'[i].tx = actions[i].tx /\ actions'[i].awaiting = actions[i].awaiting
    BY DEF KeptTable, Kept, ClosedAsk, SameAsk, Open
  <2>2. Fits(i)
    BY <2>1 DEF ConversationInv, FitInv, OnlyTable, Alone, Open
  <2>. QED
    BY <2>1, <2>2 DEF Fits, Pending, Live, OnlyTable
<1>2. \A i \in DOMAIN actions : actions'[i].question = actions[i].question
  BY DEF ClosedAsk, SameAsk
<1>. QED
  BY <1>1, <1>2, TableMoves

LEMMA LookSettledInv ==
  ASSUME ConversationInv, LookSettled
  PROVE  ConversationInv' /\ KeptTable
<1>1. /\ turn.pc = "look" /\ OnlyTable
      /\ actions' = IF turn.act = 0 THEN actions
                    ELSE Resolved(turn.act, IF Live(Draft) THEN "EXECUTED" ELSE "CANCELLED")
      /\ turn' = [turn EXCEPT !.act = 0, !.pc = IF turn.answer \in {"yes", "no"} THEN "reply" ELSE "model"]
  BY DEF LookSettled, OnlyActions, OnlyTable, Same
<1>2. TableTypes /\ IsTurn(turn) /\ turn.act <= Len(actions) /\ turn.opened <= Len(actions)
  BY <1>1, BusyTurn DEF ConversationInv, Pcs
<1>3. Len(actions) \in Nat /\ DOMAIN actions = 1..Len(actions)
  BY <1>2, TableSize
<1>4. KeptTable /\ \A i \in DOMAIN actions : ClosedAsk(actions[i], actions'[i])
  <2>1. CASE turn.act = 0
    BY <1>1, <1>2, <2>1 DEF KeptTable, Kept, ClosedAsk, SameAsk, TableTypes
  <2>2. CASE turn.act # 0
    <3>1. turn.act \in DOMAIN actions
      BY <1>2, <1>3, <2>2 DEF IsTurn
    <3>2. PICK status \in Statuses \ {"OPEN"} : actions' = Resolved(turn.act, status)
      BY <1>1, <2>2 DEF Statuses
    <3>. QED
      BY <1>2, <3>1, <3>2, ResolvedTable DEF ClosedAsk, Open
  <2>. QED
    BY <2>1, <2>2
<1>5. DOMAIN turn' = DOMAIN turn
  BY <1>1
<1>6. IsTurn(turn') /\ turn'.act = 0 /\ turn'.opened = turn.opened /\ turn'.pc \in {"reply", "model"}
  BY <1>1, <1>2, <1>5 DEF IsTurn, Pcs
<1>7. TurnTyped' /\ StepInv' /\ ReadInv'
  BY <1>2, <1>3, <1>4, <1>6 DEF TurnTyped, StepInv, ReadInv, KeptTable
<1>. QED
  BY <1>1, <1>4, <1>6, <1>7, ClosingTable DEF InFlux

LEMMA GiveUpInv ==
  ASSUME ConversationInv, GiveUp
  PROVE  ConversationInv' /\ KeptTable
<1>1. /\ turn.pc = "giveup" /\ OnlyTable /\ actions' = Resolved(turn.act, "EXPIRED") /\ Go("reply")
  BY DEF GiveUp, OnlyActions, OnlyTable, Same
<1>2. TableTypes /\ IsTurn(turn) /\ turn.act <= Len(actions) /\ turn.opened <= Len(actions) /\ turn.act # 0
  BY <1>1, BusyTurn DEF ConversationInv, Pcs, StepInv
<1>3. turn.act \in DOMAIN actions
  BY <1>2, TableSize DEF IsTurn
<1>4. KeptTable /\ \A i \in DOMAIN actions :
                     /\ ClosedAsk(actions[i], actions'[i])
                     /\ i = turn.act => actions'[i].status # "OPEN"
  BY <1>1, <1>2, <1>3, ResolvedTable DEF ClosedAsk, Open, Statuses
<1>5. /\ IsTurn(turn') /\ turn'.pc = "reply" /\ turn'.act = turn.act /\ turn'.opened = turn.opened
  BY <1>1, <1>2, GoTurn DEF Pcs
<1>6. TurnTyped' /\ StepInv' /\ ReadInv'
  BY <1>2, <1>4, <1>5 DEF TurnTyped, StepInv, ReadInv, KeptTable
<1>. QED
  BY <1>1, <1>4, <1>5, <1>6, ClosingTable DEF InFlux

LEMMA CancelInv ==
  ASSUME ConversationInv, Cancel
  PROVE  ConversationInv' /\ KeptTable
<1>1. /\ turn.pc = "cancel" /\ OnlyTable /\ actions' = Resolved(turn.act, "CANCELLED") /\ Go("reply")
  BY DEF Cancel, OnlyActions, OnlyTable, Same
<1>2. TableTypes /\ IsTurn(turn) /\ turn.act <= Len(actions) /\ turn.opened <= Len(actions) /\ turn.act # 0
  BY <1>1, BusyTurn DEF ConversationInv, Pcs, StepInv
<1>3. turn.act \in DOMAIN actions
  BY <1>2, TableSize DEF IsTurn
<1>4. KeptTable /\ \A i \in DOMAIN actions :
                     /\ ClosedAsk(actions[i], actions'[i])
                     /\ i = turn.act => actions'[i].status # "OPEN"
  BY <1>1, <1>2, <1>3, ResolvedTable DEF ClosedAsk, Open, Statuses
<1>5. /\ IsTurn(turn') /\ turn'.pc = "reply" /\ turn'.act = turn.act /\ turn'.opened = turn.opened
  BY <1>1, <1>2, GoTurn DEF Pcs
<1>6. TurnTyped' /\ StepInv' /\ ReadInv'
  BY <1>2, <1>4, <1>5 DEF TurnTyped, StepInv, ReadInv, KeptTable
<1>. QED
  BY <1>1, <1>4, <1>5, <1>6, ClosingTable DEF InFlux
LEMMA ReaskInv ==
  ASSUME ConversationInv, Reask
  PROVE  ConversationInv' /\ KeptTable
<1>1. /\ turn.pc = "reask" /\ OnlyTable
      /\ actions' = Reasked(turn.act, turn.awaiting, StillSuggested, 1)
      /\ turn' = IF actions'[turn.act].attempts >= MaxRounds THEN [turn EXCEPT !.pc = "giveup"]
                 ELSE [turn EXCEPT !.pc = "reply", !.opened = turn.act]
  BY DEF Reask, OnlyActions, OnlyTable, Same
<1>2. /\ TableTypes /\ IsTurn(turn) /\ turn.act <= Len(actions) /\ turn.opened <= Len(actions)
      /\ turn.act # 0 /\ ~turn.ok
  BY <1>1, BusyTurn DEF ConversationInv, Pcs, StepInv
<1>3. /\ Len(actions) \in Nat /\ DOMAIN actions = 1..Len(actions)
      /\ \A i \in DOMAIN actions : IsQuestion(actions[i])
  BY <1>2, TableSize
<1>4. turn.act \in DOMAIN actions
  BY <1>2, <1>3 DEF IsTurn
<1>5. Open(turn.act) /\ turn.awaiting = actions[turn.act].awaiting
  BY <1>1, <1>2 DEF ConversationInv, ReadInv
<1>6. turn.awaiting \in Awaited /\ StillSuggested \in BOOLEAN
  BY <1>2, <1>3, <1>4, <1>5 DEF IsQuestion, IsTurn, StillSuggested
<1>7. /\ KeptTable
      /\ \A j \in DOMAIN actions : j # turn.act => actions'[j] = actions[j]
      /\ actions'[turn.act].status = actions[turn.act].status
      /\ actions'[turn.act].question = actions[turn.act].question
      /\ actions'[turn.act].awaiting = turn.awaiting /\ actions'[turn.act].valid
      /\ actions'[turn.act].attempts = actions[turn.act].attempts + 1
  BY <1>1, <1>2, <1>4, <1>6, ReaskedTable
<1>8. DOMAIN turn' = DOMAIN turn
  BY <1>1
<1>9. /\ IsTurn(turn') /\ turn'.pc \in {"giveup", "reply"} /\ turn'.act = turn.act /\ turn'.ok = turn.ok
      /\ turn'.awaiting = turn.awaiting /\ turn'.opened \in {turn.act, turn.opened}
      /\ actions'[turn.act].attempts >= MaxRounds => turn'.pc = "giveup"
  BY <1>1, <1>2, <1>8 DEF IsTurn, Pcs
<1>10. TurnTyped' /\ StepInv' /\ ReadInv'
  BY <1>2, <1>3, <1>5, <1>7, <1>9 DEF TurnTyped, StepInv, ReadInv, KeptTable, Open
<1>11. FitInv'
  <2>. SUFFICES ASSUME Alone', NEW i \in DOMAIN actions, Open(i)'
                PROVE  Fits(i)'
    BY <1>7, <1>9 DEF FitInv, KeptTable
  <2>1. Open(i) /\ actions'[i].tx = actions[i].tx /\ actions'[i].awaiting = actions[i].awaiting
    BY <1>5, <1>7 DEF KeptTable, Kept, Open
  <2>2. Fits(i)
    BY <1>1, <2>1 DEF ConversationInv, FitInv, InFlux, OnlyTable, Alone
  <2>. QED
    BY <1>1, <2>1, <2>2 DEF Fits, Pending, Live, OnlyTable
<1>12. \A i \in DOMAIN actions : actions'[i].question = actions[i].question
  BY <1>7
<1>. QED
  BY <1>1, <1>7, <1>10, <1>11, <1>12, TableMoves

LEMMA SettlePendingInv ==
  ASSUME ConversationInv, SettlePending
  PROVE  ConversationInv' /\ KeptTable
<1>1. turn.pc = "settle" /\ OnlyTable
  BY DEF SettlePending, OnlyTable
<1>2. /\ TableTypes /\ IsTurn(turn) /\ turn.act <= Len(actions) /\ turn.opened <= Len(actions)
      /\ turn.act # 0
  BY <1>1, BusyTurn DEF ConversationInv, Pcs, StepInv
<1>3. /\ Len(actions) \in Nat /\ DOMAIN actions = 1..Len(actions)
      /\ \A i \in DOMAIN actions : IsQuestion(actions[i])
  BY <1>2, TableSize
<1>4. turn.act \in DOMAIN actions
  BY <1>2, <1>3 DEF IsTurn
<1>5. PICK next : next = [turn EXCEPT !.pc = IF turn.viaTool THEN "model" ELSE "reply", !.viaTool = FALSE, !.ok = TRUE]
  OBVIOUS
<1>6. /\ IsTurn(next) /\ next.pc \in {"model", "reply"} /\ next.act = turn.act /\ next.ok /\ next.opened = turn.opened
  <2>1. DOMAIN next = DOMAIN turn
    BY <1>5
  <2>. QED
    BY <1>2, <1>5, <2>1 DEF IsTurn, Pcs
<1>7. CASE turn.reasons = {}
  <2>1. actions' = Resolved(turn.act, "EXECUTED") /\ turn' = next
    BY <1>5, <1>7 DEF SettlePending
  <2>2. KeptTable /\ \A i \in DOMAIN actions :
                       /\ ClosedAsk(actions[i], actions'[i])
                       /\ i = turn.act => actions'[i].status # "OPEN"
    BY <1>2, <1>4, <2>1, ResolvedTable DEF ClosedAsk, Open, Statuses
  <2>3. TurnTyped' /\ StepInv' /\ ReadInv'
    BY <1>2, <1>6, <2>1, <2>2 DEF TurnTyped, StepInv, ReadInv, KeptTable
  <2>. QED
    BY <1>1, <1>6, <2>1, <2>2, <2>3, ClosingTable DEF InFlux
<1>8. CASE turn.reasons # {}
  <2>1. /\ actions' = Reasked(turn.act, AwaitingFor(turn.reasons), FALSE, 0)
        /\ turn' = [next EXCEPT !.opened = turn.act]
    BY <1>5, <1>8 DEF SettlePending
  <2>2. AwaitingFor(turn.reasons) \in Awaited /\ FALSE \in BOOLEAN /\ 0 \in Nat
    BY AwaitedFor
  <2>3. /\ KeptTable
        /\ \A j \in DOMAIN actions : j # turn.act => actions'[j] = actions[j]
        /\ actions'[turn.act].status = actions[turn.act].status
        /\ actions'[turn.act].question = actions[turn.act].question
        /\ actions'[turn.act].awaiting = AwaitingFor(turn.reasons) /\ actions'[turn.act].valid
        /\ actions'[turn.act].attempts = actions[turn.act].attempts + 0
    BY <1>2, <1>4, <2>1, <2>2, ReaskedTable
  <2>4. DOMAIN turn' = DOMAIN next
    BY <2>1
  <2>5. IsTurn(turn') /\ turn'.pc \in {"model", "reply"} /\ turn'.act = turn.act /\ turn'.ok /\ turn'.opened = turn.act
    BY <1>2, <1>6, <2>1, <2>4 DEF IsTurn
  <2>6. TurnTyped' /\ StepInv' /\ ReadInv'
    BY <1>2, <2>3, <2>5 DEF TurnTyped, StepInv, ReadInv, KeptTable
  <2>7. FitInv'
    <3>. SUFFICES ASSUME Alone', NEW i \in DOMAIN actions, Open(i)'
                  PROVE  Fits(i)'
      BY <2>3, <2>5 DEF FitInv, KeptTable
    <3>1. Alone /\ Open(i) /\ actions'[i].tx = actions[i].tx
      BY <1>1, <2>3 DEF KeptTable, Kept, Open, OnlyTable, Alone
    <3>2. CASE i = turn.act
      <4>1. LET e == entry[actions[i].tx] IN e.there /\ e.reasons = turn.reasons /\ ~e.deleted
        BY <1>1, <3>1, <3>2 DEF ConversationInv, FitInv
      <4>. QED
        BY <1>1, <1>8, <2>3, <3>1, <3>2, <4>1 DEF Fits, Pending, Live, OnlyTable
    <3>3. CASE i # turn.act
      <4>1. Fits(i)
        BY <1>1, <3>1, <3>3 DEF ConversationInv, FitInv, InFlux
      <4>. QED
        BY <1>1, <2>3, <3>3, <4>1 DEF Fits, Pending, Live, OnlyTable
    <3>. QED
      BY <3>2, <3>3
  <2>8. \A i \in DOMAIN actions : actions'[i].question = actions[i].question
    BY <2>3
  <2>. QED
    BY <1>1, <2>3, <2>6, <2>7, <2>8, TableMoves
<1>. QED
  BY <1>7, <1>8

LEMMA SyncInv ==
  ASSUME ConversationInv, Sync
  PROVE  ConversationInv' /\ KeptTable
<1>1. /\ turn.pc = "sync" /\ OnlyTable /\ actions' = SyncPendingForTx(turn.tx, turn.reasons, turn.deleted)
      /\ turn' = [turn EXCEPT !.pc = "model", !.ok = TRUE]
  BY DEF Sync, OnlyActions, OnlyTable, Same
<1>2. /\ TableTypes /\ IsTurn(turn) /\ turn.act <= Len(actions) /\ turn.opened <= Len(actions)
      /\ turn.tx \in Txs
  BY <1>1, BusyTurn DEF ConversationInv, Pcs, StepInv
<1>3. /\ turn.reasons \in SUBSET Reasons /\ turn.deleted \in BOOLEAN
  BY <1>2 DEF IsTurn
<1>4. KeptTable /\ \A i \in DOMAIN actions : SyncedAsk(actions[i], actions'[i], turn.tx, turn.reasons, turn.deleted)
  BY <1>1, <1>2, <1>3, SyncedTable
<1>5. DOMAIN turn' = DOMAIN turn
  BY <1>1
<1>6. IsTurn(turn') /\ turn'.pc = "model" /\ turn'.act = turn.act /\ turn'.ok /\ turn'.opened = turn.opened
  BY <1>1, <1>2, <1>5 DEF IsTurn, Pcs
<1>7. TurnTyped' /\ StepInv' /\ ReadInv'
  BY <1>2, <1>4, <1>6 DEF TurnTyped, StepInv, ReadInv, KeptTable
<1>8. FitInv'
  <2>. SUFFICES ASSUME Alone', NEW i \in DOMAIN actions, Open(i)'
                PROVE  Fits(i)'
    BY <1>4, <1>6 DEF FitInv, KeptTable
  <2>1. Alone /\ Open(i) /\ actions'[i].tx = actions[i].tx
    BY <1>1, <1>4 DEF KeptTable, Kept, Open, OnlyTable, Alone
  <2>2. CASE actions[i].tx = turn.tx
    <3>1. LET e == entry[actions[i].tx] IN e.there /\ e.reasons = turn.reasons /\ e.deleted = turn.deleted
      BY <1>1, <1>3, <2>1, <2>2 DEF ConversationInv, FitInv
    <3>2. ~turn.deleted /\ turn.reasons # {} /\ actions'[i].awaiting = AwaitingFor(turn.reasons)
      BY <1>4, <2>1, <2>2 DEF SyncedAsk, Open
    <3>. QED
      BY <1>1, <2>1, <3>1, <3>2 DEF Fits, Pending, Live, OnlyTable
  <2>3. CASE actions[i].tx # turn.tx
    <3>1. Fits(i)
      BY <1>1, <2>1, <2>3 DEF ConversationInv, FitInv, InFlux
    <3>2. actions'[i].awaiting = actions[i].awaiting
      BY <1>4, <2>3 DEF SyncedAsk
    <3>. QED
      BY <1>1, <2>1, <3>1, <3>2 DEF Fits, Pending, Live, OnlyTable
  <2>. QED
    BY <2>2, <2>3
<1>9. \A i \in DOMAIN actions : actions'[i].question = actions[i].question
  BY <1>4 DEF SyncedAsk
<1>. QED
  BY <1>1, <1>4, <1>7, <1>8, <1>9, TableMoves
-----------------------------------------------------------------------------
(* What becomes of an entry.                                               *)

LEMMA EntryFields ==
  ASSUME TableTypes, NEW t \in Txs
  PROVE  /\ entry[t] \in Entries /\ entry[t].there \in BOOLEAN /\ entry[t].deleted \in BOOLEAN
         /\ entry[t].reasons \in SUBSET Reasons /\ entry[t].past \in SUBSET Pasts
BY DEF TableTypes, Entries

LEMMA ChangedEntry ==
  ASSUME TableTypes, NEW t \in Txs, NEW reasons \in SUBSET Reasons, NEW deleted \in BOOLEAN,
         entry' = [entry EXCEPT ![t] = Changed(@, reasons, deleted)]
  PROVE  /\ StillThere
         /\ entry'[t].there /\ entry'[t].reasons = reasons /\ entry'[t].deleted = deleted
         /\ \A u \in Txs : u # t => entry'[u] = entry[u]
<1>1. entry \in [Txs -> Entries]
  BY DEF TableTypes
<1>2. PICK e : e = Changed(entry[t], reasons, deleted)
  OBVIOUS
<1>3. [deleted |-> entry[t].deleted, reasons |-> entry[t].reasons] \in Pasts
  BY EntryFields DEF Pasts
<1>4. e \in Entries /\ e.there /\ e.reasons = reasons /\ e.deleted = deleted
  BY <1>2, <1>3, EntryFields DEF Changed, Entries
<1>5. entry' = [entry EXCEPT ![t] = e]
  BY <1>2
<1>. QED
  BY <1>1, <1>4, <1>5 DEF StillThere

(* A step that changes an entry and leaves the questions to a later one.   *)
LEMMA EntryMoves ==
  ASSUME ConversationInv, StillThere, UNCHANGED <<actions, asked>>,
         turns' \in Nat, faults' \in Nat, edits' \in Nat, TurnTyped', StepInv', ReadInv', FitInv'
  PROVE  ConversationInv'
<1>1. KeptTable
  BY DEF KeptTable, Kept, ConversationInv, TableTypes
<1>2. TableTypes' /\ OneOpenQuestion' /\ OwnInv'
  BY <1>1, KeptTypes, KeptRules DEF ConversationInv
<1>. QED
  BY <1>2 DEF ConversationInv

LEMMA ApplyPendingInv ==
  ASSUME ConversationInv, ApplyPending
  PROVE  ConversationInv'
<1>. DEFINE t == actions[turn.act].tx
<1>1. turn.pc = "apply" /\ Live(Draft) /\ UNCHANGED <<actions, asked>> /\ Same
  BY DEF ApplyPending
<1>2. PICK given \in GivesCategory :
        LET left == Confirmed(Draft.reasons, given)
            changes == left # Draft.reasons \/ turn.answer = "amount"
        IN /\ entry' = IF changes THEN [entry EXCEPT ![t] = Changed(@, left, FALSE)] ELSE entry
           /\ turn' = [turn EXCEPT !.pc = "settle", !.tx = t, !.reasons = left, !.changed = @ \/ changes]
  BY DEF ApplyPending
<1>3. PICK left \in {Confirmed(Draft.reasons, given)}, changes \in BOOLEAN :
        /\ ~changes => left = Draft.reasons
        /\ entry' = IF changes THEN [entry EXCEPT ![t] = Changed(@, left, FALSE)] ELSE entry
        /\ turn' = [turn EXCEPT !.pc = "settle", !.tx = t, !.reasons = left, !.changed = @ \/ changes]
  BY <1>2
<1>4. /\ TableTypes /\ IsTurn(turn) /\ turn.act <= Len(actions) /\ turn.opened <= Len(actions)
      /\ turn.act # 0
  BY <1>1, BusyTurn DEF ConversationInv, Pcs, StepInv
<1>5. turn.act \in DOMAIN actions /\ t \in Txs
  <2>1. turn.act \in DOMAIN actions
    BY <1>4, TableSize DEF IsTurn
  <2>. QED
    BY <1>4, <2>1, TableSize DEF IsQuestion
<1>6. /\ Draft = entry[t] /\ entry[t].there /\ entry[t].deleted = FALSE
      /\ entry[t].reasons \in SUBSET Reasons
  BY <1>1, <1>4, <1>5, EntryFields DEF Draft, Live
<1>. HIDE DEF t
<1>7. left \in SUBSET Reasons
  BY <1>3, <1>6 DEF Confirmed
<1>8. /\ StillThere
      /\ entry'[t].there /\ entry'[t].reasons = left /\ entry'[t].deleted = FALSE
      /\ \A u \in Txs : u # t => entry'[u] = entry[u]
  <2>1. CASE changes
    BY <1>3, <1>4, <1>5, <1>7, <2>1, ChangedEntry
  <2>2. CASE ~changes
    BY <1>3, <1>4, <1>6, <2>2 DEF StillThere, TableTypes
  <2>. QED
    BY <1>3, <2>1, <2>2
<1>9. /\ IsTurn(turn') /\ turn'.pc = "settle" /\ turn'.act = turn.act /\ turn'.opened = turn.opened
      /\ turn'.awaiting = turn.awaiting /\ turn'.ok = turn.ok /\ turn'.tx = t /\ turn'.reasons = left
  <2>1. DOMAIN turn' = DOMAIN turn
    BY <1>3
  <2>2. (turn.changed \/ changes) \in BOOLEAN
    BY <1>3
  <2>. QED
    BY <1>3, <1>4, <1>5, <1>7, <2>1, <2>2 DEF IsTurn, Pcs
<1>10. TurnTyped' /\ StepInv' /\ ReadInv'
  BY <1>1, <1>4, <1>5, <1>9 DEF TurnTyped, StepInv, ConversationInv, ReadInv, Open
<1>11. FitInv'
  <2>. SUFFICES ASSUME Alone'
                PROVE  /\ \A i \in DOMAIN actions : Open(i)' /\ ~InFlux(i)' => Fits(i)'
                       /\ entry'[turn'.tx].there /\ entry'[turn'.tx].reasons = turn'.reasons
                       /\ turn'.tx = actions'[turn'.act].tx
                       /\ entry'[turn'.tx].deleted = FALSE
    BY <1>1, <1>9 DEF FitInv
  <2>1. ASSUME NEW i \in DOMAIN actions, Open(i)', ~InFlux(i)'
        PROVE  Fits(i)'
    <3>1. i # turn.act
      BY <1>9, <2>1 DEF InFlux
    <3>2. actions[i].tx # t /\ actions[i].tx \in Txs
      BY <1>4, <1>5, <3>1, TableSize DEF ConversationInv, OwnInv, IsQuestion, t
    <3>3. Fits(i)
      BY <1>1, <2>1 DEF ConversationInv, FitInv, InFlux, Same, Alone, Open
    <3>. QED
      BY <1>1, <1>8, <3>2, <3>3 DEF Fits, Pending, Live
  <2>. QED
    BY <1>1, <1>8, <1>9, <2>1 DEF t
<1>. QED
  BY <1>1, <1>8, <1>10, <1>11, SameNumbers, EntryMoves DEF Same
LEMMA RefuseInv ==
  ASSUME ConversationInv, Refuse
  PROVE  ConversationInv'
<1>. DEFINE t == actions[turn.act].tx
<1>1. turn.pc = "refuse" /\ UNCHANGED <<actions, asked>> /\ Same
  BY DEF Refuse
<1>2. /\ TableTypes /\ IsTurn(turn) /\ turn.act <= Len(actions) /\ turn.opened <= Len(actions)
      /\ turn.act # 0 /\ ~turn.ok
  BY <1>1, BusyTurn DEF ConversationInv, Pcs, StepInv
<1>3. turn.act \in DOMAIN actions /\ t \in Txs
  <2>1. turn.act \in DOMAIN actions
    BY <1>2, TableSize DEF IsTurn
  <2>. QED
    BY <1>2, <2>1, TableSize DEF IsQuestion
<1>4. CASE Live(entry[t])
  <2>1. /\ entry' = [entry EXCEPT ![t] = Changed(@, entry[t].reasons, TRUE)]
        /\ turn' = [turn EXCEPT !.pc = "cancel", !.changed = TRUE]
    BY <1>4 DEF Refuse
  <2>2. entry[t].reasons \in SUBSET Reasons /\ TRUE \in BOOLEAN
    BY <1>2, <1>3, EntryFields
  <2>. HIDE DEF t
  <2>3. StillThere /\ \A u \in Txs : u # t => entry'[u] = entry[u]
    BY <1>2, <1>3, <2>1, <2>2, ChangedEntry
  <2>4. /\ IsTurn(turn') /\ turn'.pc = "cancel" /\ turn'.act = turn.act /\ turn'.opened = turn.opened
        /\ turn'.awaiting = turn.awaiting /\ turn'.ok = turn.ok
    <3>1. DOMAIN turn' = DOMAIN turn
      BY <2>1
    <3>. QED
      BY <1>2, <2>1, <3>1 DEF IsTurn, Pcs
  <2>5. TurnTyped' /\ StepInv' /\ ReadInv'
    BY <1>1, <1>2, <2>4 DEF TurnTyped, StepInv, ConversationInv, ReadInv, Open
  <2>6. FitInv'
    <3>. SUFFICES ASSUME Alone', NEW i \in DOMAIN actions, Open(i)', ~InFlux(i)'
                  PROVE  Fits(i)'
      BY <1>1, <2>4 DEF FitInv
    <3>1. i # turn.act
      BY <2>4 DEF InFlux
    <3>2. actions[i].tx # t /\ actions[i].tx \in Txs
      BY <1>2, <1>3, <3>1, TableSize DEF ConversationInv, OwnInv, IsQuestion, t
    <3>3. Fits(i)
      BY <1>1 DEF ConversationInv, FitInv, InFlux, Same, Alone, Open
    <3>. QED
      BY <1>1, <2>3, <3>2, <3>3 DEF Fits, Pending, Live
  <2>. QED
    BY <1>1, <2>3, <2>5, <2>6, SameNumbers, EntryMoves DEF Same
<1>5. CASE ~Live(entry[t])
  BY <1>1, <1>5, SameNumbers, TurnRetried DEF Refuse, Same, Idle
<1>. QED
  BY <1>4, <1>5

LEMMA CreateTransactionInv ==
  ASSUME ConversationInv, NEW t \in Txs, NEW reasons \in Doubts, CreateTransaction(t, reasons)
  PROVE  ConversationInv'
<1>1. /\ turn.pc = "model" /\ ~entry[t].there /\ UNCHANGED <<actions, asked>> /\ Same
      /\ entry' = [entry EXCEPT ![t] = [there |-> TRUE, deleted |-> FALSE, reasons |-> reasons, past |-> {}]]
      /\ turn' = [turn EXCEPT !.pc = IF reasons = {} THEN "model" ELSE "open", !.tx = t, !.reasons = reasons,
                              !.ok = @ \/ reasons = {}, !.changed = TRUE, !.tools = @ + 1]
  BY DEF CreateTransaction, MayCreate
<1>2. TableTypes /\ IsTurn(turn) /\ turn.act <= Len(actions) /\ turn.opened <= Len(actions)
  BY <1>1, BusyTurn DEF ConversationInv, Pcs
<1>3. reasons \in SUBSET Reasons
  BY ConversationAssumption
<1>4. /\ StillThere
      /\ entry'[t].there /\ entry'[t].reasons = reasons /\ entry'[t].deleted = FALSE
      /\ \A u \in Txs : u # t => entry'[u] = entry[u]
  <2>1. PICK e : e = [there |-> TRUE, deleted |-> FALSE, reasons |-> reasons, past |-> {}]
    OBVIOUS
  <2>2. e \in Entries /\ e.there /\ e.reasons = reasons /\ e.deleted = FALSE
    BY <1>3, <2>1 DEF Entries
  <2>3. entry \in [Txs -> Entries] /\ entry' = [entry EXCEPT ![t] = e]
    BY <1>1, <1>2, <2>1 DEF TableTypes
  <2>. QED
    BY <2>2, <2>3 DEF StillThere
<1>5. /\ IsTurn(turn') /\ turn'.act = turn.act /\ turn'.opened = turn.opened /\ turn'.awaiting = turn.awaiting
      /\ turn'.tx = t /\ turn'.reasons = reasons
      /\ \/ turn'.pc = "open" /\ reasons # {} /\ turn'.ok = turn.ok
         \/ turn'.pc = "model" /\ turn'.ok
  <2>1. DOMAIN turn' = DOMAIN turn
    BY <1>1
  <2>2. CASE reasons = {}
    <3>1. turn' = [turn EXCEPT !.pc = "model", !.tx = t, !.reasons = reasons,
                              !.ok = TRUE, !.changed = TRUE, !.tools = @ + 1]
      BY <1>1, <2>2
    <3>. QED
      BY <1>2, <1>3, <2>1, <3>1 DEF IsTurn, Pcs
  <2>3. CASE reasons # {}
    <3>1. PICK ok : ok = (turn.ok \/ reasons = {})
      OBVIOUS
    <3>2. ok = turn.ok
      BY <1>2, <2>3, <3>1 DEF IsTurn
    <3>3. turn' = [turn EXCEPT !.pc = "open", !.tx = t, !.reasons = reasons,
                              !.ok = ok, !.changed = TRUE, !.tools = @ + 1]
      BY <1>1, <2>3, <3>1
    <3>. QED
      BY <1>2, <1>3, <2>1, <2>3, <3>2, <3>3 DEF IsTurn, Pcs
  <2>. QED
    BY <2>2, <2>3
<1>6. \A i \in DOMAIN actions : actions[i].tx \in Txs /\ actions[i].tx # t
  BY <1>1, <1>2, TableSize DEF ConversationInv, OwnInv, IsQuestion
<1>7. TurnTyped' /\ StepInv' /\ ReadInv'
  BY <1>1, <1>2, <1>4, <1>5, <1>6 DEF TurnTyped, StepInv, ConversationInv, ReadInv, Open
<1>8. FitInv'
  <2>. SUFFICES ASSUME Alone', NEW i \in DOMAIN actions, Open(i)'
                PROVE  Fits(i)'
    BY <1>1, <1>4, <1>5 DEF FitInv
  <2>1. Fits(i)
    BY <1>1 DEF ConversationInv, FitInv, InFlux, Same, Alone, Open
  <2>. QED
    BY <1>1, <1>4, <1>6, <2>1 DEF Fits, Pending, Live
<1>. QED
  BY <1>1, <1>4, <1>7, <1>8, SameNumbers, EntryMoves DEF Same

LEMMA ChangeByToolInv ==
  ASSUME ConversationInv, NEW t \in Txs, entry[t].there,
         NEW reasons \in SUBSET Reasons, NEW deleted \in BOOLEAN, ChangeByTool(t, reasons, deleted)
  PROVE  ConversationInv'
<1>1. PICK same \in {reasons = entry[t].reasons /\ deleted = entry[t].deleted} :
        /\ turn.pc = "model" /\ UNCHANGED <<actions, asked>> /\ Same
        /\ entry' = IF same THEN entry ELSE [entry EXCEPT ![t] = Changed(@, reasons, deleted)]
        /\ turn' = [turn EXCEPT !.pc = "sync", !.tx = t, !.reasons = reasons, !.deleted = deleted,
                                !.changed = @ \/ ~same, !.tools = @ + 1]
  BY DEF ChangeByTool, MayChange, MayCreate
<1>2. TableTypes /\ IsTurn(turn) /\ turn.act <= Len(actions) /\ turn.opened <= Len(actions)
  BY <1>1, BusyTurn DEF ConversationInv, Pcs
<1>3. /\ StillThere
      /\ entry'[t].there /\ entry'[t].reasons = reasons /\ entry'[t].deleted = deleted
      /\ \A u \in Txs : u # t => entry'[u] = entry[u]
  <2>1. CASE same
    BY <1>1, <1>2, <2>1 DEF StillThere, TableTypes
  <2>2. CASE ~same
    BY <1>1, <1>2, <2>2, ChangedEntry
  <2>. QED
    BY <2>1, <2>2
<1>4. /\ IsTurn(turn') /\ turn'.pc = "sync" /\ turn'.act = turn.act /\ turn'.opened = turn.opened
      /\ turn'.awaiting = turn.awaiting /\ turn'.ok = turn.ok
      /\ turn'.tx = t /\ turn'.reasons = reasons /\ turn'.deleted = deleted
  <2>1. DOMAIN turn' = DOMAIN turn
    BY <1>1
  <2>2. (turn.changed \/ ~same) \in BOOLEAN
    OBVIOUS
  <2>. QED
    BY <1>1, <1>2, <2>1, <2>2 DEF IsTurn, Pcs
<1>5. TurnTyped' /\ StepInv' /\ ReadInv'
  BY <1>1, <1>2, <1>4 DEF TurnTyped, StepInv, ConversationInv, ReadInv, Open
<1>6. FitInv'
  <2>. SUFFICES ASSUME Alone', NEW i \in DOMAIN actions, Open(i)', ~InFlux(i)'
                PROVE  Fits(i)'
    BY <1>1, <1>3, <1>4 DEF FitInv
  <2>1. actions[i].tx # t /\ actions[i].tx \in Txs
    BY <1>1, <1>2, <1>4, TableSize DEF InFlux, IsQuestion
  <2>2. Fits(i)
    BY <1>1 DEF ConversationInv, FitInv, InFlux, Same, Alone, Open
  <2>. QED
    BY <1>1, <1>3, <2>1, <2>2 DEF Fits, Pending, Live
<1>. QED
  BY <1>1, <1>3, <1>5, <1>6, SameNumbers, EntryMoves DEF Same

LEMMA PatchedReasons ==
  \A reasons \in SUBSET Reasons : Patched(reasons) \subseteq SUBSET Reasons
  BY DEF Patched, Confirmed, Reasons

LEMMA ToolInv ==
  ASSUME ConversationInv, NEW t \in Txs, UpdateTransaction(t) \/ DeleteTransaction(t) \/ Undo(t)
  PROVE  ConversationInv'
<1>1. /\ entry[t].reasons \in SUBSET Reasons /\ entry[t].past \in SUBSET Pasts
      /\ Patched(entry[t].reasons) \subseteq SUBSET Reasons
  BY EntryFields, PatchedReasons DEF ConversationInv
<1>2. CASE UpdateTransaction(t)
  BY <1>1, <1>2, ChangeByToolInv DEF UpdateTransaction, Live
<1>3. CASE DeleteTransaction(t)
  BY <1>1, <1>3, ChangeByToolInv DEF DeleteTransaction, Live
<1>4. CASE Undo(t)
  <2>1. ASSUME NEW was \in entry[t].past, entry[t].there, ChangeByTool(t, was.reasons, was.deleted)
        PROVE  ConversationInv'
    <3>1. was.reasons \in SUBSET Reasons /\ was.deleted \in BOOLEAN
      BY <1>1 DEF Pasts
    <3>. QED
      BY <2>1, <3>1, ChangeByToolInv
  <2>2. CASE Live(entry[t]) /\ ChangeByTool(t, entry[t].reasons, TRUE)
    BY <1>1, <2>2, ChangeByToolInv DEF Live
  <2>. QED
    BY <1>4, <2>1, <2>2 DEF Undo
<1>. QED
  BY <1>2, <1>3, <1>4
LEMMA PanelChangeInv ==
  ASSUME ConversationInv, NEW t \in Txs, NEW reasons \in SUBSET Reasons, NEW deleted \in BOOLEAN,
         PanelChange(t, reasons, deleted)
  PROVE  ConversationInv'
<1>1. /\ UNCHANGED <<actions, asked, turn, turns, faults>> /\ edits' = edits + 1
      /\ entry' = [entry EXCEPT ![t] = Changed(@, reasons, deleted)]
  BY DEF PanelChange
<1>2. TableTypes
  BY DEF ConversationInv
<1>3. StillThere
  BY <1>1, <1>2, ChangedEntry
<1>4. turns' \in Nat /\ faults' \in Nat /\ edits' \in Nat /\ edits' # 0
  BY <1>1, <1>2 DEF TableTypes
<1>5. TurnTyped' /\ StepInv' /\ ReadInv'
  BY <1>1, <1>3 DEF ConversationInv, TurnTyped, StepInv, ReadInv, Open, StillThere
<1>6. FitInv'
  BY <1>4 DEF FitInv, Alone
<1>. QED
  BY <1>1, <1>3, <1>4, <1>5, <1>6, EntryMoves

LEMMA PanelInv ==
  ASSUME ConversationInv, NEW t \in Txs, PatchTransaction(t) \/ PanelDelete(t) \/ PanelRestore(t)
  PROVE  ConversationInv'
<1>1. entry[t].reasons \in SUBSET Reasons /\ Patched(entry[t].reasons) \subseteq SUBSET Reasons
  BY EntryFields, PatchedReasons DEF ConversationInv
<1>. QED
  BY <1>1, PanelChangeInv DEF PatchTransaction, PanelDelete, PanelRestore

-----------------------------------------------------------------------------
(* The remaining changes of the table: a question is opened, sent, or ages. *)

LEMMA AskAboutCreatedInv ==
  ASSUME ConversationInv, NEW suggested \in BOOLEAN, AskAboutCreated(suggested)
  PROVE  /\ ConversationInv'
         /\ \A i \in DOMAIN actions : i \in DOMAIN actions' /\ Kept(actions[i], actions'[i])
<1>1. /\ turn.pc = "open" /\ OnlyTable
      /\ actions' = OpenPending(turn.member, turn.tx, AwaitingFor(turn.reasons), suggested)
      /\ turn' = [turn EXCEPT !.pc = "model", !.opened = Len(actions'), !.ok = TRUE]
  BY DEF AskAboutCreated, OnlyActions, OnlyTable, Same
<1>2. /\ TableTypes /\ IsTurn(turn) /\ turn.act <= Len(actions) /\ turn.opened <= Len(actions)
      /\ turn.tx \in Txs /\ turn.reasons # {} /\ entry[turn.tx].there
      /\ \A i \in DOMAIN actions : actions[i].tx # turn.tx
  BY <1>1, BusyTurn DEF ConversationInv, Pcs, StepInv
<1>3. /\ Len(actions) \in Nat /\ DOMAIN actions = 1..Len(actions)
      /\ \A i \in DOMAIN actions : IsQuestion(actions[i])
  BY <1>2, TableSize
<1>4. turn.member \in Members /\ AwaitingFor(turn.reasons) \in Awaited
  BY <1>2, AwaitedFor DEF IsTurn
<1>. DEFINE n == Len(actions) + 1
<1>5. /\ actions' \in Seq(Questions) /\ Len(actions') = n
      /\ DOMAIN actions' = DOMAIN actions \cup {n}
      /\ \A i \in DOMAIN actions :
           Kept(actions[i], actions'[i]) /\ SupersededAsk(actions[i], actions'[i], turn.member)
      /\ actions'[n] =
           [member |-> turn.member, tx |-> turn.tx, awaiting |-> AwaitingFor(turn.reasons), suggested |-> suggested,
            status |-> "OPEN", question |-> 0, attempts |-> 0, recent |-> TRUE, valid |-> TRUE]
  BY <1>1, <1>2, <1>4, OpenedTable
<1>6. n \notin DOMAIN actions /\ n \in Nat
  BY <1>3
<1>7. /\ actions'[n].member = turn.member /\ actions'[n].tx = turn.tx /\ actions'[n].status = "OPEN"
      /\ actions'[n].awaiting = AwaitingFor(turn.reasons)
      /\ actions'[n].question = 0 /\ actions'[n].attempts = 0
  BY <1>5
<1>. HIDE DEF n
<1>8. IsTurn(turn') /\ turn'.pc = "model" /\ turn'.act = turn.act /\ turn'.ok /\ turn'.opened = n
  <2>1. DOMAIN turn' = DOMAIN turn
    BY <1>1
  <2>. QED
    BY <1>1, <1>2, <1>5, <1>6, <2>1 DEF IsTurn, Pcs
<1>9. TurnTyped' /\ StepInv' /\ ReadInv'
  BY <1>2, <1>3, <1>5, <1>6, <1>8 DEF TurnTyped, StepInv, ReadInv, IsTurn, n
<1>10. TableTypes'
  <2>1. \A i \in DOMAIN actions : actions'[i].question = actions[i].question
    BY <1>5 DEF SupersededAsk, SameAsk
  <2>2. \A i \in DOMAIN actions' : actions'[i].question <= Len(asked)
    BY <1>2, <1>5, <1>7, <2>1, TableSize DEF TableTypes
  <2>. QED
    BY <1>1, <1>2, <1>5, <2>2 DEF TableTypes, OnlyTable
<1>11. OneOpenQuestion'
  <2>. SUFFICES ASSUME NEW i \in DOMAIN actions', NEW j \in DOMAIN actions', Open(i)', Open(j)',
                       actions'[i].member = actions'[j].member
                PROVE  i = j
    BY DEF OneOpenQuestion
  <2>1. ASSUME NEW k \in DOMAIN actions, Open(k)'
        PROVE  Open(k) /\ actions'[k].member = actions[k].member /\ actions[k].member # turn.member
    BY <1>5, <2>1 DEF SupersededAsk, Kept, Open
  <2>2. CASE i = n \/ j = n
    BY <1>5, <1>7, <2>1, <2>2
  <2>3. CASE i # n /\ j # n
    BY <1>5, <2>1, <2>3 DEF ConversationInv, OneOpenQuestion
  <2>. QED
    BY <2>2, <2>3
<1>12. OwnInv'
  <2>1. \A i \in DOMAIN actions : actions'[i].tx = actions[i].tx
    BY <1>5 DEF Kept
  <2>2. \A i, j \in DOMAIN actions' : actions'[i].tx = actions'[j].tx => i = j
    BY <1>2, <1>5, <1>7, <2>1 DEF ConversationInv, OwnInv
  <2>3. \A i \in DOMAIN actions' : entry'[actions'[i].tx].there
    BY <1>1, <1>2, <1>5, <1>7, <2>1 DEF ConversationInv, OwnInv, OnlyTable
  <2>. QED
    BY <2>2, <2>3 DEF OwnInv
<1>13. FitInv'
  <2>. SUFFICES ASSUME Alone', NEW i \in DOMAIN actions', Open(i)'
                PROVE  Fits(i)'
    BY <1>8 DEF FitInv
  <2>0. Alone
    BY <1>1 DEF Alone, OnlyTable
  <2>1. CASE i = n
    <3>1. LET e == entry[turn.tx] IN e.there /\ e.reasons = turn.reasons /\ ~e.deleted
      BY <1>1, <2>0 DEF ConversationInv, FitInv
    <3>. QED
      BY <1>1, <1>2, <1>7, <2>1, <3>1 DEF Fits, Pending, Live, OnlyTable
  <2>2. CASE i # n
    <3>1. /\ i \in DOMAIN actions /\ Open(i) /\ actions'[i].awaiting = actions[i].awaiting
          /\ actions'[i].tx = actions[i].tx
      BY <1>5, <2>2 DEF SupersededAsk, SameAsk, Open, Kept
    <3>2. Fits(i)
      BY <1>1, <2>0, <3>1 DEF ConversationInv, FitInv, InFlux
    <3>. QED
      BY <1>1, <3>1, <3>2 DEF Fits, Pending, Live, OnlyTable
  <2>. QED
    BY <2>1, <2>2
<1>. QED
  BY <1>5, <1>9, <1>10, <1>11, <1>12, <1>13 DEF ConversationInv
LEMMA ReplyInv ==
  ASSUME ConversationInv, Reply
  PROVE  ConversationInv' /\ KeptTable
<1>1. turn.pc = "reply" /\ turn' = Idle /\ UNCHANGED <<entry, turns, edits>>
  BY DEF Reply
<1>2. TableTypes /\ IsTurn(turn) /\ turn.opened <= Len(actions)
  BY <1>1, BusyTurn DEF ConversationInv, Pcs
<1>3. /\ Len(actions) \in Nat /\ DOMAIN actions = 1..Len(actions) /\ Len(asked) \in Nat
      /\ DOMAIN asked = 1..Len(asked) /\ turn.opened \in Nat
      /\ \A i \in DOMAIN actions : IsQuestion(actions[i])
  BY <1>2, TableSize DEF IsTurn
<1>4. /\ faults' \in Nat /\ turns' \in Nat /\ edits' \in Nat
      /\ faults' = 0 => faults = 0
  BY <1>1, <1>2 DEF Reply, TableTypes
<1>5. TurnTyped' /\ StepInv' /\ ReadInv'
  BY <1>1 DEF TurnTyped, StepInv, ReadInv, Idle
<1>6. asked' \in {asked, Append(asked, turn.opened)} /\ (turn.opened = 0 => asked' = asked)
  BY DEF Reply
<1>7. /\ KeptTable
      /\ \A i \in DOMAIN actions :
           /\ actions'[i].status = actions[i].status /\ actions'[i].awaiting = actions[i].awaiting
           /\ actions'[i].attempts = actions[i].attempts
           /\ \/ actions'[i].question = actions[i].question
              \/ actions'[i].question = Len(asked) + 1 /\ Len(asked') = Len(asked) + 1
  <2>1. CASE actions' = actions
    BY <1>2, <2>1 DEF KeptTable, Kept, TableTypes
  <2>2. CASE /\ turn.opened # 0 /\ asked' = Append(asked, turn.opened)
             /\ actions' = [actions EXCEPT ![turn.opened] = [@ EXCEPT !.question = Len(asked) + 1, !.recent = TRUE]]
    <3>1. turn.opened \in DOMAIN actions /\ Len(asked) + 1 \in Nat
      BY <1>2, <1>3, <2>2
    <3>2. Len(asked') = Len(asked) + 1
      BY <1>2, <1>3, <2>2, AppendProperties DEF TableTypes
    <3>. QED
      BY <1>2, <2>2, <3>1, <3>2, SentTable
  <2>. QED
    BY <1>1, <2>1, <2>2 DEF Reply
<1>8. asked' \in Seq(Nat) /\ Len(asked') >= Len(asked) /\ \A q \in DOMAIN asked' : asked'[q] \in DOMAIN actions
  <2>1. CASE asked' = asked
    BY <1>2, <1>3, <2>1 DEF TableTypes
  <2>2. CASE turn.opened # 0 /\ asked' = Append(asked, turn.opened)
    <3>1. /\ asked' \in Seq(Nat) /\ Len(asked') = Len(asked) + 1
          /\ \A q \in 1..Len(asked) : asked'[q] = asked[q]
          /\ asked'[Len(asked) + 1] = turn.opened
      BY <1>2, <1>3, <2>2, AppendProperties DEF TableTypes
    <3>2. DOMAIN asked' = 1..(Len(asked) + 1)
      BY <3>1, LenProperties
    <3>3. turn.opened \in DOMAIN actions
      BY <1>2, <1>3, <2>2
    <3>4. \A q \in DOMAIN asked' : asked'[q] \in DOMAIN actions
      <4>1. \A q \in 1..Len(asked) : asked[q] \in DOMAIN actions
        BY <1>2, <1>3 DEF TableTypes
      <4>. QED
        BY <1>3, <3>1, <3>2, <3>3, <4>1
    <3>. QED
      BY <1>3, <3>1, <3>4
  <2>. QED
    BY <1>6, <2>1, <2>2
<1>9. StillThere
  BY <1>1, <1>2 DEF StillThere, TableTypes
<1>10. TableTypes'
  <2>1. \A i \in DOMAIN actions' : actions'[i].question <= Len(asked')
    <3>1. ASSUME NEW i \in DOMAIN actions
          PROVE  actions'[i].question <= Len(asked')
      <4>1. actions[i].question \in Nat /\ actions[i].question <= Len(asked) /\ Len(asked') \in Nat
        BY <1>2, <1>3, <1>8, LenProperties DEF TableTypes, IsQuestion
      <4>. QED
        BY <1>3, <1>7, <1>8, <4>1
    <3>. QED
      BY <1>7, <3>1 DEF KeptTable
  <2>. QED
    BY <1>4, <1>7, <1>8, <1>9, <2>1 DEF TableTypes, KeptTable, StillThere
<1>11. OneOpenQuestion' /\ OwnInv'
  BY <1>7, <1>9, KeptRules DEF ConversationInv
<1>12. FitInv'
  <2>. SUFFICES ASSUME Alone', NEW i \in DOMAIN actions, Open(i)'
                PROVE  Fits(i)'
    BY <1>1, <1>7 DEF FitInv, KeptTable, Idle
  <2>1. Open(i) /\ actions'[i].tx = actions[i].tx /\ actions'[i].awaiting = actions[i].awaiting
    BY <1>7 DEF KeptTable, Kept, Open
  <2>2. Fits(i)
    BY <1>1, <1>4, <2>1 DEF ConversationInv, FitInv, InFlux, Alone
  <2>. QED
    BY <1>1, <2>1, <2>2 DEF Fits, Pending, Live
<1>. QED
  BY <1>5, <1>7, <1>10, <1>11, <1>12 DEF ConversationInv

LEMMA GrowsOldInv ==
  ASSUME ConversationInv, NEW i \in DOMAIN actions, GrowsOld(i)
  PROVE  ConversationInv' /\ KeptTable
<1>1. /\ turn = Idle \/ turn.pc = "find"
      /\ \/ actions' = [actions EXCEPT ![i].recent = FALSE]
         \/ actions' = [actions EXCEPT ![i].valid = FALSE]
      /\ UNCHANGED <<entry, asked, turn>> /\ Same /\ OnlyTable
  BY DEF GrowsOld, Same, OnlyTable
<1>2. TableTypes
  BY DEF ConversationInv
<1>3. /\ KeptTable
      /\ \A j \in DOMAIN actions :
           /\ actions'[j].status = actions[j].status /\ actions'[j].question = actions[j].question
           /\ actions'[j].awaiting = actions[j].awaiting /\ actions'[j].attempts = actions[j].attempts
  BY <1>1, <1>2, OldTable
<1>4. TurnTyped' /\ StepInv' /\ ReadInv'
  BY <1>1, <1>3 DEF ConversationInv, TurnTyped, StepInv, ReadInv, Idle, KeptTable
<1>5. FitInv'
  <2>. SUFFICES ASSUME Alone', NEW j \in DOMAIN actions, Open(j)'
                PROVE  Fits(j)'
    BY <1>1, <1>3 DEF FitInv, KeptTable, Idle
  <2>1. Open(j) /\ actions'[j].tx = actions[j].tx /\ actions'[j].awaiting = actions[j].awaiting
    BY <1>3 DEF KeptTable, Kept, Open
  <2>2. Fits(j)
    BY <1>1, <2>1 DEF ConversationInv, FitInv, InFlux, Alone, Same, Idle
  <2>. QED
    BY <1>1, <2>1, <2>2 DEF Fits, Pending, Live
<1>. QED
  BY <1>1, <1>3, <1>4, <1>5, TableMoves

-----------------------------------------------------------------------------
(* The invariant, and what every step keeps of the questions.              *)

LEMMA InitInv == Init => ConversationInv
<1>. SUFFICES ASSUME Init
              PROVE  ConversationInv
  OBVIOUS
<1>1. NoEntry \in Entries
  BY DEF NoEntry, Entries
<1>2. TableTypes
  BY <1>1 DEF Init, TableTypes
<1>3. actions = <<>> /\ DOMAIN actions = {} /\ turn = Idle
  BY DEF Init
<1>4. TurnTyped /\ StepInv /\ ReadInv
  BY <1>3 DEF TurnTyped, StepInv, ReadInv, Idle
<1>5. OneOpenQuestion /\ OwnInv /\ FitInv
  BY <1>3 DEF OneOpenQuestion, OwnInv, FitInv, Idle
<1>. QED
  BY <1>2, <1>4, <1>5 DEF ConversationInv

AllKept == \A i \in DOMAIN actions : i \in DOMAIN actions' /\ Kept(actions[i], actions'[i])

LEMMA KeptAll ==
  /\ KeptTable => AllKept
  /\ UNCHANGED actions => AllKept
  BY DEF KeptTable, AllKept, Kept

LEMMA TurnStepInv ==
  ASSUME ConversationInv, TurnStep
  PROVE  ConversationInv' /\ AllKept
<1>1. CASE ActivePending
  BY <1>1, ActivePendingInv, KeptAll
<1>2. CASE LookReceipt
  BY <1>2, LookReceiptInv, KeptAll DEF LookReceipt, OnlyTurn
<1>3. CASE LookSettled
  BY <1>3, LookSettledInv, KeptAll
<1>4. CASE LookPending
  BY <1>4, LookPendingInv, KeptAll DEF LookPending, OnlyTurn
<1>5. CASE ApplyPending
  BY <1>5, ApplyPendingInv, KeptAll DEF ApplyPending
<1>6. CASE ApplyPendingFails
  BY <1>6, ApplyPendingFailsInv, KeptAll DEF ApplyPendingFails, OnlyTurn
<1>7. CASE SettlePending
  BY <1>7, SettlePendingInv, KeptAll
<1>8. CASE Reask
  BY <1>8, ReaskInv, KeptAll
<1>9. CASE GiveUp
  BY <1>9, GiveUpInv, KeptAll
<1>10. CASE Refuse
  BY <1>10, RefuseInv, KeptAll DEF Refuse
<1>11. CASE Cancel
  BY <1>11, CancelInv, KeptAll
<1>12. CASE CompletePending
  BY <1>12, CompletePendingInv, KeptAll DEF CompletePending, OnlyTurn
<1>13. CASE Sync
  BY <1>13, SyncInv, KeptAll
<1>14. CASE ModelAnswers
  BY <1>14, ModelAnswersInv, KeptAll DEF ModelAnswers, OnlyTurn
<1>15. CASE Reply
  BY <1>15, ReplyInv, KeptAll
<1>16. ASSUME NEW suggested \in BOOLEAN, AskAboutCreated(suggested)
       PROVE  ConversationInv' /\ AllKept
  BY <1>16, AskAboutCreatedInv DEF AllKept
<1>17. ASSUME NEW t \in Txs, NEW reasons \in Doubts, CreateTransaction(t, reasons)
       PROVE  ConversationInv' /\ AllKept
  BY <1>17, CreateTransactionInv, KeptAll DEF CreateTransaction
<1>18. ASSUME NEW t \in Txs, UpdateTransaction(t) \/ DeleteTransaction(t) \/ Undo(t)
       PROVE  ConversationInv' /\ AllKept
  <2>1. UNCHANGED actions
    BY <1>18 DEF UpdateTransaction, DeleteTransaction, Undo, ChangeByTool
  <2>. QED
    BY <1>18, <2>1, ToolInv, KeptAll
<1>. QED
  BY <1>1, <1>2, <1>3, <1>4, <1>5, <1>6, <1>7, <1>8, <1>9, <1>10, <1>11, <1>12, <1>13, <1>14, <1>15,
     <1>16, <1>17, <1>18 DEF TurnStep

LEMMA NextInv ==
  ASSUME ConversationInv, [Next]_vars
  PROVE  ConversationInv' /\ AllKept
<1>1. ASSUME NEW m \in Members, NEW answer \in Answers, NEW quoted \in 0..Len(asked), Receive(m, answer, quoted)
      PROVE  ConversationInv' /\ AllKept
  BY <1>1, ReceiveInv, KeptAll DEF Receive
<1>2. CASE TurnStep
  BY <1>2, TurnStepInv
<1>3. CASE Fault
  BY <1>3, FaultInv, KeptAll DEF Fault
<1>4. ASSUME NEW t \in Txs, PatchTransaction(t) \/ PanelDelete(t) \/ PanelRestore(t)
      PROVE  ConversationInv' /\ AllKept
  <2>1. UNCHANGED actions
    BY <1>4 DEF PatchTransaction, PanelDelete, PanelRestore, PanelChange
  <2>. QED
    BY <1>4, <2>1, PanelInv, KeptAll
<1>5. ASSUME NEW i \in DOMAIN actions, GrowsOld(i)
      PROVE  ConversationInv' /\ AllKept
  BY <1>5, GrowsOldInv, KeptAll
<1>6. CASE UNCHANGED vars
  <2>1. UNCHANGED <<entry, actions, asked, turn, turns, faults, edits>>
    BY <1>6 DEF vars
  <2>2. TableTypes' /\ TurnTyped' /\ StepInv'
    BY <2>1 DEF ConversationInv, TableTypes, TurnTyped, StepInv
  <2>3. OneOpenQuestion' /\ OwnInv' /\ ReadInv'
    BY <2>1 DEF ConversationInv, OneOpenQuestion, OwnInv, ReadInv, Open
  <2>4. FitInv'
    BY <2>1 DEF ConversationInv, FitInv, Open, InFlux, Fits, Alone, Pending, Live
  <2>. QED
    BY <2>1, <2>2, <2>3, <2>4, KeptAll DEF ConversationInv
<1>. QED
  BY <1>1, <1>2, <1>3, <1>4, <1>5, <1>6 DEF Next
THEOREM Invariant == Spec => []ConversationInv
<1>1. Init => ConversationInv
  BY InitInv
<1>2. ConversationInv /\ [Next]_vars => ConversationInv'
  BY NextInv
<1>. QED
  BY <1>1, <1>2, PTL DEF Spec

-----------------------------------------------------------------------------
(* How often a question is asked.  Its counter of attempts bounds the      *)
(* times it was asked for want of an answer, also when an attempt of the   *)
(* message failed after counting: the reply was lost, or the question      *)
(* could not be closed and is asked about again.                           *)

(* The counter, as far as it lets the question be asked.                   *)
Rounds(n) == IF n < MaxRounds THEN n ELSE MaxRounds - 1

(* The question the turn's reply will ask.                                 *)
Asking(i) == IF turn # Idle /\ turn.opened = i THEN 1 ELSE 0

RoundsInv ==
  /\ taken \in Seq(Nat)
  /\ \A i \in DOMAIN actions :
       Count(asked, i) + Asking(i) <= 1 + Rounds(actions[i].attempts) + Count(taken, i)

LEMMA CountNat ==
  ASSUME NEW s \in Seq(Nat), NEW i
  PROVE  Count(s, i) \in Nat
<1>1. DOMAIN s = 1..Len(s) /\ Len(s) \in Nat
  BY LenProperties
<1>2. IsFiniteSet(DOMAIN s)
  BY <1>1, FS_Interval
<1>. QED
  BY <1>2, FS_Subset, FS_CardinalityType DEF Count

LEMMA CountAppend ==
  ASSUME NEW s \in Seq(Nat), NEW e \in Nat, NEW i
  PROVE  Count(Append(s, e), i) = IF e = i THEN Count(s, i) + 1 ELSE Count(s, i)
<1>1. DOMAIN s = 1..Len(s) /\ Len(s) \in Nat
  BY LenProperties
<1>2. PICK r, n : r = Append(s, e) /\ n = Len(s) + 1
  OBVIOUS
<1>3. r \in Seq(Nat) /\ Len(r) = n /\ r[n] = e /\ \A q \in 1..Len(s) : r[q] = s[q]
  BY <1>2, AppendProperties
<1>4. DOMAIN r = 1..n
  BY <1>3, LenProperties
<1>. DEFINE S == {q \in DOMAIN s : s[q] = i}
            R == {q \in DOMAIN r : r[q] = i}
<1>5. R = IF e = i THEN S \cup {n} ELSE S
  BY <1>1, <1>2, <1>3, <1>4
<1>6. n \notin S
  BY <1>1, <1>2
<1>7. IsFiniteSet(S)
  <2>1. IsFiniteSet(DOMAIN s) /\ S \in SUBSET DOMAIN s
    BY <1>1, FS_Interval
  <2>. QED
    BY <2>1, FS_Subset
<1>8. Cardinality(S \cup {n}) = Cardinality(S) + 1
  BY <1>6, <1>7, FS_AddElement
<1>. QED
  BY <1>2, <1>5, <1>8 DEF Count

LEMMA CountNone ==
  ASSUME NEW s, NEW i, \A q \in DOMAIN s : s[q] # i
  PROVE  Count(s, i) = 0
<1>1. {q \in DOMAIN s : s[q] = i} = {}
  OBVIOUS
<1>. QED
  BY <1>1, FS_EmptySet DEF Count

(* A step asks nothing and counts nothing.                                 *)
SameRows ==
  DOMAIN actions' = DOMAIN actions /\ \A i \in DOMAIN actions : actions'[i].attempts = actions[i].attempts

Quiet ==
  /\ UNCHANGED <<asked, taken>> /\ SameRows
  /\ turn' = Idle \/ turn'.opened = 0 \/ (turn # Idle /\ turn'.opened = turn.opened)

LEMMA Numbers ==
  ASSUME ConversationInv, RoundsInv, NEW i \in DOMAIN actions
  PROVE  /\ i \in Nat \ {0} /\ Count(asked, i) \in Nat /\ Count(taken, i) \in Nat
         /\ actions[i].attempts \in Nat /\ MaxRounds \in Nat \ {0}
BY TableSize, CountNat, ConversationAssumption DEF ConversationInv, TableTypes, RoundsInv, IsQuestion

LEMMA QuietRounds ==
  ASSUME ConversationInv, RoundsInv, Quiet
  PROVE  RoundsInv'
<1>1. taken' \in Seq(Nat)
  BY DEF Quiet, RoundsInv
<1>2. ASSUME NEW i \in DOMAIN actions'
      PROVE  Count(asked, i)' + Asking(i)' <= 1 + Rounds(actions'[i].attempts) + Count(taken, i)'
  <2>1. i \in DOMAIN actions /\ actions'[i].attempts = actions[i].attempts
    BY <1>2 DEF Quiet, SameRows
  <2>2. Count(asked, i)' = Count(asked, i) /\ Count(taken, i)' = Count(taken, i)
    BY DEF Quiet, Count
  <2>3. i # 0 /\ Count(asked, i) \in Nat /\ Count(taken, i) \in Nat
    BY <2>1, Numbers
  <2>4. Rounds(actions[i].attempts) \in Nat
    BY <2>1, Numbers DEF Rounds
  <2>5. Asking(i)' <= Asking(i) /\ Asking(i) \in {0, 1} /\ Asking(i)' \in {0, 1}
    BY <2>3 DEF Quiet, Asking
  <2>6. Count(asked, i) + Asking(i) <= 1 + Rounds(actions[i].attempts) + Count(taken, i)
    BY <2>1 DEF RoundsInv
  <2>. QED
    BY <2>1, <2>2, <2>3, <2>4, <2>5, <2>6
<1>. QED
  BY <1>1, <1>2 DEF RoundsInv

(* What the turn goes on with asks no other question.                      *)
LEMMA QuietTurn ==
  ASSUME ConversationInv, turn.pc \in Pcs
  PROVE  /\ turn # Idle /\ IsTurn(turn)
         /\ turn' = Retried => turn' = Idle \/ turn'.opened = 0
         /\ \A pc : Go(pc) => turn'.opened = turn.opened
<1>1. turn # Idle /\ IsTurn(turn)
  BY BusyTurn DEF ConversationInv
<1>2. turn' = Retried => turn' = Idle \/ turn'.opened = 0
  BY <1>1, RetriedTurn DEF ConversationInv
<1>3. \A pc : Go(pc) => turn'.opened = turn.opened
  BY <1>1 DEF Go, IsTurn
<1>. QED
  BY <1>1, <1>2, <1>3

LEMMA QuietSteps ==
  ASSUME ConversationInv,
         \/ LookReceipt \/ LookPending \/ ApplyPending \/ ApplyPendingFails \/ Refuse
         \/ CompletePending \/ ModelAnswers
         \/ \E t \in Txs : \/ \E reasons \in Doubts : CreateTransaction(t, reasons)
                           \/ UpdateTransaction(t) \/ DeleteTransaction(t) \/ Undo(t)
  PROVE  Quiet
<1>1. UNCHANGED <<actions, asked, taken>> /\ SameRows
  BY DEF SameRows, LookReceipt, LookPending, ApplyPending, ApplyPendingFails, Refuse, CompletePending, ModelAnswers,
         CreateTransaction, UpdateTransaction, DeleteTransaction, Undo, ChangeByTool, OnlyTurn, Same
<1>2. turn.pc \in {"look", "apply", "refuse", "model"}
  BY DEF LookReceipt, LookPending, ApplyPending, ApplyPendingFails, Refuse, CompletePending, ModelAnswers,
         CreateTransaction, UpdateTransaction, DeleteTransaction, Undo, ChangeByTool, MayChange, MayCreate
<1>3. turn.pc \in Pcs
  BY <1>2 DEF Pcs
<1>4. turn # Idle /\ "opened" \in DOMAIN turn
  BY <1>3, QuietTurn DEF IsTurn
<1>5. turn' = Idle \/ turn'.opened = 0 \/ turn'.opened = turn.opened
  <2>1. CASE LookReceipt \/ LookPending \/ ModelAnswers \/ ApplyPendingFails
    BY <1>3, <2>1, QuietTurn DEF LookReceipt, LookPending, ModelAnswers, ApplyPendingFails
  <2>2. CASE ApplyPending
    BY <1>4, <2>2 DEF ApplyPending
  <2>3. CASE Refuse
    <3>1. turn' = Retried \/ turn' = [turn EXCEPT !.pc = "cancel", !.changed = TRUE]
      BY <2>3 DEF Refuse
    <3>. QED
      BY <1>3, <1>4, <3>1, QuietTurn
  <2>4. CASE CompletePending
    BY <1>4, <2>4 DEF CompletePending
  <2>5. ASSUME NEW t \in Txs, NEW reasons \in Doubts, CreateTransaction(t, reasons)
        PROVE  turn'.opened = turn.opened
    BY <1>4, <2>5 DEF CreateTransaction
  <2>6. ASSUME NEW t \in Txs, UpdateTransaction(t) \/ DeleteTransaction(t) \/ Undo(t)
        PROVE  turn'.opened = turn.opened
    BY <1>4, <2>6 DEF UpdateTransaction, DeleteTransaction, Undo, ChangeByTool
  <2>. QED
    BY <2>1, <2>2, <2>3, <2>4, <2>5, <2>6
<1>. QED
  BY <1>1, <1>4, <1>5 DEF Quiet

LEMMA QuietTableSteps ==
  ASSUME ConversationInv, ActivePending \/ LookSettled \/ GiveUp \/ Cancel \/ Sync
  PROVE  Quiet
<1>1. UNCHANGED <<asked, taken>>
  BY DEF ActivePending, LookSettled, GiveUp, Cancel, Sync, OnlyActions, Same
<1>2. turn.pc \in {"find", "look", "giveup", "cancel", "sync"}
  BY DEF ActivePending, LookSettled, GiveUp, Cancel, Sync
<1>3. /\ turn # Idle /\ IsTurn(turn) /\ "opened" \in DOMAIN turn /\ turn.act <= Len(actions)
      /\ TableTypes /\ \A pc : Go(pc) => turn'.opened = turn.opened
  BY <1>2, QuietTurn, BusyTurn DEF ConversationInv, Pcs, IsTurn
<1>4. DOMAIN actions = 1..Len(actions) /\ Len(actions) \in Nat
  BY <1>3, TableSize
<1>5. SameRows /\ turn'.opened = turn.opened
  <2>1. CASE ActivePending
    <3>1. KeptTable /\ \A i \in DOMAIN actions : ExpiredAsk(actions[i], actions'[i])
      BY <1>3, <2>1, ExpiredTable, Zenon DEF ActivePending
    <3>2. turn'.opened = turn.opened
      BY <1>3, <2>1 DEF ActivePending, Found
    <3>. QED
      BY <3>1, <3>2 DEF SameRows, KeptTable, ExpiredAsk, SameAsk
  <2>2. ASSUME NEW status \in Statuses \ {"OPEN"}, turn.act # 0, actions' = Resolved(turn.act, status)
        PROVE  SameRows
    <3>1. turn.act \in DOMAIN actions
      BY <1>3, <1>4, <2>2 DEF IsTurn
    <3>. QED
      BY <1>3, <2>2, <3>1, ResolvedTable DEF SameRows, KeptTable, SameAsk
  <2>3. CASE LookSettled
    <3>1. turn'.opened = turn.opened
      BY <1>3, <2>3 DEF LookSettled
    <3>2. CASE turn.act = 0
      BY <2>3, <3>1, <3>2 DEF LookSettled, SameRows
    <3>3. CASE turn.act # 0
      <4>1. PICK status \in Statuses \ {"OPEN"} : actions' = Resolved(turn.act, status)
        BY <2>3, <3>3 DEF LookSettled, Statuses
      <4>. QED
        BY <2>2, <3>1, <3>3, <4>1
    <3>. QED
      BY <3>2, <3>3
  <2>4. CASE GiveUp \/ Cancel
    <3>1. turn.act # 0
      BY <2>4 DEF ConversationInv, StepInv, GiveUp, Cancel
    <3>2. PICK status \in Statuses \ {"OPEN"} : actions' = Resolved(turn.act, status)
      BY <2>4 DEF GiveUp, Cancel, Statuses
    <3>3. turn'.opened = turn.opened
      BY <1>3, <2>4 DEF GiveUp, Cancel
    <3>. QED
      BY <2>2, <3>1, <3>2, <3>3
  <2>5. CASE Sync
    <3>1. turn.tx \in Txs /\ turn.reasons \in SUBSET Reasons /\ turn.deleted \in BOOLEAN
      BY <1>3, <2>5 DEF ConversationInv, StepInv, IsTurn, Sync
    <3>2. KeptTable /\ \A i \in DOMAIN actions : SyncedAsk(actions[i], actions'[i], turn.tx, turn.reasons, turn.deleted)
      BY <1>3, <2>5, <3>1, SyncedTable DEF Sync
    <3>3. turn'.opened = turn.opened
      BY <1>3, <2>5 DEF Sync
    <3>. QED
      BY <3>2, <3>3 DEF SameRows, KeptTable, SyncedAsk
  <2>. QED
    BY <2>1, <2>3, <2>4, <2>5
<1>. QED
  BY <1>1, <1>3, <1>5 DEF Quiet

(* Messages that come, failures, the panel and the clock.                  *)
LEMMA QuietWorld ==
  ASSUME ConversationInv,
         \/ \E m \in Members, answer \in Answers, quoted \in 0..Len(asked) : Receive(m, answer, quoted)
         \/ Fault
         \/ \E t \in Txs : PatchTransaction(t) \/ PanelDelete(t) \/ PanelRestore(t)
         \/ \E i \in DOMAIN actions : GrowsOld(i)
         \/ UNCHANGED vars
  PROVE  Quiet
<1>1. ASSUME NEW m \in Members, NEW answer \in Answers, NEW quoted \in 0..Len(asked), Receive(m, answer, quoted)
      PROVE  Quiet
  BY <1>1 DEF Receive, Turn, Quiet, SameRows
<1>2. CASE Fault
  <2>1. UNCHANGED <<actions, asked, taken>> /\ turn # Idle
    BY <1>2 DEF Fault
  <2>2. IsTurn(turn)
    BY <2>1 DEF ConversationInv, TurnTyped
  <2>3. turn.pc \in Pcs /\ "opened" \in DOMAIN turn
    BY <2>2 DEF IsTurn
  <2>4. turn' = Retried \/ turn' = [turn EXCEPT !.pc = "model", !.viaTool = FALSE, !.broken = TRUE]
    BY <1>2 DEF Fault
  <2>5. turn' = Idle \/ turn'.opened = 0 \/ turn'.opened = turn.opened
    BY <2>3, <2>4, QuietTurn
  <2>. QED
    BY <2>1, <2>5 DEF Quiet, SameRows
<1>3. ASSUME UNCHANGED <<actions, asked, taken, turn>>
      PROVE  Quiet
  BY <1>3 DEF Quiet, SameRows
<1>4. ASSUME NEW t \in Txs, PatchTransaction(t) \/ PanelDelete(t) \/ PanelRestore(t)
      PROVE  Quiet
  BY <1>3, <1>4 DEF PatchTransaction, PanelDelete, PanelRestore, PanelChange
<1>5. ASSUME NEW i \in DOMAIN actions, GrowsOld(i)
      PROVE  Quiet
  <2>1. UNCHANGED <<asked, taken, turn>>
    BY <1>5 DEF GrowsOld, Same
  <2>2. SameRows
    BY <1>5, OldTable DEF GrowsOld, ConversationInv, SameRows, KeptTable
  <2>. QED
    BY <2>1, <2>2 DEF Quiet
<1>6. CASE UNCHANGED vars
  BY <1>3, <1>6 DEF vars
<1>. QED
  BY <1>1, <1>2, <1>4, <1>5, <1>6

(* The steps that count, ask or open a question.                           *)

(* The row of a question asked again, whose counter grows by `counted`.    *)
LEMMA AskedAgain ==
  ASSUME ConversationInv, turn.pc \in {"settle", "reask"}, NEW awaiting \in Awaited, NEW suggested \in BOOLEAN,
         NEW counted \in Nat, actions' = Reasked(turn.act, awaiting, suggested, counted)
  PROVE  /\ turn # Idle /\ IsTurn(turn) /\ turn.act \in DOMAIN actions /\ DOMAIN actions' = DOMAIN actions
         /\ actions'[turn.act].attempts = actions[turn.act].attempts + counted
         /\ \A i \in DOMAIN actions : i # turn.act => actions'[i].attempts = actions[i].attempts
<1>1. turn.pc \in Pcs /\ turn.act # 0 /\ TableTypes
  BY DEF ConversationInv, StepInv, Pcs
<1>2. turn # Idle /\ IsTurn(turn) /\ turn.act <= Len(actions)
  BY <1>1, BusyTurn DEF ConversationInv
<1>3. turn.act \in DOMAIN actions
  BY <1>1, <1>2, TableSize DEF IsTurn
<1>. QED
  BY <1>1, <1>2, <1>3, ReaskedTable DEF KeptTable

LEMMA SettlePendingRounds ==
  ASSUME ConversationInv, RoundsInv, SettlePending
  PROVE  RoundsInv'
<1>1. turn.pc = "settle" /\ turn.act # 0 /\ TableTypes /\ asked' = asked
  BY DEF SettlePending, ConversationInv, StepInv
<1>2. turn # Idle /\ IsTurn(turn) /\ "opened" \in DOMAIN turn /\ turn.act <= Len(actions)
  BY <1>1, BusyTurn DEF ConversationInv, Pcs, IsTurn
<1>3. turn.act \in DOMAIN actions /\ turn.act \in Nat
  BY <1>1, <1>2, TableSize DEF IsTurn
<1>4. CASE turn.reasons = {}
  <2>1. actions' = Resolved(turn.act, "EXECUTED") /\ taken' = taken /\ turn'.opened = turn.opened
    BY <1>2, <1>4 DEF SettlePending
  <2>2. SameRows
    BY <1>1, <1>3, <2>1, ResolvedTable DEF SameRows, KeptTable, SameAsk, Statuses
  <2>. QED
    BY <1>1, <1>2, <2>1, <2>2, QuietRounds DEF Quiet
<1>5. CASE turn.reasons # {}
  <2>1. /\ actions' = Reasked(turn.act, AwaitingFor(turn.reasons), FALSE, 0)
        /\ taken' = Append(taken, turn.act) /\ turn' # Idle /\ turn'.opened = turn.act
    BY <1>2, <1>5 DEF SettlePending, Idle, IsTurn
  <2>2. AwaitingFor(turn.reasons) \in Awaited /\ FALSE \in BOOLEAN /\ 0 \in Nat
    BY AwaitedFor
  <2>3. /\ DOMAIN actions' = DOMAIN actions
        /\ actions'[turn.act].attempts = actions[turn.act].attempts + 0
        /\ \A i \in DOMAIN actions : i # turn.act => actions'[i].attempts = actions[i].attempts
    BY <1>1, <2>1, <2>2, AskedAgain
  <2>4. taken \in Seq(Nat) /\ taken' \in Seq(Nat)
    BY <1>3, <2>1, AppendProperties DEF RoundsInv
  <2>5. ASSUME NEW i \in DOMAIN actions
        PROVE  Count(asked, i)' + Asking(i)' <= 1 + Rounds(actions'[i].attempts) + Count(taken, i)'
    <3>1. /\ Count(asked, i) \in Nat /\ Count(taken, i) \in Nat /\ actions[i].attempts \in Nat
          /\ Rounds(actions[i].attempts) \in Nat
      BY Numbers DEF Rounds
    <3>2. Count(asked, i)' = Count(asked, i)
      BY <1>1 DEF Count
    <3>3. Count(taken, i)' = IF turn.act = i THEN Count(taken, i) + 1 ELSE Count(taken, i)
      <4>1. PICK new : new = Append(taken, turn.act)
        OBVIOUS
      <4>2. Count(new, i) = IF turn.act = i THEN Count(taken, i) + 1 ELSE Count(taken, i)
        BY <1>3, <2>4, <4>1, CountAppend
      <4>. QED
        BY <2>1, <4>1, <4>2 DEF Count
    <3>4. actions'[i].attempts = actions[i].attempts
      BY <2>3, <3>1
    <3>5. Asking(i)' = IF turn.act = i THEN 1 ELSE 0
      BY <2>1 DEF Asking
    <3>6. Count(asked, i) + Asking(i) <= 1 + Rounds(actions[i].attempts) + Count(taken, i) /\ Asking(i) \in {0, 1}
      BY DEF RoundsInv, Asking
    <3>. QED
      BY <3>1, <3>2, <3>3, <3>4, <3>5, <3>6
  <2>. QED
    BY <2>3, <2>4, <2>5 DEF RoundsInv
<1>. QED
  BY <1>4, <1>5

LEMMA ReaskRounds ==
  ASSUME ConversationInv, RoundsInv, Reask
  PROVE  RoundsInv'
<1>1. /\ turn.pc = "reask" /\ actions' = Reasked(turn.act, turn.awaiting, StillSuggested, 1)
      /\ asked' = asked /\ taken' = taken
  BY DEF Reask, OnlyActions, Same
<1>2. /\ turn # Idle /\ IsTurn(turn) /\ "opened" \in DOMAIN turn /\ turn.act # 0 /\ ~turn.ok
      /\ turn.act <= Len(actions) /\ TableTypes
  BY <1>1, BusyTurn DEF ConversationInv, StepInv, Pcs, IsTurn
<1>3. turn.act \in DOMAIN actions
  BY <1>2, TableSize DEF IsTurn
<1>4. turn.awaiting = actions[turn.act].awaiting
  BY <1>1, <1>2 DEF ConversationInv, ReadInv
<1>5. turn.awaiting \in Awaited /\ StillSuggested \in BOOLEAN /\ 1 \in Nat
  BY <1>2, <1>3, <1>4, TableSize DEF IsQuestion, IsTurn, StillSuggested
<1>6. /\ DOMAIN actions' = DOMAIN actions
      /\ actions'[turn.act].attempts = actions[turn.act].attempts + 1
      /\ \A i \in DOMAIN actions : i # turn.act => actions'[i].attempts = actions[i].attempts
  BY <1>1, <1>5, AskedAgain
<1>7. /\ turn' # Idle
      /\ turn'.opened = IF actions'[turn.act].attempts >= MaxRounds THEN turn.opened ELSE turn.act
  BY <1>2 DEF Reask, Idle, IsTurn
<1>8. ASSUME NEW i \in DOMAIN actions
      PROVE  Count(asked, i)' + Asking(i)' <= 1 + Rounds(actions'[i].attempts) + Count(taken, i)'
  <2>1. /\ Count(asked, i) \in Nat /\ Count(taken, i) \in Nat /\ actions[i].attempts \in Nat
        /\ MaxRounds \in Nat \ {0}
    BY Numbers
  <2>2. Count(asked, i)' = Count(asked, i) /\ Count(taken, i)' = Count(taken, i)
    BY <1>1 DEF Count
  <2>3. Count(asked, i) + Asking(i) <= 1 + Rounds(actions[i].attempts) + Count(taken, i) /\ Asking(i) \in {0, 1}
    BY DEF RoundsInv, Asking
  <2>4. CASE i # turn.act
    <3>1. actions'[i].attempts = actions[i].attempts /\ Asking(i)' <= Asking(i) /\ Asking(i)' \in {0, 1}
      BY <1>2, <1>6, <1>7, <2>4 DEF Asking
    <3>. QED
      BY <2>1, <2>2, <2>3, <3>1 DEF Rounds
  <2>5. CASE i = turn.act /\ actions[i].attempts + 1 < MaxRounds
    <3>1. actions'[i].attempts = actions[i].attempts + 1 /\ Asking(i)' \in {0, 1}
      BY <1>6, <2>5 DEF Asking
    <3>. QED
      BY <2>1, <2>2, <2>3, <2>5, <3>1 DEF Rounds
  <2>6. CASE i = turn.act /\ ~(actions[i].attempts + 1 < MaxRounds)
    <3>1. actions'[i].attempts = actions[i].attempts + 1 /\ turn'.opened = turn.opened
      BY <1>6, <1>7, <2>1, <2>6
    <3>2. Asking(i)' = Asking(i)
      BY <1>2, <1>7, <3>1 DEF Asking
    <3>3. Rounds(actions'[i].attempts) >= Rounds(actions[i].attempts) /\ Rounds(actions'[i].attempts) \in Nat
          /\ Rounds(actions[i].attempts) \in Nat
      BY <2>1, <2>6, <3>1 DEF Rounds
    <3>. QED
      BY <2>1, <2>2, <2>3, <3>2, <3>3
  <2>. QED
    BY <2>4, <2>5, <2>6
<1>. QED
  BY <1>1, <1>6, <1>8 DEF RoundsInv

LEMMA AskAboutCreatedRounds ==
  ASSUME ConversationInv, RoundsInv, NEW suggested \in BOOLEAN, AskAboutCreated(suggested)
  PROVE  RoundsInv'
<1>1. /\ turn.pc = "open" /\ asked' = asked /\ taken' = taken
      /\ actions' = OpenPending(turn.member, turn.tx, AwaitingFor(turn.reasons), suggested)
      /\ turn' = [turn EXCEPT !.pc = "model", !.opened = Len(actions'), !.ok = TRUE]
  BY DEF AskAboutCreated, OnlyActions, Same
<1>2. /\ turn # Idle /\ IsTurn(turn) /\ "opened" \in DOMAIN turn /\ turn.tx \in Txs
      /\ TableTypes
  BY <1>1, BusyTurn DEF ConversationInv, StepInv, Pcs, IsTurn
<1>3. turn.member \in Members /\ AwaitingFor(turn.reasons) \in Awaited
  BY <1>2, AwaitedFor DEF IsTurn
<1>4. Len(actions) \in Nat /\ DOMAIN actions = 1..Len(actions)
  BY <1>2, TableSize
<1>5. PICK n : n = Len(actions) + 1
  OBVIOUS
<1>6. /\ Len(actions') = n /\ DOMAIN actions' = DOMAIN actions \cup {n}
      /\ \A i \in DOMAIN actions : actions'[i].attempts = actions[i].attempts
      /\ actions'[n].attempts = 0
  <2>1. /\ Len(actions') = n /\ DOMAIN actions' = DOMAIN actions \cup {n}
        /\ \A i \in DOMAIN actions : SupersededAsk(actions[i], actions'[i], turn.member)
        /\ actions'[n] =
             [member |-> turn.member, tx |-> turn.tx, awaiting |-> AwaitingFor(turn.reasons), suggested |-> suggested,
              status |-> "OPEN", question |-> 0, attempts |-> 0, recent |-> TRUE, valid |-> TRUE]
    BY <1>1, <1>2, <1>3, <1>5, OpenedTable
  <2>. QED
    BY <2>1 DEF SupersededAsk, SameAsk
<1>7. n \notin DOMAIN actions /\ n \in Nat \ {0}
  BY <1>4, <1>5
<1>8. turn' # Idle /\ turn'.opened = n
  BY <1>1, <1>2, <1>6 DEF Idle, IsTurn
<1>9. ASSUME NEW i \in DOMAIN actions
      PROVE  Count(asked, i)' + Asking(i)' <= 1 + Rounds(actions'[i].attempts) + Count(taken, i)'
  <2>1. /\ Count(asked, i) \in Nat /\ Count(taken, i) \in Nat /\ Rounds(actions[i].attempts) \in Nat
    BY Numbers DEF Rounds
  <2>2. Count(asked, i)' = Count(asked, i) /\ Count(taken, i)' = Count(taken, i)
    BY <1>1 DEF Count
  <2>3. Count(asked, i) + Asking(i) <= 1 + Rounds(actions[i].attempts) + Count(taken, i) /\ Asking(i) \in {0, 1}
    BY DEF RoundsInv, Asking
  <2>4. Asking(i)' = 0
    BY <1>7, <1>8 DEF Asking
  <2>. QED
    BY <1>6, <2>1, <2>2, <2>3, <2>4
<1>10. Count(asked, n)' + Asking(n)' <= 1 + Rounds(actions'[n].attempts) + Count(taken, n)'
  <2>1. \A q \in DOMAIN asked : asked[q] # n
    BY <1>2, <1>7 DEF TableTypes
  <2>2. Count(asked, n) = 0
    BY <2>1, CountNone
  <2>3. Count(taken, n) \in Nat
    BY CountNat DEF RoundsInv
  <2>4. Count(asked, n)' = Count(asked, n) /\ Count(taken, n)' = Count(taken, n)
    BY <1>1 DEF Count
  <2>5. Asking(n)' \in {0, 1} /\ Rounds(actions'[n].attempts) = 0
    BY <1>6, ConversationAssumption DEF Asking, Rounds
  <2>. QED
    BY <2>2, <2>3, <2>4, <2>5
<1>. QED
  BY <1>1, <1>6, <1>9, <1>10 DEF RoundsInv

LEMMA ReplyRounds ==
  ASSUME ConversationInv, RoundsInv, Reply
  PROVE  RoundsInv'
<1>1. turn.pc = "reply" /\ turn' = Idle /\ taken' = taken
  BY DEF Reply
<1>2. /\ turn # Idle /\ IsTurn(turn) /\ TableTypes /\ turn.opened <= Len(actions)
  BY <1>1, BusyTurn DEF ConversationInv, Pcs
<1>3. turn.opened # 0 => turn.opened \in DOMAIN actions
  BY <1>2, TableSize DEF IsTurn
<1>4. SameRows
  <2>1. CASE actions' = actions
    BY <2>1 DEF SameRows
  <2>2. CASE /\ turn.opened # 0
             /\ actions' = [actions EXCEPT ![turn.opened] = [@ EXCEPT !.question = Len(asked) + 1, !.recent = TRUE]]
    <3>1. Len(asked) + 1 \in Nat
      BY <1>2, TableSize
    <3>. QED
      BY <1>2, <1>3, <2>2, <3>1, SentTable DEF SameRows, KeptTable
  <2>. QED
    BY <2>1, <2>2 DEF Reply
<1>5. CASE asked' = asked
  BY <1>1, <1>4, <1>5, QuietRounds DEF Quiet
<1>6. CASE turn.opened # 0 /\ asked' = Append(asked, turn.opened)
  <2>1. ASSUME NEW i \in DOMAIN actions
        PROVE  Count(asked, i)' + Asking(i)' <= 1 + Rounds(actions'[i].attempts) + Count(taken, i)'
    <3>1. /\ Count(asked, i) \in Nat /\ Count(taken, i) \in Nat /\ Rounds(actions[i].attempts) \in Nat
      BY Numbers DEF Rounds
    <3>2. PICK new : new = Append(asked, turn.opened)
      OBVIOUS
    <3>3. Count(new, i) = IF turn.opened = i THEN Count(asked, i) + 1 ELSE Count(asked, i)
      BY <1>2, <3>2, CountAppend DEF TableTypes, IsTurn
    <3>4. Count(asked, i)' = Count(new, i) /\ Count(taken, i)' = Count(taken, i)
      BY <1>1, <1>6, <3>2 DEF Count
    <3>5. Asking(i)' = 0 /\ Asking(i) = IF turn.opened = i THEN 1 ELSE 0
      BY <1>1, <1>2 DEF Asking
    <3>6. Count(asked, i) + Asking(i) <= 1 + Rounds(actions[i].attempts) + Count(taken, i)
      BY DEF RoundsInv
    <3>7. actions'[i].attempts = actions[i].attempts
      BY <1>4 DEF SameRows
    <3>. QED
      BY <3>1, <3>3, <3>4, <3>5, <3>6, <3>7
  <2>. QED
    BY <1>1, <1>4, <2>1 DEF RoundsInv, SameRows
<1>. QED
  BY <1>5, <1>6 DEF Reply

LEMMA RoundsInvariant == Spec => []RoundsInv
<1>1. Init => RoundsInv
  <2>. SUFFICES ASSUME Init
                PROVE  RoundsInv
    OBVIOUS
  <2>1. taken \in Seq(Nat) /\ DOMAIN actions = {}
    BY DEF Init
  <2>. QED
    BY <2>1 DEF RoundsInv
<1>2. ConversationInv /\ RoundsInv /\ [Next]_vars => RoundsInv'
  <2>. SUFFICES ASSUME ConversationInv, RoundsInv, [Next]_vars
                PROVE  RoundsInv'
    OBVIOUS
  <2>1. CASE Quiet
    BY <2>1, QuietRounds
  <2>2. CASE TurnStep
    <3>1. CASE SettlePending \/ Reask \/ Reply
      BY <3>1, SettlePendingRounds, ReaskRounds, ReplyRounds
    <3>2. ASSUME NEW suggested \in BOOLEAN, AskAboutCreated(suggested)
          PROVE  RoundsInv'
      BY <3>2, AskAboutCreatedRounds
    <3>3. CASE ActivePending \/ LookSettled \/ GiveUp \/ Cancel \/ Sync
      BY <2>1, <3>3, QuietTableSteps
    <3>4. CASE \/ LookReceipt \/ LookPending \/ ApplyPending \/ ApplyPendingFails \/ Refuse
               \/ CompletePending \/ ModelAnswers
               \/ \E t \in Txs : \/ \E reasons \in Doubts : CreateTransaction(t, reasons)
                                 \/ UpdateTransaction(t) \/ DeleteTransaction(t) \/ Undo(t)
      BY <2>1, <3>4, QuietSteps
    <3>. QED
      BY <2>2, <3>1, <3>2, <3>3, <3>4 DEF TurnStep
  <2>. QED
    BY <2>1, <2>2, QuietWorld DEF Next
<1>. QED
  BY <1>1, <1>2, Invariant, PTL DEF Spec

-----------------------------------------------------------------------------
(* Entries, questions and the turn hold the values they should.            *)
THEOREM TypesOK == Spec => []TypeOK
<1>1. ConversationInv => TypeOK
  <2>. SUFFICES ASSUME ConversationInv
                PROVE  TypeOK
    OBVIOUS
  <2>1. \A t \in Txs : entry[t].reasons \in SUBSET Reasons /\ entry[t].deleted \in BOOLEAN
    BY EntryFields DEF ConversationInv
  <2>2. /\ \A i \in DOMAIN actions : IsQuestion(actions[i]) /\ actions[i].question <= Len(asked)
        /\ Len(actions) \in Nat /\ Len(asked) \in Nat
    BY TableSize DEF ConversationInv, TableTypes
  <2>3. \A i \in DOMAIN actions : actions[i].question \in 0..Len(asked)
    BY <2>2 DEF IsQuestion
  <2>4. turn # Idle => turn.act \in 0..Len(actions) /\ turn.opened \in 0..Len(actions)
    BY <2>2 DEF ConversationInv, TurnTyped, IsTurn
  <2>5. \A q \in DOMAIN asked : asked[q] \in DOMAIN actions
    BY DEF ConversationInv, TableTypes
  <2>. QED
    BY <2>1, <2>2, <2>3, <2>4, <2>5 DEF TypeOK, IsQuestion, Statuses
<1>. QED
  BY Invariant, <1>1, PTL

(* A member never has two open questions: openPending closes the one there *)
(* is before it asks, and nothing reopens a question (pending.go 95-97).    *)
THEOREM OneQuestionOpen == Spec => []OneOpenQuestion
<1>1. ConversationInv => OneOpenQuestion
  BY DEF ConversationInv
<1>. QED
  BY Invariant, <1>1, PTL

(* A settled question keeps its status through any number of retries,      *)
(* tools, faults and messages that quote it (resolvePending, 143-147).      *)
THEOREM SettledStays == Spec => SettledIsFinal
<1>1. ConversationInv /\ [Next]_vars
        => [\A i \in DOMAIN actions : ~Open(i) => actions'[i].status = actions[i].status]_actions
  BY NextInv DEF AllKept, Kept, Open
<1>. QED
  BY Invariant, <1>1, PTL DEF Spec, SettledIsFinal

(* The backend resolves an answer itself only while the question it found  *)
(* is open and valid, also when the message is tried again after a failure. *)
THEOREM AnswersOpenQuestions == Spec => []AnswersReachOpenQuestions
<1>1. ConversationInv => AnswersReachOpenQuestions
  BY DEF ConversationInv, StepInv, ReadInv, AnswersReachOpenQuestions
<1>. QED
  BY Invariant, <1>1, PTL

(* However the answers, the tools of the model, the panel and the failures  *)
(* follow each other, a question is asked MaxRounds times at most and once  *)
(* more for every answer that was taken and left doubts behind.             *)
THEOREM AsksAreBounded == Spec => []GivesUp
<1>1. ConversationInv /\ RoundsInv => GivesUp
  <2>. SUFFICES ASSUME ConversationInv, RoundsInv, NEW i \in DOMAIN actions
                PROVE  Count(asked, i) <= MaxRounds + Count(taken, i)
    BY DEF GivesUp
  <2>1. /\ Count(asked, i) \in Nat /\ Count(taken, i) \in Nat /\ actions[i].attempts \in Nat
        /\ MaxRounds \in Nat \ {0}
    BY Numbers
  <2>2. Rounds(actions[i].attempts) \in Nat /\ Rounds(actions[i].attempts) <= MaxRounds - 1
    BY <2>1 DEF Rounds
  <2>3. Count(asked, i) + Asking(i) <= 1 + Rounds(actions[i].attempts) + Count(taken, i) /\ Asking(i) \in {0, 1}
    BY DEF RoundsInv, Asking
  <2>. QED
    BY <2>1, <2>2, <2>3
<1>. QED
  BY Invariant, RoundsInvariant, <1>1, PTL

(* As long as no statement failed and the panel changed nothing, the       *)
(* question a member sees between messages is about a live draft and asks   *)
(* for what that draft lacks, whatever the model's tools did to it.         *)
THEOREM QuestionsFit == Spec => [](faults = 0 /\ edits = 0 => QuestionMatchesDraft)
<1>1. ConversationInv => (faults = 0 /\ edits = 0 => QuestionMatchesDraft)
  BY DEF ConversationInv, FitInv, Alone, InFlux, Fits, QuestionMatchesDraft, Idle
<1>. QED
  BY Invariant, <1>1, PTL
=============================================================================
