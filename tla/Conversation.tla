---------------------------- MODULE Conversation ----------------------------
(***************************************************************************)
(* The open questions of the finance agent: backend/finance/pending.go,    *)
(* the turn of agent.go and the tools of agent_tools.go.                   *)
(*                                                                         *)
(* An entry that cannot be confirmed stays PENDING in the ledger (a draft) *)
(* and a row of finance_pending_actions holds the conversation about it:   *)
(* whose question it is, what it awaits, which message of the bot asked.   *)
(* A turn handles one message of the group.  It finds the question the     *)
(* message answers, resolves the answer itself or leaves it to the model   *)
(* and its tools, and sends a reply that may ask the next question.        *)
(*                                                                         *)
(* Turns run one at a time (the worker of Inbox), in several SQL           *)
(* transactions each; the panel changes entries between any two of them,   *)
(* and an error or a crash ends a turn in the middle.  The inbox then runs *)
(* the message again, unless it already changed the ledger.                *)
(*                                                                         *)
(* Of an entry only the doubts about it are kept: it is CONFIRMED when     *)
(* there are none.  What undoing may give back is Ledger's business, here  *)
(* it is any state the entry has been in.                                  *)
(***************************************************************************)
EXTENDS Naturals, Sequences, FiniteSets

CONSTANTS
  Members,
  Txs,
  Doubts,        \* the reasons new entries may have, a set of sets
  Answers,       \* what a message may say
  MaxRounds,     \* the source's maxPendingAttempts (3)
  MaxAttempts,   \* the inbox's attempts per message (3)
  MaxTools,      \* changes the tools of one turn may make (maxMutations, 5)
  Panel,         \* the panel is in use
  MaxTurns,      \* bound: messages
  MaxFaults,     \* bound: turns cut short
  MaxPanel       \* bound: changes made in the panel

Reasons == {"duplicate", "amount", "category", "date"}

(* yes: "sim"; no: "nao"; amount: "foi 38"; category: "mercado"; date: a    *)
(* date; future: a date to come; text: anything else; receipt: a picture.   *)
AllAnswers == {"yes", "no", "amount", "category", "date", "future", "text", "receipt"}

ASSUME ConversationAssumption ==
  /\ Doubts \subseteq SUBSET Reasons
  /\ Answers \subseteq AllAnswers
  /\ MaxRounds \in Nat \ {0} /\ MaxAttempts \in Nat \ {0} /\ MaxTools \in Nat
  /\ Panel \in BOOLEAN
  /\ MaxTurns \in Nat /\ MaxFaults \in Nat /\ MaxPanel \in Nat

VARIABLES
  entry,     \* [Txs -> entries]
  actions,   \* finance_pending_actions, by id
  asked,     \* for each message of the bot that was sent, the action it asked about, or 0
  taken,     \* history: for each answer that left doubts behind, the question it answered
  turn,      \* the turn in progress
  turns, faults, edits

vars == <<entry, actions, asked, taken, turn, turns, faults, edits>>

NoEntry == [there |-> FALSE, deleted |-> FALSE, reasons |-> {}, past |-> {}]
Live(e) == e.there /\ ~e.deleted
Pending(e) == Live(e) /\ e.reasons # {}

Idle == [pc |-> "idle"]

Init ==
  /\ entry = [t \in Txs |-> NoEntry]
  /\ actions = <<>>
  /\ asked = <<>> /\ taken = <<>>
  /\ turn = Idle
  /\ turns = 0 /\ faults = 0 /\ edits = 0

-----------------------------------------------------------------------------
(* The table of questions.                                                 *)

(* Mutant: a doubtful amount is asked for, which the table does not know.  *)
AwaitingForAmount(reasons) ==
  IF "duplicate" \in reasons THEN "CONFIRM_DUPLICATE"
  ELSE IF "amount" \in reasons THEN "AMOUNT"
  ELSE IF "category" \in reasons THEN "CATEGORY" ELSE "DATE"

AwaitingFor(reasons) ==
  IF "duplicate" \in reasons THEN "CONFIRM_DUPLICATE"
  ELSE IF "amount" \in reasons THEN "CONFIRM"
  ELSE IF "category" \in reasons THEN "CATEGORY"
  ELSE IF "date" \in reasons THEN "DATE"
  ELSE "CONFIRM"

Open(i) == actions[i].status = "OPEN"

(* Mutant: a question is resolved whatever became of it.                   *)
ResolvedAnyway(i, status) == [actions EXCEPT ![i].status = status]

(* resolvePending *)
Resolved(i, status) ==
  IF Open(i) THEN [actions EXCEPT ![i].status = status] ELSE actions

(* reaskPending, which does not ask whether the question is still open.    *)
Reasked(i, awaiting, suggested, counted) ==
  [actions EXCEPT ![i] =
     [@ EXCEPT !.awaiting = awaiting, !.suggested = suggested, !.attempts = actions[i].attempts + counted,
               !.recent = TRUE, !.valid = TRUE]]

(* Mutant: the member's open question stays open.                          *)
OpenPendingBeside(m, t, awaiting, suggested) ==
  Append(actions, [member |-> m, tx |-> t, awaiting |-> awaiting, suggested |-> suggested,
                   status |-> "OPEN", question |-> 0, attempts |-> 0, recent |-> TRUE, valid |-> TRUE])

OpenPending(m, t, awaiting, suggested) ==
  LET superseded == [i \in DOMAIN actions |->
        IF actions[i].member = m /\ Open(i) THEN [actions[i] EXCEPT !.status = "SUPERSEDED"] ELSE actions[i]]
  IN Append(superseded, [member |-> m, tx |-> t, awaiting |-> awaiting, suggested |-> suggested,
                         status |-> "OPEN", question |-> 0, attempts |-> 0, recent |-> TRUE, valid |-> TRUE])

(* Mutant: a deleted draft keeps its question.                             *)
SyncPendingForTxLive(t, reasons, deleted) ==
  [i \in DOMAIN actions |->
     IF actions[i].tx # t \/ ~Open(i) \/ deleted THEN actions[i]
     ELSE IF reasons = {} THEN [actions[i] EXCEPT !.status = "EXECUTED"]
     ELSE [actions[i] EXCEPT !.awaiting = AwaitingFor(reasons), !.recent = TRUE]]

(* SyncPendingForTx, given the row the tool's change returned.             *)
SyncPendingForTx(t, reasons, deleted) ==
  [i \in DOMAIN actions |->
     IF actions[i].tx # t \/ ~Open(i) THEN actions[i]
     ELSE IF deleted THEN [actions[i] EXCEPT !.status = "CANCELLED"]
     ELSE IF reasons = {} THEN [actions[i] EXCEPT !.status = "EXECUTED"]
     ELSE [actions[i] EXCEPT !.awaiting = AwaitingFor(reasons), !.recent = TRUE]]

-----------------------------------------------------------------------------
(* The ledger, as far as the conversation goes.                            *)

(* A change of the entry, which remembers what it was.                     *)
Changed(e, reasons, deleted) ==
  [there |-> TRUE, deleted |-> deleted, reasons |-> reasons,
   past |-> e.past \cup {[deleted |-> e.deleted, reasons |-> e.reasons]}]

(* UpdateTransaction with Confirm: only a missing category resists.        *)
Confirmed(reasons, givesCategory) ==
  IF givesCategory THEN {} ELSE reasons \cap {"category"}

(* What UpdateTransaction may leave of the doubts: each given field removes *)
(* its own; switching between expense and income may drop the category.    *)
Patched(reasons) ==
  {reasons \ given : given \in SUBSET {"category", "amount", "date"}}
    \cup {Confirmed(reasons, TRUE), Confirmed(reasons, FALSE), reasons \cup {"category"}}

-----------------------------------------------------------------------------
(* The turn.                                                               *)

Go(pc) == turn' = [turn EXCEPT !.pc = pc]
Same == UNCHANGED <<taken, turns, faults, edits>>
OnlyTurn == UNCHANGED <<entry, actions, asked>> /\ Same
OnlyActions == UNCHANGED <<entry, asked>> /\ Same

(* `act` is the question answered, with what was read of it; `opened` the  *)
(* question the reply asks; `tx`, `reasons` and `deleted` the row the last *)
(* change returned. `ok`: a tool succeeded; `broken`: one hit an error.     *)
Turn(m, answer, quoted, attempt, changed) ==
  [pc |-> "find", member |-> m, answer |-> answer, quoted |-> quoted, attempt |-> attempt,
   act |-> 0, awaiting |-> "none", suggested |-> FALSE, opened |-> 0,
   tx |-> 0, reasons |-> {}, deleted |-> FALSE,
   tools |-> 0, viaTool |-> FALSE, ok |-> FALSE, broken |-> FALSE, changed |-> changed]

(* The worker claims a message; it may quote one of the bot's.             *)
Receive(m, answer, quoted) ==
  /\ turn = Idle
  /\ turns < MaxTurns
  /\ turns' = turns + 1
  /\ turn' = Turn(m, answer, quoted, 1, FALSE)
  /\ UNCHANGED <<entry, actions, asked, taken, faults, edits>>

(* An error ends the attempt: the message is run again unless it changed   *)
(* the ledger (alreadyApplied) or was tried often enough.                  *)
Retried ==
  IF turn.changed \/ turn.attempt = MaxAttempts THEN Idle
  ELSE Turn(turn.member, turn.answer, turn.quoted, turn.attempt + 1, FALSE)

Found(i) ==
  turn' = [turn EXCEPT !.pc = "look", !.act = i,
                       !.awaiting = actions[i].awaiting, !.suggested = actions[i].suggested]

(* Mutant: the question quoted is taken whatever became of it.             *)
ActivePendingQuoted ==
  LET quoted == {i \in DOMAIN actions : turn.quoted # 0 /\ actions[i].question = turn.quoted}
      own == {i \in DOMAIN actions : Open(i) /\ actions[i].member = turn.member /\ actions[i].recent}
  IN /\ turn.pc = "find"
     /\ \/ \E i \in quoted : Found(i)
        \/ quoted = {} /\ \E i \in own : Found(i)
        \/ quoted \cup own = {} /\ Go("look")
     /\ OnlyTurn

(* ActivePending: overdue questions expire; the question quoted, anyone's, *)
(* comes first, then the sender's own if it was asked a short while ago.   *)
ActivePending ==
  LET open == {i \in DOMAIN actions : Open(i) /\ actions[i].valid}
      quoted == {i \in open : turn.quoted # 0 /\ actions[i].question = turn.quoted}
      own == {i \in open : actions[i].member = turn.member /\ actions[i].recent}
  IN /\ turn.pc = "find"
     /\ actions' = [i \in DOMAIN actions |->
          IF Open(i) /\ i \notin open THEN [actions[i] EXCEPT !.status = "EXPIRED"] ELSE actions[i]]
     /\ \/ \E i \in quoted : Found(i)
        \/ quoted = {} /\ \E i \in own : Found(i)
        \/ quoted \cup own = {} /\ Go("look")
     /\ OnlyActions

Draft == entry[actions[turn.act].tx]

(* A receipt is not an answer: it goes to the model as it is.              *)
LookReceipt ==
  /\ turn.pc = "look"
  /\ turn.answer = "receipt"
  /\ Go("model")
  /\ OnlyTurn

(* replyToPending, first half: the draft is read; a question about an entry *)
(* that is settled already is closed and the message stands alone.         *)
LookSettled ==
  /\ turn.pc = "look"
  /\ turn.answer # "receipt"
  /\ turn.act # 0 => ~Pending(Draft)
  /\ actions' = IF turn.act = 0 THEN actions
                ELSE Resolved(turn.act, IF Live(Draft) THEN "EXECUTED" ELSE "CANCELLED")
  /\ turn' = [turn EXCEPT !.act = 0, !.pc = IF turn.answer \in {"yes", "no"} THEN "reply" ELSE "model"]
  /\ OnlyActions

(* replyToPending, second half: what the answer means to the question.     *)
LookPending ==
  LET confirming == turn.awaiting \in {"CONFIRM", "CONFIRM_DUPLICATE"}
      suggesting == turn.awaiting = "CATEGORY" /\ turn.suggested
  IN /\ turn.pc = "look"
     /\ turn.answer # "receipt"
     /\ turn.act # 0 /\ Pending(Draft)
     /\ Go(CASE turn.answer = "amount" -> "apply"
             [] turn.answer = "no" -> IF suggesting THEN "reask" ELSE "refuse"
             [] turn.answer = "yes" -> IF confirming \/ suggesting THEN "apply" ELSE "reask"
             [] turn.answer = "category" /\ turn.awaiting = "CATEGORY" -> "apply"
             [] turn.answer = "date" /\ turn.awaiting = "DATE" -> "apply"
             [] turn.answer = "future" /\ turn.awaiting = "DATE" -> "reask"
             [] OTHER -> "model")
     /\ OnlyTurn

(* applyPending, its UpdateTransaction. The answer of a tool may or may not *)
(* carry the category; what the backend reads in the message does.         *)
GivesCategory ==
  IF turn.viaTool THEN (IF turn.awaiting = "CATEGORY" THEN {TRUE} ELSE BOOLEAN)
  ELSE {turn.answer = "category" \/ (turn.answer = "yes" /\ turn.awaiting = "CATEGORY")}

ApplyPending ==
  /\ turn.pc = "apply"
  /\ Live(Draft)
  /\ \E given \in GivesCategory :
       LET t == actions[turn.act].tx
           left == Confirmed(Draft.reasons, given)
           changes == left # Draft.reasons \/ turn.answer = "amount"
       IN /\ entry' = IF changes THEN [entry EXCEPT ![t] = Changed(@, left, FALSE)] ELSE entry
          /\ turn' = [turn EXCEPT !.pc = "settle", !.tx = t, !.reasons = left, !.changed = @ \/ changes]
  /\ UNCHANGED <<actions, asked>> /\ Same

(* The update is refused, the category was archived or does not fit the    *)
(* type any more; or the draft is gone.                                    *)
ApplyPendingFails ==
  /\ turn.pc = "apply"
  /\ IF turn.viaTool THEN Go("model")
     ELSE IF Live(Draft) THEN Go("reask")
     ELSE turn' = Retried
  /\ OnlyTurn

(* applyPending, after the update: close the question, or ask for what is  *)
(* still missing, which counts as no attempt, also when it is the same.    *)
SettlePending ==
  LET next == [turn EXCEPT !.pc = IF turn.viaTool THEN "model" ELSE "reply", !.viaTool = FALSE, !.ok = TRUE]
  IN /\ turn.pc = "settle"
     /\ IF turn.reasons = {}
        THEN /\ actions' = Resolved(turn.act, "EXECUTED")
             /\ turn' = next
             /\ UNCHANGED taken
        ELSE /\ actions' = Reasked(turn.act, AwaitingFor(turn.reasons), FALSE, 0)
             /\ turn' = [next EXCEPT !.opened = turn.act]
             /\ taken' = Append(taken, turn.act)
     /\ UNCHANGED <<entry, asked, turns, faults, edits>>

(* The suggestion is not repeated to who refused it, nor after a date that  *)
(* has not come yet.                                                       *)
StillSuggested ==
  turn.suggested /\ turn.answer # "no" /\ (turn.awaiting = "DATE" => turn.answer # "future")

(* Mutant: off by one.                                                     *)
ReaskLate ==
  /\ turn.pc = "reask"
  /\ actions' = Reasked(turn.act, turn.awaiting, StillSuggested, 1)
  /\ turn' = IF actions'[turn.act].attempts > MaxRounds THEN [turn EXCEPT !.pc = "giveup"]
             ELSE [turn EXCEPT !.pc = "reply", !.opened = turn.act]
  /\ OnlyActions

(* reask: repeat the question, or give up after MaxRounds.                 *)
Reask ==
  /\ turn.pc = "reask"
  /\ actions' = Reasked(turn.act, turn.awaiting, StillSuggested, 1)
  /\ turn' = IF actions'[turn.act].attempts >= MaxRounds THEN [turn EXCEPT !.pc = "giveup"]
             ELSE [turn EXCEPT !.pc = "reply", !.opened = turn.act]
  /\ OnlyActions

GiveUp ==
  /\ turn.pc = "giveup"
  /\ actions' = Resolved(turn.act, "EXPIRED")
  /\ Go("reply")
  /\ OnlyActions

(* replyToPending, a refusal: the draft is deleted, then the question      *)
(* closed. A draft deleted meanwhile is an error.                          *)
Refuse ==
  LET t == actions[turn.act].tx
  IN /\ turn.pc = "refuse"
     /\ IF Live(entry[t])
        THEN /\ entry' = [entry EXCEPT ![t] = Changed(@, @.reasons, TRUE)]
             /\ turn' = [turn EXCEPT !.pc = "cancel", !.changed = TRUE]
        ELSE turn' = Retried /\ UNCHANGED entry
     /\ UNCHANGED <<actions, asked>> /\ Same

Cancel ==
  /\ turn.pc = "cancel"
  /\ actions' = Resolved(turn.act, "CANCELLED")
  /\ Go("reply")
  /\ OnlyActions

-----------------------------------------------------------------------------
(* The model's tools. A tool that is refused changes nothing and is not an *)
(* action; which rows a tool may name is left open. A receipt may only be   *)
(* registered (receiptTools).                                               *)

MayCreate == turn.pc = "model" /\ turn.tools < MaxTools
MayChange == MayCreate /\ turn.answer # "receipt"

(* createTransaction, one item: committed first, asked about afterwards.   *)
CreateTransaction(t, reasons) ==
  /\ MayCreate
  /\ ~entry[t].there
  /\ entry' = [entry EXCEPT ![t] = [there |-> TRUE, deleted |-> FALSE, reasons |-> reasons, past |-> {}]]
  /\ turn' = [turn EXCEPT !.pc = IF reasons = {} THEN "model" ELSE "open", !.tx = t, !.reasons = reasons,
                          !.ok = @ \/ reasons = {}, !.changed = TRUE, !.tools = @ + 1]
  /\ UNCHANGED <<actions, asked>> /\ Same

AskAboutCreated(suggested) ==
  /\ turn.pc = "open"
  /\ suggested => "category" \in turn.reasons
  /\ actions' = OpenPending(turn.member, turn.tx, AwaitingFor(turn.reasons), suggested)
  /\ turn' = [turn EXCEPT !.pc = "model", !.opened = Len(actions'), !.ok = TRUE]
  /\ OnlyActions

(* completePending: only for the question found at the start of the turn.  *)
CompletePending ==
  /\ MayChange
  /\ turn.act # 0
  /\ Live(Draft)
  /\ turn' = [turn EXCEPT !.pc = "apply", !.viaTool = TRUE, !.tools = @ + 1]
  /\ OnlyTurn

(* updateTransaction, deleteTransaction and undo: the change, whose result  *)
(* goes on to SyncPendingForTx.                                             *)
ChangeByTool(t, reasons, deleted) ==
  LET same == reasons = entry[t].reasons /\ deleted = entry[t].deleted
  IN /\ MayChange
     /\ entry' = IF same THEN entry ELSE [entry EXCEPT ![t] = Changed(@, reasons, deleted)]
     /\ turn' = [turn EXCEPT !.pc = "sync", !.tx = t, !.reasons = reasons, !.deleted = deleted,
                             !.changed = @ \/ ~same, !.tools = @ + 1]
     /\ UNCHANGED <<actions, asked>> /\ Same

UpdateTransaction(t) ==
  Live(entry[t]) /\ \E reasons \in Patched(entry[t].reasons) : ChangeByTool(t, reasons, FALSE)

DeleteTransaction(t) ==
  Live(entry[t]) /\ ChangeByTool(t, entry[t].reasons, TRUE)

Undo(t) ==
  \/ entry[t].there /\ \E was \in entry[t].past : ChangeByTool(t, was.reasons, was.deleted)
  \/ Live(entry[t]) /\ ChangeByTool(t, entry[t].reasons, TRUE)

Sync ==
  /\ turn.pc = "sync"
  /\ actions' = SyncPendingForTx(turn.tx, turn.reasons, turn.deleted)
  /\ turn' = [turn EXCEPT !.pc = "model", !.ok = TRUE]
  /\ OnlyActions

(* runModel: the model answers. When no tool succeeded, an error of one     *)
(* ends the attempt; otherwise the backend asks an open question again.    *)
ModelAnswers ==
  /\ turn.pc = "model"
  /\ \/ Go("reply")
     \/ ~turn.ok /\ turn.broken /\ turn' = Retried
     \/ ~turn.ok /\ ~turn.broken /\ turn.act # 0 /\ Pending(Draft) /\ Go("reask")
  /\ OnlyTurn

-----------------------------------------------------------------------------
(* The reply is sent and remembered as the question it asks: reply and      *)
(* SetPendingQuestion. Either may fail, which is only logged.               *)
Reply ==
  LET message == Len(asked) + 1
  IN /\ turn.pc = "reply"
     /\ turn' = Idle
     /\ \/ /\ IF turn.opened = 0 THEN UNCHANGED <<actions, asked>>
              ELSE /\ asked' = Append(asked, turn.opened)
                   /\ actions' = [actions EXCEPT ![turn.opened] = [@ EXCEPT !.question = message, !.recent = TRUE]]
           /\ UNCHANGED faults
        \/ /\ turn.opened # 0
           /\ faults < MaxFaults /\ faults' = faults + 1
           /\ asked' \in {asked, Append(asked, turn.opened)}
           /\ UNCHANGED actions
     /\ UNCHANGED <<entry, taken, turns, edits>>

(* A statement fails, the model is unreachable, the attempt times out or   *)
(* the process dies; inside a tool, the model may go on without it.        *)
Fault ==
  /\ turn # Idle
  /\ faults < MaxFaults
  /\ faults' = faults + 1
  /\ \/ turn' = Retried
     \/ /\ turn.pc \in {"open", "sync"} \/ (turn.pc = "settle" /\ turn.viaTool)
        /\ turn' = [turn EXCEPT !.pc = "model", !.viaTool = FALSE, !.broken = TRUE]
  /\ UNCHANGED <<entry, actions, asked, taken, turns, edits>>

-----------------------------------------------------------------------------
(* The panel: web/finance.go calls UpdateTransaction, DeleteTransaction and *)
(* RestoreTransaction, and nothing of pending.go.                           *)
PanelChange(t, reasons, deleted) ==
  /\ Panel
  /\ edits < MaxPanel
  /\ edits' = edits + 1
  /\ reasons # entry[t].reasons \/ deleted # entry[t].deleted
  /\ entry' = [entry EXCEPT ![t] = Changed(@, reasons, deleted)]
  /\ UNCHANGED <<actions, asked, taken, turn, turns, faults>>

PatchTransaction(t) ==
  Live(entry[t]) /\ \E reasons \in Patched(entry[t].reasons) : PanelChange(t, reasons, FALSE)

PanelDelete(t) == Live(entry[t]) /\ PanelChange(t, entry[t].reasons, TRUE)

PanelRestore(t) ==
  entry[t].there /\ entry[t].deleted /\ PanelChange(t, entry[t].reasons, FALSE)

(* Ten minutes pass, then two hours (PendingTTL). Only ActivePending looks  *)
(* at the clock, so it need not tick during an attempt.                     *)
GrowsOld(i) ==
  /\ turn = Idle \/ (turn.pc = "find" /\ turn.attempt > 1)
  /\ Open(i)
  /\ \/ actions[i].recent /\ actions' = [actions EXCEPT ![i].recent = FALSE]
     \/ ~actions[i].recent /\ actions[i].valid /\ actions' = [actions EXCEPT ![i].valid = FALSE]
  /\ UNCHANGED <<entry, asked, turn>> /\ Same

-----------------------------------------------------------------------------
TurnStep ==
  \/ ActivePending \/ LookReceipt \/ LookSettled \/ LookPending
  \/ ApplyPending \/ ApplyPendingFails \/ SettlePending
  \/ Reask \/ GiveUp \/ Refuse \/ Cancel
  \/ CompletePending \/ Sync \/ ModelAnswers \/ Reply
  \/ \E suggested \in BOOLEAN : AskAboutCreated(suggested)
  \/ \E t \in Txs : \/ \E reasons \in Doubts : CreateTransaction(t, reasons)
                    \/ UpdateTransaction(t) \/ DeleteTransaction(t) \/ Undo(t)

Next ==
  \/ \E m \in Members, answer \in Answers, quoted \in 0..Len(asked) : Receive(m, answer, quoted)
  \/ TurnStep
  \/ Fault
  \/ \E t \in Txs : PatchTransaction(t) \/ PanelDelete(t) \/ PanelRestore(t)
  \/ \E i \in DOMAIN actions : GrowsOld(i)

Spec == Init /\ [][Next]_vars

-----------------------------------------------------------------------------
(* Properties.                                                             *)

Awaited == {"CATEGORY", "DATE", "CONFIRM", "CONFIRM_DUPLICATE"}

TypeOK ==
  /\ \A t \in Txs : entry[t].reasons \in SUBSET Reasons /\ entry[t].deleted \in BOOLEAN
  /\ \A i \in DOMAIN actions :
       /\ actions[i].member \in Members /\ actions[i].tx \in Txs
       /\ actions[i].awaiting \in Awaited
       /\ actions[i].status \in {"OPEN", "EXECUTED", "CANCELLED", "EXPIRED", "SUPERSEDED"}
       /\ actions[i].question \in 0..Len(asked)
  /\ \A q \in DOMAIN asked : asked[q] \in DOMAIN actions
  /\ turn # Idle => turn.act \in 0..Len(actions) /\ turn.opened \in 0..Len(actions)

(* A member has at most one open question, so that "sim" is unambiguous,    *)
(* through retries, tools that ask several times and turns cut short.       *)
(* (pending.go 95-97, 003_finance_pending_actions.sql 31)                   *)
OneOpenQuestion ==
  \A i, j \in DOMAIN actions :
    Open(i) /\ Open(j) /\ actions[i].member = actions[j].member => i = j

(* A question that was answered, cancelled, superseded or given up is never *)
(* answered again, also when a tool works on it after a newer one replaced  *)
(* it. (resolvePending, pending.go 143-147)                                 *)
SettledIsFinal ==
  [][\A i \in DOMAIN actions : ~Open(i) => actions'[i].status = actions[i].status]_actions

(* The backend acts on its own only on an answer to a question that is open *)
(* and not overdue, also when an earlier attempt of the same message closed *)
(* it. ("Pergunta vencida nao e confirmada depois", ARCHITECTURE.md)        *)
AnswersReachOpenQuestions ==
  turn.pc \in {"apply", "refuse", "reask"} /\ ~turn.viaTool /\ ~turn.ok =>
    Open(turn.act) /\ actions[turn.act].valid

Count(s, i) == Cardinality({q \in DOMAIN s : s[q] = i})

(* A question is asked MaxRounds times at most, and once more for every     *)
(* answer to it that was taken and left doubts behind, through tools that   *)
(* ask in between, attempts run again, lost replies and a failed closing.   *)
(* (reask, pending.go 396-424)                                              *)
GivesUp ==
  \A i \in DOMAIN actions : Count(asked, i) <= MaxRounds + Count(taken, i)

(* Between messages, an open question is about a live draft and asks for    *)
(* what this draft lacks first. (SyncPendingForTx, pending.go 167-169: "a   *)
(* transaction changed by any path (a tool, the panel)")                    *)
QuestionMatchesDraft ==
  turn = Idle => \A i \in DOMAIN actions : Open(i) =>
    LET e == entry[actions[i].tx]
    IN Pending(e) /\ actions[i].awaiting = AwaitingFor(e.reasons)

-----------------------------------------------------------------------------
(* What the documentation says and the code does not do.                   *)

(* "giving up after a few unresolved rounds so the conversation never loops" *)
(* (pending.go 397-398): a question is asked MaxRounds times at most.        *)
NeverLoops == \A i \in DOMAIN actions : Count(asked, i) <= MaxRounds

=============================================================================
