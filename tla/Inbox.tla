------------------------------- MODULE Inbox --------------------------------
(***************************************************************************)
(* The finance inbox: backend/finance/inbox.go.                            *)
(*                                                                         *)
(* WhatsApp delivers a message to Accept, which stores it as a row of      *)
(* finance_inbox.  One worker goroutine per workspace drains the rows of   *)
(* its workspace in id order: it reads the head, claims it, asks whether   *)
(* the message already changed the ledger, runs the agent, replies to the  *)
(* group and closes the attempt.  The process may crash between any two of *)
(* these steps; the row survives, the goroutines, the pending wake-ups and *)
(* the group map do not.  Recover releases the rows a crash left           *)
(* PROCESSING.                                                             *)
(*                                                                         *)
(* A message of Messages is one that passes the filters of Accept (linked  *)
(* group, after the link, not an edit, not the bot's own).  It is          *)
(* identified by the unique key (chat, sender, WhatsApp id), so a row of   *)
(* the table is its message and a redelivery finds the row already there.  *)
(*                                                                         *)
(* Clocks are abstracted to two facts per row: `deferred` (next_attempt_at *)
(* is in the future) and `stale` (processing_at is older than StaleAfter). *)
(***************************************************************************)
EXTENDS Naturals, FiniteSets

CONSTANTS
  Workspaces,
  Messages,
  Home,          \* the workspace a message belongs to
  NoMessage,
  MaxAttempts,   \* the source's MaxAttempts (3)
  Faults,        \* the calls to the database or to WhatsApp that may fail
  MaxFaults,     \* bound: how many of them fail in a behaviour
  MaxCrashes,    \* bound: how many times the process dies
  Timely         \* the handler stops within ProcessTimeout < StaleAfter

FaultPoints ==
  {"refresh", "accept_lost", "recover", "recover_lost", "wake_pending", "head", "claim", "check", "send", "finish"}

ASSUME InboxAssumption ==
  /\ Home \in [Messages -> Workspaces]
  /\ NoMessage \notin Messages
  /\ MaxAttempts \in Nat \ {0}
  /\ Faults \subseteq FaultPoints
  /\ MaxFaults \in Nat
  /\ MaxCrashes \in Nat
  /\ Timely \in BOOLEAN

VARIABLES
  (* The table finance_inbox, and what a message did to the ledger.        *)
  id,         \* row id (BIGSERIAL), 0 while there is no row
  nextId,
  status,     \* "absent" while there is no row
  attempts,
  deferred,   \* next_attempt_at lies in the future
  stale,      \* processing_at is older than StaleAfter
  applied,    \* the attempts that committed ledger rows of this message
  (* The group chat.                                                       *)
  answered,   \* the attempts whose answer or explanation reached the group
  noticed,    \* <<message, outcome>>: its "could not process, send it again" was delivered
  (* The process.                                                          *)
  phase,
  worker,     \* what the goroutine of a workspace is about to do
  cur,        \* the message it holds
  outcome,    \* how its handler ended
  token,      \* its buffered wake-up channel is full
  toWake,     \* workspaces some goroutine is about to wake
  sweep,      \* rows the second statement of a running Recover will release
  wakeLost,   \* a call has failed after which a PENDING row may have no wake-up
  (* Bounds.                                                               *)
  faults,
  crashes

rowVars == <<id, nextId, status, attempts, deferred, stale>>
chatVars == <<answered, noticed>>
workerVars == <<worker, cur, outcome, token>>
boundVars == <<wakeLost, faults, crashes>>
vars == <<rowVars, applied, chatVars, phase, workerVars, toWake, sweep, boundVars>>

Live == {"PENDING", "PROCESSING"}
Terminal == {"DONE", "FAILED"}
Phases == {"down", "loading", "disabled", "linked", "started", "recovered", "serving"}
Stages == {"none", "head", "parked", "timed", "claim", "check", "handle", "reply", "finish"}

(* "unknown": whether the message had been applied could not be found out.  *)
Transient == {"error", "timeout", "unknown"}
Outcomes == {"none", "answer", "silent", "permanent"} \cup Transient

(* Stages in which the worker runs `process` on the row it claimed.        *)
InProcess == {"check", "handle", "reply", "finish"}

(* Mutant: ProcessTimeout longer than StaleAfter, live rows look abandoned. *)
HoldsUnnoticed(m) == FALSE

Holds(m) == \E w \in Workspaces : worker[w] \in InProcess /\ cur[w] = m

(* The groups are loaded, so the router hands group messages to Accept.    *)
Linked == phase \in {"linked", "started", "recovered", "serving"}

(* ing.started                                                             *)
Started == phase \in {"started", "recovered", "serving"}

(* The groups or the PENDING rows were not read at start, or a statement    *)
(* that makes rows PENDING was committed and its answer lost.              *)
Unheard == {"refresh", "wake_pending", "accept_lost", "recover_lost"}

(* Some call fails now; the bound is on how many do.                       *)
Fail(point) ==
  /\ point \in Faults
  /\ faults < MaxFaults
  /\ faults' = faults + 1
  /\ wakeLost' = (wakeLost \/ point \in Unheard)
  /\ UNCHANGED crashes

NoFault == UNCHANGED boundVars

Init ==
  /\ id = [m \in Messages |-> 0]
  /\ nextId = 1
  /\ status = [m \in Messages |-> "absent"]
  /\ attempts = [m \in Messages |-> 0]
  /\ deferred = [m \in Messages |-> FALSE]
  /\ stale = [m \in Messages |-> FALSE]
  /\ applied = [m \in Messages |-> {}]
  /\ answered = [m \in Messages |-> {}]
  /\ noticed = {}
  /\ phase = "down"
  /\ worker = [w \in Workspaces |-> "none"]
  /\ cur = [w \in Workspaces |-> NoMessage]
  /\ outcome = [w \in Workspaces |-> "none"]
  /\ token = [w \in Workspaces |-> FALSE]
  /\ toWake = {}
  /\ sweep = {}
  /\ wakeLost = FALSE
  /\ faults = 0
  /\ crashes = 0

-----------------------------------------------------------------------------
(* Process start and crash.                                                *)

(* The supervisor starts the process; startFinance waits for the finance   *)
(* migration and calls Ingestor.Start.                                     *)
Boot ==
  /\ phase = "down"
  /\ phase' = "loading"
  /\ UNCHANGED <<rowVars, applied, chatVars, workerVars, toWake, sweep, boundVars>>

(* Start: RefreshGroups; on error Start returns and this process never     *)
(* serves finance.                                                         *)
RefreshGroups ==
  /\ phase = "loading"
  /\ \/ NoFault /\ phase' = "linked"
     \/ Fail("refresh") /\ phase' = "disabled"
  /\ UNCHANGED <<rowVars, applied, chatVars, workerVars, toWake, sweep>>

MarkStarted ==
  /\ phase = "linked"
  /\ phase' = "started"
  /\ UNCHANGED <<rowVars, applied, chatVars, workerVars, toWake, sweep, boundVars>>

(* Everything in memory is lost; a statement not yet committed never is.   *)
Crash ==
  /\ phase # "down"
  /\ crashes < MaxCrashes
  /\ crashes' = crashes + 1
  /\ phase' = "down"
  /\ worker' = [w \in Workspaces |-> "none"]
  /\ cur' = [w \in Workspaces |-> NoMessage]
  /\ outcome' = [w \in Workspaces |-> "none"]
  /\ token' = [w \in Workspaces |-> FALSE]
  /\ toWake' = {}
  /\ sweep' = {}
  /\ UNCHANGED <<rowVars, applied, chatVars, wakeLost, faults>>

(* Start: wakePending selects the workspaces with PENDING rows. A failed   *)
(* query is only logged.                                                   *)
WakePending ==
  /\ phase = "recovered"
  /\ phase' = "serving"
  /\ \/ /\ NoFault
        /\ toWake' = toWake \cup {Home[m] : m \in {n \in Messages : status[n] = "PENDING"}}
     \/ Fail("wake_pending") /\ UNCHANGED toWake
  /\ UNCHANGED <<rowVars, applied, chatVars, workerVars, sweep>>

-----------------------------------------------------------------------------
(* Accept and wake.                                                        *)

(* Accept: the row is inserted unless the unique key is there already (a   *)
(* redelivered event changes nothing), and the workspace is to be woken.   *)
(* An INSERT that fails leaves nothing and the message is dropped; one that *)
(* commits but whose answer is lost leaves a row and wakes nobody.         *)
Accept(m) ==
  /\ Linked
  /\ status[m] = "absent"
  /\ id' = [id EXCEPT ![m] = nextId]
  /\ nextId' = nextId + 1
  /\ status' = [status EXCEPT ![m] = "PENDING"]
  /\ \/ NoFault /\ toWake' = toWake \cup {Home[m]}
     \/ Fail("accept_lost") /\ UNCHANGED toWake
  /\ UNCHANGED <<attempts, deferred, stale, applied, chatVars, phase, workerVars, sweep>>

(* wake: before Start set `started` it does nothing; it creates the worker *)
(* the first time; the send is lost only when a wake-up is already queued. *)
Wake(w) ==
  /\ w \in toWake
  /\ toWake' = toWake \ {w}
  /\ IF Started
     THEN /\ token' = [token EXCEPT ![w] = TRUE]
          /\ worker' = IF worker[w] = "none" THEN [worker EXCEPT ![w] = "head"] ELSE worker
     ELSE UNCHANGED <<token, worker>>
  /\ UNCHANGED <<rowVars, applied, chatVars, phase, cur, outcome, sweep, boundVars>>

-----------------------------------------------------------------------------
(* The worker: runWorker, Drain and process.                               *)

(* Mutant: the head query forgets rows left PROCESSING.                    *)
LiveRowsPendingOnly(w) == {m \in Messages : Home[m] = w /\ status[m] = "PENDING"}

LiveRows(w) == {m \in Messages : Home[m] = w /\ status[m] \in Live}

IsHead(m) ==
  /\ status[m] \in Live
  /\ \A n \in LiveRows(Home[m]) : id[m] <= id[n]

(* Drain's query for the head of the queue.                                *)
ReadHead(w) ==
  /\ worker[w] = "head"
  /\ \/ /\ NoFault
        /\ LiveRows(w) = {}
        /\ worker' = [worker EXCEPT ![w] = "parked"]
        /\ UNCHANGED cur
     \/ \E m \in LiveRows(w) :
          /\ NoFault
          /\ IsHead(m)
          /\ IF status[m] = "PROCESSING" \/ deferred[m]
             THEN worker' = [worker EXCEPT ![w] = "timed"] /\ UNCHANGED cur
             ELSE worker' = [worker EXCEPT ![w] = "claim"] /\ cur' = [cur EXCEPT ![w] = m]
     \/ Fail("head") /\ worker' = [worker EXCEPT ![w] = "timed"] /\ UNCHANGED cur
  /\ UNCHANGED <<rowVars, applied, chatVars, phase, outcome, token, toWake, sweep>>

(* runWorker: a parked worker only listens to its channel, a timed one     *)
(* also to a timer.                                                        *)
TakeToken(w) ==
  /\ worker[w] \in {"parked", "timed"}
  /\ token[w]
  /\ token' = [token EXCEPT ![w] = FALSE]
  /\ worker' = [worker EXCEPT ![w] = "head"]
  /\ UNCHANGED <<rowVars, applied, chatVars, phase, cur, outcome, toWake, sweep, boundVars>>

TimerFires(w) ==
  /\ worker[w] = "timed"
  /\ worker' = [worker EXCEPT ![w] = "head"]
  /\ UNCHANGED <<rowVars, applied, chatVars, phase, cur, outcome, token, toWake, sweep, boundVars>>

(* claimInbox. ClaimNeverMisses says why its ErrNoRows branch is missing.  *)
(* When the call fails the UPDATE may or may not have been committed.      *)
ClaimInbox(w) ==
  LET m == cur[w]
      Committed ==
        /\ status[m] = "PENDING"
        /\ status' = [status EXCEPT ![m] = "PROCESSING"]
        /\ attempts' = [attempts EXCEPT ![m] = @ + 1]
        /\ stale' = [stale EXCEPT ![m] = FALSE]
  IN /\ worker[w] = "claim"
     /\ \/ /\ NoFault
           /\ Committed
           /\ worker' = [worker EXCEPT ![w] = "check"]
           /\ UNCHANGED cur
        \/ /\ Fail("claim")
           /\ Committed \/ UNCHANGED <<status, attempts, stale>>
           /\ worker' = [worker EXCEPT ![w] = "timed"]
           /\ cur' = [cur EXCEPT ![w] = NoMessage]
     /\ UNCHANGED <<id, nextId, deferred, applied, chatVars, phase, outcome, token, toWake, sweep>>

(* Mutant: the replay check is missing.                                    *)
AlreadyAppliedUnasked(w) ==
  /\ worker[w] = "check"
  /\ worker' = [worker EXCEPT ![w] = "handle"]
  /\ UNCHANGED <<rowVars, applied, chatVars, phase, cur, outcome, token, toWake, sweep, boundVars>>

(* Mutant: a replayed message is answered again.                           *)
AlreadyAppliedAnswers(w) ==
  /\ worker[w] = "check"
  /\ NoFault
  /\ outcome' = [outcome EXCEPT ![w] = IF applied[cur[w]] # {} THEN "answer" ELSE "none"]
  /\ worker' = [worker EXCEPT ![w] = IF applied[cur[w]] # {} THEN "reply" ELSE "handle"]
  /\ UNCHANGED <<rowVars, applied, chatVars, phase, cur, token, toWake, sweep>>

(* alreadyApplied: a message whose changes are in the ledger is not        *)
(* handled again; it ends DONE without a reply.                            *)
AlreadyApplied(w) ==
  /\ worker[w] = "check"
  /\ \/ /\ NoFault
        /\ IF applied[cur[w]] # {}
           THEN /\ worker' = [worker EXCEPT ![w] = "finish"]
                /\ outcome' = [outcome EXCEPT ![w] = "silent"]
           ELSE worker' = [worker EXCEPT ![w] = "handle"] /\ UNCHANGED outcome
     \/ /\ Fail("check")
        /\ worker' = [worker EXCEPT ![w] = "reply"]
        /\ outcome' = [outcome EXCEPT ![w] = "unknown"]
  /\ UNCHANGED <<rowVars, applied, chatVars, phase, cur, token, toWake, sweep>>

(* A tool of the agent, or the answer to an open question, commits ledger  *)
(* rows with this message as their source. Several may, in one attempt.    *)
LedgerCommit(w) ==
  /\ worker[w] = "handle"
  /\ attempts[cur[w]] \notin applied[cur[w]]
  /\ applied' = [applied EXCEPT ![cur[w]] = @ \cup {attempts[cur[w]]}]
  /\ UNCHANGED <<rowVars, chatVars, phase, workerVars, toWake, sweep, boundVars>>

(* Agent.Handle returns: an answer, nothing to say, a permanent error      *)
(* (raised before any tool runs), an error (a panic too), or the           *)
(* expiration of the attempt's context.                                    *)
HandleReturns(w) ==
  /\ worker[w] = "handle"
  /\ \E o \in {"answer", "silent", "permanent", "error", "timeout"} :
       /\ o = "permanent" => attempts[cur[w]] \notin applied[cur[w]]
       /\ outcome' = [outcome EXCEPT ![w] = o]
       /\ worker' = [worker EXCEPT ![w] = IF o = "silent" THEN "finish" ELSE "reply"]
  /\ UNCHANGED <<rowVars, applied, chatVars, phase, cur, token, toWake, sweep, boundVars>>

(* Mutant: off by one.                                                     *)
LastAttemptLate(m) == attempts[m] > MaxAttempts

LastAttempt(m) == attempts[m] >= MaxAttempts

(* process: an answer or an explanation is sent; a transient error is      *)
(* announced only by the last attempt. reply uses the attempt's own        *)
(* context: after a timeout it cannot send. A failed send is only logged.  *)
Reply(w) ==
  LET m == cur[w]
      speaks == outcome[w] \in {"answer", "permanent"}
      notice == outcome[w] \in {"error", "unknown"} /\ LastAttempt(m)
  IN /\ worker[w] = "reply"
     /\ \/ /\ NoFault
           /\ answered' = IF speaks THEN [answered EXCEPT ![m] = @ \cup {attempts[m]}] ELSE answered
           /\ noticed' = IF notice THEN noticed \cup {<<m, outcome[w]>>} ELSE noticed
        \/ /\ speaks \/ notice
           /\ Fail("send")
           /\ UNCHANGED chatVars
     /\ worker' = [worker EXCEPT ![w] = "finish"]
     /\ UNCHANGED <<rowVars, applied, phase, cur, outcome, token, toWake, sweep>>

(* finishInbox, unconditional; when the UPDATE fails the error is logged   *)
(* and the row stays as it is (if only its answer is lost, nobody notices). *)
Finish(w) ==
  LET m == cur[w]
      retry == outcome[w] \in Transient /\ ~LastAttempt(m)
      closing == IF outcome[w] \in {"answer", "silent"} THEN "DONE" ELSE "FAILED"
  IN /\ worker[w] = "finish"
     /\ \/ /\ NoFault
           /\ status' = [status EXCEPT ![m] = IF retry THEN "PENDING" ELSE closing]
           /\ deferred' = [deferred EXCEPT ![m] = retry]
           /\ stale' = [stale EXCEPT ![m] = FALSE]
        \/ Fail("finish") /\ UNCHANGED <<status, deferred, stale>>
     /\ worker' = [worker EXCEPT ![w] = "head"]
     /\ cur' = [cur EXCEPT ![w] = NoMessage]
     /\ outcome' = [outcome EXCEPT ![w] = "none"]
     /\ UNCHANGED <<id, nextId, attempts, applied, chatVars, phase, token, toWake, sweep>>

-----------------------------------------------------------------------------
(* Recover: two statements with one cutoff. It runs in Start and then on a *)
(* ticker; the two never overlap.                                          *)

StaleRows == {m \in Messages : status[m] = "PROCESSING" /\ stale[m]}

(* A failed statement may have been committed; the second is then left to  *)
(* the next Recover.                                                       *)
RecoverApplied ==
  LET done == {m \in StaleRows : applied[m] # {}}
      Committed ==
        /\ status' = [m \in Messages |-> IF m \in done THEN "DONE" ELSE status[m]]
        /\ stale' = [m \in Messages |-> stale[m] /\ m \notin done]
  IN /\ sweep = {}
     /\ phase = "started" \/ (phase = "serving" /\ StaleRows # {})
     /\ \/ NoFault /\ Committed /\ sweep' = StaleRows \ done
        \/ /\ Fail("recover")
           /\ Committed \/ UNCHANGED <<status, stale>>
           /\ UNCHANGED sweep
     /\ phase' = IF phase = "started" /\ sweep' = {} THEN "recovered" ELSE phase
     /\ UNCHANGED <<id, nextId, attempts, deferred, applied, chatVars, workerVars, toWake>>

(* Mutant: released rows are not followed by a wake-up.                    *)
RecoverRestUnwoken ==
  /\ sweep # {}
  /\ LET released == sweep \cap StaleRows
     IN /\ status' = [m \in Messages |->
             IF m \notin released THEN status[m]
             ELSE IF LastAttempt(m) THEN "FAILED" ELSE "PENDING"]
        /\ stale' = [m \in Messages |-> stale[m] /\ m \notin released]
  /\ sweep' = {}
  /\ phase' = IF phase = "started" THEN "recovered" ELSE phase
  /\ UNCHANGED <<id, nextId, attempts, deferred, applied, chatVars, workerVars, toWake, boundVars>>

(* When its answer is lost, in whole or in part, the rows are released and  *)
(* only the workspaces read so far are woken.                              *)
RecoverRest ==
  LET released == sweep \cap StaleRows
      homes == {Home[m] : m \in released}
      Committed ==
        /\ status' = [m \in Messages |->
             IF m \notin released THEN status[m]
             ELSE IF LastAttempt(m) THEN "FAILED" ELSE "PENDING"]
        /\ stale' = [m \in Messages |-> stale[m] /\ m \notin released]
        /\ deferred' = [m \in Messages |-> deferred[m] /\ m \notin released]
  IN /\ sweep # {}
     /\ \/ NoFault /\ Committed /\ toWake' = toWake \cup homes
        \/ Fail("recover") /\ UNCHANGED <<status, stale, deferred, toWake>>
        \/ /\ Fail("recover_lost")
           /\ Committed
           /\ \E told \in SUBSET homes : toWake' = toWake \cup told
     /\ sweep' = {}
     /\ phase' = IF phase = "started" THEN "recovered" ELSE phase
     /\ UNCHANGED <<id, nextId, attempts, applied, chatVars, workerVars>>

-----------------------------------------------------------------------------
(* Time.                                                                   *)

BackoffElapses(m) ==
  /\ deferred[m]
  /\ deferred' = [deferred EXCEPT ![m] = FALSE]
  /\ UNCHANGED <<id, nextId, status, attempts, stale, applied, chatVars, phase, workerVars, toWake, sweep, boundVars>>

(* A claimed row becomes old. ProcessTimeout (2 min) ends an attempt before *)
(* StaleAfter (3 min): when the handler is Timely, only a row nobody works  *)
(* on gets there.                                                           *)
GrowsStale(m) ==
  /\ status[m] = "PROCESSING"
  /\ ~stale[m]
  /\ Timely => ~Holds(m)
  /\ stale' = [stale EXCEPT ![m] = TRUE]
  /\ UNCHANGED <<id, nextId, status, attempts, deferred, applied, chatVars, phase, workerVars, toWake, sweep, boundVars>>

-----------------------------------------------------------------------------
WorkerStep(w) ==
  \/ ReadHead(w) \/ TakeToken(w) \/ TimerFires(w) \/ ClaimInbox(w)
  \/ AlreadyApplied(w) \/ LedgerCommit(w) \/ HandleReturns(w)
  \/ Reply(w) \/ Finish(w)

Startup == Boot \/ RefreshGroups \/ MarkStarted \/ WakePending

Next ==
  \/ Boot \/ RefreshGroups \/ MarkStarted \/ WakePending
  \/ Crash
  \/ RecoverApplied \/ RecoverRest
  \/ \E m \in Messages : Accept(m) \/ BackoffElapses(m) \/ GrowsStale(m)
  \/ \E w \in Workspaces : Wake(w) \/ WorkerStep(w)

Spec == Init /\ [][Next]_vars

(* What the runtime gives: the supervisor restarts the process (compose:   *)
(* restart: always), goroutines and tickers are scheduled, clocks  *)
(* advance. Deliveries, faults and crashes are owed to nobody.             *)
Environment ==
  /\ WF_vars(Startup)
  /\ WF_vars(RecoverApplied)
  /\ WF_vars(RecoverRest)
  /\ \A m \in Messages : WF_vars(BackoffElapses(m)) /\ WF_vars(GrowsStale(m))
  /\ \A w \in Workspaces : WF_vars(Wake(w))

FairSpec == Spec /\ Environment /\ \A w \in Workspaces : WF_vars(WorkerStep(w))

-----------------------------------------------------------------------------
(* Properties.                                                             *)

TypeOK ==
  /\ id \in [Messages -> Nat]
  /\ nextId \in Nat \ {0}
  /\ status \in [Messages -> {"absent"} \cup Live \cup Terminal]
  /\ attempts \in [Messages -> 0..MaxAttempts]
  /\ deferred \in [Messages -> BOOLEAN]
  /\ stale \in [Messages -> BOOLEAN]
  /\ applied \in [Messages -> SUBSET (1..MaxAttempts)]
  /\ answered \in [Messages -> SUBSET (1..MaxAttempts)]
  /\ noticed \in SUBSET (Messages \X Transient)
  /\ phase \in Phases
  /\ worker \in [Workspaces -> Stages]
  /\ cur \in [Workspaces -> Messages \cup {NoMessage}]
  /\ outcome \in [Workspaces -> Outcomes]
  /\ token \in [Workspaces -> BOOLEAN]
  /\ toWake \in SUBSET Workspaces
  /\ sweep \in SUBSET Messages
  /\ wakeLost \in BOOLEAN
  /\ faults \in 0..MaxFaults
  /\ crashes \in 0..MaxCrashes

(* However often a message is delivered, retried, recovered or replayed    *)
(* after a crash, the ledger rows it produced come from one attempt.       *)
(* (inbox.go 336-343, 446-448; README: "processada uma unica vez")         *)
AppliedOnce ==
  \A m \in Messages : \A a, b \in applied[m] : a = b

(* "gastei 50" is always handled before "na verdade foi 60": no message is *)
(* attempted, even once, while an earlier one of its workspace is not      *)
(* closed. (inbox.go 80-82)                                                *)
InOrder ==
  \A m, n \in Messages :
    /\ Home[m] = Home[n]
    /\ id[m] # 0
    /\ id[m] < id[n]
    /\ attempts[n] > 0
    => status[m] \in Terminal

(* The worker is the only one who takes PENDING rows of its workspace:     *)
(* between reading the head and claiming it nobody moves it, so Drain's    *)
(* retry after a missed claim (301) is never needed.                       *)
ClaimNeverMisses ==
  \A w \in Workspaces : worker[w] = "claim" => status[cur[w]] = "PENDING"

(* Once the ledger has a message's changes no later attempt answers it, and *)
(* none that found out asks for the message again: that notice comes from   *)
(* the attempt that made the changes and then failed (AppliedIsNotRefused)  *)
(* or from one that could not ask the ledger. The replay is closed          *)
(* silently. (inbox.go 355-359)                                            *)
SilentReplay ==
  \A m \in Messages :
    /\ \A a \in answered[m], b \in applied[m] : a <= b
    /\ <<m, "error">> \in noticed => applied[m] \subseteq {MaxAttempts}

(* DONE and FAILED are final, whatever Recover and a worker do at the same *)
(* time; this one needs ProcessTimeout < StaleAfter. (inbox.go 71-73, 97)  *)
TerminalIsFinal ==
  [][\A m \in Messages : status[m] \in Terminal => status'[m] = status[m]]_status

(* The inbox implements the ordered queue that applies each message once.  *)
Q == INSTANCE OrderedQueue WITH
       rank <- id,
       next <- nextId,
       place <- [m \in Messages |->
                   IF status[m] = "absent" THEN "outside"
                   ELSE IF status[m] \in Live THEN "queued" ELSE "closed"],
       Runs <- 1..MaxAttempts

QueueSpec == Q!Spec

(* Every accepted message is eventually closed, through crashes, failed    *)
(* calls and lost claims, without any other message arriving to wake its   *)
(* workspace - unless one of four calls has failed: the two queries of Start *)
(* (Unheard), and the INSERT of Accept and the UPDATE of Recover when they   *)
(* commit and their answer is lost, after which nobody is woken for the row. *)
(* (inbox.go 101-102, 446-448)                                             *)
EventuallyClosed ==
  \A m \in Messages : status[m] = "PENDING" ~> status[m] \in Terminal \/ wakeLost

-----------------------------------------------------------------------------
(* What the documentation says and the code does not do.                   *)

(* docs/finance/ARCHITECTURE.md:79, "Processo morreu depois de gravar ...  *)
(* existe transacao ou evento com source_inbox_id? entao DONE", and :67: a *)
(* message that changed the ledger never ends FAILED, with its author      *)
(* asked to send it again.                                                 *)
AppliedIsNotRefused ==
  \A m \in Messages : applied[m] # {} => status[m] # "FAILED" /\ \A n \in noticed : n[1] # m
=============================================================================
