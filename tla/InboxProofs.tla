---------------------------- MODULE InboxProofs -----------------------------
(***************************************************************************)
(* Proofs about Inbox, for any sets of workspaces and messages, any bound  *)
(* on attempts, faults and crashes, and whether or not the handler is      *)
(* Timely.                                                                 *)
(*                                                                         *)
(* None of the invariants TLC checks is inductive. What carries them is    *)
(* the link between a worker and the row it holds: the row is its own      *)
(* workspace's, it was the head of the queue when it was claimed, nobody   *)
(* behind it has been attempted, and while the agent runs the ledger has   *)
(* rows of this attempt only.                                              *)
(***************************************************************************)
EXTENDS Inbox, TLAPS

Holding == {"claim"} \cup InProcess

(* The rows themselves.                                                    *)
RowInv ==
  \A m \in Messages :
    /\ status[m] = "absent" <=> id[m] = 0
    /\ id[m] < nextId
    /\ id[m] = 0 => attempts[m] = 0
    /\ status[m] = "PENDING" => attempts[m] < MaxAttempts
    /\ \A a \in applied[m] \cup answered[m] : a <= attempts[m]
    /\ <<m, "error">> \in noticed => attempts[m] = MaxAttempts

(* A worker and the row it holds.                                          *)
HoldInv ==
  \A w \in Workspaces :
    worker[w] \in Holding =>
      /\ cur[w] \in Messages
      /\ Home[cur[w]] = w
      /\ id[cur[w]] # 0
      /\ worker[w] = "claim" => status[cur[w]] = "PENDING"
      /\ worker[w] \in InProcess => attempts[cur[w]] > 0

(* How an attempt ends that asked the ledger first.                        *)
Asked == {"answer", "permanent", "error"}

(* While the agent runs, the ledger has rows of this attempt only; the     *)
(* same holds when the attempt is about to tell the group how it ended.    *)
ApplyInv ==
  \A w \in Workspaces :
    (worker[w] = "handle" \/ (worker[w] = "reply" /\ outcome[w] \in Asked))
      => applied[cur[w]] \subseteq {attempts[cur[w]]}

(* A held row has only closed rows before it and untouched ones behind.    *)
HeadInv ==
  \A w \in Workspaces : \A n \in Messages :
    worker[w] \in Holding /\ Home[n] = w =>
      /\ id[cur[w]] < id[n] => attempts[n] = 0
      /\ id[n] # 0 /\ id[n] < id[cur[w]] => status[n] \in Terminal

Inv ==
  /\ TypeOK
  /\ RowInv
  /\ HoldInv
  /\ ApplyInv
  /\ HeadInv
  /\ InOrder
  /\ AppliedOnce
  /\ SilentReplay

LEMMA InitInv == Init => Inv
<1> SUFFICES ASSUME Init PROVE Inv
  OBVIOUS
<1>1. TypeOK
  <2>1. noticed \in SUBSET (Messages \X Transient)
    BY DEF Init
  <2>2. /\ id \in [Messages -> Nat] /\ nextId \in Nat \ {0}
        /\ status \in [Messages -> {"absent"} \cup Live \cup Terminal]
        /\ attempts \in [Messages -> 0..MaxAttempts]
        /\ deferred \in [Messages -> BOOLEAN] /\ stale \in [Messages -> BOOLEAN]
        /\ applied \in [Messages -> SUBSET (1..MaxAttempts)]
        /\ answered \in [Messages -> SUBSET (1..MaxAttempts)]
    BY InboxAssumption DEF Init
  <2>3. /\ phase \in Phases /\ worker \in [Workspaces -> Stages]
        /\ cur \in [Workspaces -> Messages \cup {NoMessage}]
        /\ outcome \in [Workspaces -> Outcomes] /\ token \in [Workspaces -> BOOLEAN]
    BY DEF Init, Phases, Stages, Outcomes
  <2>4. toWake \in SUBSET Workspaces /\ sweep \in SUBSET Messages /\ wakeLost \in BOOLEAN
    BY Zenon DEF Init
  <2>5. faults \in 0..MaxFaults /\ crashes \in 0..MaxCrashes
    BY InboxAssumption DEF Init
  <2> QED
    BY <2>1, <2>2, <2>3, <2>4, <2>5 DEF TypeOK
<1>2. RowInv /\ InOrder /\ AppliedOnce /\ SilentReplay
  BY InboxAssumption DEF Init, RowInv, InOrder, AppliedOnce, SilentReplay
<1>3. HoldInv /\ ApplyInv /\ HeadInv
  BY DEF Init, HoldInv, ApplyInv, HeadInv, Holding, InProcess
<1> QED
  BY <1>1, <1>2, <1>3 DEF Inv

(* Steps that touch neither the rows nor what a worker holds.              *)
LEMMA QuietInv ==
  ASSUME Inv,
         UNCHANGED <<rowVars, applied, chatVars, worker, cur, outcome>>,
         token' \in [Workspaces -> BOOLEAN], toWake' \in SUBSET Workspaces,
         sweep' \in SUBSET Messages, phase' \in Phases,
         wakeLost' \in BOOLEAN, faults' \in 0..MaxFaults, crashes' \in 0..MaxCrashes
  PROVE  Inv'
BY DEF Inv, TypeOK, RowInv, HoldInv, ApplyInv, HeadInv, InOrder, AppliedOnce, SilentReplay,
    rowVars, chatVars

LEMMA FaultType ==
  ASSUME Inv, NEW p, Fail(p) \/ NoFault
  PROVE  wakeLost' \in BOOLEAN /\ faults' \in 0..MaxFaults /\ crashes' \in 0..MaxCrashes
<1>1. wakeLost \in BOOLEAN /\ faults \in 0..MaxFaults /\ crashes \in 0..MaxCrashes
  BY DEF Inv, TypeOK
<1>2. wakeLost' \in BOOLEAN
  BY <1>1, Zenon DEF Fail, NoFault, boundVars
<1>3. faults' \in 0..MaxFaults /\ crashes' \in 0..MaxCrashes
  BY <1>1, InboxAssumption DEF Fail, NoFault, boundVars
<1> QED
  BY <1>2, <1>3

LEMMA BootInv == Inv /\ Boot => Inv'
BY QuietInv DEF Inv, TypeOK, Boot, workerVars, boundVars, Phases

LEMMA RefreshInv == Inv /\ RefreshGroups => Inv'
BY QuietInv, FaultType DEF Inv, TypeOK, RefreshGroups, workerVars, Phases

LEMMA StartedInv == Inv /\ MarkStarted => Inv'
BY QuietInv DEF Inv, TypeOK, MarkStarted, workerVars, boundVars, Phases

LEMMA WakePendingInv == Inv /\ WakePending => Inv'
<1>1. SUFFICES ASSUME Inv, WakePending PROVE Inv'
  OBVIOUS
<1>2. toWake' \in SUBSET Workspaces
  BY <1>1, InboxAssumption DEF WakePending, Inv, TypeOK
<1>3. wakeLost' \in BOOLEAN /\ faults' \in 0..MaxFaults /\ crashes' \in 0..MaxCrashes
  BY <1>1, FaultType DEF WakePending
<1> QED
  BY <1>1, <1>2, <1>3, QuietInv DEF Inv, TypeOK, WakePending, workerVars, Phases

LEMMA TokenStepInv ==
  ASSUME Inv, NEW w \in Workspaces, NEW to \in {"head", "parked", "timed"},
         worker[w] \notin Holding,
         worker' = [worker EXCEPT ![w] = to],
         UNCHANGED <<rowVars, applied, chatVars, phase, cur, outcome>>,
         sweep' \in SUBSET Messages,
         token' \in [Workspaces -> BOOLEAN], toWake' \in SUBSET Workspaces,
         wakeLost' \in BOOLEAN, faults' \in 0..MaxFaults, crashes' \in 0..MaxCrashes
  PROVE  Inv'
<1>1. \A v \in Workspaces : worker'[v] = IF v = w THEN to ELSE worker[v]
  BY DEF Inv, TypeOK
<1>2. \A v \in Workspaces : worker'[v] \in Holding => worker'[v] = worker[v]
  BY <1>1 DEF Holding, InProcess
<1>3. \A v \in Workspaces : worker'[v] \in {"handle", "reply"} => worker'[v] = worker[v]
  BY <1>1
<1>4. TypeOK'
  BY DEF Inv, TypeOK, rowVars, chatVars, Stages
<1>5. RowInv' /\ InOrder' /\ AppliedOnce' /\ SilentReplay'
  BY DEF Inv, RowInv, InOrder, AppliedOnce, SilentReplay, rowVars, chatVars
<1>6. HoldInv'
  BY <1>2 DEF Inv, HoldInv, rowVars
<1>7. ApplyInv'
  BY <1>3 DEF Inv, ApplyInv, rowVars
<1>8. HeadInv'
  BY <1>2 DEF Inv, HeadInv, rowVars
<1> QED
  BY <1>4, <1>5, <1>6, <1>7, <1>8 DEF Inv

LEMMA CrashInv == Inv /\ Crash => Inv'
<1> SUFFICES ASSUME Inv, Crash PROVE Inv'
  OBVIOUS
<1>1. \A w \in Workspaces : worker'[w] \notin Holding /\ worker'[w] \notin {"handle", "reply"}
  BY DEF Crash, Holding, InProcess
<1>2. TypeOK'
  BY InboxAssumption DEF Crash, Inv, TypeOK, rowVars, chatVars, Stages, Outcomes, Phases
<1>3. RowInv' /\ InOrder' /\ AppliedOnce' /\ SilentReplay'
  BY DEF Crash, Inv, RowInv, InOrder, AppliedOnce, SilentReplay, rowVars, chatVars
<1>4. HoldInv' /\ ApplyInv' /\ HeadInv'
  BY <1>1 DEF HoldInv, ApplyInv, HeadInv
<1> QED
  BY <1>2, <1>3, <1>4 DEF Inv

LEMMA WakeInv == ASSUME NEW w \in Workspaces PROVE Inv /\ Wake(w) => Inv'
<1> SUFFICES ASSUME Inv, Wake(w) PROVE Inv'
  OBVIOUS
<1>1. toWake' \in SUBSET Workspaces /\ token' \in [Workspaces -> BOOLEAN]
  BY DEF Wake, Inv, TypeOK
<1>2. CASE Started /\ worker[w] = "none"
  BY <1>1, <1>2, TokenStepInv DEF Wake, Inv, TypeOK, Holding, InProcess, boundVars
<1>3. CASE ~(Started /\ worker[w] = "none")
  BY <1>1, <1>3, QuietInv DEF Wake, Inv, TypeOK, boundVars
<1> QED
  BY <1>2, <1>3

LEMMA TakeTokenInv == ASSUME NEW w \in Workspaces PROVE Inv /\ TakeToken(w) => Inv'
<1> SUFFICES ASSUME Inv, TakeToken(w) PROVE Inv'
  OBVIOUS
<1>1. token' \in [Workspaces -> BOOLEAN]
  BY DEF TakeToken, Inv, TypeOK
<1> QED
  BY <1>1, TokenStepInv DEF TakeToken, Inv, TypeOK, Holding, InProcess, boundVars

LEMMA TimerFiresInv == ASSUME NEW w \in Workspaces PROVE Inv /\ TimerFires(w) => Inv'
BY TokenStepInv DEF TimerFires, Inv, TypeOK, Holding, InProcess, boundVars

(* The new row has the largest id, so it is behind every other one.        *)
LEMMA AcceptInv == ASSUME NEW m \in Messages PROVE Inv /\ Accept(m) => Inv'
<1> SUFFICES ASSUME Inv, Accept(m) PROVE Inv'
  OBVIOUS
<1>1. /\ id[m] = 0 /\ attempts[m] = 0 /\ nextId > 0
      /\ id'[m] = nextId /\ status'[m] = "PENDING"
      /\ \A n \in Messages : n # m => id'[n] = id[n] /\ status'[n] = status[n]
      /\ \A n \in Messages : id[n] < nextId
  BY DEF Accept, Inv, TypeOK, RowInv
<1>0. wakeLost' \in BOOLEAN /\ faults' \in 0..MaxFaults /\ crashes' \in 0..MaxCrashes
  BY FaultType DEF Accept
<1>2. TypeOK'
  <2>1. status' \in [Messages -> {"absent"} \cup Live \cup Terminal]
    <3>1. status \in [Messages -> {"absent"} \cup Live \cup Terminal]
      BY DEF Inv, TypeOK
    <3>2. status' = [status EXCEPT ![m] = "PENDING"]
      BY DEF Accept
    <3> QED
      BY <3>1, <3>2 DEF Live
  <2>2. toWake' \in SUBSET Workspaces
    <3>1. toWake \in SUBSET Workspaces /\ Home[m] \in Workspaces
      BY InboxAssumption DEF Inv, TypeOK
    <3> QED
      BY <3>1, Zenon DEF Accept
  <2>3. nextId \in Nat \ {0} /\ id \in [Messages -> Nat]
    BY DEF Inv, TypeOK
  <2>4. id' \in [Messages -> Nat] /\ nextId' \in Nat \ {0}
    BY <2>3 DEF Accept
  <2> QED
    BY <1>0, <2>1, <2>2, <2>4 DEF Accept, Inv, TypeOK, chatVars, workerVars
<1>3. RowInv'
  <2> SUFFICES ASSUME NEW n \in Messages
               PROVE  /\ status'[n] = "absent" <=> id'[n] = 0
                      /\ id'[n] < nextId + 1
                      /\ id'[n] = 0 => attempts[n] = 0
                      /\ status'[n] = "PENDING" => attempts[n] < MaxAttempts
                      /\ \A a \in applied[n] \cup answered[n] : a <= attempts[n]
                      /\ <<n, "error">> \in noticed => attempts[n] = MaxAttempts
    BY DEF Accept, RowInv, chatVars
  <2>1. CASE n = m
    BY <1>1, <2>1, InboxAssumption DEF Inv, TypeOK, RowInv
  <2>2. CASE n # m
    BY <1>1, <2>2 DEF Inv, TypeOK, RowInv
  <2> QED
    BY <2>1, <2>2
<1>4. HoldInv'
  BY <1>1 DEF Accept, Inv, HoldInv, workerVars, TypeOK
<1>5. ApplyInv'
  BY DEF Accept, Inv, ApplyInv, workerVars
<1>6. HeadInv'
  <2> SUFFICES ASSUME NEW w \in Workspaces, NEW n \in Messages,
                      worker[w] \in Holding, Home[n] = w
               PROVE  /\ id'[cur[w]] < id'[n] => attempts[n] = 0
                      /\ id'[n] # 0 /\ id'[n] < id'[cur[w]] => status'[n] \in Terminal
    BY DEF Accept, HeadInv, workerVars
  <2>1. cur[w] \in Messages /\ cur[w] # m
    BY <1>1 DEF Inv, HoldInv
  <2>2. /\ id[cur[w]] < id[n] => attempts[n] = 0
        /\ id[n] # 0 /\ id[n] < id[cur[w]] => status[n] \in Terminal
    BY DEF Inv, HeadInv
  <2>3. id'[cur[w]] = id[cur[w]] /\ id[cur[w]] < nextId /\ id[cur[w]] \in Nat /\ nextId \in Nat
    BY <1>1, <2>1 DEF Inv, TypeOK
  <2>4. CASE n = m
    BY <1>1, <2>3, <2>4
  <2>5. CASE n # m
    BY <1>1, <2>2, <2>3, <2>5
  <2> QED
    BY <2>4, <2>5
<1>7. InOrder'
  <2> SUFFICES ASSUME NEW k \in Messages, NEW n \in Messages, Home[k] = Home[n],
                      id'[k] # 0, id'[k] < id'[n], attempts[n] > 0
               PROVE  status'[k] \in Terminal
    BY DEF Accept, InOrder
  <2>1. n # m /\ k # m
    BY <1>1 DEF Inv, TypeOK
  <2> QED
    BY <1>1, <2>1 DEF Inv, InOrder
<1>8. AppliedOnce' /\ SilentReplay'
  BY DEF Accept, Inv, AppliedOnce, SilentReplay, chatVars
<1> QED
  BY <1>2, <1>3, <1>4, <1>5, <1>6, <1>7, <1>8 DEF Inv

LEMMA BackoffInv == ASSUME NEW m \in Messages PROVE Inv /\ BackoffElapses(m) => Inv'
BY DEF BackoffElapses, Inv, TypeOK, RowInv, HoldInv, ApplyInv, HeadInv, InOrder, AppliedOnce,
    SilentReplay, chatVars, workerVars, boundVars

LEMMA GrowsStaleInv == ASSUME NEW m \in Messages PROVE Inv /\ GrowsStale(m) => Inv'
BY DEF GrowsStale, Inv, TypeOK, RowInv, HoldInv, ApplyInv, HeadInv, InOrder, AppliedOnce,
    SilentReplay, chatVars, workerVars, boundVars

(* A head has nothing live before it, and nothing behind a PENDING row has *)
(* been attempted.                                                         *)
LEMMA ReadHeadInv == ASSUME NEW w \in Workspaces PROVE Inv /\ ReadHead(w) => Inv'
<1> SUFFICES ASSUME Inv, ReadHead(w) PROVE Inv'
  OBVIOUS
<1>0. wakeLost' \in BOOLEAN /\ faults' \in 0..MaxFaults /\ crashes' \in 0..MaxCrashes
  BY FaultType DEF ReadHead
<1>1. CASE UNCHANGED cur /\ \E to \in {"parked", "timed"} : worker' = [worker EXCEPT ![w] = to]
  BY <1>0, <1>1, TokenStepInv DEF ReadHead, Inv, TypeOK, Holding, InProcess
<1>2. ASSUME NEW m \in LiveRows(w), IsHead(m), status[m] # "PROCESSING",
             worker' = [worker EXCEPT ![w] = "claim"], cur' = [cur EXCEPT ![w] = m]
      PROVE  Inv'
  <2>1. m \in Messages /\ Home[m] = w /\ status[m] = "PENDING" /\ id[m] # 0
    BY <1>2 DEF LiveRows, Live, Inv, RowInv
  <2>2. /\ worker'[w] = "claim" /\ cur'[w] = m
        /\ \A v \in Workspaces : v # w => worker'[v] = worker[v] /\ cur'[v] = cur[v]
    BY <1>2 DEF Inv, TypeOK
  <2>3. UNCHANGED <<id, nextId, status, attempts, deferred, stale, applied, answered, noticed, phase, outcome, token, toWake, sweep>>
    BY DEF ReadHead, rowVars, chatVars
  <2>4. TypeOK'
    BY <1>0, <1>2, <2>1, <2>3 DEF Inv, TypeOK, Stages
  <2>5. RowInv' /\ InOrder' /\ AppliedOnce' /\ SilentReplay'
    BY <2>3 DEF Inv, RowInv, InOrder, AppliedOnce, SilentReplay
  <2>6. HoldInv'
    BY <2>1, <2>2, <2>3 DEF Inv, HoldInv, InProcess
  <2>7. ApplyInv'
    BY <2>2, <2>3 DEF Inv, ApplyInv
  <2>8. \A n \in Messages : Home[n] = w =>
          /\ id[m] < id[n] => attempts[n] = 0
          /\ id[n] # 0 /\ id[n] < id[m] => status[n] \in Terminal
    <3> SUFFICES ASSUME NEW n \in Messages, Home[n] = w
                 PROVE  /\ id[m] < id[n] => attempts[n] = 0
                        /\ id[n] # 0 /\ id[n] < id[m] => status[n] \in Terminal
      OBVIOUS
    <3>1. id[m] < id[n] => ~(attempts[n] > 0)
      BY <2>1 DEF Inv, InOrder, Terminal
    <3>2. id[n] < id[m] => status[n] \notin Live
      BY <1>2, <2>1 DEF IsHead, LiveRows, Inv, TypeOK
    <3>3. id[n] # 0 => status[n] \in Live \cup Terminal
      BY DEF Inv, TypeOK, RowInv
    <3> QED
      BY <3>1, <3>2, <3>3 DEF Inv, TypeOK
  <2>9. HeadInv'
    BY <2>2, <2>3, <2>8 DEF Inv, HeadInv
  <2> QED
    BY <2>4, <2>5, <2>6, <2>7, <2>9 DEF Inv
<1> QED
  BY <1>1, <1>2 DEF ReadHead

(* A worker's step on the row it holds leaves every other row and every    *)
(* other worker's row alone: rows of two workers are different rows.       *)
LEMMA OneHolder ==
  ASSUME Inv, NEW v \in Workspaces, NEW w \in Workspaces, v # w,
         worker[v] \in Holding, worker[w] \in Holding
  PROVE  cur[v] # cur[w]
BY DEF Inv, HoldInv

LEMMA ClaimInv == ASSUME NEW w \in Workspaces PROVE Inv /\ ClaimInbox(w) => Inv'
<1> SUFFICES ASSUME Inv, ClaimInbox(w) PROVE Inv'
  OBVIOUS
<1> DEFINE m == cur[w]
<1>0. wakeLost' \in BOOLEAN /\ faults' \in 0..MaxFaults /\ crashes' \in 0..MaxCrashes
  BY FaultType DEF ClaimInbox
<1>1. worker[w] = "claim" /\ m \in Messages /\ Home[m] = w /\ id[m] # 0 /\ status[m] = "PENDING"
      /\ attempts[m] < MaxAttempts
  BY DEF ClaimInbox, Inv, HoldInv, RowInv, Holding
<1>2. UNCHANGED <<id, nextId, deferred, applied, answered, noticed, phase, outcome, token, toWake, sweep>>
  BY DEF ClaimInbox, chatVars
<1>3. /\ \A n \in Messages : n # m => status'[n] = status[n] /\ attempts'[n] = attempts[n]
      /\ \/ status'[m] = "PROCESSING" /\ attempts'[m] = attempts[m] + 1
         \/ status'[m] = status[m] /\ attempts'[m] = attempts[m]
  BY <1>1 DEF ClaimInbox, Inv, TypeOK
<1>4. /\ \A v \in Workspaces : v # w => worker'[v] = worker[v] /\ cur'[v] = cur[v]
      /\ \/ worker'[w] = "check" /\ cur'[w] = m /\ attempts'[m] = attempts[m] + 1
         \/ worker'[w] = "timed"
  BY <1>1 DEF ClaimInbox, Inv, TypeOK
<1>5. TypeOK'
  <2>1. /\ status' \in [Messages -> {"absent"} \cup Live \cup Terminal]
        /\ stale' \in [Messages -> BOOLEAN]
    BY <1>1 DEF ClaimInbox, Inv, TypeOK, Live
  <2>2. attempts' \in [Messages -> 0..MaxAttempts]
    <3>1. attempts[m] + 1 \in 0..MaxAttempts
      BY <1>1, InboxAssumption DEF Inv, TypeOK
    <3> QED
      BY <1>1, <3>1 DEF ClaimInbox, Inv, TypeOK
  <2>3. worker' \in [Workspaces -> Stages] /\ cur' \in [Workspaces -> Messages \cup {NoMessage}]
    BY DEF ClaimInbox, Inv, TypeOK, Stages
  <2> QED
    BY <1>0, <1>2, <2>1, <2>2, <2>3 DEF Inv, TypeOK
<1>6. RowInv'
  <2> SUFFICES ASSUME NEW n \in Messages
               PROVE  /\ status'[n] = "absent" <=> id[n] = 0
                      /\ id[n] < nextId
                      /\ id[n] = 0 => attempts'[n] = 0
                      /\ status'[n] = "PENDING" => attempts'[n] < MaxAttempts
                      /\ \A a \in applied[n] \cup answered[n] : a <= attempts'[n]
                      /\ <<n, "error">> \in noticed => attempts'[n] = MaxAttempts
    BY <1>2 DEF RowInv
  <2>1. CASE n = m
    BY <1>1, <1>3, <2>1 DEF Inv, TypeOK, RowInv
  <2>2. CASE n # m
    BY <1>3, <2>2 DEF Inv, RowInv
  <2> QED
    BY <2>1, <2>2
<1>7. \A v \in Workspaces : v # w /\ worker[v] \in Holding => cur[v] # m /\ cur[v] \in Messages
  BY <1>1, OneHolder DEF Holding, Inv, HoldInv
<1>8. HoldInv'
  <2> SUFFICES ASSUME NEW v \in Workspaces, worker'[v] \in Holding
               PROVE  /\ cur'[v] \in Messages
                      /\ Home[cur'[v]] = v
                      /\ id[cur'[v]] # 0
                      /\ worker'[v] = "claim" => status'[cur'[v]] = "PENDING"
                      /\ worker'[v] \in InProcess => attempts'[cur'[v]] > 0
    BY <1>2 DEF HoldInv
  <2>1. CASE v = w
    BY <1>1, <1>4, <2>1 DEF Holding, InProcess, Inv, TypeOK
  <2>2. CASE v # w
    BY <1>3, <1>4, <1>7, <2>2 DEF Inv, HoldInv
  <2> QED
    BY <2>1, <2>2
<1>9. ApplyInv'
  BY <1>2, <1>3, <1>4, <1>7 DEF Inv, ApplyInv, Holding, InProcess
<1>10. HeadInv'
  <2> SUFFICES ASSUME NEW v \in Workspaces, NEW n \in Messages, worker'[v] \in Holding, Home[n] = v
               PROVE  /\ id[cur'[v]] < id[n] => attempts'[n] = 0
                      /\ id[n] # 0 /\ id[n] < id[cur'[v]] => status'[n] \in Terminal
    BY <1>2 DEF HeadInv
  <2>1. worker[v] \in Holding /\ cur'[v] = cur[v]
    BY <1>1, <1>4 DEF Holding, InProcess
  <2>2. n # m \/ v = w
    BY <1>1
  <2>3. CASE n # m
    BY <1>3, <2>1, <2>3 DEF Inv, HeadInv
  <2>4. CASE n = m
    BY <1>1, <2>1, <2>2, <2>4 DEF Inv, TypeOK
  <2> QED
    BY <2>3, <2>4
<1>11. InOrder'
  <2> SUFFICES ASSUME NEW k \in Messages, NEW n \in Messages, Home[k] = Home[n],
                      id[k] # 0, id[k] < id[n], attempts'[n] > 0
               PROVE  status'[k] \in Terminal
    BY <1>2 DEF InOrder
  <2>1. CASE n = m
    <3>1. status[k] \in Terminal /\ k # m
      BY <1>1, <2>1 DEF Inv, HeadInv, Holding, TypeOK
    <3> QED
      BY <1>3, <3>1
  <2>2. CASE n # m
    <3>1. status[k] \in Terminal
      BY <1>3, <2>2 DEF Inv, InOrder
    <3> QED
      BY <1>1, <1>3, <3>1 DEF Terminal
  <2> QED
    BY <2>1, <2>2
<1>12. AppliedOnce' /\ SilentReplay'
  BY <1>2 DEF Inv, AppliedOnce, SilentReplay
<1> QED
  BY <1>5, <1>6, <1>8, <1>9, <1>10, <1>11, <1>12 DEF Inv

(* The steps of `process` that change neither the rows nor the ledger: the *)
(* worker moves on with the row it holds.                                  *)
LEMMA ProcessStepInv ==
  ASSUME Inv, NEW w \in Workspaces, NEW to \in InProcess,
         worker[w] \in InProcess,
         worker' = [worker EXCEPT ![w] = to],
         outcome' \in [Workspaces -> Outcomes],
         \A v \in Workspaces : v # w => outcome'[v] = outcome[v],
         to = "handle" \/ (to = "reply" /\ outcome'[w] \in Asked)
           => applied[cur[w]] \subseteq {attempts[cur[w]]},
         UNCHANGED <<rowVars, applied, chatVars, phase, cur, token, toWake, sweep>>,
         wakeLost' \in BOOLEAN, faults' \in 0..MaxFaults, crashes' \in 0..MaxCrashes
  PROVE  Inv'
<1>1. /\ worker'[w] = to
      /\ \A v \in Workspaces : v # w => worker'[v] = worker[v]
      /\ to \in Holding /\ worker[w] \in Holding /\ worker[w] # "claim" /\ to # "claim"
  BY DEF Inv, TypeOK, Holding, InProcess
<1>2. TypeOK'
  BY DEF Inv, TypeOK, rowVars, chatVars, Stages, InProcess
<1>3. RowInv' /\ InOrder' /\ AppliedOnce' /\ SilentReplay'
  BY DEF Inv, RowInv, InOrder, AppliedOnce, SilentReplay, rowVars, chatVars
<1>4. HoldInv'
  BY <1>1 DEF Inv, HoldInv, rowVars
<1>5. ApplyInv'
  BY <1>1 DEF Inv, ApplyInv, rowVars
<1>6. HeadInv'
  BY <1>1 DEF Inv, HeadInv, rowVars
<1> QED
  BY <1>2, <1>3, <1>4, <1>5, <1>6 DEF Inv

LEMMA AlreadyAppliedInv == ASSUME NEW w \in Workspaces PROVE Inv /\ AlreadyApplied(w) => Inv'
<1> SUFFICES ASSUME Inv, AlreadyApplied(w) PROVE Inv'
  OBVIOUS
<1>0. wakeLost' \in BOOLEAN /\ faults' \in 0..MaxFaults /\ crashes' \in 0..MaxCrashes
  BY FaultType DEF AlreadyApplied
<1>1. worker[w] \in InProcess
  BY DEF AlreadyApplied, InProcess
<1>2. /\ outcome' \in [Workspaces -> Outcomes]
      /\ \A v \in Workspaces : v # w => outcome'[v] = outcome[v]
  BY DEF AlreadyApplied, Inv, TypeOK, Outcomes, Transient
<1>3. \/ worker' = [worker EXCEPT ![w] = "finish"]
      \/ worker' = [worker EXCEPT ![w] = "handle"] /\ applied[cur[w]] = {}
      \/ worker' = [worker EXCEPT ![w] = "reply"] /\ outcome'[w] \notin Asked
  BY DEF AlreadyApplied, Inv, TypeOK, Asked
<1> QED
  BY <1>0, <1>1, <1>2, <1>3, ProcessStepInv DEF AlreadyApplied, InProcess

LEMMA HandleReturnsInv == ASSUME NEW w \in Workspaces PROVE Inv /\ HandleReturns(w) => Inv'
<1> SUFFICES ASSUME Inv, HandleReturns(w) PROVE Inv'
  OBVIOUS
<1>1. worker[w] \in InProcess /\ applied[cur[w]] \subseteq {attempts[cur[w]]}
  BY DEF HandleReturns, InProcess, Inv, ApplyInv
<1>2. /\ outcome' \in [Workspaces -> Outcomes]
      /\ \A v \in Workspaces : v # w => outcome'[v] = outcome[v]
  BY DEF HandleReturns, Inv, TypeOK, Outcomes, Transient
<1>3. \E to \in {"finish", "reply"} : worker' = [worker EXCEPT ![w] = to]
  BY DEF HandleReturns
<1>4. wakeLost' \in BOOLEAN /\ faults' \in 0..MaxFaults /\ crashes' \in 0..MaxCrashes
  BY DEF HandleReturns, Inv, TypeOK, boundVars
<1> QED
  BY <1>1, <1>2, <1>3, <1>4, ProcessStepInv DEF HandleReturns, InProcess

(* The first commit of an attempt: the ledger has no row of this message.  *)
LEMMA LedgerCommitInv == ASSUME NEW w \in Workspaces PROVE Inv /\ LedgerCommit(w) => Inv'
<1> SUFFICES ASSUME Inv, LedgerCommit(w) PROVE Inv'
  OBVIOUS
<1> DEFINE m == cur[w]
<1>1. /\ worker[w] = "handle" /\ m \in Messages /\ Home[m] = w /\ attempts[m] > 0
      /\ applied[m] = {}
  BY DEF LedgerCommit, Inv, HoldInv, ApplyInv, Holding, InProcess
<1>2. /\ applied'[m] = {attempts[m]}
      /\ \A n \in Messages : n # m => applied'[n] = applied[n]
  BY <1>1 DEF LedgerCommit, Inv, TypeOK
<1>3. UNCHANGED <<rowVars, chatVars, phase, workerVars, toWake, sweep, boundVars>>
  BY DEF LedgerCommit
<1>4. TypeOK'
  <2>1. attempts[m] \in 1..MaxAttempts
    BY <1>1 DEF Inv, TypeOK
  <2>2. applied' \in [Messages -> SUBSET (1..MaxAttempts)]
    BY <1>1, <2>1 DEF LedgerCommit, Inv, TypeOK
  <2> QED
    BY <1>3, <2>2 DEF Inv, TypeOK, rowVars, chatVars, workerVars, boundVars
<1>5. RowInv'
  <2> SUFFICES ASSUME NEW n \in Messages
               PROVE  \A a \in applied'[n] \cup answered[n] : a <= attempts[n]
    BY <1>3 DEF Inv, RowInv, rowVars, chatVars
  <2>0. \A a \in applied[n] \cup answered[n] : a <= attempts[n]
    BY DEF Inv, RowInv
  <2>t. attempts[m] \in Nat
    BY <1>1 DEF Inv, TypeOK
  <2>1. CASE n = m
    BY <1>1, <1>2, <2>0, <2>t, <2>1
  <2>2. CASE n # m
    BY <1>2, <2>0, <2>2
  <2> QED
    BY <2>1, <2>2
<1>6. HoldInv' /\ HeadInv' /\ InOrder'
  BY <1>3 DEF Inv, HoldInv, HeadInv, InOrder, rowVars, workerVars
<1>7. ApplyInv'
  <2> SUFFICES ASSUME NEW v \in Workspaces,
                      worker[v] = "handle" \/ (worker[v] = "reply" /\ outcome[v] \in Asked)
               PROVE  applied'[cur[v]] \subseteq {attempts[cur[v]]}
    BY <1>3 DEF ApplyInv, workerVars, rowVars
  <2>1. CASE v = w
    BY <1>2, <2>1
  <2>2. CASE v # w
    <3>1. cur[v] \in Messages /\ cur[v] # m
      BY <1>1, <2>2, OneHolder DEF Inv, HoldInv, Holding, InProcess
    <3> QED
      BY <1>2, <3>1 DEF Inv, ApplyInv
  <2> QED
    BY <2>1, <2>2
<1>8. AppliedOnce'
  BY <1>2 DEF Inv, AppliedOnce
<1>9. SilentReplay'
  <2>1. ASSUME NEW n \in Messages
        PROVE  /\ \A a \in answered[n], b \in applied'[n] : a <= b
               /\ <<n, "error">> \in noticed => applied'[n] \subseteq {MaxAttempts}
    <3>1. CASE n = m
      BY <1>2, <3>1 DEF Inv, RowInv
    <3>2. CASE n # m
      BY <1>2, <3>2 DEF Inv, SilentReplay
    <3> QED
      BY <3>1, <3>2
  <2> QED
    BY <1>3, <2>1 DEF SilentReplay, chatVars
<1> QED
  BY <1>4, <1>5, <1>6, <1>7, <1>8, <1>9 DEF Inv

LEMMA ReplyInv == ASSUME NEW w \in Workspaces PROVE Inv /\ Reply(w) => Inv'
<1> SUFFICES ASSUME Inv, Reply(w) PROVE Inv'
  OBVIOUS
<1> DEFINE m == cur[w]
           speaks == outcome[w] \in {"answer", "permanent"}
           notice == outcome[w] \in {"error", "unknown"} /\ LastAttempt(m)
<1>0. wakeLost' \in BOOLEAN /\ faults' \in 0..MaxFaults /\ crashes' \in 0..MaxCrashes
  BY FaultType DEF Reply
<1>1. worker[w] = "reply" /\ m \in Messages /\ attempts[m] > 0
  BY DEF Reply, Inv, HoldInv, Holding, InProcess
<1>2. /\ worker'[w] = "finish"
      /\ \A v \in Workspaces : v # w => worker'[v] = worker[v]
      /\ worker' \in [Workspaces -> Stages]
  BY DEF Reply, Inv, TypeOK, Stages
<1>3. UNCHANGED <<id, nextId, status, attempts, deferred, stale, applied, phase, cur, outcome, token, toWake, sweep>>
  BY DEF Reply, rowVars
<1>4. \/ answered' = answered
      \/ speaks /\ answered' = [answered EXCEPT ![m] = @ \cup {attempts[m]}]
  BY DEF Reply, chatVars
<1>5. \A n \in Messages : \A a \in answered'[n] :
        a \in answered[n] \/ (speaks /\ n = m /\ a = attempts[m])
  BY <1>1, <1>4 DEF Inv, TypeOK
<1>n. noticed' = noticed \/ (notice /\ noticed' = noticed \cup {<<m, outcome[w]>>})
  BY DEF Reply, chatVars
<1>l. notice => attempts[m] = MaxAttempts
  BY <1>1, InboxAssumption DEF LastAttempt, Inv, TypeOK
<1>6. TypeOK'
  <2>1. attempts[m] \in 1..MaxAttempts
    BY <1>1 DEF Inv, TypeOK
  <2>2. answered' \in [Messages -> SUBSET (1..MaxAttempts)]
    BY <1>1, <1>4, <2>1 DEF Inv, TypeOK
  <2>3. noticed' \in SUBSET (Messages \X Transient)
    BY <1>1, <1>n DEF Transient, Inv, TypeOK
  <2> QED
    BY <1>0, <1>2, <1>3, <2>2, <2>3 DEF Inv, TypeOK
<1>7. RowInv'
  <2>1. ASSUME NEW n \in Messages, NEW a \in applied[n] \cup answered'[n]
        PROVE  a <= attempts[n]
    <3>1. CASE a \in applied[n] \cup answered[n]
      BY <3>1 DEF Inv, RowInv
    <3>2. CASE n = m /\ a = attempts[m]
      <4>1. attempts[m] \in Nat
        BY <1>1 DEF Inv, TypeOK
      <4> QED
        BY <3>2, <4>1
    <3> QED
      BY <1>5, <2>1, <3>1, <3>2
  <2>2. ASSUME NEW n \in Messages, <<n, "error">> \in noticed'
        PROVE  attempts[n] = MaxAttempts
    BY <1>n, <1>l, <2>2 DEF Inv, RowInv
  <2> QED
    BY <1>3, <2>1, <2>2 DEF Inv, RowInv
<1>8. HoldInv' /\ ApplyInv' /\ HeadInv' /\ InOrder' /\ AppliedOnce'
  <2>1. \A v \in Workspaces :
          worker'[v] = worker[v] \/ (worker'[v] = "finish" /\ worker[v] = "reply")
    BY <1>1, <1>2
  <2>2. HoldInv' /\ HeadInv'
    BY <1>3, <2>1 DEF Inv, HoldInv, HeadInv, Holding, InProcess
  <2>3. ApplyInv'
    BY <1>2, <1>3 DEF Inv, ApplyInv
  <2> QED
    BY <1>3, <2>2, <2>3 DEF Inv, InOrder, AppliedOnce
<1>9. SilentReplay'
  <2>1. outcome[w] \in Asked => applied[m] \subseteq {attempts[m]}
    BY <1>1 DEF Inv, ApplyInv
  <2>2. ASSUME NEW n \in Messages, NEW a \in answered'[n], NEW b \in applied[n]
        PROVE  a <= b
    <3>1. CASE a \in answered[n]
      BY <3>1 DEF Inv, SilentReplay
    <3>2. CASE speaks /\ n = m /\ a = attempts[m]
      BY <1>1, <2>1, <3>2 DEF Asked, Inv, TypeOK
    <3> QED
      BY <1>5, <2>2, <3>1, <3>2
  <2>3. ASSUME NEW n \in Messages, <<n, "error">> \in noticed'
        PROVE  applied[n] \subseteq {MaxAttempts}
    <3>1. CASE <<n, "error">> \in noticed
      BY <3>1 DEF Inv, SilentReplay
    <3>2. CASE notice /\ n = m /\ outcome[w] = "error"
      BY <1>l, <2>1, <3>2 DEF Asked
    <3> QED
      BY <1>n, <2>3, <3>1, <3>2
  <2> QED
    BY <1>3, <2>2, <2>3 DEF SilentReplay
<1> QED
  BY <1>6, <1>7, <1>8, <1>9 DEF Inv

(* finishInbox is unconditional, but the row it writes has only untouched  *)
(* rows behind it, so sending it back to PENDING overtakes nobody.         *)
LEMMA FinishInv == ASSUME NEW w \in Workspaces PROVE Inv /\ Finish(w) => Inv'
<1> SUFFICES ASSUME Inv, Finish(w) PROVE Inv'
  OBVIOUS
<1> DEFINE m == cur[w]
<1>0. wakeLost' \in BOOLEAN /\ faults' \in 0..MaxFaults /\ crashes' \in 0..MaxCrashes
  BY FaultType DEF Finish
<1>1. worker[w] = "finish" /\ m \in Messages /\ Home[m] = w /\ id[m] # 0 /\ attempts[m] > 0
  BY DEF Finish, Inv, HoldInv, Holding, InProcess
<1>2. UNCHANGED <<id, nextId, attempts, applied, answered, noticed, phase, token, toWake, sweep>>
  BY DEF Finish, chatVars
<1>3. /\ \A n \in Messages : n # m => status'[n] = status[n]
      /\ \/ status'[m] = status[m]
         \/ status'[m] \in Terminal
         \/ status'[m] = "PENDING" /\ ~LastAttempt(m)
  BY <1>1 DEF Finish, Inv, TypeOK, Terminal
<1>4. /\ worker'[w] = "head"
      /\ \A v \in Workspaces : v # w => worker'[v] = worker[v] /\ cur'[v] = cur[v] /\ outcome'[v] = outcome[v]
  BY DEF Finish, Inv, TypeOK
<1>5. \A v \in Workspaces : worker'[v] \in Holding \cup {"handle", "reply"} =>
        /\ v # w /\ worker'[v] = worker[v] /\ cur'[v] = cur[v] /\ outcome'[v] = outcome[v]
        /\ worker[v] \in Holding /\ cur[v] \in Messages /\ cur[v] # m
  BY <1>1, <1>4, OneHolder DEF Inv, HoldInv, Holding, InProcess
<1>6. TypeOK'
  <2>1. /\ status' \in [Messages -> {"absent"} \cup Live \cup Terminal]
        /\ stale' \in [Messages -> BOOLEAN]
    BY <1>1 DEF Finish, Inv, TypeOK, Live, Terminal
  <2>2. deferred' \in [Messages -> BOOLEAN]
    BY <1>1 DEF Finish, Inv, TypeOK
  <2>3. /\ worker' \in [Workspaces -> Stages] /\ cur' \in [Workspaces -> Messages \cup {NoMessage}]
        /\ outcome' \in [Workspaces -> Outcomes]
    BY DEF Finish, Inv, TypeOK, Stages, Outcomes
  <2> QED
    BY <1>0, <1>2, <2>1, <2>2, <2>3 DEF Inv, TypeOK
<1>7. RowInv'
  <2> SUFFICES ASSUME NEW n \in Messages
               PROVE  /\ status'[n] = "absent" <=> id[n] = 0
                      /\ status'[n] = "PENDING" => attempts[n] < MaxAttempts
    BY <1>2 DEF Inv, RowInv
  <2>1. /\ status[n] = "absent" <=> id[n] = 0
        /\ status[n] = "PENDING" => attempts[n] < MaxAttempts
    BY DEF Inv, RowInv
  <2>2. attempts[m] \in Nat /\ MaxAttempts \in Nat
    BY <1>1, InboxAssumption DEF Inv, TypeOK
  <2> QED
    BY <1>1, <1>3, <2>1, <2>2 DEF Terminal, LastAttempt
<1>8. HoldInv' /\ ApplyInv'
  BY <1>2, <1>3, <1>5 DEF Inv, HoldInv, ApplyInv
<1>9. HeadInv'
  <2> SUFFICES ASSUME NEW v \in Workspaces, NEW n \in Messages, worker'[v] \in Holding, Home[n] = v
               PROVE  /\ id[cur'[v]] < id[n] => attempts[n] = 0
                      /\ id[n] # 0 /\ id[n] < id[cur'[v]] => status'[n] \in Terminal
    BY <1>2 DEF HeadInv
  <2>1. v # w /\ worker[v] \in Holding /\ cur'[v] = cur[v] /\ n # m
    BY <1>1, <1>5
  <2> QED
    BY <1>3, <2>1 DEF Inv, HeadInv
<1>10. InOrder'
  <2> SUFFICES ASSUME NEW k \in Messages, NEW n \in Messages, Home[k] = Home[n],
                      id[k] # 0, id[k] < id[n], attempts[n] > 0
               PROVE  status'[k] \in Terminal
    BY <1>2 DEF InOrder
  <2>1. status[k] \in Terminal
    BY DEF Inv, InOrder
  <2>2. k # m
    BY <1>1 DEF Inv, HeadInv, Holding, InProcess, TypeOK
  <2> QED
    BY <1>3, <2>1, <2>2
<1>11. AppliedOnce' /\ SilentReplay'
  BY <1>2 DEF Inv, AppliedOnce, SilentReplay
<1> QED
  BY <1>6, <1>7, <1>8, <1>9, <1>10, <1>11 DEF Inv

(* Both statements of Recover: rows that were PROCESSING become closed, or *)
(* PENDING with attempts left. A row with attempts behind it in its queue  *)
(* is closed already, so none is released out of order.                    *)
LEMMA RecoverStepInv ==
  ASSUME Inv,
         status' \in [Messages -> {"absent"} \cup Live \cup Terminal],
         \A n \in Messages : status'[n] = status[n] \/
           (status[n] = "PROCESSING" /\ (status'[n] \in Terminal \/ (status'[n] = "PENDING" /\ ~LastAttempt(n)))),
         stale' \in [Messages -> BOOLEAN], deferred' \in [Messages -> BOOLEAN],
         sweep' \in SUBSET Messages, toWake' \in SUBSET Workspaces, phase' \in Phases,
         wakeLost' \in BOOLEAN, faults' \in 0..MaxFaults, crashes' \in 0..MaxCrashes,
         UNCHANGED <<id, nextId, attempts, applied, chatVars, workerVars>>
  PROVE  Inv'
<1>1. TypeOK'
  BY DEF Inv, TypeOK, chatVars, workerVars
<1>2. RowInv'
  <2> SUFFICES ASSUME NEW n \in Messages
               PROVE  /\ status'[n] = "absent" <=> id[n] = 0
                      /\ status'[n] = "PENDING" => attempts[n] < MaxAttempts
    BY DEF Inv, RowInv, chatVars
  <2>1. /\ status[n] = "absent" <=> id[n] = 0
        /\ status[n] = "PENDING" => attempts[n] < MaxAttempts
    BY DEF Inv, RowInv
  <2>2. attempts[n] \in Nat /\ MaxAttempts \in Nat
    BY InboxAssumption DEF Inv, TypeOK
  <2> QED
    BY <2>1, <2>2 DEF Terminal, LastAttempt
<1>3. \A n \in Messages : status[n] \in Terminal \cup {"PENDING"} => status'[n] = status[n]
  BY DEF Terminal
<1>4. HoldInv' /\ ApplyInv'
  BY <1>3 DEF Inv, HoldInv, ApplyInv, workerVars
<1>5. HeadInv'
  BY <1>3 DEF Inv, HeadInv, workerVars
<1>6. InOrder'
  BY <1>3 DEF Inv, InOrder
<1>7. AppliedOnce' /\ SilentReplay'
  BY DEF Inv, AppliedOnce, SilentReplay, chatVars
<1> QED
  BY <1>1, <1>2, <1>4, <1>5, <1>6, <1>7 DEF Inv

LEMMA RecoverAppliedInv == Inv /\ RecoverApplied => Inv'
<1> SUFFICES ASSUME Inv, RecoverApplied PROVE Inv'
  OBVIOUS
<1>0. wakeLost' \in BOOLEAN /\ faults' \in 0..MaxFaults /\ crashes' \in 0..MaxCrashes
  BY FaultType DEF RecoverApplied
<1>1. /\ status' \in [Messages -> {"absent"} \cup Live \cup Terminal]
      /\ \A n \in Messages : status'[n] = status[n] \/ (status[n] = "PROCESSING" /\ status'[n] \in Terminal)
  BY DEF RecoverApplied, StaleRows, Inv, TypeOK, Terminal
<1>2. stale' \in [Messages -> BOOLEAN] /\ sweep' \in SUBSET Messages
  BY DEF RecoverApplied, StaleRows, Inv, TypeOK
<1>3. phase' \in Phases
  BY DEF RecoverApplied, Inv, TypeOK, Phases
<1> QED
  BY <1>0, <1>1, <1>2, <1>3, RecoverStepInv DEF RecoverApplied, Inv, TypeOK

LEMMA RecoverRestInv == Inv /\ RecoverRest => Inv'
<1> SUFFICES ASSUME Inv, RecoverRest PROVE Inv'
  OBVIOUS
<1>0. wakeLost' \in BOOLEAN /\ faults' \in 0..MaxFaults /\ crashes' \in 0..MaxCrashes
  BY FaultType DEF RecoverRest
<1>1. /\ status' \in [Messages -> {"absent"} \cup Live \cup Terminal]
      /\ \A n \in Messages : status'[n] = status[n] \/
           (status[n] = "PROCESSING" /\ (status'[n] \in Terminal \/ (status'[n] = "PENDING" /\ ~LastAttempt(n))))
  BY DEF RecoverRest, StaleRows, Inv, TypeOK, Terminal, Live
<1>2. /\ stale' \in [Messages -> BOOLEAN] /\ sweep' \in SUBSET Messages
      /\ deferred' \in [Messages -> BOOLEAN]
  BY DEF RecoverRest, StaleRows, Inv, TypeOK
<1>3. phase' \in Phases
  BY DEF RecoverRest, Inv, TypeOK, Phases
<1>4. toWake' \in SUBSET Workspaces
  BY InboxAssumption DEF RecoverRest, StaleRows, Inv, TypeOK
<1> QED
  BY <1>0, <1>1, <1>2, <1>3, <1>4, RecoverStepInv DEF RecoverRest

LEMMA NextInv == Inv /\ [Next]_vars => Inv'
<1> SUFFICES ASSUME Inv, [Next]_vars PROVE Inv'
  OBVIOUS
<1>1. CASE UNCHANGED vars
  BY <1>1, QuietInv DEF vars, Inv, TypeOK, workerVars, boundVars
<1>2. ASSUME NEW m \in Messages, Accept(m) \/ BackoffElapses(m) \/ GrowsStale(m)
      PROVE  Inv'
  BY <1>2, AcceptInv, BackoffInv, GrowsStaleInv
<1>3. ASSUME NEW w \in Workspaces, Wake(w) \/ WorkerStep(w)
      PROVE  Inv'
  BY <1>3, WakeInv, ReadHeadInv, TakeTokenInv, TimerFiresInv, ClaimInv, AlreadyAppliedInv,
     LedgerCommitInv, HandleReturnsInv, ReplyInv, FinishInv DEF WorkerStep
<1> QED
  BY <1>1, <1>2, <1>3, BootInv, RefreshInv, StartedInv, WakePendingInv, CrashInv,
     RecoverAppliedInv, RecoverRestInv DEF Next

(* The inductive invariant holds of every behaviour.                       *)
THEOREM Invariance == Spec => []Inv
BY InitInv, NextInv, PTL DEF Spec

(* Type correctness; with it, that no message is attempted more than       *)
(* MaxAttempts times although claiming never checks the counter.           *)
THEOREM TypeCorrect == Spec => []TypeOK
<1>1. Inv => TypeOK
  BY DEF Inv
<1> QED
  BY <1>1, Invariance, PTL

(* One attempt at most changes the ledger, through redelivery, retries,    *)
(* crashes and Recover, even when the handler outlives StaleAfter.         *)
THEOREM AtMostOnce == Spec => []AppliedOnce
<1>1. Inv => AppliedOnce
  BY DEF Inv
<1> QED
  BY <1>1, Invariance, PTL

(* No message is attempted before the earlier ones of its workspace are    *)
(* closed.                                                                 *)
THEOREM Ordered == Spec => []InOrder
<1>1. Inv => InOrder
  BY DEF Inv
<1> QED
  BY <1>1, Invariance, PTL

(* Later attempts of a message whose changes are in the ledger are silent. *)
THEOREM ReplaySilent == Spec => []SilentReplay
<1>1. Inv => SilentReplay
  BY DEF Inv
<1> QED
  BY <1>1, Invariance, PTL

(* A claim always finds its row PENDING, so that Drain's second look after  *)
(* a missed claim (inbox.go 301) is never needed: Inbox leaves it out.      *)
THEOREM ClaimHits == Spec => []ClaimNeverMisses
<1>1. Inv => ClaimNeverMisses
  BY DEF Inv, HoldInv, ClaimNeverMisses, Holding
<1> QED
  BY <1>1, Invariance, PTL
-----------------------------------------------------------------------------
(* What a Timely handler adds: the row it works on is its own, so Recover  *)
(* leaves it alone, and the inbox is the ordered queue it promises to be.  *)

(* A row in `process` is PROCESSING and not stale; a claim is an attempt.  *)
FreshInv ==
  /\ \A w \in Workspaces : worker[w] \in InProcess => status[cur[w]] = "PROCESSING" /\ ~stale[cur[w]]
  /\ \A m \in Messages : status[m] = "PROCESSING" => attempts[m] > 0

(* Neither rows nor work: workers may only leave `process`.                *)
LEMMA SameRowsFresh ==
  ASSUME FreshInv, UNCHANGED <<status, attempts, stale>>,
         \A w \in Workspaces : worker'[w] \in InProcess => worker[w] \in InProcess /\ cur'[w] = cur[w]
  PROVE  FreshInv'
BY DEF FreshInv

LEMMA ClaimFresh ==
  ASSUME Inv, FreshInv, NEW w \in Workspaces, ClaimInbox(w)
  PROVE  FreshInv'
<1> DEFINE m == cur[w]
<1>1. m \in Messages /\ Home[m] = w /\ attempts[m] \in Nat /\ worker[w] = "claim"
  BY DEF ClaimInbox, Inv, HoldInv, Holding, TypeOK
<1>2. \A v \in Workspaces : v # w /\ worker[v] \in InProcess => cur[v] # m /\ cur[v] \in Messages
  BY <1>1, OneHolder DEF Holding, Inv, HoldInv
<1>3. \A v \in Workspaces : v # w => worker'[v] = worker[v] /\ cur'[v] = cur[v]
  BY DEF ClaimInbox, Inv, TypeOK
<1>4. \A n \in Messages : n # m => status'[n] = status[n] /\ attempts'[n] = attempts[n] /\ stale'[n] = stale[n]
  BY DEF ClaimInbox, Inv, TypeOK
<1>5. \/ status'[m] = "PROCESSING" /\ attempts'[m] = attempts[m] + 1 /\ stale'[m] = FALSE
      \/ status'[m] = status[m] /\ attempts'[m] = attempts[m] /\ worker'[w] = "timed"
  BY <1>1 DEF ClaimInbox, Inv, TypeOK
<1>6. worker'[w] \in InProcess => cur'[w] = m /\ worker'[w] = "check"
  BY <1>1 DEF ClaimInbox, Inv, TypeOK, InProcess
<1>7. ASSUME NEW v \in Workspaces, worker'[v] \in InProcess
      PROVE  status'[cur'[v]] = "PROCESSING" /\ ~stale'[cur'[v]]
  <2>1. CASE v = w
    BY <1>5, <1>6, <1>7, <2>1
  <2>2. CASE v # w
    BY <1>2, <1>3, <1>4, <1>7, <2>2 DEF FreshInv
  <2> QED
    BY <2>1, <2>2
<1>8. ASSUME NEW n \in Messages, status'[n] = "PROCESSING"
      PROVE  attempts'[n] > 0
  BY <1>1, <1>4, <1>5, <1>8 DEF FreshInv
<1> QED
  BY <1>7, <1>8 DEF FreshInv

(* What a worker closes or sends back is PROCESSING.                       *)
LEMMA FinishFresh ==
  ASSUME Inv, FreshInv, NEW w \in Workspaces, Finish(w)
  PROVE  FreshInv'
<1> DEFINE m == cur[w]
<1>1. m \in Messages /\ Home[m] = w /\ worker[w] = "finish"
  BY DEF Finish, Inv, HoldInv, Holding, InProcess
<1>2. \A v \in Workspaces : v # w /\ worker[v] \in InProcess => cur[v] # m /\ cur[v] \in Messages
  BY <1>1, OneHolder DEF Holding, InProcess, Inv, HoldInv
<1>3. /\ worker'[w] = "head" /\ attempts' = attempts
      /\ \A v \in Workspaces : v # w => worker'[v] = worker[v] /\ cur'[v] = cur[v]
  BY DEF Finish, Inv, TypeOK
<1>4. \A n \in Messages : n # m => status'[n] = status[n] /\ stale'[n] = stale[n]
  BY DEF Finish, Inv, TypeOK
<1>5. status'[m] = "PROCESSING" => status[m] = "PROCESSING"
  BY <1>1 DEF Finish, Inv, TypeOK
<1>6. ASSUME NEW v \in Workspaces, worker'[v] \in InProcess
      PROVE  status'[cur'[v]] = "PROCESSING" /\ ~stale'[cur'[v]]
  BY <1>2, <1>3, <1>4, <1>6 DEF FreshInv, InProcess
<1>7. ASSUME NEW n \in Messages, status'[n] = "PROCESSING"
      PROVE  attempts'[n] > 0
  BY <1>3, <1>4, <1>5, <1>7 DEF FreshInv
<1> QED
  BY <1>6, <1>7 DEF FreshInv

(* Recover's statements change stale rows only, and those nobody holds.    *)
LEMMA RecoverFresh ==
  ASSUME Inv, FreshInv, RecoverApplied \/ RecoverRest
  PROVE  /\ FreshInv'
         /\ \A m \in Messages : status'[m] = status[m] \/ (m \in StaleRows /\ status'[m] # "PROCESSING")
<1>1. UNCHANGED <<worker, cur, attempts>>
  BY DEF RecoverApplied, RecoverRest, workerVars
<1>2. \A m \in Messages :
        /\ status'[m] = status[m] \/ (m \in StaleRows /\ status'[m] # "PROCESSING")
        /\ stale'[m] => stale[m]
  BY DEF RecoverApplied, RecoverRest, Inv, TypeOK
<1>3. \A w \in Workspaces : worker[w] \in InProcess => cur[w] \in Messages /\ cur[w] \notin StaleRows
  BY DEF FreshInv, StaleRows, Inv, HoldInv, Holding
<1>4. FreshInv'
  BY <1>1, <1>2, <1>3 DEF FreshInv
<1> QED
  BY <1>2, <1>4

LEMMA FreshNext ==
  ASSUME Timely, Inv, FreshInv, [Next]_vars
  PROVE  FreshInv'
<1>1. CASE Boot \/ RefreshGroups \/ MarkStarted \/ WakePending \/ Crash \/ UNCHANGED vars
  <2>1. UNCHANGED <<status, attempts, stale>>
    BY <1>1 DEF Boot, RefreshGroups, MarkStarted, WakePending, Crash, vars, rowVars
  <2>2. \A w \in Workspaces : worker'[w] \in InProcess => worker[w] \in InProcess /\ cur'[w] = cur[w]
    BY <1>1 DEF Boot, RefreshGroups, MarkStarted, WakePending, Crash, vars, workerVars, InProcess
  <2> QED
    BY <2>1, <2>2, SameRowsFresh
<1>2. CASE RecoverApplied \/ RecoverRest
  BY <1>2, RecoverFresh
<1>3. ASSUME NEW m \in Messages, Accept(m)
      PROVE  FreshInv'
  <2>1. status[m] = "absent" /\ UNCHANGED <<attempts, stale, worker, cur>>
    BY <1>3 DEF Accept, workerVars
  <2>2. status'[m] = "PENDING" /\ \A n \in Messages : n # m => status'[n] = status[n]
    BY <1>3 DEF Accept, Inv, TypeOK
  <2>3. \A w \in Workspaces : worker[w] \in InProcess => cur[w] \in Messages
    BY DEF Inv, HoldInv, Holding
  <2> QED
    BY <2>1, <2>2, <2>3 DEF FreshInv
<1>4. ASSUME NEW m \in Messages, BackoffElapses(m)
      PROVE  FreshInv'
  BY <1>4, SameRowsFresh DEF BackoffElapses, workerVars
<1>5. ASSUME NEW m \in Messages, GrowsStale(m)
      PROVE  FreshInv'
  <2>1. /\ UNCHANGED <<status, attempts, worker, cur>> /\ ~Holds(m)
        /\ \A n \in Messages : n # m => stale'[n] = stale[n]
    BY <1>5 DEF GrowsStale, workerVars, Inv, TypeOK
  <2>2. \A w \in Workspaces : worker[w] \in InProcess => cur[w] \in Messages /\ cur[w] # m
    BY <2>1 DEF Inv, HoldInv, Holding, Holds
  <2> QED
    BY <2>1, <2>2 DEF FreshInv
<1>6. ASSUME NEW w \in Workspaces, Wake(w) \/ WorkerStep(w)
      PROVE  FreshInv'
  <2>1. CASE ClaimInbox(w) \/ Finish(w)
    BY <2>1, ClaimFresh, FinishFresh
  <2>2. CASE ~(ClaimInbox(w) \/ Finish(w))
    <3>1. \/ Wake(w) \/ ReadHead(w) \/ TakeToken(w) \/ TimerFires(w)
          \/ AlreadyApplied(w) \/ LedgerCommit(w) \/ HandleReturns(w) \/ Reply(w)
      BY <1>6, <2>2 DEF WorkerStep
    <3>2. UNCHANGED <<status, attempts, stale>>
      BY <3>1 DEF Wake, ReadHead, TakeToken, TimerFires, AlreadyApplied, LedgerCommit, HandleReturns, Reply, rowVars
    <3>3. \A v \in Workspaces : worker'[v] \in InProcess => worker[v] \in InProcess /\ cur'[v] = cur[v]
      BY <3>1 DEF Wake, ReadHead, TakeToken, TimerFires, AlreadyApplied, LedgerCommit, HandleReturns, Reply,
                  workerVars, InProcess, Inv, TypeOK
    <3> QED
      BY <3>2, <3>3, SameRowsFresh
  <2> QED
    BY <2>1, <2>2
<1> QED
  BY <1>1, <1>2, <1>3, <1>4, <1>5, <1>6 DEF Next

THEOREM Freshness ==
  ASSUME Timely
  PROVE  Spec => []FreshInv
<1>1. Init => FreshInv
  BY DEF Init, FreshInv, InProcess
<1>2. Inv /\ FreshInv /\ [Next]_vars => FreshInv'
  BY FreshNext
<1> QED
  BY <1>1, <1>2, Invariance, PTL DEF Spec
-----------------------------------------------------------------------------
(* The refinement of OrderedQueue. Its heads are the live rows with closed *)
(* rows before them; a row that was attempted is one.                      *)

Place == [m \in Messages |->
            IF status[m] = "absent" THEN "outside"
            ELSE IF status[m] \in Live THEN "queued" ELSE "closed"]

LEMMA AttemptedIsHead ==
  ASSUME Inv, NEW m \in Messages, status[m] = "PROCESSING", attempts[m] > 0
  PROVE  Q!IsHead(m)
<1>1. status[m] \in Live
  BY DEF Live
<1>2. ASSUME NEW n \in Messages, Home[n] = Home[m], status[n] \in Live
      PROVE  id[m] <= id[n]
  <2>1. id[n] # 0 /\ status[n] \notin Terminal
    BY <1>2 DEF Inv, RowInv, Live, Terminal
  <2>2. id[m] \in Nat /\ id[n] \in Nat
    BY DEF Inv, TypeOK
  <2> QED
    BY <1>2, <2>1, <2>2 DEF Inv, InOrder
<1> QED
  BY <1>1, <1>2 DEF Q!IsHead, Live

LEMMA EnqueueStep ==
  ASSUME Inv, NEW m \in Messages, Accept(m)
  PROVE  Q!Enqueue(m)
<1>1. /\ status[m] = "absent" /\ id' = [id EXCEPT ![m] = nextId] /\ nextId' = nextId + 1 /\ applied' = applied
      /\ status' = [status EXCEPT ![m] = "PENDING"]
  BY DEF Accept
<1>2. Place' = [Place EXCEPT ![m] = "queued"]
  BY <1>1 DEF Place, Live, Inv, TypeOK
<1>3. Place[m] = "outside"
  BY <1>1 DEF Place
<1> QED
  BY <1>1, <1>2, <1>3 DEF Q!Enqueue, Place

LEMMA ApplyStep ==
  ASSUME Inv, FreshInv, NEW w \in Workspaces, LedgerCommit(w)
  PROVE  \E m \in Messages : Q!Apply(m)
<1> DEFINE m == cur[w]
<1>1. /\ m \in Messages /\ status[m] = "PROCESSING" /\ attempts[m] > 0 /\ applied[m] = {}
      /\ applied' = [applied EXCEPT ![m] = {attempts[m]}]
  <2>1. worker[w] = "handle" /\ attempts[m] \notin applied[m]
    BY DEF LedgerCommit
  <2>2. m \in Messages /\ status[m] = "PROCESSING" /\ attempts[m] > 0
    BY <2>1 DEF Inv, FreshInv, HoldInv, Holding, InProcess
  <2>3. applied[m] \subseteq {attempts[m]}
    BY <2>1 DEF Inv, ApplyInv
  <2>4. applied[m] = {}
    BY <2>1, <2>3
  <2>5. applied' = [applied EXCEPT ![m] = applied[m] \cup {attempts[m]}]
    BY DEF LedgerCommit
  <2>6. applied[m] \cup {attempts[m]} = {attempts[m]}
    BY <2>4
  <2> QED
    BY <2>2, <2>4, <2>5, <2>6
<1>2. Q!IsHead(m)
  BY <1>1, AttemptedIsHead
<1>3. attempts[m] \in 1..MaxAttempts
  BY <1>1 DEF Inv, TypeOK
<1>4. UNCHANGED <<id, nextId, status>>
  BY DEF LedgerCommit, rowVars
<1> HIDE DEF m
<1>5. Q!Apply(m)
  BY <1>1, <1>2, <1>3, <1>4 DEF Q!Apply
<1> QED
  BY <1>1, <1>5

(* Closing some PROCESSING rows; the others keep their place.              *)
LEMMA CloseStep ==
  ASSUME Inv, FreshInv, status' \in [Messages -> {"absent"} \cup Live \cup Terminal],
         \A m \in Messages : status'[m] = status[m] \/ (status[m] = "PROCESSING" /\ status'[m] # "absent"),
         UNCHANGED <<id, nextId, applied>>
  PROVE  \E S \in SUBSET Messages : Q!Close(S)
<1> PICK S \in SUBSET Messages : S = {m \in Messages : status[m] = "PROCESSING" /\ status'[m] \in Terminal}
  OBVIOUS
<1>1. \A m \in S : Q!IsHead(m)
  BY AttemptedIsHead DEF FreshInv
<1>2. Place' = [m \in Messages |-> IF m \in S THEN "closed" ELSE Place[m]]
  <2>1. ASSUME NEW m \in Messages
        PROVE  Place'[m] = IF m \in S THEN "closed" ELSE Place[m]
    BY DEF Place, Live, Terminal
  <2> QED
    BY <2>1 DEF Place
<1>3. Q!Close(S)
  BY <1>1, <1>2 DEF Q!Close, Place
<1> QED
  BY <1>3

LEMMA QueueStutter ==
  ASSUME UNCHANGED <<id, nextId, status, applied>>
  PROVE  UNCHANGED Q!vars
BY DEF Q!vars

(* Going to work and back is a stutter of the queue.                       *)
LEMMA ClaimStutter ==
  ASSUME Inv, NEW w \in Workspaces, ClaimInbox(w)
  PROVE  UNCHANGED Q!vars
<1>1. UNCHANGED <<id, nextId, applied>>
  BY DEF ClaimInbox
<1>2. \A m \in Messages : status'[m] = status[m] \/ (status[m] = "PENDING" /\ status'[m] = "PROCESSING")
  BY DEF ClaimInbox, Inv, TypeOK
<1>3. Place' = Place
  BY <1>2 DEF Place, Live
<1> QED
  BY <1>1, <1>3 DEF Q!vars, Place

LEMMA QueueNext ==
  ASSUME Inv, FreshInv, [Next]_vars
  PROVE  [Q!Next]_(Q!vars)
<1>1. CASE Boot \/ RefreshGroups \/ MarkStarted \/ WakePending \/ Crash \/ UNCHANGED vars
  <2>1. UNCHANGED <<id, nextId, status, applied>>
    BY <1>1 DEF Boot, RefreshGroups, MarkStarted, WakePending, Crash, vars, rowVars
  <2> QED
    BY <2>1, QueueStutter
<1>2. CASE RecoverApplied \/ RecoverRest
  <2>1. UNCHANGED <<id, nextId, applied>>
    BY <1>2 DEF RecoverApplied, RecoverRest
  <2>2. /\ status' \in [Messages -> {"absent"} \cup Live \cup Terminal]
        /\ \A m \in Messages : status'[m] = status[m] \/ (status[m] = "PROCESSING" /\ status'[m] # "absent")
    <3>1. CASE RecoverApplied
      BY <3>1 DEF RecoverApplied, StaleRows, Inv, TypeOK, Terminal
    <3>2. CASE RecoverRest
      BY <3>2 DEF RecoverRest, StaleRows, Inv, TypeOK, Live, Terminal
    <3> QED
      BY <1>2, <3>1, <3>2
  <2>3. \E S \in SUBSET Messages : Q!Close(S)
    BY <2>1, <2>2, CloseStep
  <2> QED
    BY <2>3 DEF Q!Next
<1>3. ASSUME NEW m \in Messages, Accept(m)
      PROVE  [Q!Next]_(Q!vars)
  BY <1>3, EnqueueStep DEF Q!Next
<1>4. ASSUME NEW m \in Messages, BackoffElapses(m) \/ GrowsStale(m)
      PROVE  [Q!Next]_(Q!vars)
  <2>1. UNCHANGED <<id, nextId, status, applied>>
    BY <1>4 DEF BackoffElapses, GrowsStale
  <2> QED
    BY <2>1, QueueStutter
<1>5. ASSUME NEW w \in Workspaces, Wake(w) \/ WorkerStep(w)
      PROVE  [Q!Next]_(Q!vars)
  <2>1. CASE ClaimInbox(w)
    BY <2>1, ClaimStutter
  <2>2. CASE LedgerCommit(w)
    BY <2>2, ApplyStep DEF Q!Next
  <2>3. CASE Finish(w)
    <3>1. cur[w] \in Messages /\ status[cur[w]] = "PROCESSING" /\ UNCHANGED <<id, nextId, applied>>
      BY <2>3 DEF Finish, Inv, FreshInv, HoldInv, Holding, InProcess
    <3>2. /\ status' \in [Messages -> {"absent"} \cup Live \cup Terminal]
          /\ \A m \in Messages : status'[m] = status[m] \/ (status[m] = "PROCESSING" /\ status'[m] # "absent")
      BY <2>3, <3>1 DEF Finish, Inv, TypeOK, Live, Terminal
    <3>3. \E S \in SUBSET Messages : Q!Close(S)
      BY <3>1, <3>2, CloseStep
    <3> QED
      BY <3>3 DEF Q!Next
  <2>4. CASE ~(ClaimInbox(w) \/ LedgerCommit(w) \/ Finish(w))
    <3>1. \/ Wake(w) \/ ReadHead(w) \/ TakeToken(w) \/ TimerFires(w)
          \/ AlreadyApplied(w) \/ HandleReturns(w) \/ Reply(w)
      BY <1>5, <2>4 DEF WorkerStep
    <3>2. UNCHANGED <<id, nextId, status, applied>>
      BY <3>1 DEF Wake, ReadHead, TakeToken, TimerFires, AlreadyApplied, HandleReturns, Reply, rowVars
    <3> QED
      BY <3>2, QueueStutter
  <2> QED
    BY <2>1, <2>2, <2>3, <2>4
<1> QED
  BY <1>1, <1>2, <1>3, <1>4, <1>5 DEF Next

(* The inbox implements the ordered queue: whatever is redelivered,        *)
(* retried, recovered or lost in a crash, messages leave the queue at its  *)
(* head, once and for good, and one run of each changes the ledger.        *)
(* (inbox.go 71-73, 97, 446-448)                                           *)
THEOREM ImplementsQueue ==
  ASSUME Timely
  PROVE  Spec => QueueSpec
<1>1. Init => Q!Init
  BY DEF Init, Q!Init
<1>2. Inv /\ FreshInv /\ [Next]_vars => [Q!Next]_(Q!vars)
  BY QueueNext
<1> QED
  BY <1>1, <1>2, Invariance, Freshness, PTL DEF Spec, QueueSpec, Q!Spec

(* DONE and FAILED are final: finishInbox, which asks for nothing, writes  *)
(* the row of its own attempt. (inbox.go 71-73, 97)                        *)
THEOREM ClosedForGood ==
  ASSUME Timely
  PROVE  Spec => TerminalIsFinal
<1>1. ASSUME Inv, FreshInv, [Next]_vars
      PROVE  \A m \in Messages : status[m] \in Terminal => status'[m] = status[m]
  <2>1. CASE RecoverApplied \/ RecoverRest
    BY <1>1, <2>1, RecoverFresh DEF StaleRows, Terminal
  <2>2. ASSUME NEW n \in Messages, Accept(n)
        PROVE  \A m \in Messages : status[m] \in Terminal => status'[m] = status[m]
    BY <1>1, <2>2 DEF Accept, Terminal, Inv, TypeOK
  <2>3. ASSUME NEW w \in Workspaces, ClaimInbox(w)
        PROVE  \A m \in Messages : status[m] \in Terminal => status'[m] = status[m]
    BY <1>1, <2>3 DEF ClaimInbox, Terminal, Inv, TypeOK
  <2>4. ASSUME NEW w \in Workspaces, Finish(w)
        PROVE  \A m \in Messages : status[m] \in Terminal => status'[m] = status[m]
    <3>1. status[cur[w]] = "PROCESSING"
      BY <1>1, <2>4 DEF Finish, FreshInv, InProcess
    <3> QED
      BY <1>1, <2>4, <3>1 DEF Finish, Terminal, Inv, TypeOK
  <2>5. CASE UNCHANGED status
    BY <2>5
  <2>6. \/ RecoverApplied \/ RecoverRest \/ UNCHANGED status
        \/ \E n \in Messages : Accept(n)
        \/ \E w \in Workspaces : ClaimInbox(w) \/ Finish(w)
    BY <1>1 DEF Next, Boot, RefreshGroups, MarkStarted, WakePending, Crash, BackoffElapses, GrowsStale, Wake,
       WorkerStep, ReadHead, TakeToken, TimerFires, AlreadyApplied, LedgerCommit, HandleReturns, Reply,
       vars, rowVars
  <2> QED
    BY <2>1, <2>2, <2>3, <2>4, <2>5, <2>6
<1>2. Inv /\ FreshInv /\ [Next]_vars =>
        [\A m \in Messages : status[m] \in Terminal => status'[m] = status[m]]_status
  BY <1>1
<1> QED
  BY <1>2, Invariance, Freshness, PTL DEF Spec, TerminalIsFinal
=============================================================================
