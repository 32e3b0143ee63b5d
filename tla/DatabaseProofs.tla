--------------------------- MODULE DatabaseProofs ---------------------------
(***************************************************************************)
(* Proofs about two parts whose hard cases are played in the database.     *)
(*                                                                         *)
(* Migrations, for any set of processes, any binaries, any number of       *)
(* versions, runs and breaks.  What carries them is the lock: a run past   *)
(* it whose connection lives is its holder, so there is one such run.  The *)
(* order of the versions rests on less, which survives a broken connection:*)
(* what a run believes done is done, and it applies the least version it   *)
(* does not believe done.                                                  *)
(*                                                                         *)
(* Directory, for any sets of people, groups, listings and requests. Two   *)
(* invariants that share no variable but `upsert`.  For the members: jid   *)
(* and lid are unique, a row belongs to one person, the row an             *)
(* UpsertMember found belongs to the person it is about, and, unless       *)
(* WhatsApp has shown a person by phone alone and by LID alone, all rows   *)
(* of the person have the same identity in common, so that FindMember      *)
(* finds the row there is.  For the router: who changed the table and has  *)
(* not refreshed the map yet is still on its way.                          *)
(***************************************************************************)
EXTENDS Migrations, Directory, FiniteSetTheorems, WellFoundedInduction, TLAPS

LEMMA NatMinimum ==
  ASSUME NEW T, T \subseteq Nat, T # {}
  PROVE  \E n \in T : \A m \in T : n <= m
<1>1. PICK x \in T : \A y \in T : ~ (<<y, x>> \in OpToRel(<, Nat))
  BY NatLessThanWellFounded, WFMin, Zenon
<1>2. \A y \in T : ~(y < x)
  BY <1>1 DEF OpToRel
<1>. QED
  BY <1>2

-----------------------------------------------------------------------------
(* Migrations                                                              *)

(* The lock protects the connections that live, not the runs.              *)
LockInv ==
  \A p \in Processes : proc[p].pc \in {"status", "apply"} /\ proc[p].connected => migLock = p

(* What a run believes done is done; a boot stops at the baseline.         *)
RunInv ==
  \A p \in Processes :
    /\ proc[p].pc = "apply" => proc[p].done \subseteq Applied
    /\ proc[p].pc # "down" /\ proc[p].kind = "boot" => proc[p].upTo = Baseline

MigrationInv ==
  /\ MigrationTypeOK
  /\ LockInv
  /\ RunInv
  /\ StatusHolds
  /\ SchemaGrowsInOrder

-----------------------------------------------------------------------------
(* The version a run applies next is the least of those it has left.       *)
LEMMA NextVersionLeast ==
  ASSUME NEW p \in Processes, proc[p].binary.top \in Versions, Remaining(p) # {}
  PROVE  /\ NextVersion(p) \in Remaining(p)
         /\ \A w \in Remaining(p) : NextVersion(p) <= w
<1>1. Remaining(p) \in SUBSET Nat
  BY DEF Remaining, Embedded, Versions
<1>2. \E v \in Remaining(p) : \A w \in Remaining(p) : v <= w
  BY <1>1, NatMinimum
<1> QED
  BY <1>2, Zenon DEF NextVersion

LEMMA IdleType == IdleProc \in ProcessRuns
  BY MigrationAssumption DEF IdleProc, ProcessRuns, Versions, Baseline

(* The first state.                                                        *)
LEMMA MigrationInitInv == MigrationInit => MigrationInv
<1> SUFFICES ASSUME MigrationInit PROVE MigrationInv
  OBVIOUS
<1> USE MigrationAssumption DEF MigrationInit
<1>1. MigrationTypeOK
  BY IdleType DEF MigrationTypeOK, Versions, Checksums
<1>2. Applied = {}
  BY DEF Applied
<1>3. LockInv /\ RunInv /\ StatusHolds
  BY DEF LockInv, RunInv, StatusHolds, IdleProc
<1>4. SchemaGrowsInOrder
  BY <1>2 DEF SchemaGrowsInOrder
<1> QED
  BY <1>1, <1>3, <1>4 DEF MigrationInv

-----------------------------------------------------------------------------
(* The steps that leave the schema alone and end no service: which runs     *)
(* are past the lock changes.                                              *)

LEMMA StartRunInv ==
  ASSUME MigrationInv, NEW p \in Processes, NEW kind \in {"boot", "apply"}, NEW b \in Binaries,
         NEW upTo \in Versions, StartRun(p, kind, b, upTo)
  PROVE  MigrationInv'
<1> USE DEF MigrationInv, StartRun, schemaVars
<1>1. Applied' = Applied
  BY DEF Applied
<1> DEFINE run == [pc |-> "lock", kind |-> kind, binary |-> b,
                   upTo |-> IF kind = "boot" THEN Baseline ELSE upTo, done |-> {}, connected |-> TRUE]
<1>2. run \in ProcessRuns
  BY MigrationAssumption DEF ProcessRuns, Versions, Baseline
<1>3. MigrationTypeOK'
  BY <1>2 DEF MigrationTypeOK
<1>4. LockInv' /\ StatusHolds'
  BY <1>1, Zenon DEF LockInv, StatusHolds, MigrationTypeOK
<1>5. RunInv'
  BY <1>1 DEF RunInv, MigrationTypeOK
<1>6. SchemaGrowsInOrder'
  BY <1>1 DEF SchemaGrowsInOrder
<1> QED
  BY <1>3, <1>4, <1>5, <1>6

(* A run that ends leaves the others as they were.                         *)
LEMMA EndsRunInv ==
  ASSUME MigrationTypeOK, LockInv, RunInv, StatusHolds, NEW p \in Processes, EndsRun(p), UNCHANGED schemaVars
  PROVE  LockInv' /\ RunInv' /\ StatusHolds'
<1> USE DEF EndsRun, schemaVars, Unlocked, MigrationTypeOK
<1>1. Applied' = Applied
  BY DEF Applied
<1>2. proc' = [proc EXCEPT ![p] = IdleProc]
  BY DEF EndsRun
<1>3. \A q \in Processes : q # p => proc'[q] = proc[q]
  BY <1>2
<1>4. proc'[p] = IdleProc /\ IdleProc.pc = "down" /\ IdleProc.connected = FALSE
  BY <1>2 DEF IdleProc
<1>5. LockInv'
  BY <1>3, <1>4 DEF LockInv
<1>6. RunInv' /\ StatusHolds'
  BY <1>1, <1>3, <1>4 DEF RunInv, StatusHolds
<1> QED
  BY <1>5, <1>6

LEMMA LockMigrationsInv ==
  ASSUME MigrationInv, NEW p \in Processes, LockMigrations(p)
  PROVE  MigrationInv'
<1> USE DEF MigrationInv
<1>1. UNCHANGED <<schemaVars, served, runs, breaks>> /\ Applied' = Applied
  BY DEF LockMigrations, Applied, schemaVars
<1>2. SchemaGrowsInOrder'
  BY <1>1 DEF SchemaGrowsInOrder, schemaVars
<1>3. CASE proc[p].connected
  <2>1. migLock = NoProcess /\ migLock' = p /\ proc' = [proc EXCEPT ![p].pc = "status"]
    BY <1>3 DEF LockMigrations
  <2>0. [proc[p] EXCEPT !.pc = "status"] \in ProcessRuns
    BY DEF MigrationTypeOK, ProcessRuns
  <2>2. MigrationTypeOK'
    BY <1>1, <2>1, <2>0 DEF MigrationTypeOK, schemaVars
  <2>3. LockInv'
    BY <2>1, MigrationAssumption DEF LockInv, MigrationTypeOK
  <2>4. RunInv' /\ StatusHolds'
    BY <1>1, <2>1 DEF RunInv, StatusHolds, MigrationTypeOK, LockMigrations
  <2> QED
    BY <1>2, <2>2, <2>3, <2>4
<1>4. CASE ~proc[p].connected
  <2>1. EndsRun(p)
    BY <1>4 DEF LockMigrations
  <2>2. LockInv' /\ RunInv' /\ StatusHolds'
    BY <1>1, <2>1, EndsRunInv
  <2>3. MigrationTypeOK'
    BY <1>1, <2>1, IdleType DEF MigrationTypeOK, EndsRun, Unlocked, schemaVars
  <2> QED
    BY <1>2, <2>2, <2>3
<1> QED
  BY <1>3, <1>4

LEMMA ReadStatusInv ==
  ASSUME MigrationInv, NEW p \in Processes, ReadStatus(p)
  PROVE  MigrationInv'
<1> USE DEF MigrationInv
<1>1. UNCHANGED <<schemaVars, served, runs, breaks>> /\ Applied' = Applied
  BY DEF ReadStatus, Applied, schemaVars
<1>2. SchemaGrowsInOrder'
  BY <1>1 DEF SchemaGrowsInOrder, schemaVars
<1>3. Applied \subseteq Versions
  BY DEF Applied
<1>4. CASE Modified(p) = {}
  <2>1. proc' = [proc EXCEPT ![p].pc = "apply", ![p].done = Applied] /\ migLock' = migLock
    BY <1>4 DEF ReadStatus
  <2>0. [proc[p] EXCEPT !.pc = "apply", !.done = Applied] \in ProcessRuns
    BY <1>3 DEF MigrationTypeOK, ProcessRuns
  <2>2. MigrationTypeOK'
    BY <1>1, <2>1, <2>0 DEF MigrationTypeOK, schemaVars
  <2>3. LockInv'
    BY <2>1 DEF LockInv, MigrationTypeOK, ReadStatus
  <2>4. RunInv' /\ StatusHolds'
    BY <1>1, <2>1 DEF RunInv, StatusHolds, MigrationTypeOK, ReadStatus
  <2> QED
    BY <1>2, <2>2, <2>3, <2>4
<1>5. CASE Modified(p) # {}
  <2>1. EndsRun(p)
    BY <1>5 DEF ReadStatus
  <2>2. LockInv' /\ RunInv' /\ StatusHolds'
    BY <1>1, <2>1, EndsRunInv
  <2>3. MigrationTypeOK'
    BY <1>1, <2>1, IdleType DEF MigrationTypeOK, EndsRun, Unlocked, schemaVars
  <2> QED
    BY <1>2, <2>2, <2>3
<1> QED
  BY <1>4, <1>5

LEMMA RunMoves ==
  ASSUME NEW q \in ProcessRuns
  PROVE  /\ [q EXCEPT !.connected = FALSE] \in ProcessRuns
         /\ [q EXCEPT !.pc = "running", !.connected = FALSE] \in ProcessRuns
BY DEF ProcessRuns

LEMMA FinishRunInv ==
  ASSUME MigrationInv, NEW p \in Processes, FinishRun(p)
  PROVE  MigrationInv'
<1> USE DEF MigrationInv, FinishRun
<1>1. UNCHANGED <<schemaVars, served, runs, breaks>> /\ Applied' = Applied
  BY DEF Applied, schemaVars
<1>2. SchemaGrowsInOrder'
  BY <1>1 DEF SchemaGrowsInOrder, schemaVars
<1>0. [proc[p] EXCEPT !.pc = "running", !.connected = FALSE] \in ProcessRuns
  <2>1. proc[p] \in ProcessRuns
    BY DEF MigrationTypeOK
  <2>. QED
    BY <2>1, RunMoves
<1>3. MigrationTypeOK'
  BY <1>1, <1>0, IdleType DEF MigrationTypeOK, schemaVars, Unlocked
<1>4. \A q \in Processes : q # p => proc'[q] = proc[q]
  BY DEF MigrationTypeOK
<1>5. proc'[p].pc \in {"running", "down"} /\ ~proc'[p].connected
  BY DEF MigrationTypeOK, IdleProc
<1>6. proc'[p].pc = "running" => proc'[p].kind = proc[p].kind /\ proc'[p].upTo = proc[p].upTo
  BY DEF MigrationTypeOK, IdleProc
<1>7. LockInv'
  BY <1>4, <1>5 DEF LockInv, Unlocked
<1>8. RunInv' /\ StatusHolds'
  BY <1>1, <1>4, <1>5, <1>6 DEF RunInv, StatusHolds
<1> QED
  BY <1>2, <1>3, <1>7, <1>8

LEMMA BreakConnectionInv ==
  ASSUME MigrationInv, NEW p \in Processes, BreakConnection(p)
  PROVE  MigrationInv'
<1> USE DEF MigrationInv, BreakConnection
<1>1. UNCHANGED <<schemaVars, served, runs>> /\ Applied' = Applied
  BY DEF Applied, schemaVars
<1>2. SchemaGrowsInOrder'
  BY <1>1 DEF SchemaGrowsInOrder, schemaVars
<1>0. [proc[p] EXCEPT !.connected = FALSE] \in ProcessRuns
  <2>1. proc[p] \in ProcessRuns
    BY DEF MigrationTypeOK
  <2>. QED
    BY <2>1, RunMoves
<1>3. MigrationTypeOK'
  BY <1>1, <1>0 DEF MigrationTypeOK, schemaVars, Unlocked, Break
<1>4. LockInv'
  BY DEF LockInv, Unlocked, MigrationTypeOK
<1>5. RunInv' /\ StatusHolds'
  BY <1>1 DEF RunInv, StatusHolds, MigrationTypeOK
<1> QED
  BY <1>2, <1>3, <1>4, <1>5

LEMMA DieInv ==
  ASSUME MigrationInv, NEW p \in Processes, Die(p)
  PROVE  MigrationInv'
<1> USE DEF MigrationInv, Die
<1>1. UNCHANGED <<schemaVars, runs>> /\ Applied' = Applied
  BY DEF Applied, schemaVars
<1>2. SchemaGrowsInOrder'
  BY <1>1 DEF SchemaGrowsInOrder, schemaVars
<1>3. LockInv' /\ RunInv' /\ StatusHolds'
  BY <1>1, EndsRunInv
<1>4. MigrationTypeOK'
  BY <1>1, IdleType DEF MigrationTypeOK, EndsRun, Unlocked, Break, schemaVars
<1> QED
  BY <1>2, <1>3, <1>4

(* The finance module waits for the last of its tables; the others came     *)
(* before it.                                                              *)
LEMMA StartFinanceInv ==
  ASSUME MigrationInv, NEW p \in Processes, StartFinance(p)
  PROVE  MigrationInv'
<1> USE DEF MigrationInv, StartFinance
<1>1. UNCHANGED <<schemaVars, migLock, proc, runs, breaks>> /\ Applied' = Applied
  BY DEF Applied, schemaVars
<1>2. MigrationTypeOK'
  BY <1>1 DEF MigrationTypeOK, schemaVars
<1>3. LockInv' /\ RunInv' /\ StatusHolds'
  BY <1>1 DEF LockInv, RunInv, StatusHolds
<1>4. FinanceVersion \in Applied
  BY MigrationAssumption DEF FinanceMigrated, Applied
<1>5. 1..FinanceVersion \subseteq Applied
  BY <1>4, MigrationAssumption DEF SchemaGrowsInOrder, Versions
<1>6. SchemaGrowsInOrder'
  BY <1>1, <1>5 DEF SchemaGrowsInOrder, schemaVars
<1> QED
  BY <1>2, <1>3, <1>6

-----------------------------------------------------------------------------
(* A commit.                                                               *)

(* It records the one version that continues the schema, which is the      *)
(* baseline when a boot applies it.                                        *)
LEMMA CommitContinues ==
  ASSUME MigrationInv, NEW p \in Processes, proc[p].pc = "apply", Remaining(p) # {}
  PROVE  /\ NextVersion(p) \in Versions
         /\ \A w \in Versions : w < NextVersion(p) => w \in Applied
         /\ proc[p].kind = "boot" => NextVersion(p) = Baseline
<1>1. proc[p] \in ProcessRuns /\ proc[p].done \subseteq Applied
  BY DEF MigrationInv, MigrationTypeOK, RunInv
<1>2. proc[p].binary.top \in Versions
  BY <1>1 DEF ProcessRuns
<1>3. NextVersion(p) \in Remaining(p) /\ \A w \in Remaining(p) : NextVersion(p) <= w
  BY <1>2, NextVersionLeast
<1>4. NextVersion(p) \in Versions /\ NextVersion(p) \in Embedded(p) /\ NextVersion(p) <= proc[p].upTo
  BY <1>2, <1>3, MigrationAssumption DEF Remaining, Embedded, Versions
<1>5. ASSUME NEW w \in Versions, w < NextVersion(p)
      PROVE  w \in Applied
  <2>1. w \in Embedded(p) /\ w <= proc[p].upTo
    BY <1>1, <1>2, <1>4, <1>5, MigrationAssumption DEF Embedded, Versions, ProcessRuns
  <2>2. w \notin Remaining(p)
    BY <1>3, <1>4, <1>5 DEF Versions
  <2> QED
    BY <1>1, <2>1, <2>2 DEF Remaining
<1>6. proc[p].kind = "boot" => NextVersion(p) = Baseline
  BY <1>4 DEF MigrationInv, RunInv, Versions, Baseline
<1> QED
  BY <1>4, <1>5, <1>6

LEMMA CommitInv ==
  ASSUME MigrationInv, NEW p \in Processes, proc[p].pc = "apply", Remaining(p) # {},
         CanApply(p, NextVersion(p)), Commit(p, NextVersion(p)), UNCHANGED served
  PROVE  /\ effects' \in [Versions -> Nat]
         /\ recorded' \in [Versions -> Checksums \cup {"none"}]
         /\ appliedBy' \in [Versions -> {"none", "boot", "apply"}]
         /\ Applied' = Applied \cup {NextVersion(p)}
         /\ SchemaGrowsInOrder'
<1> DEFINE v == NextVersion(p)
<1>1. /\ v \in Versions
      /\ \A w \in Versions : w < v => w \in Applied
      /\ proc[p].kind = "boot" => v = Baseline
  BY CommitContinues
<1>2. v \notin Applied
  BY DEF CanApply, Applied
<1> HIDE DEF v
<1>3. /\ effects' = [effects EXCEPT ![v] = @ + 1]
      /\ recorded' = [recorded EXCEPT ![v] = Checksum(proc[p].binary, v)]
      /\ appliedBy' = [appliedBy EXCEPT ![v] = proc[p].kind]
  BY Zenon DEF Commit, v
<1>4. Checksum(proc[p].binary, v) \in Checksums
  BY DEF Checksum, Checksums
<1>5. proc[p].kind \in {"none", "boot", "apply"}
  BY DEF MigrationInv, MigrationTypeOK, ProcessRuns
<1>6. /\ effects' \in [Versions -> Nat]
      /\ recorded' \in [Versions -> Checksums \cup {"none"}]
      /\ appliedBy' \in [Versions -> {"none", "boot", "apply"}]
  BY <1>1, <1>3, <1>4, <1>5 DEF MigrationInv, MigrationTypeOK
<1>7. Applied' = Applied \cup {v}
  BY <1>1, <1>3, <1>4 DEF Applied, Checksums, MigrationInv, MigrationTypeOK
<1>8. \A w \in Versions : effects'[w] = IF w \in Applied' THEN 1 ELSE 0
  BY <1>1, <1>2, <1>3, <1>7 DEF SchemaGrowsInOrder, MigrationInv, MigrationTypeOK
<1>9. \A u \in Applied' : \A w \in Versions : w < u => w \in Applied'
  BY <1>1, <1>7 DEF SchemaGrowsInOrder, MigrationInv
<1>10. \A u \in Applied' : appliedBy'[u] = "boot" => u = Baseline
  BY <1>1, <1>3, <1>7 DEF SchemaGrowsInOrder, MigrationInv, MigrationTypeOK
<1>11. served' # {} => 1..FinanceVersion \subseteq Applied'
  BY <1>7 DEF SchemaGrowsInOrder, MigrationInv
<1> QED
  BY <1>6, <1>7, <1>8, <1>9, <1>10, <1>11 DEF SchemaGrowsInOrder, v

(* Whoever commits over a live connection holds the lock, so no other run   *)
(* relies on a status.                                                     *)
LEMMA NobodyElseApplies ==
  ASSUME MigrationInv, NEW p \in Processes, proc[p].pc = "apply", proc[p].connected,
         NEW q \in Processes, q # p
  PROVE  ~(proc[q].pc \in {"status", "apply"} /\ proc[q].connected)
  BY DEF MigrationInv, LockInv

LEMMA ApplyNextInv ==
  ASSUME MigrationInv, NEW p \in Processes, ApplyNext(p)
  PROVE  MigrationInv'
<1> DEFINE v == NextVersion(p)
<1>1. proc[p].pc = "apply" /\ Remaining(p) # {} /\ UNCHANGED <<served, runs, breaks>>
  BY DEF ApplyNext
<1>2. CASE CanApply(p, v)
  <2>1. Commit(p, v) /\ proc' = [proc EXCEPT ![p].done = @ \cup {v}] /\ migLock' = migLock
    BY <1>2 DEF ApplyNext
  <2>2. /\ effects' \in [Versions -> Nat]
        /\ recorded' \in [Versions -> Checksums \cup {"none"}]
        /\ appliedBy' \in [Versions -> {"none", "boot", "apply"}]
        /\ Applied' = Applied \cup {v}
        /\ SchemaGrowsInOrder'
    BY <1>1, <1>2, <2>1, CommitInv
  <2>3. v \in Versions
    BY <1>1, CommitContinues
  <2> HIDE DEF v
  <2>4. [proc[p] EXCEPT !.done = @ \cup {v}] \in ProcessRuns
    BY <2>3 DEF MigrationInv, MigrationTypeOK, ProcessRuns
  <2>5. MigrationTypeOK'
    BY <1>1, <2>1, <2>2, <2>4 DEF MigrationInv, MigrationTypeOK
  <2>6. LockInv'
    BY <2>1 DEF MigrationInv, LockInv, MigrationTypeOK
  <2>7. RunInv'
    BY <2>1, <2>2 DEF MigrationInv, RunInv, MigrationTypeOK
  <2>8. ASSUME NEW q \in Processes, proc'[q].pc = "apply", proc'[q].connected
        PROVE  proc'[q].done = Applied'
    <3>1. proc[p].connected
      BY <1>2 DEF CanApply
    <3>2. q = p
      BY <1>1, <2>1, <2>8, <3>1, NobodyElseApplies DEF MigrationInv, MigrationTypeOK
    <3> QED
      BY <1>1, <2>1, <2>2, <3>1, <3>2 DEF MigrationInv, StatusHolds, MigrationTypeOK
  <2> QED
    BY <2>2, <2>5, <2>6, <2>7, <2>8 DEF MigrationInv, StatusHolds
<1>3. CASE ~CanApply(p, v)
  <2>1. EndsRun(p) /\ UNCHANGED schemaVars
    BY <1>3 DEF ApplyNext
  <2>2. LockInv' /\ RunInv' /\ StatusHolds'
    BY <2>1, EndsRunInv DEF MigrationInv
  <2>3. MigrationTypeOK'
    BY <1>1, <2>1, IdleType DEF MigrationInv, MigrationTypeOK, EndsRun, Unlocked, schemaVars
  <2>4. SchemaGrowsInOrder'
    BY <1>1, <2>1 DEF MigrationInv, SchemaGrowsInOrder, schemaVars, Applied
  <2> QED
    BY <2>2, <2>3, <2>4 DEF MigrationInv
<1> QED
  BY <1>2, <1>3

(* A commit whose answer is lost ends the run that made it.                *)
LEMMA ApplyFailsInv ==
  ASSUME MigrationInv, NEW p \in Processes, ApplyFails(p)
  PROVE  MigrationInv'
<1> DEFINE v == NextVersion(p)
<1>1. /\ proc[p].pc = "apply" /\ Remaining(p) # {} /\ UNCHANGED <<served, runs>>
      /\ EndsRun(p) /\ breaks' = breaks + 1
  BY DEF ApplyFails, Break
<1>2. proc' = [proc EXCEPT ![p] = IdleProc] /\ migLock' = Unlocked(p)
  BY <1>1 DEF EndsRun
<1>3. CASE UNCHANGED schemaVars
  <2>1. LockInv' /\ RunInv' /\ StatusHolds'
    BY <1>1, <1>3, EndsRunInv DEF MigrationInv
  <2>2. MigrationTypeOK'
    BY <1>1, <1>2, <1>3, IdleType DEF MigrationInv, MigrationTypeOK, Unlocked, schemaVars
  <2>3. SchemaGrowsInOrder'
    BY <1>1, <1>3 DEF MigrationInv, SchemaGrowsInOrder, schemaVars, Applied
  <2> QED
    BY <2>1, <2>2, <2>3 DEF MigrationInv
<1>4. CASE CanApply(p, v) /\ Commit(p, v)
  <2>1. /\ effects' \in [Versions -> Nat]
        /\ recorded' \in [Versions -> Checksums \cup {"none"}]
        /\ appliedBy' \in [Versions -> {"none", "boot", "apply"}]
        /\ Applied' = Applied \cup {v}
        /\ SchemaGrowsInOrder'
    BY <1>1, <1>4, CommitInv
  <2>2. MigrationTypeOK'
    BY <1>1, <1>2, <2>1, IdleType DEF MigrationInv, MigrationTypeOK, Unlocked
  <2>3. \A q \in Processes : q # p => proc'[q] = proc[q]
    BY <1>2 DEF MigrationInv, MigrationTypeOK
  <2>4. proc'[p].pc = "down"
    BY <1>2 DEF MigrationInv, MigrationTypeOK, IdleProc
  <2>5. LockInv'
    BY <1>2, <2>3, <2>4 DEF MigrationInv, LockInv, Unlocked
  <2>6. RunInv'
    BY <2>1, <2>3, <2>4 DEF MigrationInv, RunInv
  <2>7. proc[p].connected
    BY <1>4 DEF CanApply
  <2>8. StatusHolds'
    BY <1>1, <2>3, <2>4, <2>7, NobodyElseApplies DEF StatusHolds
  <2> QED
    BY <2>1, <2>2, <2>5, <2>6, <2>8 DEF MigrationInv
<1> QED
  BY <1>3, <1>4 DEF ApplyFails

-----------------------------------------------------------------------------
LEMMA MigrationNextInv == MigrationInv /\ [MigrationNext]_migrationVars => MigrationInv'
<1> SUFFICES ASSUME MigrationInv, [MigrationNext]_migrationVars PROVE MigrationInv'
  OBVIOUS
<1>1. CASE UNCHANGED migrationVars
  BY <1>1 DEF migrationVars, schemaVars, MigrationInv, MigrationTypeOK, LockInv, RunInv, StatusHolds,
              SchemaGrowsInOrder, Applied
<1>2. CASE MigrationNext
  <2>1. PICK p \in Processes :
          \/ \E kind \in {"boot", "apply"}, b \in Binaries, upTo \in Versions : StartRun(p, kind, b, upTo)
          \/ LockMigrations(p) \/ ReadStatus(p) \/ ApplyNext(p) \/ ApplyFails(p) \/ FinishRun(p)
          \/ BreakConnection(p) \/ Die(p) \/ StartFinance(p)
    BY <1>2, Zenon DEF MigrationNext
  <2>2. CASE \E kind \in {"boot", "apply"}, b \in Binaries, upTo \in Versions : StartRun(p, kind, b, upTo)
    BY <2>2, StartRunInv
  <2> QED
    BY <2>1, <2>2, LockMigrationsInv, ReadStatusInv, ApplyNextInv, ApplyFailsInv, FinishRunInv,
       BreakConnectionInv, DieInv, StartFinanceInv
<1> QED
  BY <1>1, <1>2

(* The runs of ApplyMigrations keep their types.                           *)
THEOREM MigrationsTyped == MigrationSpec => []MigrationTypeOK
<1>1. MigrationInv => MigrationTypeOK
  BY DEF MigrationInv
<1> QED
  BY <1>1, MigrationInitInv, MigrationNextInv, PTL DEF MigrationSpec

(* Whatever the processes, binaries and breaks, a run with its connection   *)
(* never meets a version another run applied since it read the status.     *)
(* (migrationLockID, migrate.go 29)                                        *)
THEOREM StatusStaysTrue == MigrationSpec => []StatusHolds
<1>1. MigrationInv => StatusHolds
  BY DEF MigrationInv
<1> QED
  BY <1>1, MigrationInitInv, MigrationNextInv, PTL DEF MigrationSpec

(* Whatever the processes, binaries and breaks, the versions take effect   *)
(* once and in order, a boot applies the baseline alone, and the finance   *)
(* module starts on a complete schema. (migrate.go 18-21, main.go startFinance) *)
THEOREM SchemaOrdered == MigrationSpec => []SchemaGrowsInOrder
<1>1. MigrationInv => SchemaGrowsInOrder
  BY DEF MigrationInv
<1> QED
  BY <1>1, MigrationInitInv, MigrationNextInv, PTL DEF MigrationSpec

-----------------------------------------------------------------------------
(* Directory                                                               *)

(* WhatsApp has shown p by phone alone and by LID alone.                   *)
ShownApart(p) == {"phone", "lid"} \subseteq faces[p]

(* The two unique indexes.                                                 *)
Unique(table) ==
  \A i, j \in DOMAIN table :
    /\ table[i].jid = table[j].jid => i = j
    /\ table[i].lid = table[j].lid /\ table[i].lid # NoId => i = j

Owned(table) == \A i \in DOMAIN table : \E p \in People : BelongsTo(table[i], p)

(* Rows know what every way their person was shown has in common.          *)
Common(table) ==
  \A p \in People : \A i \in DOMAIN table : BelongsTo(table[i], p) =>
    /\ "phone" \notin faces[p] => table[i].lid = Lid(p)
    /\ "lid" \notin faces[p] => table[i].jid = Phone(p)

(* An UpsertMember that has looked.                                        *)
Looked(u) ==
  /\ u.who \in People /\ u.face \in Faces /\ u.face \in faces[u.who]
  /\ u.row # 0 => u.row \in DOMAIN members /\ BelongsTo(members[u.row], u.who)
  /\ u.size <= Len(members)
  /\ u.row = 0 /\ u.size = Len(members) /\ ~ShownApart(u.who) => RowsOf(u.who) = {}

MemberInv ==
  /\ members \in Seq(Rows)
  /\ faces \in [People -> SUBSET Faces]
  /\ refused \subseteq People /\ authors \subseteq People \X Nat
  /\ upsert \in [Actors -> UpsertStates]
  /\ Unique(members) /\ Owned(members) /\ Common(members)
  /\ \A a \in Actors : upsert[a].pc = "write" => Looked(upsert[a])
  /\ \A p \in refused : ShownApart(p)
  /\ \A x \in authors : x[2] \in DOMAIN members /\ BelongsTo(members[x[2]], x[1])

-----------------------------------------------------------------------------
(* Identities.                                                             *)

LEMMA IdentitiesDiffer ==
  /\ \A p, q : Phone(p) = Phone(q) => p = q
  /\ \A p, q : Lid(p) = Lid(q) => p = q
  /\ \A p, q : Phone(p) # Lid(q)
  /\ \A p : Phone(p) # NoId /\ Lid(p) # NoId
  BY DEF Phone, Lid, NoId

LEMMA OneOwner ==
  ASSUME NEW row, NEW p, NEW q, BelongsTo(row, p), row.jid \in {Phone(q), Lid(q)}
  PROVE  p = q
  BY IdentitiesDiffer DEF BelongsTo

LEMMA InputBelongs ==
  ASSUME NEW p \in People, NEW face \in Faces
  PROVE  /\ MemberInput(p, face) \in Rows
         /\ BelongsTo(MemberInput(p, face), p)
         /\ face # "phone" => MemberInput(p, face).lid = Lid(p)
         /\ face # "lid" => MemberInput(p, face).jid = Phone(p)
  BY DEF MemberInput, Rows, BelongsTo, Faces

(* What a query with an identity of p finds is a row of p.                 *)
LEMMA FoundBelongs ==
  ASSUME MemberInv, NEW p \in People, NEW face \in Faces, NEW i \in DOMAIN members,
         Matches(i, Identities(MemberInput(p, face)))
  PROVE  BelongsTo(members[i], p)
<1>1. PICK q \in People : BelongsTo(members[i], q)
  BY DEF MemberInv, Owned
<1>2. Identities(MemberInput(p, face)) \subseteq {Phone(p), Lid(p)} \ {NoId}
  BY DEF Identities, MemberInput, Faces
<1>3. {members[i].jid, members[i].lid, members[i].phone} \subseteq {Phone(q), Lid(q), NoId}
  BY <1>1 DEF BelongsTo
<1>4. p = q
  BY <1>2, <1>3, IdentitiesDiffer DEF Matches
<1> QED
  BY <1>1, <1>4

LEMMA FirstMatchFinds ==
  ASSUME MemberInv, NEW ids
  PROVE  /\ FirstMatch(ids) = 0 => \A i \in DOMAIN members : ~Matches(i, ids)
         /\ FirstMatch(ids) # 0 => FirstMatch(ids) \in DOMAIN members /\ Matches(FirstMatch(ids), ids)
<1>1. DOMAIN members \subseteq Nat /\ 0 \notin DOMAIN members
  BY DEF MemberInv
<1>2. CASE \E i \in DOMAIN members : Matches(i, ids)
  <2> DEFINE found == {i \in DOMAIN members : Matches(i, ids)}
  <2>1. found \in SUBSET Nat /\ found # {}
    BY <1>1, <1>2
  <2>2. \E n \in found : \A m \in found : n <= m
    BY <2>1, NatMinimum
  <2>3. \E i \in DOMAIN members : Matches(i, ids) /\ \A j \in DOMAIN members : Matches(j, ids) => i <= j
    BY <2>2
  <2>4. FirstMatch(ids) \in DOMAIN members /\ Matches(FirstMatch(ids), ids)
    BY <1>2, <2>3, Zenon DEF FirstMatch
  <2> QED
    BY <1>1, <2>4
<1>3. CASE ~ \E i \in DOMAIN members : Matches(i, ids)
  BY <1>3 DEF FirstMatch
<1> QED
  BY <1>2, <1>3

-----------------------------------------------------------------------------
(* FindMember: somebody is looked up, and may be shown in a new way.       *)
LEMMA LookInv ==
  ASSUME MemberInv, NEW a \in Actors, NEW p \in People, NEW face \in Faces,
         StartUpsert(a, p, face), UNCHANGED <<members, refused, authors>>
  PROVE  MemberInv'
<1> DEFINE in == MemberInput(p, face)
           looking == [pc |-> "write", who |-> p, face |-> face, row |-> FindMember(in), size |-> Len(members)]
<1>0. PICK u : u = looking
  OBVIOUS
<1>1. upsert' = [upsert EXCEPT ![a] = u] /\ faces' = [faces EXCEPT ![p] = @ \cup {face}]
  BY <1>0 DEF StartUpsert
<1>2. faces' \in [People -> SUBSET Faces] /\ face \in faces'[p] /\ \A q \in People : faces[q] \subseteq faces'[q]
  BY <1>1 DEF MemberInv
<1>3. FindMember(in) # 0 => FindMember(in) \in DOMAIN members /\ BelongsTo(members[FindMember(in)], p)
  BY FirstMatchFinds, FoundBelongs DEF FindMember
<1>4. FindMember(in) \in Nat /\ Len(members) \in Nat
  BY FirstMatchFinds DEF FindMember, MemberInv
<1>5. ASSUME FindMember(in) = 0, ~ShownApart(p)'
      PROVE  RowsOf(p) = {}
  <2>1. SUFFICES ASSUME NEW i \in DOMAIN members, BelongsTo(members[i], p) PROVE FALSE
    BY DEF RowsOf
  <2>2. ~Matches(i, Identities(in))
    BY <1>5, FirstMatchFinds DEF FindMember
  <2>3. "phone" \notin faces'[p] \/ "lid" \notin faces'[p]
    BY <1>5 DEF ShownApart
  <2>4. CASE "phone" \notin faces'[p]
    <3>1. members[i].lid = Lid(p)
      BY <1>2, <2>1, <2>4 DEF MemberInv, Common
    <3>2. Lid(p) \in Identities(in)
      BY <1>2, <2>4, IdentitiesDiffer, InputBelongs DEF Identities
    <3> QED
      BY <2>2, <3>1, <3>2 DEF Matches
  <2>5. CASE "lid" \notin faces'[p]
    <3>1. members[i].jid = Phone(p)
      BY <1>2, <2>1, <2>5 DEF MemberInv, Common
    <3>2. Phone(p) \in Identities(in)
      BY <1>2, <2>5, IdentitiesDiffer, InputBelongs DEF Identities
    <3> QED
      BY <2>2, <3>1, <3>2 DEF Matches
  <2> QED
    BY <2>3, <2>4, <2>5
<1>6. /\ u \in UpsertStates
      /\ u.who = p /\ u.face = face /\ u.row = FindMember(in) /\ u.size = Len(members)
  BY <1>0, <1>4 DEF UpsertStates
<1> HIDE DEF in
<1>7. Looked(u)'
  BY <1>2, <1>3, <1>4, <1>5, <1>6 DEF Looked, RowsOf
<1>8. upsert' \in [Actors -> UpsertStates] /\ upsert'[a] = u /\ \A b \in Actors : b # a => upsert'[b] = upsert[b]
  BY <1>1, <1>6 DEF MemberInv
<1>9. \A q \in People : ShownApart(q) => ShownApart(q)'
  BY <1>2 DEF ShownApart
<1>10. ASSUME NEW b \in Actors, b # a, upsert[b].pc = "write"
       PROVE  Looked(upsert[b])'
  <2>1. Looked(upsert[b])
    BY <1>10 DEF MemberInv
  <2> QED
    BY <1>2, <1>8, <1>9, <1>10, <2>1 DEF Looked, RowsOf
<1>11. \A b \in Actors : upsert'[b].pc = "write" => Looked(upsert[b])'
  BY <1>1, <1>7, <1>8, <1>10
<1>12. Common(members)'
  BY <1>2 DEF MemberInv, Common
<1> QED
  BY <1>2, <1>8, <1>9, <1>11, <1>12 DEF MemberInv, Unique, Owned

-----------------------------------------------------------------------------
(* The statement that writes a member.                                     *)

(* What a table may become: rows stay whose they were, the indexes hold.   *)
Fits(table, row, p) ==
  /\ table \in Seq(Rows)
  /\ Len(members) <= Len(table)
  /\ \A i \in DOMAIN members : \A q \in People : BelongsTo(table[i], q) <=> BelongsTo(members[i], q)
  /\ Unique(table) /\ Owned(table) /\ Common(table)
  /\ row # 0 => row \in DOMAIN table /\ BelongsTo(table[row], p)

LEMMA UnchangedFits ==
  ASSUME MemberInv, NEW row, NEW p, row # 0 => row \in DOMAIN members /\ BelongsTo(members[row], p)
  PROVE  Fits(members, row, p)
  BY DEF MemberInv, Fits

(* The UPDATE of the row that was found.                                   *)
LEMMA MergedFits ==
  ASSUME MemberInv, NEW p \in People, NEW face \in faces[p], NEW row \in DOMAIN members,
         BelongsTo(members[row], p), ~LidTaken(Merged(members[row], MemberInput(p, face)).lid, row)
  PROVE  Fits([members EXCEPT ![row] = Merged(@, MemberInput(p, face))], row, p)
<1> DEFINE in == MemberInput(p, face)
           new == Merged(members[row], in)
           table == [members EXCEPT ![row] = new]
<1>1. face \in Faces
  BY DEF MemberInv
<1>2. in \in Rows /\ BelongsTo(in, p)
  BY <1>1, InputBelongs
<1>3. members[row] \in Rows
  BY DEF MemberInv
<1>4. /\ new \in Rows /\ new.jid = members[row].jid
      /\ new.lid = Coalesce(members[row].lid, in.lid)
      /\ new.phone = Coalesce(members[row].phone, in.phone)
  BY <1>2, <1>3 DEF Merged, Rows, Coalesce
<1>5. BelongsTo(new, p)
  BY <1>2, <1>4 DEF BelongsTo, Coalesce
<1> HIDE DEF in, new
<1>6. /\ table \in Seq(Rows) /\ Len(table) = Len(members) /\ DOMAIN table = DOMAIN members
      /\ table[row] = new /\ \A i \in DOMAIN members : i # row => table[i] = members[i]
  BY <1>4 DEF MemberInv
<1>7. \A q \in People : BelongsTo(new, q) <=> BelongsTo(members[row], q)
  BY <1>4, <1>5, OneOwner DEF BelongsTo
<1> HIDE DEF table
<1>8. ~LidTaken(new.lid, row)
  BY DEF new, in
<1>9. Unique(table)
  BY <1>4, <1>6, <1>8 DEF Unique, LidTaken, MemberInv
<1>10. Owned(table)
  BY <1>5, <1>6 DEF Owned, MemberInv
<1>11. Common(table)
  <2>1. SUFFICES ASSUME NEW q \in People, NEW i \in DOMAIN table, BelongsTo(table[i], q)
                 PROVE  /\ "phone" \notin faces[q] => table[i].lid = Lid(q)
                        /\ "lid" \notin faces[q] => table[i].jid = Phone(q)
    BY DEF Common
  <2>2. CASE i # row
    BY <1>6, <2>1, <2>2 DEF MemberInv, Common
  <2>3. CASE i = row
    <3>1. /\ "phone" \notin faces[q] => members[row].lid = Lid(q)
          /\ "lid" \notin faces[q] => members[row].jid = Phone(q)
      BY <1>6, <1>7, <2>1, <2>3 DEF MemberInv, Common
    <3> QED
      BY <1>4, <1>6, <2>3, <3>1, IdentitiesDiffer DEF Coalesce
  <2> QED
    BY <2>2, <2>3
<1>12. \A i \in DOMAIN members : \A q \in People : BelongsTo(table[i], q) <=> BelongsTo(members[i], q)
  BY <1>6, <1>7
<1>13. Len(members) <= Len(table) /\ (row # 0 => row \in DOMAIN table /\ BelongsTo(table[row], p))
  BY <1>5, <1>6 DEF MemberInv
<1>14. Fits(table, row, p)
  BY <1>6, <1>9, <1>10, <1>11, <1>12, <1>13 DEF Fits
<1> QED
  BY <1>14 DEF table, new, in

(* The INSERT.                                                             *)
LEMMA InsertedFits ==
  ASSUME MemberInv, NEW p \in People, NEW face \in faces[p],
         SameJID(MemberInput(p, face)) = {}, ~LidTaken(MemberInput(p, face).lid, 0)
  PROVE  Fits(Append(members, MemberInput(p, face)), Len(members) + 1, p)
<1> DEFINE in == MemberInput(p, face)
           table == Append(members, in)
<1>1. face \in Faces
  BY DEF MemberInv
<1>2. /\ in \in Rows /\ BelongsTo(in, p)
      /\ face # "phone" => in.lid = Lid(p)
      /\ face # "lid" => in.jid = Phone(p)
  BY <1>1, InputBelongs
<1>3. \A i \in DOMAIN members : members[i].jid # in.jid /\ (in.lid # NoId => members[i].lid # in.lid)
  BY DEF SameJID, LidTaken, MemberInv
<1> HIDE DEF in
<1>4. /\ table \in Seq(Rows) /\ Len(table) = Len(members) + 1
      /\ DOMAIN table = DOMAIN members \cup {Len(members) + 1} /\ Len(members) + 1 \notin DOMAIN members
      /\ table[Len(members) + 1] = in /\ \A i \in DOMAIN members : table[i] = members[i]
  BY <1>2 DEF MemberInv
<1> HIDE DEF table
<1>5. Unique(table)
  BY <1>3, <1>4 DEF Unique, MemberInv
<1>6. Owned(table)
  BY <1>2, <1>4 DEF Owned, MemberInv
<1>7. Common(table)
  <2>1. SUFFICES ASSUME NEW q \in People, NEW i \in DOMAIN table, BelongsTo(table[i], q)
                 PROVE  /\ "phone" \notin faces[q] => table[i].lid = Lid(q)
                        /\ "lid" \notin faces[q] => table[i].jid = Phone(q)
    BY DEF Common
  <2>2. CASE i \in DOMAIN members
    BY <1>4, <2>1, <2>2 DEF MemberInv, Common
  <2>3. CASE i = Len(members) + 1
    <3>1. q = p
      BY <1>2, <1>4, <2>1, <2>3, OneOwner DEF BelongsTo
    <3> QED
      BY <1>2, <1>4, <2>3, <3>1
  <2> QED
    BY <1>4, <2>2, <2>3
<1>8. \A i \in DOMAIN members : \A q \in People : BelongsTo(table[i], q) <=> BelongsTo(members[i], q)
  BY <1>4
<1>9. Len(members) \in Nat
  BY DEF MemberInv
<1>10. Fits(table, Len(members) + 1, p)
  BY <1>2, <1>4, <1>5, <1>6, <1>7, <1>8, <1>9 DEF Fits
<1> QED
  BY <1>10 DEF table, in

LEMMA WrittenFits ==
  ASSUME MemberInv, NEW u, Looked(u), NEW w, w = Written(u.row, MemberInput(u.who, u.face))
  PROVE  /\ Fits(w.table, w.row, u.who)
         /\ w.row = 0 /\ Len(members) = u.size => ShownApart(u.who)
<1> DEFINE in == MemberInput(u.who, u.face)
<1>1. u.who \in People /\ u.face \in Faces /\ u.face \in faces[u.who] /\ in \in Rows /\ BelongsTo(in, u.who)
  BY InputBelongs DEF Looked
<1>2. CASE u.row # 0 /\ LidTaken(Merged(members[u.row], in).lid, u.row)
  <2>1. w = [row |-> 0, table |-> members]
    BY <1>2 DEF Written
  <2>2. u.row \in DOMAIN members /\ BelongsTo(members[u.row], u.who) /\ members[u.row] \in Rows
    BY <1>2 DEF Looked, MemberInv
  <2>3. Merged(members[u.row], in).lid = Coalesce(members[u.row].lid, in.lid)
    BY <2>2 DEF Merged, Rows
  <2>4. PICK j \in DOMAIN members : j # u.row /\ members[j].lid = Coalesce(members[u.row].lid, in.lid)
                                    /\ members[j].lid # NoId
    BY <1>2, <2>3 DEF LidTaken
  <2>5. members[j].lid = Lid(u.who)
    BY <1>1, <2>2, <2>4 DEF Coalesce, BelongsTo
  <2>6. BelongsTo(members[j], u.who)
    <3>1. PICK q \in People : BelongsTo(members[j], q)
      BY DEF MemberInv, Owned
    <3> QED
      BY <2>5, <3>1, IdentitiesDiffer DEF BelongsTo
  <2>7. ShownApart(u.who)
    BY <1>1, <2>2, <2>4, <2>5, <2>6, IdentitiesDiffer DEF MemberInv, Common, Unique, ShownApart
  <2>8. Fits(members, 0, u.who)
    BY UnchangedFits
  <2> QED
    BY <2>1, <2>7, <2>8
<1>3. CASE u.row # 0 /\ ~LidTaken(Merged(members[u.row], in).lid, u.row)
  <2>1. w = [row |-> u.row, table |-> [members EXCEPT ![u.row] = Merged(@, in)]]
    BY <1>3 DEF Written
  <2>2. u.row \in DOMAIN members /\ BelongsTo(members[u.row], u.who)
    BY <1>3 DEF Looked
  <2>3. Fits([members EXCEPT ![u.row] = Merged(@, in)], u.row, u.who)
    BY <1>1, <1>3, <2>2, MergedFits
  <2> QED
    BY <1>3, <2>1, <2>3
<1>4. CASE u.row = 0 /\ SameJID(in) # {}
  <2> DEFINE i == CHOOSE x \in SameJID(in) : TRUE
  <2>1. w = [row |-> i, table |-> members]
    BY <1>4 DEF Written
  <2>2. i \in DOMAIN members /\ members[i].jid = in.jid
    BY <1>4 DEF SameJID
  <2>3. BelongsTo(members[i], u.who)
    <3>1. PICK q \in People : BelongsTo(members[i], q)
      BY <2>2 DEF MemberInv, Owned
    <3> QED
      BY <1>1, <2>2, <3>1, OneOwner DEF BelongsTo
  <2> HIDE DEF i
  <2>4. i # 0
    BY <2>2 DEF MemberInv
  <2>5. Fits(members, i, u.who)
    BY <2>2, <2>3, UnchangedFits
  <2> QED
    BY <2>1, <2>4, <2>5
<1>5. CASE u.row = 0 /\ SameJID(in) = {} /\ LidTaken(in.lid, 0)
  <2>1. w = [row |-> 0, table |-> members]
    BY <1>5 DEF Written
  <2>2. PICK j \in DOMAIN members : members[j].lid = in.lid /\ in.lid # NoId
    BY <1>5 DEF LidTaken
  <2>3. members[j].lid = Lid(u.who)
    BY <1>1, <2>2 DEF BelongsTo
  <2>4. BelongsTo(members[j], u.who)
    <3>1. PICK q \in People : BelongsTo(members[j], q)
      BY DEF MemberInv, Owned
    <3> QED
      BY <2>3, <3>1, IdentitiesDiffer DEF BelongsTo
  <2>5. Len(members) = u.size => ShownApart(u.who)
    BY <1>5, <2>4 DEF Looked, RowsOf
  <2>6. Fits(members, 0, u.who)
    BY UnchangedFits
  <2> QED
    BY <2>1, <2>5, <2>6
<1>6. CASE u.row = 0 /\ SameJID(in) = {} /\ ~LidTaken(in.lid, 0)
  <2>1. w = [row |-> Len(members) + 1, table |-> Append(members, in)]
    BY <1>6 DEF Written
  <2>2. Len(members) \in Nat
    BY DEF MemberInv
  <2>3. Fits(Append(members, in), Len(members) + 1, u.who)
    BY <1>1, <1>6, InsertedFits
  <2> QED
    BY <2>1, <2>2, <2>3
<1> QED
  BY <1>2, <1>3, <1>4, <1>5, <1>6

LEMMA WriteMemberInv ==
  ASSUME MemberInv, NEW a \in Actors, WriteMember(a)
  PROVE  MemberInv'
<1>1. PICK u : u = upsert[a]
  OBVIOUS
<1>2. PICK w : w = Written(u.row, MemberInput(u.who, u.face))
  OBVIOUS
<1>3. /\ u.pc = "write" /\ upsert' = [upsert EXCEPT ![a] = IdleUpsert] /\ faces' = faces
      /\ \/ /\ members' = w.table
            /\ refused' = IF w.row = 0 /\ Alone(a) THEN refused \cup {u.who} ELSE refused
            /\ AfterUpsert(a, w.row)
         \/ AfterUpsert(a, 0) /\ UNCHANGED <<members, refused>>
  BY <1>1, <1>2 DEF WriteMember
<1>4. Looked(u) /\ u.who \in People
  BY <1>1, <1>3 DEF MemberInv, Looked
<1>5. Fits(w.table, w.row, u.who) /\ (w.row = 0 /\ Len(members) = u.size => ShownApart(u.who))
  BY <1>2, <1>4, WrittenFits
<1>6. Fits(members, 0, u.who)
  BY UnchangedFits
<1>7. PICK row : /\ Fits(members', row, u.who)
                 /\ AfterUpsert(a, row)
                 /\ refused' = refused \/ (refused' = refused \cup {u.who} /\ ShownApart(u.who))
  BY <1>1, <1>3, <1>5, <1>6 DEF Alone
<1>8. /\ members' \in Seq(Rows) /\ Unique(members') /\ Owned(members') /\ Common(members)'
      /\ Len(members) <= Len(members')
      /\ \A i \in DOMAIN members : \A q \in People : BelongsTo(members'[i], q) <=> BelongsTo(members[i], q)
      /\ row # 0 => row \in DOMAIN members' /\ BelongsTo(members'[row], u.who)
  BY <1>3, <1>7 DEF Fits, Common
<1>9. DOMAIN members \subseteq DOMAIN members' /\ Len(members) \in Nat /\ Len(members') \in Nat
  BY <1>8 DEF MemberInv
<1>10. \A p \in People : ShownApart(p)' = ShownApart(p)
  BY <1>3 DEF ShownApart
<1>11. upsert' \in [Actors -> UpsertStates] /\ upsert'[a].pc = "none"
       /\ \A b \in Actors : b # a => upsert'[b] = upsert[b]
  BY <1>3 DEF MemberInv, UpsertStates, IdleUpsert
<1>12. ASSUME NEW b \in Actors, upsert'[b].pc = "write"
       PROVE  Looked(upsert[b])'
  <2>1. PICK v : v = upsert[b] /\ v = upsert'[b]
    BY <1>11, <1>12
  <2>2. Looked(v) /\ v.size \in Nat
    BY <1>11, <1>12, <2>1 DEF MemberInv, UpsertStates
  <2>3. v.row # 0 => v.row \in DOMAIN members' /\ BelongsTo(members'[v.row], v.who)
    BY <1>8, <1>9, <2>2 DEF Looked
  <2>4. v.size <= Len(members')
    BY <1>8, <1>9, <2>2 DEF Looked
  <2>5. ASSUME v.row = 0, v.size = Len(members'), ~ShownApart(v.who)
        PROVE  RowsOf(v.who)' = {}
    <3>1. Len(members) = Len(members') /\ RowsOf(v.who) = {} /\ v.who \in People
      BY <1>8, <1>9, <2>2, <2>5 DEF Looked
    <3>2. DOMAIN members' = DOMAIN members
      BY <1>8, <3>1 DEF MemberInv
    <3> QED
      BY <1>8, <3>1, <3>2 DEF RowsOf
  <2>6. Looked(v)'
    BY <1>3, <1>10, <2>2, <2>3, <2>4, <2>5 DEF Looked
  <2> QED
    BY <2>1, <2>6
<1>13. refused' \subseteq People /\ \A p \in refused' : ShownApart(p)'
  BY <1>4, <1>7, <1>10 DEF MemberInv
<1>14. authors' = authors \/ (row # 0 /\ authors' = authors \cup {<<u.who, row>>})
  BY <1>1, <1>7 DEF AfterUpsert
<1>15. /\ authors' \subseteq People \X Nat
       /\ \A x \in authors' : x[2] \in DOMAIN members' /\ BelongsTo(members'[x[2]], x[1])
  <2>1. \A x \in authors : x[2] \in DOMAIN members' /\ BelongsTo(members'[x[2]], x[1])
    BY <1>8, <1>9 DEF MemberInv
  <2>2. row # 0 => row \in Nat
    BY <1>8
  <2> QED
    BY <1>4, <1>8, <1>14, <2>1, <2>2 DEF MemberInv
<1>16. faces' \in [People -> SUBSET Faces]
  BY <1>3 DEF MemberInv
<1> QED
  BY <1>8, <1>11, <1>12, <1>13, <1>15, <1>16 DEF MemberInv, Unique, Owned

-----------------------------------------------------------------------------
(* The router.                                                             *)

(* The table and the map are changed by links and unlinks; a request works  *)
(* on members where syncMembers does.                                      *)
RouterInv ==
  /\ wsRows \in 0..1 /\ creating \in Requests \cup {NoActor}
  /\ groupRow \in Links /\ groupMap \in Links /\ links \in Nat
  /\ blame \subseteq {"unrefreshed", "overtaken"}
  /\ req \in [Requests -> RequestStates]
  /\ \A r \in Requests :
       /\ req[r].pc \in {"update", "query", "store"} => req[r].op \in {"link", "unlink"}
       /\ upsert[r].pc = "write" => req[r].pc = "members"
  /\ MapFollowsTable

LEMMA IdleRequestType == IdleRequest \in RequestStates /\ NotLinked \in Links /\ IdleRequest.pc = "free"
  BY DEF IdleRequest, RequestStates, NotLinked, Links

(* Where a request goes once it has its workspace.                         *)
LEMMA EnterLeads ==
  ASSUME RouterInv, NEW r \in Requests, Enter(r)
  PROVE  \E new \in RequestStates :
           /\ req' = [req EXCEPT ![r] = new]
           /\ new.pc \in {"info", "update", "free"}
           /\ new.pc = "update" => new.op \in {"link", "unlink"}
<1>1. req[r] \in RequestStates
  BY DEF RouterInv
<1>2. \/ req' = [req EXCEPT ![r].pc = "info"]
      \/ req[r].op = "unlink" /\ req' = [req EXCEPT ![r].pc = "update"]
      \/ req' = [req EXCEPT ![r] = IdleRequest]
  BY DEF Enter, Goto, Done
<1>3. [req[r] EXCEPT !.pc = "info"] \in RequestStates /\ [req[r] EXCEPT !.pc = "update"] \in RequestStates
  BY <1>1 DEF RequestStates
<1>4. CASE req' = [req EXCEPT ![r].pc = "info"]
  <2>1. req' = [req EXCEPT ![r] = [req[r] EXCEPT !.pc = "info"]]
    BY <1>4 DEF RouterInv
  <2>2. [req[r] EXCEPT !.pc = "info"].pc = "info"
    BY <1>1 DEF RequestStates
  <2> QED
    BY <1>3, <2>1, <2>2
<1>5. CASE req[r].op = "unlink" /\ req' = [req EXCEPT ![r].pc = "update"]
  <2>1. req' = [req EXCEPT ![r] = [req[r] EXCEPT !.pc = "update"]]
    BY <1>5 DEF RouterInv
  <2>2. [req[r] EXCEPT !.pc = "update"].pc = "update" /\ [req[r] EXCEPT !.pc = "update"].op = "unlink"
    BY <1>1, <1>5 DEF RequestStates
  <2> QED
    BY <1>3, <2>1, <2>2
<1>6. CASE req' = [req EXCEPT ![r] = IdleRequest]
  BY <1>6, IdleRequestType
<1> QED
  BY <1>2, <1>4, <1>5, <1>6

(* A request moves and keeps its promise to refresh, if it made one.       *)
LEMMA RequestMoves ==
  ASSUME RouterInv, NEW r \in Requests, NEW new \in RequestStates,
         req' = [req EXCEPT ![r] = new],
         new.pc \in {"update", "query", "store"} => new.op \in {"link", "unlink"},
         upsert' = upsert, upsert[r].pc = "write" => new.pc = "members",
         UNCHANGED <<groupRow, links, routerVars>>,
         Refreshing(r) => new.pc \in {"query", "store"},
         wsRows' \in 0..1, creating' \in Requests \cup {NoActor}
  PROVE  RouterInv'
<1>1. /\ req' \in [Requests -> RequestStates] /\ req'[r] = new
      /\ \A q \in Requests : q # r => req'[q] = req[q]
  BY DEF RouterInv
<1>2. \A q \in Requests : Refreshing(q) => Refreshing(q)'
  BY <1>1 DEF Refreshing, At
<1>3. MapFollowsTable'
  BY <1>2 DEF RouterInv, MapFollowsTable, routerVars
<1> QED
  BY <1>1, <1>3 DEF RouterInv, routerVars

(* A request that changed the row gives up: it says so.                    *)
LEMMA RequestGivesUp ==
  ASSUME RouterInv, NEW r \in Requests, Done(r), blame' = blame \cup Unrefreshed(r),
         UNCHANGED <<tableVars, groupMap>>,
         \A q \in Requests : q # r => upsert'[q] = upsert[q], upsert'[r].pc # "write"
  PROVE  RouterInv'
<1>1. /\ req' \in [Requests -> RequestStates] /\ req'[r] = IdleRequest
      /\ \A q \in Requests : q # r => req'[q] = req[q]
  BY IdleRequestType DEF RouterInv, Done
<1>2. \A q \in Requests : q # r /\ Refreshing(q) => Refreshing(q)'
  BY <1>1 DEF Refreshing, At
<1>3. Refreshing(r) => "unrefreshed" \in blame'
  BY DEF Refreshing, At, Unrefreshed, RouterInv
<1>4. MapFollowsTable'
  BY <1>2, <1>3 DEF RouterInv, MapFollowsTable, tableVars
<1>5. blame' \subseteq {"unrefreshed", "overtaken"}
  BY DEF RouterInv, Unrefreshed
<1> QED
  BY <1>1, <1>4, <1>5, IdleRequestType DEF RouterInv, tableVars

LEMMA ReadingMoves ==
  ASSUME NEW q \in RequestStates, NEW link \in Links,
         NEW new, new = [q EXCEPT !.pc = "store", !.reading = link]
  PROVE  new \in RequestStates /\ new.pc = "store" /\ new.op = q.op
BY DEF RequestStates

(* RefreshGroups has queried the table.                                    *)
LEMMA QueryGroupsRouter ==
  ASSUME RouterInv, NEW r \in Requests, QueryGroups(r)
  PROVE  RouterInv'
<1>1. CASE req' = [req EXCEPT ![r].pc = "store", ![r].reading = groupRow] /\ UNCHANGED blame
  <2>1. PICK new : new = [req[r] EXCEPT !.pc = "store", !.reading = groupRow]
    OBVIOUS
  <2>0. req[r] \in RequestStates /\ groupRow \in Links
    BY DEF RouterInv
  <2>2. new \in RequestStates /\ new.pc = "store" /\ new.op = req[r].op
    BY <2>0, <2>1, ReadingMoves
  <2>3. req' = [req EXCEPT ![r] = new]
    BY <1>1, <2>1 DEF RouterInv
  <2>4. new.op \in {"link", "unlink"} /\ upsert[r].pc # "write"
    BY <2>2 DEF QueryGroups, At, RouterInv
  <2>5. UNCHANGED <<wsRows, creating, groupRow, links, upsert>> /\ UNCHANGED routerVars
    BY <1>1 DEF QueryGroups, tableVars, routerVars
  <2>6. wsRows' \in 0..1 /\ creating' \in Requests \cup {NoActor}
    BY <2>5 DEF RouterInv
  <2>7. UNCHANGED <<groupRow, links, routerVars>>
    BY <2>5
  <2> QED
    BY <2>2, <2>3, <2>4, <2>5, <2>6, <2>7, RequestMoves
<1>2. CASE blame' = blame \cup Unrefreshed(r) /\ Done(r)
  <2>1. upsert[r].pc # "write"
    BY DEF QueryGroups, At, RouterInv
  <2> QED
    BY <1>2, <2>1, RequestGivesUp DEF QueryGroups
<1> QED
  BY <1>1, <1>2 DEF QueryGroups

(* RefreshGroups stores what it read: the blame is gone exactly when that  *)
(* is what the table says now.                                             *)
LEMMA StoreGroupsRouter ==
  ASSUME RouterInv, NEW r \in Requests, StoreGroups(r)
  PROVE  RouterInv'
<1>1. req[r] \in RequestStates /\ upsert[r].pc # "write"
  BY DEF StoreGroups, At, RouterInv
<1>2. groupMap' = req[r].reading /\ blame' = (IF req[r].reading = groupRow THEN {} ELSE blame \cup {"overtaken"})
  BY DEF StoreGroups
<1>3. groupMap' \in Links /\ blame' \subseteq {"unrefreshed", "overtaken"}
      /\ (blame' = {} => groupMap' = groupRow)
  BY <1>1, <1>2 DEF RouterInv, RequestStates
<1>4. \E new \in RequestStates : req' = [req EXCEPT ![r] = new] /\ new.pc \in {"default", "free"}
  <2>1. CASE req' = [req EXCEPT ![r].pc = "default", ![r].op = "sync"]
    <3>1. PICK new : new = [req[r] EXCEPT !.pc = "default", !.op = "sync"]
      OBVIOUS
    <3>2. new \in RequestStates /\ new.pc = "default"
      BY <1>1, <3>1 DEF RequestStates
    <3>3. req' = [req EXCEPT ![r] = new]
      BY <2>1, <3>1 DEF RouterInv
    <3> QED
      BY <3>2, <3>3
  <2>2. CASE Done(r)
    BY <2>2, IdleRequestType DEF Done
  <2> QED
    BY <2>1, <2>2 DEF StoreGroups
<1>5. PICK new \in RequestStates : req' = [req EXCEPT ![r] = new] /\ new.pc \in {"default", "free"}
  BY <1>4
<1>6. /\ req' \in [Requests -> RequestStates] /\ req'[r] = new
      /\ \A q \in Requests : q # r => req'[q] = req[q]
  BY <1>5 DEF RouterInv
<1>7. UNCHANGED <<wsRows, creating, groupRow, links, upsert>>
  BY DEF StoreGroups, tableVars
<1> QED
  BY <1>1, <1>3, <1>5, <1>6, <1>7 DEF RouterInv, MapFollowsTable

(* One UPDATE of the row: whoever did it is on its way to RefreshGroups.   *)
LEMMA UpdateRowRouter ==
  ASSUME RouterInv, NEW r \in Requests, UpdateRow(r)
  PROVE  RouterInv'
<1>1. req[r] \in RequestStates /\ req[r].op \in {"link", "unlink"} /\ upsert[r].pc # "write" /\ links \in Nat
  BY DEF UpdateRow, At, RouterInv
<1>2. UNCHANGED <<wsRows, creating, groupMap, blame, upsert>>
  BY DEF UpdateRow, routerVars
<1>3. CASE Done(r) /\ UNCHANGED <<groupRow, links>>
  <2>1. ~Refreshing(r)
    BY DEF UpdateRow, At, Refreshing
  <2> QED
    BY <1>1, <1>2, <1>3, <2>1, IdleRequestType, RequestMoves DEF Done, routerVars, RouterInv
<1>4. CASE /\ links' \in Nat /\ groupRow' \in Links
           /\ Goto(r, IF req[r].op = "link" THEN "members" ELSE "query")
  <2>1. PICK new : new = [req[r] EXCEPT !.pc = IF req[r].op = "link" THEN "members" ELSE "query"]
    OBVIOUS
  <2>2. new \in RequestStates /\ new.op = req[r].op
        /\ new.pc = (IF req[r].op = "link" THEN "members" ELSE "query")
    BY <1>1, <2>1 DEF RequestStates
  <2>3. req' = [req EXCEPT ![r] = new]
    BY <1>4, <2>1 DEF Goto, RouterInv
  <2>4. /\ req' \in [Requests -> RequestStates] /\ req'[r] = new
        /\ \A q \in Requests : q # r => req'[q] = req[q]
    BY <2>2, <2>3 DEF RouterInv
  <2>5. Refreshing(r)'
    BY <1>1, <2>2, <2>4 DEF Refreshing, At
  <2>6. MapFollowsTable'
    BY <2>5 DEF MapFollowsTable
  <2> QED
    BY <1>1, <1>2, <1>4, <2>2, <2>4, <2>6 DEF RouterInv
<1>5. CASE req[r].op = "link" /\ links' = links + 1 /\ groupRow' = [jid |-> req[r].group, at |-> links + 1]
           /\ Goto(r, "members")
  <2>1. req[r].group \in Groups \cup {"none"}
    BY <1>1 DEF RequestStates
  <2> QED
    BY <1>1, <1>4, <1>5, <2>1 DEF Links
<1>6. CASE req[r].op # "link" /\ groupRow' = NotLinked /\ Goto(r, "query") /\ UNCHANGED links
  BY <1>1, <1>4, <1>6, IdleRequestType
<1> QED
  BY <1>3, <1>5, <1>6 DEF UpdateRow

(* The steps before a handler has its workspace and its listing.           *)
LEMMA OpeningRouter ==
  ASSUME RouterInv, NEW r \in Requests,
         \/ \E op \in {"link", "unlink", "sync"}, g \in Groups : OpenRequest(r, op, g)
         \/ ReadDefault(r) \/ LockCreation(r) \/ CreateDefault(r) \/ GroupInfo(r)
  PROVE  RouterInv'
<1>1. /\ req[r] \in RequestStates
      /\ ~Refreshing(r) /\ upsert[r].pc # "write"
      /\ UNCHANGED <<groupRow, links, routerVars>> /\ upsert' = upsert
  BY DEF OpenRequest, ReadDefault, LockCreation, CreateDefault, GroupInfo, At, Refreshing, RouterInv,
         tableVars, routerVars
<1>2. wsRows' \in 0..1 /\ creating' \in Requests \cup {NoActor}
  <2>1. CASE LockCreation(r)
    BY <2>1 DEF LockCreation, RouterInv
  <2>2. CASE CreateDefault(r)
    <3>1. creating' = NoActor /\ wsRows' = IF wsRows = 0 THEN wsRows + 1 ELSE wsRows
      BY <2>2 DEF CreateDefault, WorkspaceMissing
    <3> QED
      BY <3>1 DEF RouterInv
  <2>3. CASE UNCHANGED tableVars
    BY <2>3 DEF tableVars, RouterInv
  <2> QED
    BY <2>1, <2>2, <2>3 DEF OpenRequest, ReadDefault, GroupInfo
<1>3. \E new \in RequestStates :
        /\ req' = [req EXCEPT ![r] = new]
        /\ new.pc \in {"update", "query", "store"} => new.op \in {"link", "unlink"}
  <2>1. CASE \E op \in {"link", "unlink", "sync"}, g \in Groups : OpenRequest(r, op, g)
    <3>1. PICK op \in {"link", "unlink", "sync"}, g \in Groups : OpenRequest(r, op, g)
      BY <2>1
    <3>2. PICK new : new = [IdleRequest EXCEPT !.pc = "default", !.op = op, !.group = g]
      OBVIOUS
    <3>3. new \in RequestStates /\ new.pc = "default"
      BY <3>2 DEF IdleRequest, RequestStates, NotLinked, Links
    <3>4. req' = [req EXCEPT ![r] = new]
      BY <3>1, <3>2 DEF OpenRequest
    <3> QED
      BY <3>3, <3>4
  <2>2. CASE Enter(r)
    BY <2>2, EnterLeads
  <2>3. CASE \E pc \in {"lock", "create"} : Goto(r, pc)
    <3>1. PICK pc \in {"lock", "create"} : Goto(r, pc)
      BY <2>3
    <3>2. PICK new : new = [req[r] EXCEPT !.pc = pc]
      OBVIOUS
    <3>3. new \in RequestStates /\ new.pc = pc
      BY <1>1, <3>2 DEF RequestStates
    <3>4. req' = [req EXCEPT ![r] = new]
      BY <3>1, <3>2 DEF Goto, RouterInv
    <3> QED
      BY <3>3, <3>4
  <2>4. CASE Done(r)
    BY <2>4, IdleRequestType DEF Done
  <2>5. CASE \E listing \in Listings :
               req' = [req EXCEPT ![r].todo = listing,
                                  ![r].pc = IF req[r].op = "link" THEN "update" ELSE "members"]
    <3>1. PICK listing \in Listings :
               req' = [req EXCEPT ![r].todo = listing,
                                  ![r].pc = IF req[r].op = "link" THEN "update" ELSE "members"]
      BY <2>5
    <3>2. PICK new : new = [req[r] EXCEPT !.todo = listing,
                                          !.pc = IF req[r].op = "link" THEN "update" ELSE "members"]
      OBVIOUS
    <3>3. listing \in SUBSET (People \X Faces)
      BY DirectoryAssumption
    <3>4. new \in RequestStates /\ new.op = req[r].op
          /\ new.pc = (IF req[r].op = "link" THEN "update" ELSE "members")
      BY <1>1, <3>2, <3>3 DEF RequestStates
    <3>5. req' = [req EXCEPT ![r] = new]
      BY <3>1, <3>2 DEF RouterInv
    <3> QED
      BY <3>4, <3>5
  <2> QED
    BY <2>1, <2>2, <2>3, <2>4, <2>5 DEF ReadDefault, LockCreation, CreateDefault, GroupInfo
<1> QED
  BY <1>1, <1>2, <1>3, RequestMoves

(* syncMembers: one more participant, or none left.                        *)
LEMMA SyncRouter ==
  ASSUME RouterInv, upsert \in [Actors -> UpsertStates], NEW r \in Requests, NextParticipant(r) \/ MembersSynced(r)
  PROVE  RouterInv'
<1>1. req[r] \in RequestStates /\ req[r].pc = "members" /\ upsert[r] = IdleUpsert
  BY DEF NextParticipant, MembersSynced, At, RouterInv
<1>2. CASE MembersSynced(r)
  <2>1. \E new \in RequestStates :
          /\ req' = [req EXCEPT ![r] = new]
          /\ \/ new.pc = "query" /\ new.op = "link"
             \/ new.pc = "free" /\ req[r].op # "link"
    <3>1. CASE req[r].op = "link"
      <4>1. PICK new : new = [req[r] EXCEPT !.pc = "query"]
        OBVIOUS
      <4>2. new \in RequestStates /\ new.pc = "query" /\ new.op = "link"
        BY <1>1, <3>1, <4>1 DEF RequestStates
      <4>3. req' = [req EXCEPT ![r] = new]
        BY <1>2, <3>1, <4>1 DEF MembersSynced, Goto, RouterInv
      <4> QED
        BY <4>2, <4>3
    <3>2. CASE req[r].op # "link"
      BY <1>2, <3>2, IdleRequestType DEF MembersSynced, Done
    <3> QED
      BY <3>1, <3>2
  <2>2. Refreshing(r) => req[r].op = "link"
    BY <1>1 DEF Refreshing, At
  <2>3. upsert[r].pc # "write"
    BY <1>1 DEF IdleUpsert
  <2>4. UNCHANGED <<wsRows, creating, groupRow, links, routerVars, upsert>>
    BY <1>2 DEF MembersSynced, tableVars
  <2> QED
    BY <2>1, <2>2, <2>3, <2>4, RequestMoves DEF RouterInv
<1>3. CASE NextParticipant(r)
  <2>1. PICK next \in req[r].todo :
          StartUpsert(r, next[1], next[2]) /\ req' = [req EXCEPT ![r].todo = @ \ {next}]
    BY <1>3 DEF NextParticipant
  <2>2. PICK new : new = [req[r] EXCEPT !.todo = @ \ {next}]
    OBVIOUS
  <2>3. new \in RequestStates /\ new.pc = "members" /\ new.op = req[r].op
    BY <1>1, <2>2 DEF RequestStates
  <2>4. req' = [req EXCEPT ![r] = new]
    BY <2>1, <2>2 DEF RouterInv
  <2>5. /\ req' \in [Requests -> RequestStates] /\ req'[r] = new
        /\ \A q \in Requests : q # r => req'[q] = req[q]
    BY <2>3, <2>4 DEF RouterInv
  <2>6. \A q \in Requests : q # r => upsert'[q] = upsert[q]
    BY <2>1 DEF StartUpsert, Actors
  <2>7. UNCHANGED <<wsRows, creating, groupRow, links, groupMap, blame>>
    BY <1>3 DEF NextParticipant, tableVars, routerVars
  <2>8. \A q \in Requests : Refreshing(q)' <=> Refreshing(q)
    BY <1>1, <2>3, <2>5 DEF Refreshing, At
  <2>9. MapFollowsTable'
    BY <2>7, <2>8 DEF RouterInv, MapFollowsTable
  <2>10. \A q \in Requests :
           /\ req'[q].pc \in {"update", "query", "store"} => req'[q].op \in {"link", "unlink"}
           /\ upsert'[q].pc = "write" => req'[q].pc = "members"
    BY <2>3, <2>5, <2>6 DEF RouterInv
  <2> QED
    BY <2>5, <2>7, <2>9, <2>10 DEF RouterInv
<1> QED
  BY <1>2, <1>3

(* A member is written, or not: a request that fails gives up.             *)
LEMMA WriteMemberRouter ==
  ASSUME RouterInv, upsert \in [Actors -> UpsertStates], NEW a \in Actors, WriteMember(a)
  PROVE  RouterInv'
<1>1. /\ UNCHANGED <<wsRows, creating, groupRow, links, groupMap>>
      /\ upsert' = [upsert EXCEPT ![a] = IdleUpsert]
      /\ \E row : AfterUpsert(a, row)
  BY DEF WriteMember, tableVars
<1>2. /\ upsert'[a].pc # "write"
      /\ \A q \in Actors : q # a => upsert'[q] = upsert[q]
  BY <1>1 DEF IdleUpsert
<1>3. Requests \subseteq Actors
  BY DEF Actors
<1>4. CASE UNCHANGED <<req, blame>>
  <2>1. MapFollowsTable'
    BY <1>1, <1>4 DEF RouterInv, MapFollowsTable, Refreshing, At
  <2> QED
    BY <1>1, <1>2, <1>3, <1>4, <2>1 DEF RouterInv
<1>5. CASE a # Handler /\ Done(a) /\ blame' = blame \cup Unrefreshed(a)
  <2>1. a \in Requests
    BY <1>5 DEF Actors
  <2> QED
    BY <1>1, <1>2, <1>3, <1>5, <2>1, RequestGivesUp DEF tableVars
<1> QED
  BY <1>1, <1>4, <1>5 DEF AfterUpsert

(* A message registers its sender: no request is touched.                  *)
LEMMA ReceiveRouter ==
  ASSUME RouterInv, upsert \in [Actors -> UpsertStates], NEW m, Receive(m)
  PROVE  RouterInv'
<1>1. UNCHANGED <<wsRows, creating, groupRow, links, groupMap, blame, req>>
  BY DEF Receive, tableVars, routerVars
<1>2. \A q \in Requests : upsert'[q] = upsert[q]
  BY DirectoryAssumption DEF Receive, StartUpsert, Actors
<1>3. MapFollowsTable'
  BY <1>1 DEF RouterInv, MapFollowsTable, Refreshing, At
<1> QED
  BY <1>1, <1>2, <1>3 DEF RouterInv

-----------------------------------------------------------------------------
(* Both invariants, over every action.                                     *)

DirectoryInv == MemberInv /\ RouterInv

LEMMA DirectoryInitInv == DirectoryInit => DirectoryInv
<1> SUFFICES ASSUME DirectoryInit PROVE DirectoryInv
  OBVIOUS
<1>1. IdleUpsert \in UpsertStates /\ IdleUpsert.pc = "none"
  BY DEF IdleUpsert, UpsertStates
<1>2. DOMAIN members = {} /\ members \in Seq(Rows)
  BY DEF DirectoryInit
<1>3. MemberInv
  BY <1>1, <1>2 DEF DirectoryInit, MemberInv, Unique, Owned, Common
<1>4. RouterInv
  BY <1>1, IdleRequestType DEF DirectoryInit, RouterInv, MapFollowsTable, Actors
<1> QED
  BY <1>3, <1>4 DEF DirectoryInv

LEMMA MemberStutter ==
  ASSUME MemberInv, UNCHANGED <<memberVars, upsert>>
  PROVE  MemberInv'
  BY DEF MemberInv, memberVars, Unique, Owned, Common, Looked, RowsOf, ShownApart

LEMMA RequestStepInv ==
  ASSUME DirectoryInv, NEW r \in Requests, RequestStep(r)
  PROVE  DirectoryInv'
<1>1. /\ MemberInv /\ RouterInv /\ upsert \in [Actors -> UpsertStates]
      /\ r \in Actors
  BY DEF DirectoryInv, MemberInv, Actors
<1>2. RouterInv'
  BY <1>1, OpeningRouter, UpdateRowRouter, QueryGroupsRouter, StoreGroupsRouter, SyncRouter DEF RequestStep
<1>3. MemberInv'
  <2>1. CASE NextParticipant(r)
    <3>1. PICK next \in req[r].todo : StartUpsert(r, next[1], next[2])
      BY <2>1 DEF NextParticipant
    <3>2. req[r].todo \subseteq People \X Faces
      BY <1>1 DEF RouterInv, RequestStates
    <3>3. next[1] \in People /\ next[2] \in Faces
      BY <3>1, <3>2
    <3> QED
      BY <1>1, <2>1, <3>1, <3>3, LookInv DEF NextParticipant
  <2>2. CASE UNCHANGED <<memberVars, upsert>>
    BY <1>1, <2>2, MemberStutter
  <2> QED
    BY <2>1, <2>2 DEF RequestStep, ReadDefault, LockCreation, CreateDefault, GroupInfo, UpdateRow, QueryGroups,
                      StoreGroups, MembersSynced
<1> QED
  BY <1>2, <1>3 DEF DirectoryInv

LEMMA DirectoryNextInv == DirectoryInv /\ [DirectoryNext]_directoryVars => DirectoryInv'
<1> SUFFICES ASSUME DirectoryInv, [DirectoryNext]_directoryVars PROVE DirectoryInv'
  OBVIOUS
<1>1. MemberInv /\ RouterInv /\ upsert \in [Actors -> UpsertStates]
  BY DEF DirectoryInv, MemberInv
<1>2. CASE UNCHANGED directoryVars
  <2>1. UNCHANGED <<tableVars, memberVars, routerVars, req, upsert>>
    BY <1>2 DEF directoryVars
  <2>2. RouterInv'
    BY <1>1, <2>1 DEF RouterInv, MapFollowsTable, Refreshing, At, tableVars, routerVars
  <2> QED
    BY <1>1, <2>1, <2>2, MemberStutter DEF DirectoryInv
<1>3. CASE \E r \in Requests, op \in {"link", "unlink", "sync"}, g \in Groups : OpenRequest(r, op, g)
  <2>1. PICK r \in Requests : \E op \in {"link", "unlink", "sync"}, g \in Groups : OpenRequest(r, op, g)
    BY <1>3
  <2>2. UNCHANGED <<memberVars, upsert>>
    BY <2>1 DEF OpenRequest
  <2> QED
    BY <1>1, <2>1, <2>2, OpeningRouter, MemberStutter DEF DirectoryInv
<1>4. CASE \E r \in Requests : RequestStep(r)
  BY <1>4, RequestStepInv
<1>5. CASE \E a \in Actors : WriteMember(a)
  BY <1>1, <1>5, WriteMemberInv, WriteMemberRouter DEF DirectoryInv
<1>6. CASE \E m \in GroupMessages : Receive(m)
  <2>1. PICK m \in GroupMessages : Receive(m)
    BY <1>6
  <2>2. StartUpsert(Handler, m.from, m.face) /\ UNCHANGED <<members, refused, authors>>
    BY <2>1 DEF Receive
  <2>3. m.from \in People /\ m.face \in Faces /\ Handler \in Actors
    BY DEF GroupMessages, Actors
  <2> QED
    BY <1>1, <2>1, <2>2, <2>3, LookInv, ReceiveRouter DEF DirectoryInv
<1> QED
  BY <1>2, <1>3, <1>4, <1>5, <1>6 DEF DirectoryNext

LEMMA DirectorySafe == DirectorySpec => []DirectoryInv
  BY DirectoryInitInv, DirectoryNextInv, PTL DEF DirectorySpec

(* The directory keeps its types; among them, one workspace however many   *)
(* first requests find none. (DefaultWorkspace, workspace.go)               *)
THEOREM DirectoryTyped == DirectorySpec => []DirectoryTypeOK
<1>1. DirectoryInv => DirectoryTypeOK
  BY DEF DirectoryInv, MemberInv, RouterInv, DirectoryTypeOK
<1> QED
  BY <1>1, DirectorySafe, PTL

(* Whoever registers whom at the same time, a row belongs to one person    *)
(* and a message is stored under a row of its sender.                      *)
(* (UpsertMember, workspace.go 192-195)                                    *)
THEOREM RowsKeepTheirPerson == DirectorySpec => []OnePersonPerRow
<1>1. DirectoryInv => OnePersonPerRow
  BY DEF DirectoryInv, MemberInv, OnePersonPerRow, Owned
<1> QED
  BY <1>1, DirectorySafe, PTL

(* A person is two members, or refused with nobody in between, only after  *)
(* WhatsApp showed them by phone alone and by LID alone: otherwise their   *)
(* rows share an identity that one of the two indexes keeps unique.        *)
(* (UpsertMember, workspace.go 193)                                        *)
THEOREM SplitsAreExcused == DirectorySpec => []SplitIsExcused
<1>1. DirectoryInv => SplitIsExcused
  <2>1. SUFFICES ASSUME DirectoryInv, NEW p \in People, Cardinality(RowsOf(p)) > 1 \/ p \in refused
                 PROVE  ShownApart(p)
    BY DEF SplitIsExcused, ShownApart
  <2>2. CASE p \in refused
    BY <2>1, <2>2 DEF DirectoryInv, MemberInv
  <2>3. CASE Cardinality(RowsOf(p)) > 1
    <3>1. SUFFICES ASSUME ~ShownApart(p) PROVE FALSE
      OBVIOUS
    <3>2. \A i, j \in RowsOf(p) : i = j
      <4>1. Unique(members) /\ Common(members)
        BY <2>1 DEF DirectoryInv, MemberInv
      <4>2. \A i \in RowsOf(p) : i \in DOMAIN members /\ BelongsTo(members[i], p)
        BY DEF RowsOf
      <4>3. CASE "phone" \notin faces[p]
        BY <4>1, <4>2, <4>3, IdentitiesDiffer DEF Common, Unique
      <4>4. CASE "lid" \notin faces[p]
        BY <4>1, <4>2, <4>4 DEF Common, Unique
      <4> QED
        BY <3>1, <4>3, <4>4 DEF ShownApart
    <3>3. Cardinality(RowsOf(p)) \in {0, 1}
      <4>1. CASE RowsOf(p) = {}
        BY <4>1, FS_EmptySet
      <4>2. CASE RowsOf(p) # {}
        <5>1. PICK i \in RowsOf(p) : RowsOf(p) = {i}
          BY <3>2, <4>2
        <5> QED
          BY <5>1, FS_Singleton
      <4> QED
        BY <4>1, <4>2
    <3> QED
      BY <2>3, <3>3
  <2> QED
    BY <2>1, <2>2, <2>3
<1> QED
  BY <1>1, DirectorySafe, PTL

(* When no request is on its way to RefreshGroups, the router's map is the *)
(* table's group unless a refresh failed, was not reached or was overtaken. *)
(* (RefreshGroups, inbox.go 133)                                           *)
THEOREM RouterFollows == DirectorySpec => []MapFollowsTable
<1>1. DirectoryInv => MapFollowsTable
  BY DEF DirectoryInv, RouterInv
<1> QED
  BY <1>1, DirectorySafe, PTL

=============================================================================
