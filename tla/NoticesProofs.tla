---------------------------- MODULE NoticesProofs ----------------------------
(***************************************************************************)
(* Proofs about Notices, for any workspaces, categories and bounds.        *)
(*                                                                         *)
(* The summaries and the alerts share the table of keys and nothing else,  *)
(* so each has an invariant of its own, and a frame lemma for the steps of *)
(* the other.  For the summaries: a claimed key has one job working on it  *)
(* and was not delivered.  For the alerts: what was said is keyed, and so   *)
(* is every level below it, unless it is still to be marked or its mark    *)
(* failed; the lines of one reply are of different categories.             *)
(***************************************************************************)
EXTENDS Notices, TLAPS

Working(j, w) == w \in job[j].at /\ job[j].pc \in {"claimed", "failed"}

SummariesSaid ==
  \A w \in Workspaces : \A k \in keys[w] \cap Summaries :
    \/ delivered[<<w, k>>] > 0 \/ k \in lost[w]
    \/ \E j \in Jobs : Key(j) = k /\ Working(j, w)

SummaryInv ==
  /\ \A j \in Jobs : \A v, w \in job[j].at : v = w
  /\ \A w \in Workspaces, k \in Summaries :
       delivered[<<w, k>>] <= 1 /\ (delivered[<<w, k>>] = 1 => k \in keys[w])
  /\ \A j \in Jobs, w \in Workspaces :
       Working(j, w) => Key(j) \in keys[w] /\ delivered[<<w, Key(j)>>] = 0
  /\ \A i, j \in Jobs, w \in Workspaces : Key(i) = Key(j) /\ Working(i, w) /\ Working(j, w) => i = j
  /\ SummariesSaid

(* What a group may read of a category after b.                            *)
Rises(w, b, a) == b[2] < a[2] \/ (b[2] # a[2] /\ a \in unmarked[w])

(* The lines of a turn and what may become one are of different categories. *)
Apart(t) ==
  /\ \A a, b \in t.cands : a[1] = b[1] => a = b
  /\ \A a \in t.cands : a[1] \notin t.left
  /\ \A i \in DOMAIN t.lines : t.lines[i][1] \notin t.left
  /\ \A a \in t.cands, i \in DOMAIN t.lines : a[1] # t.lines[i][1]
  /\ \A i, k \in DOMAIN t.lines : t.lines[i][1] = t.lines[k][1] => i = k

Heard(w) == Elements(told[w]) \cup Elements(turn[w].lines) \cup (lost[w] \cap Alerts)

AlertsOf(w) ==
  /\ turn[w].pc = "idle" => turn[w] = NoTurn
  /\ Apart(turn[w])
  /\ \A a \in Elements(told[w]) : a \in keys[w] /\ Below(a) \subseteq keys[w] \cup unmarked[w]
  /\ \A a \in Elements(turn[w].lines) :
       a \in keys[w] /\ Below(a) \subseteq keys[w] \cup unmarked[w] \cup turn[w].also
  /\ \A a \in turn[w].also : Covers(a, Elements(turn[w].lines))
  /\ \A a \in keys[w] \cap Alerts : Covers(a, Heard(w))
  /\ \A i \in DOMAIN told[w], k \in DOMAIN turn[w].lines :
       told[w][i][1] = turn[w].lines[k][1] => Rises(w, told[w][i], turn[w].lines[k])
  /\ \A i, k \in DOMAIN told[w] :
       i < k /\ told[w][i][1] = told[w][k][1] => Rises(w, told[w][i], told[w][k])

AlertInv == \A w \in Workspaces : AlertsOf(w)

NoticesInv == TypeOK /\ SummaryInv /\ AlertInv

-----------------------------------------------------------------------------
LEMMA Kinds ==
  /\ \A j \in Jobs : Key(j) \in Summaries
  /\ Summaries \cap Alerts = {}
  /\ NoJob \in JobRuns /\ NoTurn \in Turns /\ NoJob.at = {} /\ NoTurn.lines = <<>>
  /\ MaxLines \in Nat
  BY NoticesAssumption DEF Key, Summaries, Alerts, Thresholds, NoJob, Turn, NoTurn, JobRuns, Turns

(* A step of the alerts as the summaries see it.                           *)
LEMMA SummaryFrame ==
  ASSUME SummaryInv, job' = job, delivered' = delivered,
         \A w \in Workspaces : keys'[w] \cap Summaries \subseteq keys[w] \cup lost'[w] /\ keys[w] \subseteq keys'[w]
                               /\ lost[w] \subseteq lost'[w]
  PROVE  SummaryInv'
<1>1. \A j, w : Working(j, w)' <=> Working(j, w)
  BY DEF Working
<1>2. SummariesSaid'
  BY <1>1 DEF SummaryInv, SummariesSaid
<1> QED
  BY <1>1, <1>2 DEF SummaryInv

(* A step of the summaries as the alerts see it.                           *)
LEMMA AlertFrame ==
  ASSUME TypeOK, NEW w \in Workspaces, AlertsOf(w),
         turn'[w] = turn[w], told'[w] = told[w], unmarked'[w] = unmarked[w],
         keys'[w] \cap Alerts = keys[w] \cap Alerts, lost[w] \subseteq lost'[w]
  PROVE  AlertsOf(w)'
<1>1. turn[w].lines \in Seq(Alerts) /\ told[w] \in Seq(Alerts)
  BY DEF TypeOK, Turns
<1>2. Elements(told[w]) \subseteq Alerts /\ Elements(turn[w].lines) \subseteq Alerts /\ \A a : Below(a) \subseteq Alerts
  BY <1>1 DEF Elements, Below
<1>3. \A a \in Alerts : a \in keys'[w] <=> a \in keys[w]
  OBVIOUS
<1>4. \A a \in keys'[w] \cap Alerts : Covers(a, Heard(w)')
  BY <1>3 DEF AlertsOf, Covers, Heard
<1>5. \A a \in Elements(told[w]) : a \in keys'[w] /\ Below(a) \subseteq keys'[w] \cup unmarked[w]
  BY <1>2, <1>3 DEF AlertsOf
<1>6. \A a \in Elements(turn[w].lines) :
        a \in keys'[w] /\ Below(a) \subseteq keys'[w] \cup unmarked[w] \cup turn[w].also
  BY <1>2, <1>3 DEF AlertsOf
<1> QED
  BY <1>4, <1>5, <1>6 DEF AlertsOf, Rises

(* A job goes on to a run that holds no claim: what it claimed is lost.    *)
LEMMA JobRests ==
  ASSUME TypeOK, SummaryInv, NEW j \in Jobs, NEW r \in JobRuns, job' = [job EXCEPT ![j] = r],
         delivered' = delivered, r.pc \in {"idle", "waiting"},
         \A v, w \in r.at : v = w,
         \A w \in Workspaces : /\ keys[w] \subseteq keys'[w] /\ lost[w] \subseteq lost'[w]
                               /\ keys'[w] \cap Summaries \subseteq keys[w] \cup lost'[w]
                               /\ Working(j, w) => Key(j) \in lost'[w]
  PROVE  SummaryInv' /\ job' \in [Jobs -> JobRuns]
<1>1. job' \in [Jobs -> JobRuns] /\ job'[j] = r /\ \A i \in Jobs : i # j => job'[i] = job[i]
  BY DEF TypeOK
<1>2. \A w : ~Working(j, w)'
  BY <1>1 DEF Working
<1>3. \A i \in Jobs : i # j => \A w : Working(i, w)' <=> Working(i, w)
  BY <1>1 DEF Working
<1>4. SummariesSaid'
  <2>1. SUFFICES ASSUME NEW w \in Workspaces, NEW k \in keys'[w] \cap Summaries,
                        ~(delivered[<<w, k>>] > 0), k \notin lost'[w]
                 PROVE  \E i \in Jobs : Key(i) = k /\ Working(i, w)'
    BY DEF SummariesSaid
  <2>2. k \in keys[w] /\ k \notin lost[w]
    BY <2>1
  <2>3. PICK i \in Jobs : Key(i) = k /\ Working(i, w)
    BY <2>1, <2>2 DEF SummaryInv, SummariesSaid
  <2> QED
    BY <1>3, <2>1, <2>3
<1>5. \A i \in Jobs : \A v, w \in job'[i].at : v = w
  BY <1>1 DEF SummaryInv
<1>6. \A i \in Jobs, w \in Workspaces : Working(i, w)' => i # j /\ Working(i, w)
  BY <1>2, <1>3
<1>7. \A w \in Workspaces, k \in Summaries :
        delivered[<<w, k>>] <= 1 /\ (delivered[<<w, k>>] = 1 => k \in keys'[w])
  <2>1. \A w \in Workspaces, k \in Summaries :
          delivered[<<w, k>>] <= 1 /\ (delivered[<<w, k>>] = 1 => k \in keys[w])
    BY DEF SummaryInv
  <2> QED
    BY <2>1
<1>8. \A i \in Jobs, w \in Workspaces : Working(i, w)' => Key(i) \in keys'[w] /\ delivered[<<w, Key(i)>>] = 0
  BY <1>6 DEF SummaryInv
<1>9. \A i, k \in Jobs, w \in Workspaces : Key(i) = Key(k) /\ Working(i, w)' /\ Working(k, w)' => i = k
  BY <1>6 DEF SummaryInv
<1> QED
  BY <1>1, <1>4, <1>5, <1>7, <1>8, <1>9 DEF SummaryInv

(* A failed INSERT, whether or not it committed.                           *)
LEMMA InsertFailsInv ==
  ASSUME TypeOK, NEW w \in Workspaces, NEW key \in Summaries \cup Alerts, InsertFails(w, key)
  PROVE  /\ keys' \in [Workspaces -> SUBSET (Summaries \cup Alerts)]
         /\ lost' \in [Workspaces -> SUBSET (Summaries \cup Alerts)]
         /\ \A v \in Workspaces :
              /\ keys[v] \subseteq keys'[v] /\ lost[v] \subseteq lost'[v]
              /\ keys'[v] \subseteq keys[v] \cup lost'[v] /\ keys'[v] \subseteq keys[v] \cup {key}
              /\ lost'[v] \subseteq lost[v] \cup {key}
              /\ v # w => keys'[v] = keys[v] /\ lost'[v] = lost[v]
<1>1. CASE UNCHANGED <<keys, lost>>
  BY <1>1 DEF TypeOK
<1>2. CASE keys' = [keys EXCEPT ![w] = @ \cup {key}] /\ lost' = [lost EXCEPT ![w] = @ \cup {key}]
  BY <1>2 DEF TypeOK
<1> QED
  BY <1>1, <1>2 DEF InsertFails

-----------------------------------------------------------------------------
(* The cron jobs.                                                          *)

LEMMA EndedRun ==
  ASSUME TypeOK, NEW j \in Jobs
  PROVE  /\ [NoJob EXCEPT !.todo = job[j].todo] \in JobRuns
         /\ [NoJob EXCEPT !.todo = job[j].todo].pc = "idle"
         /\ [NoJob EXCEPT !.todo = job[j].todo].at = {}
  BY DEF TypeOK, JobRuns, NoJob

LEMMA RunJobInv ==
  ASSUME NoticesInv, NEW j \in Jobs, RunJob(j)
  PROVE  NoticesInv'
<1>1. TypeOK /\ SummaryInv /\ AlertInv
  BY DEF NoticesInv
<1>2. UNCHANGED <<prefs, spent, keys, turn, history>> /\ keys' = keys /\ lost' = lost /\ delivered' = delivered
      /\ turn' = turn /\ told' = told /\ unmarked' = unmarked
  BY DEF RunJob, history
<1>3. AlertInv'
  BY <1>1, <1>2, AlertFrame DEF AlertInv
<1>4. SummaryInv' /\ job' \in [Jobs -> JobRuns]
  <2>1. CASE UNCHANGED job
    BY <1>1, <1>2, <2>1, SummaryFrame DEF TypeOK
  <2>2. CASE job' = [job EXCEPT ![j].todo = {w \in Workspaces : Wants(w, j)}]
    <3>1. PICK todo \in SUBSET Workspaces : job' = [job EXCEPT ![j].todo = todo]
      BY <2>2
    <3>2. PICK r : r = [job[j] EXCEPT !.todo = todo]
      OBVIOUS
    <3>3. r \in JobRuns /\ r.pc = job[j].pc /\ r.at = job[j].at
      <4>1. job[j] \in JobRuns
        BY <1>1 DEF TypeOK
      <4> QED
        BY <3>2, <4>1 DEF JobRuns
    <3>4. job' = [job EXCEPT ![j] = r]
      BY <1>1, <3>1, <3>2 DEF TypeOK
    <3>5. job' \in [Jobs -> JobRuns] /\ \A i \in Jobs : job'[i].pc = job[i].pc /\ job'[i].at = job[i].at
      BY <1>1, <3>3, <3>4 DEF TypeOK
    <3>6. \A i \in Jobs : \A w : Working(i, w)' <=> Working(i, w)
      BY <3>5 DEF Working
    <3>7. SummariesSaid'
      BY <1>1, <1>2, <3>6 DEF SummaryInv, SummariesSaid
    <3> QED
      BY <1>1, <1>2, <3>5, <3>6, <3>7 DEF SummaryInv
  <2> QED
    BY <2>1, <2>2 DEF RunJob
<1>5. TypeOK'
  BY <1>1, <1>2, <1>4 DEF TypeOK, prefs
<1> QED
  BY <1>3, <1>4, <1>5 DEF NoticesInv

LEMMA PrepareInv ==
  ASSUME NoticesInv, NEW j \in Jobs, NEW w \in Workspaces, Prepare(j, w)
  PROVE  NoticesInv'
<1>1. TypeOK /\ SummaryInv /\ AlertInv
  BY DEF NoticesInv
<1>2. UNCHANGED <<prefs, spent, keys, turn, history>> /\ keys' = keys /\ lost' = lost /\ delivered' = delivered
      /\ turn' = turn /\ told' = told /\ unmarked' = unmarked
  BY DEF Prepare, history
<1>3. AlertInv'
  BY <1>1, <1>2, AlertFrame DEF AlertInv
<1>4. job[j].pc = "idle" /\ \A v : ~Working(j, v)
  BY DEF Prepare, Working
<1>5. SummaryInv' /\ job' \in [Jobs -> JobRuns]
  <2>1. CASE job' = [job EXCEPT ![j] = [pc |-> "waiting", todo |-> @.todo \ {w}, at |-> {w}]]
    <3>1. PICK r : r = [pc |-> "waiting", todo |-> job[j].todo \ {w}, at |-> {w}]
      OBVIOUS
    <3>2. r \in JobRuns /\ r.pc = "waiting" /\ r.at = {w}
      <4>1. job[j] \in JobRuns
        BY <1>1 DEF TypeOK
      <4> QED
        BY <3>1, <4>1 DEF JobRuns
    <3>3. job' = [job EXCEPT ![j] = r]
      BY <1>1, <2>1, <3>1 DEF TypeOK
    <3> QED
      BY <1>1, <1>2, <1>4, <3>2, <3>3, JobRests
  <2>2. CASE job' = [job EXCEPT ![j].todo = @ \ {w}]
    <3>1. PICK r : r = [job[j] EXCEPT !.todo = @ \ {w}]
      OBVIOUS
    <3>2. r \in JobRuns /\ r.pc = "idle" /\ r.at = job[j].at
      <4>1. job[j] \in JobRuns
        BY <1>1 DEF TypeOK
      <4> QED
        BY <1>4, <3>1, <4>1 DEF JobRuns
    <3>3. job' = [job EXCEPT ![j] = r]
      BY <1>1, <2>2, <3>1 DEF TypeOK
    <3>4. \A u, v \in r.at : u = v
      BY <1>1, <3>2 DEF SummaryInv
    <3> QED
      BY <1>1, <1>2, <1>4, <3>2, <3>3, <3>4, JobRests
  <2> QED
    BY <2>1, <2>2 DEF Prepare
<1>6. TypeOK'
  BY <1>1, <1>2, <1>5 DEF TypeOK, prefs
<1> QED
  BY <1>3, <1>5, <1>6 DEF NoticesInv

LEMMA ClaimInv ==
  ASSUME NoticesInv, NEW j \in Jobs, NEW w \in Workspaces, Claim(j, w)
  PROVE  NoticesInv'
<1>1. TypeOK /\ SummaryInv /\ AlertInv
  BY DEF NoticesInv
<1>2. UNCHANGED <<prefs, spent, turn, told, delivered, unmarked>> /\ job[j].pc = "waiting" /\ w \in job[j].at
  BY DEF Claim
<1>3. \A v : ~Working(j, v)
  BY <1>2 DEF Working
<1>4. Key(j) \in Summaries /\ Key(j) \notin Alerts
  BY Kinds
<1>5. CASE /\ Key(j) \notin keys[w] /\ keys' = [keys EXCEPT ![w] = @ \cup {Key(j)}] /\ lost' = lost
           /\ job' = [job EXCEPT ![j].pc = "claimed"]
  <2>1. PICK r : r = [job[j] EXCEPT !.pc = "claimed"]
    OBVIOUS
  <2>2. r \in JobRuns /\ r.pc = "claimed" /\ r.at = job[j].at
    <3>1. job[j] \in JobRuns
      BY <1>1 DEF TypeOK
    <3> QED
      BY <2>1, <3>1 DEF JobRuns
  <2>3. job' \in [Jobs -> JobRuns] /\ job'[j] = r /\ \A i \in Jobs : i # j => job'[i] = job[i]
    BY <1>1, <1>5, <2>1, <2>2 DEF TypeOK
  <2>4. /\ keys' \in [Workspaces -> SUBSET (Summaries \cup Alerts)]
        /\ keys'[w] = keys[w] \cup {Key(j)} /\ \A v \in Workspaces : v # w => keys'[v] = keys[v]
    BY <1>1, <1>4, <1>5 DEF TypeOK
  <2>5. \A i \in Jobs : i # j => \A v : Working(i, v)' <=> Working(i, v)
    BY <2>3 DEF Working
  <2>6. \A v \in Workspaces : Working(j, v)' <=> v = w
    BY <1>1, <1>2, <2>2, <2>3 DEF Working, SummaryInv
  <2>7. delivered[<<w, Key(j)>>] = 0 /\ \A i \in Jobs : Key(i) = Key(j) => ~Working(i, w)
    <3>1. delivered[<<w, Key(j)>>] \in Nat /\ delivered[<<w, Key(j)>>] <= 1 /\ delivered[<<w, Key(j)>>] # 1
      BY <1>1, <1>4, <1>5 DEF SummaryInv, TypeOK
    <3> QED
      BY <1>1, <1>5, <3>1 DEF SummaryInv
  <2>8. \A i \in Jobs : \A u, v \in job'[i].at : u = v
    BY <1>1, <2>2, <2>3 DEF SummaryInv
  <2>9. \A v \in Workspaces, k \in Summaries :
          delivered[<<v, k>>] <= 1 /\ (delivered[<<v, k>>] = 1 => k \in keys'[v])
    BY <1>1, <2>4 DEF SummaryInv
  <2>10. \A i \in Jobs, v \in Workspaces :
           Working(i, v)' => Key(i) \in keys'[v] /\ delivered[<<v, Key(i)>>] = 0
    BY <1>1, <2>4, <2>5, <2>6, <2>7 DEF SummaryInv
  <2>11. \A i, k \in Jobs, v \in Workspaces : Key(i) = Key(k) /\ Working(i, v)' /\ Working(k, v)' => i = k
    BY <1>1, <2>5, <2>6, <2>7 DEF SummaryInv
  <2>12. SummariesSaid'
    <3>1. SUFFICES ASSUME NEW v \in Workspaces, NEW k \in keys'[v] \cap Summaries,
                          ~(delivered[<<v, k>>] > 0), k \notin lost[v]
                   PROVE  \E i \in Jobs : Key(i) = k /\ Working(i, v)'
      BY <1>2, <1>5 DEF SummariesSaid
    <3>2. CASE k \in keys[v]
      <4>1. PICK i \in Jobs : Key(i) = k /\ Working(i, v)
        BY <1>1, <3>1, <3>2 DEF SummaryInv, SummariesSaid
      <4> QED
        BY <1>3, <2>5, <4>1
    <3>3. CASE k \notin keys[v]
      BY <2>4, <2>6, <3>1, <3>3
    <3> QED
      BY <3>2, <3>3
  <2>13. SummaryInv'
    BY <1>2, <2>8, <2>9, <2>10, <2>11, <2>12 DEF SummaryInv
  <2>14. \A v \in Workspaces : keys'[v] \cap Alerts = keys[v] \cap Alerts
    BY <1>4, <2>4
  <2>15. AlertInv'
    BY <1>1, <1>2, <1>5, <2>14, AlertFrame DEF AlertInv
  <2>16. TypeOK'
    BY <1>1, <1>2, <1>5, <2>3, <2>4 DEF TypeOK, prefs
  <2> QED
    BY <2>13, <2>15, <2>16 DEF NoticesInv
<1>6. CASE Ends(j) /\ (UNCHANGED <<keys, lost>> \/ InsertFails(w, Key(j)))
  <2>1. /\ keys' \in [Workspaces -> SUBSET (Summaries \cup Alerts)]
        /\ lost' \in [Workspaces -> SUBSET (Summaries \cup Alerts)]
        /\ \A v \in Workspaces :
             /\ keys[v] \subseteq keys'[v] /\ lost[v] \subseteq lost'[v]
             /\ keys'[v] \subseteq keys[v] \cup lost'[v] /\ keys'[v] \subseteq keys[v] \cup {Key(j)}
    <3>1. CASE UNCHANGED <<keys, lost>>
      BY <1>1, <3>1 DEF TypeOK
    <3>2. CASE InsertFails(w, Key(j))
      BY <1>1, <1>4, <3>2, InsertFailsInv
    <3> QED
      BY <1>6, <3>1, <3>2
  <2>2. PICK r \in JobRuns : r.pc = "idle" /\ r.at = {} /\ job' = [job EXCEPT ![j] = r]
    BY <1>1, <1>6, EndedRun DEF Ends
  <2>3. SummaryInv' /\ job' \in [Jobs -> JobRuns]
    BY <1>1, <1>2, <1>3, <2>1, <2>2, JobRests
  <2>4. \A v \in Workspaces : keys'[v] \cap Alerts = keys[v] \cap Alerts
    BY <1>4, <2>1
  <2>5. AlertInv'
    BY <1>1, <1>2, <2>1, <2>4, AlertFrame DEF AlertInv
  <2>6. TypeOK'
    BY <1>1, <1>2, <2>1, <2>3 DEF TypeOK, prefs
  <2> QED
    BY <2>3, <2>5, <2>6 DEF NoticesInv
<1> QED
  BY <1>5, <1>6 DEF Claim

LEMMA SendSummaryInv ==
  ASSUME NoticesInv, NEW j \in Jobs, NEW w \in Workspaces, SendSummary(j, w)
  PROVE  NoticesInv'
<1>1. TypeOK /\ SummaryInv /\ AlertInv
  BY DEF NoticesInv
<1>2. UNCHANGED <<prefs, spent, keys, turn, told, lost, unmarked>> /\ job[j].pc = "claimed" /\ w \in job[j].at
  BY DEF SendSummary
<1>3. AlertInv'
  BY <1>1, <1>2, AlertFrame DEF AlertInv
<1>4. Working(j, w) /\ \A v \in Workspaces : Working(j, v) => v = w
  BY <1>1, <1>2 DEF Working, SummaryInv
<1>5. Key(j) \in Summaries
  BY Kinds
<1>6. CASE delivered' = [delivered EXCEPT ![<<w, Key(j)>>] = @ + 1] /\ Ends(j)
  <2>1. PICK r \in JobRuns : r.pc = "idle" /\ r.at = {} /\ job' = [job EXCEPT ![j] = r]
    BY <1>1, <1>6, EndedRun DEF Ends
  <2>2. job' \in [Jobs -> JobRuns] /\ job'[j] = r /\ \A i \in Jobs : i # j => job'[i] = job[i]
    BY <1>1, <2>1 DEF TypeOK
  <2>3. \A i \in Jobs, v \in Workspaces : Working(i, v)' <=> i # j /\ Working(i, v)
    BY <2>1, <2>2 DEF Working
  <2>4. delivered[<<w, Key(j)>>] = 0 /\ Key(j) \in keys[w]
    BY <1>1, <1>4 DEF SummaryInv
  <2>5. /\ delivered' \in [Workspaces \X Summaries -> Nat]
        /\ delivered'[<<w, Key(j)>>] = 1
        /\ \A v \in Workspaces, k \in Summaries : <<v, k>> # <<w, Key(j)>> => delivered'[<<v, k>>] = delivered[<<v, k>>]
    BY <1>1, <1>5, <1>6, <2>4 DEF TypeOK
  <2>6. \A i \in Jobs : \A u, v \in job'[i].at : u = v
    BY <1>1, <2>1, <2>2 DEF SummaryInv
  <2>7. \A v \in Workspaces, k \in Summaries :
          delivered'[<<v, k>>] <= 1 /\ (delivered'[<<v, k>>] = 1 => k \in keys[v])
    <3>1. SUFFICES ASSUME NEW v \in Workspaces, NEW k \in Summaries
                   PROVE  delivered'[<<v, k>>] <= 1 /\ (delivered'[<<v, k>>] = 1 => k \in keys[v])
      OBVIOUS
    <3>2. CASE <<v, k>> = <<w, Key(j)>>
      BY <2>4, <2>5, <3>2
    <3>3. CASE <<v, k>> # <<w, Key(j)>>
      BY <1>1, <2>5, <3>3 DEF SummaryInv
    <3> QED
      BY <3>2, <3>3
  <2>8. \A i \in Jobs, v \in Workspaces :
          Working(i, v)' => Key(i) \in keys[v] /\ delivered'[<<v, Key(i)>>] = 0
    <3>1. SUFFICES ASSUME NEW i \in Jobs, NEW v \in Workspaces, Working(i, v), i # j
                   PROVE  Key(i) \in keys[v] /\ delivered'[<<v, Key(i)>>] = 0
      BY <2>3
    <3>2. Key(i) # Key(j) \/ v # w
      BY <1>1, <1>4, <3>1 DEF SummaryInv
    <3> QED
      BY <1>1, <2>5, <3>1, <3>2, Kinds DEF SummaryInv
  <2>9. \A i, k \in Jobs, v \in Workspaces : Key(i) = Key(k) /\ Working(i, v)' /\ Working(k, v)' => i = k
    BY <1>1, <2>3 DEF SummaryInv
  <2>10. SummariesSaid'
    <3>1. SUFFICES ASSUME NEW v \in Workspaces, NEW k \in keys[v] \cap Summaries,
                          ~(delivered'[<<v, k>>] > 0), k \notin lost[v]
                   PROVE  \E i \in Jobs : Key(i) = k /\ Working(i, v)'
      BY <1>2 DEF SummariesSaid
    <3>2. <<v, k>> # <<w, Key(j)>>
      BY <2>5, <3>1
    <3>3. PICK i \in Jobs : Key(i) = k /\ Working(i, v)
      BY <1>1, <2>5, <3>1, <3>2 DEF SummaryInv, SummariesSaid
    <3> QED
      BY <1>4, <2>3, <3>2, <3>3
  <2>11. SummaryInv'
    BY <1>2, <2>6, <2>7, <2>8, <2>9, <2>10 DEF SummaryInv
  <2>12. TypeOK'
    BY <1>1, <1>2, <2>2, <2>5 DEF TypeOK, prefs
  <2> QED
    BY <1>3, <2>11, <2>12 DEF NoticesInv
<1>7. CASE job' = [job EXCEPT ![j].pc = "failed"] /\ UNCHANGED delivered
  <2>1. PICK r : r = [job[j] EXCEPT !.pc = "failed"]
    OBVIOUS
  <2>2. r \in JobRuns /\ r.pc = "failed" /\ r.at = job[j].at
    <3>1. job[j] \in JobRuns
      BY <1>1 DEF TypeOK
    <3> QED
      BY <2>1, <3>1 DEF JobRuns
  <2>3. job' \in [Jobs -> JobRuns] /\ job'[j] = r /\ \A i \in Jobs : i # j => job'[i] = job[i]
    BY <1>1, <1>7, <2>1, <2>2 DEF TypeOK
  <2>4. \A i \in Jobs : job'[i].at = job[i].at /\ \A v : Working(i, v)' <=> Working(i, v)
    BY <1>2, <2>2, <2>3 DEF Working
  <2>5. SummariesSaid'
    <3>1. SUFFICES ASSUME NEW v \in Workspaces, NEW k \in keys[v] \cap Summaries,
                          ~(delivered[<<v, k>>] > 0), k \notin lost[v]
                   PROVE  \E i \in Jobs : Key(i) = k /\ Working(i, v)'
      BY <1>2, <1>7 DEF SummariesSaid
    <3>2. PICK i \in Jobs : Key(i) = k /\ Working(i, v)
      BY <1>1, <3>1 DEF SummaryInv, SummariesSaid
    <3> QED
      BY <2>4, <3>2
  <2>6. SummaryInv'
    BY <1>1, <1>2, <1>7, <2>4, <2>5 DEF SummaryInv
  <2>7. TypeOK'
    BY <1>1, <1>2, <1>7, <2>3 DEF TypeOK, prefs
  <2> QED
    BY <1>3, <2>6, <2>7 DEF NoticesInv
<1> QED
  BY <1>6, <1>7 DEF SendSummary

LEMMA ReleaseInv ==
  ASSUME NoticesInv, NEW j \in Jobs, NEW w \in Workspaces, Release(j, w)
  PROVE  NoticesInv'
<1>1. TypeOK /\ SummaryInv /\ AlertInv
  BY DEF NoticesInv
<1>2. UNCHANGED <<prefs, spent, turn, told, delivered, unmarked>> /\ job[j].pc = "failed" /\ w \in job[j].at /\ Ends(j)
  BY DEF Release
<1>3. Working(j, w) /\ \A v \in Workspaces : Working(j, v) => v = w
  BY <1>1, <1>2 DEF Working, SummaryInv
<1>4. Key(j) \in Summaries /\ Key(j) \notin Alerts
  BY Kinds
<1>5. PICK r \in JobRuns : r.pc = "idle" /\ r.at = {} /\ job' = [job EXCEPT ![j] = r]
  BY <1>1, <1>2, EndedRun DEF Ends
<1>6. CASE keys' = [keys EXCEPT ![w] = @ \ {Key(j)}] /\ UNCHANGED lost
  <2>1. job' \in [Jobs -> JobRuns] /\ job'[j] = r /\ \A i \in Jobs : i # j => job'[i] = job[i]
    BY <1>1, <1>5 DEF TypeOK
  <2>2. \A i \in Jobs, v \in Workspaces : Working(i, v)' <=> i # j /\ Working(i, v)
    BY <1>5, <2>1 DEF Working
  <2>3. /\ keys' \in [Workspaces -> SUBSET (Summaries \cup Alerts)]
        /\ keys'[w] = keys[w] \ {Key(j)} /\ \A v \in Workspaces : v # w => keys'[v] = keys[v]
    BY <1>1, <1>6 DEF TypeOK
  <2>4. delivered[<<w, Key(j)>>] = 0
    BY <1>1, <1>3 DEF SummaryInv
  <2>5. \A i \in Jobs : \A u, v \in job'[i].at : u = v
    BY <1>1, <1>5, <2>1 DEF SummaryInv
  <2>6. \A v \in Workspaces, k \in Summaries :
          delivered[<<v, k>>] <= 1 /\ (delivered[<<v, k>>] = 1 => k \in keys'[v])
    <3>1. SUFFICES ASSUME NEW v \in Workspaces, NEW k \in Summaries
                   PROVE  delivered[<<v, k>>] <= 1 /\ (delivered[<<v, k>>] = 1 => k \in keys'[v])
      OBVIOUS
    <3>2. delivered[<<v, k>>] <= 1 /\ (delivered[<<v, k>>] = 1 => k \in keys[v])
      BY <1>1 DEF SummaryInv
    <3> QED
      BY <2>3, <2>4, <3>2
  <2>7. \A i \in Jobs, v \in Workspaces : Working(i, v)' => Key(i) \in keys'[v] /\ delivered[<<v, Key(i)>>] = 0
    <3>1. SUFFICES ASSUME NEW i \in Jobs, NEW v \in Workspaces, Working(i, v), i # j
                   PROVE  Key(i) \in keys'[v] /\ delivered[<<v, Key(i)>>] = 0
      BY <2>2
    <3>2. Key(i) # Key(j) \/ v # w
      BY <1>1, <1>3, <3>1 DEF SummaryInv
    <3> QED
      BY <1>1, <2>3, <3>1, <3>2 DEF SummaryInv
  <2>8. \A i, k \in Jobs, v \in Workspaces : Key(i) = Key(k) /\ Working(i, v)' /\ Working(k, v)' => i = k
    BY <1>1, <2>2 DEF SummaryInv
  <2>9. SummariesSaid'
    <3>1. SUFFICES ASSUME NEW v \in Workspaces, NEW k \in keys'[v] \cap Summaries,
                          ~(delivered[<<v, k>>] > 0), k \notin lost[v]
                   PROVE  \E i \in Jobs : Key(i) = k /\ Working(i, v)'
      BY <1>2, <1>6 DEF SummariesSaid
    <3>2. k \in keys[v] /\ <<v, k>> # <<w, Key(j)>>
      BY <2>3, <3>1
    <3>3. PICK i \in Jobs : Key(i) = k /\ Working(i, v)
      BY <1>1, <3>1, <3>2 DEF SummaryInv, SummariesSaid
    <3> QED
      BY <1>3, <2>2, <3>2, <3>3
  <2>10. SummaryInv'
    BY <1>2, <2>5, <2>6, <2>7, <2>8, <2>9 DEF SummaryInv
  <2>11. \A v \in Workspaces : keys'[v] \cap Alerts = keys[v] \cap Alerts
    BY <1>4, <2>3
  <2>12. AlertInv'
    BY <1>1, <1>2, <1>6, <2>11, AlertFrame DEF AlertInv
  <2>13. TypeOK'
    BY <1>1, <1>2, <1>6, <2>1, <2>3 DEF TypeOK, prefs
  <2> QED
    BY <2>10, <2>12, <2>13 DEF NoticesInv
<1>7. CASE lost' = [lost EXCEPT ![w] = @ \cup {Key(j)}] /\ UNCHANGED keys
  <2>1. lost' \in [Workspaces -> SUBSET (Summaries \cup Alerts)] /\ Key(j) \in lost'[w]
        /\ \A v \in Workspaces : lost[v] \subseteq lost'[v]
    BY <1>1, <1>4, <1>7 DEF TypeOK
  <2>2. SummaryInv' /\ job' \in [Jobs -> JobRuns]
    BY <1>1, <1>2, <1>3, <1>5, <1>7, <2>1, JobRests
  <2>3. AlertInv'
    BY <1>1, <1>2, <1>7, <2>1, AlertFrame DEF AlertInv
  <2>4. TypeOK'
    BY <1>1, <1>2, <1>7, <2>1, <2>2 DEF TypeOK, prefs
  <2> QED
    BY <2>2, <2>3, <2>4 DEF NoticesInv
<1> QED
  BY <1>6, <1>7 DEF Release

-----------------------------------------------------------------------------
(* The turns.                                                              *)

(* The turn of one workspace moves: the others, and the summaries, see      *)
(* nothing of it.                                                          *)
LEMMA OneTurn ==
  ASSUME NoticesInv, NEW w \in Workspaces, NEW t \in Turns, turn' = [turn EXCEPT ![w] = t],
         Len(t.lines) <= MaxLines, UNCHANGED <<prefs, job, delivered>>,
         spent' \in [Workspaces \X Categories -> Levels],
         keys' \in [Workspaces -> SUBSET (Summaries \cup Alerts)], told' \in [Workspaces -> Seq(Alerts)],
         lost' \in [Workspaces -> SUBSET (Summaries \cup Alerts)], unmarked' \in [Workspaces -> SUBSET Alerts],
         \A v \in Workspaces : v # w => told'[v] = told[v] /\ keys'[v] = keys[v] /\ unmarked'[v] = unmarked[v],
         \A v \in Workspaces : /\ keys[v] \subseteq keys'[v] /\ lost[v] \subseteq lost'[v]
                               /\ keys'[v] \cap Summaries \subseteq keys[v] \cup lost'[v],
         turn'[w] = t => AlertsOf(w)'
  PROVE  NoticesInv'
<1>1. TypeOK /\ SummaryInv /\ AlertInv
  BY DEF NoticesInv
<1>2. turn' \in [Workspaces -> Turns] /\ turn'[w] = t /\ \A v \in Workspaces : v # w => turn'[v] = turn[v]
  BY <1>1 DEF TypeOK
<1>3. \A v \in Workspaces : v # w => AlertsOf(v)'
  BY <1>1, <1>2, AlertFrame DEF AlertInv
<1>4. AlertInv'
  BY <1>2, <1>3 DEF AlertInv
<1>5. SummaryInv'
  BY <1>1, SummaryFrame
<1>6. \A v \in Workspaces : Len(turn'[v].lines) <= MaxLines
  BY <1>1, <1>2 DEF TypeOK
<1>7. TypeOK'
  BY <1>1, <1>2, <1>6 DEF TypeOK, prefs
<1> QED
  BY <1>4, <1>5, <1>7 DEF NoticesInv

LEMMA ChangeInChatInv ==
  ASSUME NoticesInv, NEW w \in Workspaces, NEW cs \in Touches, ChangeInChat(w, cs)
  PROVE  NoticesInv'
<1>1. TypeOK /\ AlertsOf(w)
  BY DEF NoticesInv, AlertInv
<1>2. UNCHANGED <<prefs, keys, job, told, delivered, lost, unmarked>> /\ turn[w].pc = "idle"
  BY DEF ChangeInChat, history
<1>3. cs \subseteq Categories
  BY NoticesAssumption
<1>4. spent' \in [Workspaces \X Categories -> Levels]
  <2>1. PICK level \in [cs -> Levels] :
          spent' = [x \in DOMAIN spent |-> IF x[1] = w /\ x[2] \in cs THEN level[x[2]] ELSE spent[x]]
    BY DEF ChangeInChat
  <2> QED
    BY <1>1, <2>1 DEF TypeOK
<1>5. PICK t : t = Turn("alerts", cs)
  OBVIOUS
<1>6. t \in Turns /\ t.pc = "alerts" /\ t.lines = <<>> /\ t.cands = {} /\ t.also = {}
  BY <1>3, <1>5 DEF Turn, Turns
<1>7. turn' = [turn EXCEPT ![w] = t] /\ Len(t.lines) <= MaxLines
  BY <1>5, <1>6, Kinds DEF ChangeInChat
<1>8. turn[w].lines = <<>>
  BY <1>1, <1>2, Kinds DEF AlertsOf
<1>9. ASSUME turn'[w] = t PROVE AlertsOf(w)'
  <2>1. Apart(t)
    BY <1>6 DEF Apart
  <2>2. Heard(w)' = Heard(w)
    BY <1>2, <1>6, <1>8, <1>9 DEF Heard
  <2> QED
    BY <1>1, <1>2, <1>6, <1>9, <2>1, <2>2 DEF AlertsOf, Elements, Rises
<1> QED
  BY <1>1, <1>2, <1>4, <1>6, <1>7, <1>9, OneTurn DEF TypeOK

LEMMA BudgetAlertInv ==
  ASSUME NoticesInv, NEW w \in Workspaces, NEW c \in Categories, BudgetAlert(w, c)
  PROVE  NoticesInv'
<1>1. TypeOK /\ AlertsOf(w)
  BY DEF NoticesInv, AlertInv
<1>2. UNCHANGED <<prefs, spent, keys, job, told, delivered, lost, unmarked>> /\ c \in turn[w].left
  BY DEF BudgetAlert, history
<1>3. PICK new : /\ new \subseteq {<<c, l>> : l \in {spent[<<w, c>>]} \cap Thresholds}
                 /\ turn' = [turn EXCEPT ![w].left = @ \ {c}, ![w].cands = @ \cup new]
  BY DEF BudgetAlert
<1>4. new \subseteq Alerts /\ \A a, b \in new : a = b /\ a[1] = c
  <2>1. PICK level : level = spent[<<w, c>>]
    OBVIOUS
  <2>2. \A a \in new : level \in Thresholds /\ a = <<c, level>>
    BY <1>3, <2>1
  <2> QED
    BY <2>2 DEF Alerts
<1>5. PICK t : t = [turn[w] EXCEPT !.left = @ \ {c}, !.cands = @ \cup new]
  OBVIOUS
<1>6. turn[w] \in Turns /\ Len(turn[w].lines) <= MaxLines
  BY <1>1 DEF TypeOK
<1>7. /\ t \in Turns /\ t.pc = turn[w].pc /\ t.lines = turn[w].lines /\ t.also = turn[w].also
      /\ t.left = turn[w].left \ {c} /\ t.cands = turn[w].cands \cup new
  BY <1>4, <1>5, <1>6 DEF Turns
<1>8. turn' = [turn EXCEPT ![w] = t]
  BY <1>1, <1>3, <1>5 DEF TypeOK
<1>9. ASSUME turn'[w] = t PROVE AlertsOf(w)'
  <2>1. Apart(t)
    BY <1>1, <1>2, <1>4, <1>7 DEF AlertsOf, Apart
  <2>2. turn[w].pc # "idle"
    BY <1>1, <1>2 DEF AlertsOf, Turn, NoTurn
  <2>3. Heard(w)' = Heard(w)
    BY <1>2, <1>7, <1>9 DEF Heard
  <2> QED
    BY <1>1, <1>2, <1>7, <1>9, <2>1, <2>2, <2>3 DEF AlertsOf, Rises
<1> QED
  BY <1>1, <1>2, <1>6, <1>7, <1>8, <1>9, OneTurn DEF TypeOK

LEMMA MarkAlertInv ==
  ASSUME NoticesInv, NEW w \in Workspaces, NEW a \in Alerts, MarkAlert(w, a)
  PROVE  NoticesInv'
<1>1. TypeOK /\ AlertsOf(w)
  BY DEF NoticesInv, AlertInv
<1>2. /\ UNCHANGED <<prefs, spent, job, told, delivered, unmarked>> /\ unmarked' = unmarked /\ told' = told
      /\ turn[w].left = {} /\ turn[w].also = {} /\ a \in turn[w].cands /\ Len(turn[w].lines) < MaxLines
  BY DEF MarkAlert, First, Room
<1>3. turn[w] \in Turns /\ turn[w].lines \in Seq(Alerts) /\ told[w] \in Seq(Alerts) /\ Summaries \cap Alerts = {}
      /\ MaxLines \in Nat
  BY <1>1, Kinds DEF TypeOK, Turns
<1>4. turn[w].pc # "idle"
  BY <1>1, <1>2 DEF AlertsOf, Turn, NoTurn
<1>5. CASE /\ a \notin keys[w] /\ keys' = [keys EXCEPT ![w] = @ \cup {a}] /\ UNCHANGED lost
           /\ turn' = [turn EXCEPT ![w].cands = @ \ {a}, ![w].lines = Append(@, a), ![w].also = Below(a)]
  <2>1. PICK t : t = [turn[w] EXCEPT !.cands = @ \ {a}, !.lines = Append(@, a), !.also = Below(a)]
    OBVIOUS
  <2>2. Below(a) \subseteq Alerts /\ Append(turn[w].lines, a) \in Seq(Alerts)
    BY <1>3 DEF Below
  <2>3. /\ t \in Turns /\ t.pc = turn[w].pc /\ t.left = {} /\ t.cands = turn[w].cands \ {a}
        /\ t.lines = Append(turn[w].lines, a) /\ t.also = Below(a)
    BY <1>2, <1>3, <2>1, <2>2 DEF Turns
  <2>4. turn' = [turn EXCEPT ![w] = t] /\ Len(t.lines) <= MaxLines
    <3>1. turn' = [turn EXCEPT ![w] = t]
      BY <1>1, <1>5, <2>1 DEF TypeOK
    <3>2. Len(t.lines) = Len(turn[w].lines) + 1 /\ Len(turn[w].lines) \in Nat
      BY <1>3, <2>3
    <3> QED
      BY <1>2, <1>3, <3>1, <3>2
  <2>5. /\ keys' \in [Workspaces -> SUBSET (Summaries \cup Alerts)]
        /\ keys'[w] = keys[w] \cup {a} /\ \A v \in Workspaces : v # w => keys'[v] = keys[v]
    BY <1>1, <1>5 DEF TypeOK
  <2>6. /\ DOMAIN t.lines = 1 .. Len(turn[w].lines) + 1 /\ DOMAIN turn[w].lines = 1 .. Len(turn[w].lines)
        /\ Len(turn[w].lines) \in Nat
        /\ t.lines[Len(turn[w].lines) + 1] = a /\ \A i \in DOMAIN turn[w].lines : t.lines[i] = turn[w].lines[i]
    BY <1>3, <2>3
  <2>7. Elements(t.lines) = Elements(turn[w].lines) \cup {a}
    BY <2>6 DEF Elements
  <2>8. ASSUME turn'[w] = t PROVE AlertsOf(w)'
    <3>1. Apart(t)
      <4>1. \A b, d \in t.cands : b[1] = d[1] => b = d
        BY <1>1, <2>3 DEF AlertsOf, Apart
      <4>2. \A b \in t.cands, i \in DOMAIN t.lines : b[1] # t.lines[i][1]
        BY <1>1, <1>2, <2>3, <2>6 DEF AlertsOf, Apart
      <4>3. \A i, k \in DOMAIN t.lines : t.lines[i][1] = t.lines[k][1] => i = k
        <5>1. \A i, k \in DOMAIN turn[w].lines : t.lines[i][1] = t.lines[k][1] => i = k
          BY <1>1, <2>6 DEF AlertsOf, Apart
        <5>2. \A i \in DOMAIN turn[w].lines : t.lines[i][1] # a[1]
          BY <1>1, <1>2, <2>6 DEF AlertsOf, Apart
        <5>3. \A i \in DOMAIN t.lines : i \in DOMAIN turn[w].lines \/ (i = Len(turn[w].lines) + 1 /\ t.lines[i] = a)
          BY <2>6
        <5> QED
          BY <5>1, <5>2, <5>3
      <4> QED
        BY <2>3, <4>1, <4>2, <4>3 DEF Apart
    <3>2. \A b \in Elements(told[w]) : b \in keys'[w] /\ Below(b) \subseteq keys'[w] \cup unmarked[w]
      BY <1>1, <2>5 DEF AlertsOf
    <3>3. \A b \in Elements(t.lines) : b \in keys'[w] /\ Below(b) \subseteq keys'[w] \cup unmarked[w] \cup Below(a)
      BY <1>1, <1>2, <2>5, <2>7 DEF AlertsOf
    <3>4. \A b \in Below(a) : Covers(b, Elements(t.lines))
      BY <2>7 DEF Below, Covers, Alerts, Thresholds
    <3>5. \A b \in keys'[w] \cap Alerts : Covers(b, Heard(w)')
      <4>1. Heard(w)' = Heard(w) \cup {a}
        BY <1>2, <1>5, <2>7, <2>8 DEF Heard
      <4>2. Covers(a, {a})
        BY DEF Covers, Alerts, Thresholds
      <4> QED
        BY <1>1, <2>5, <4>1, <4>2 DEF AlertsOf, Covers
    <3>6. \A i \in DOMAIN told[w] : told[w][i][1] = a[1] => Rises(w, told[w][i], a)
      <4>1. SUFFICES ASSUME NEW i \in DOMAIN told[w], told[w][i][1] = a[1]
                     PROVE  Rises(w, told[w][i], a)
        OBVIOUS
      <4>2. PICK b \in Alerts : b = told[w][i]
        BY <1>3
      <4>3. b \in Elements(told[w])
        BY <4>2 DEF Elements
      <4>4. b \in keys[w] /\ Below(b) \subseteq keys[w] \cup unmarked[w]
        BY <1>1, <4>3 DEF AlertsOf
      <4>5. b[2] # a[2] /\ b[2] \in Nat /\ a[2] \in Nat
        BY <1>5, <4>1, <4>2, <4>4 DEF Alerts, Thresholds
      <4>6. b[2] < a[2] \/ a \in Below(b)
        BY <4>1, <4>2, <4>5 DEF Below
      <4> QED
        BY <1>5, <4>2, <4>4, <4>5, <4>6 DEF Rises
    <3>7. \A i \in DOMAIN told[w], k \in DOMAIN t.lines :
            told[w][i][1] = t.lines[k][1] => Rises(w, told[w][i], t.lines[k])
      <4>1. SUFFICES ASSUME NEW i \in DOMAIN told[w], NEW k \in DOMAIN t.lines, told[w][i][1] = t.lines[k][1]
                     PROVE  Rises(w, told[w][i], t.lines[k])
        OBVIOUS
      <4>2. CASE k \in DOMAIN turn[w].lines
        <5>1. t.lines[k] = turn[w].lines[k]
          BY <2>6, <4>2
        <5> QED
          BY <1>1, <4>1, <4>2, <5>1 DEF AlertsOf
      <4>3. CASE k = Len(turn[w].lines) + 1
        BY <2>6, <3>6, <4>1, <4>3
      <4> QED
        BY <2>6, <4>2, <4>3
    <3>8. \A i, k \in DOMAIN told[w] :
            i < k /\ told[w][i][1] = told[w][k][1] => Rises(w, told[w][i], told[w][k])
      BY <1>1 DEF AlertsOf
    <3>9. told'[w] = told[w] /\ unmarked'[w] = unmarked[w] /\ t.pc # "idle" /\ t.also = Below(a)
      BY <1>2, <1>4, <2>3
    <3> QED
      BY <2>8, <3>1, <3>2, <3>3, <3>4, <3>5, <3>7, <3>8, <3>9 DEF AlertsOf, Rises
  <2>9. \A v \in Workspaces : keys'[v] \cap Summaries \subseteq keys[v] /\ keys[v] \subseteq keys'[v]
    BY <1>3, <2>5
  <2>10. /\ spent' \in [Workspaces \X Categories -> Levels] /\ told' \in [Workspaces -> Seq(Alerts)]
         /\ lost' \in [Workspaces -> SUBSET (Summaries \cup Alerts)] /\ unmarked' \in [Workspaces -> SUBSET Alerts]
    BY <1>1, <1>2, <1>5 DEF TypeOK
  <2>11. /\ \A v \in Workspaces : v # w => told'[v] = told[v] /\ keys'[v] = keys[v] /\ unmarked'[v] = unmarked[v]
         /\ \A v \in Workspaces : /\ keys[v] \subseteq keys'[v] /\ lost[v] \subseteq lost'[v]
                                  /\ keys'[v] \cap Summaries \subseteq keys[v] \cup lost'[v]
    BY <1>2, <1>5, <2>5, <2>9
  <2>12. UNCHANGED <<prefs, job, delivered>> /\ keys' \in [Workspaces -> SUBSET (Summaries \cup Alerts)]
    BY <1>2, <2>5
  <2> QED
    BY <2>3, <2>4, <2>8, <2>10, <2>11, <2>12, OneTurn
<1>6. CASE /\ UNCHANGED <<keys, lost>> \/ InsertFails(w, a)
           /\ turn' = [turn EXCEPT ![w].cands = @ \ {a}]
  <2>1. /\ keys' \in [Workspaces -> SUBSET (Summaries \cup Alerts)]
        /\ lost' \in [Workspaces -> SUBSET (Summaries \cup Alerts)]
        /\ \A v \in Workspaces :
             /\ keys[v] \subseteq keys'[v] /\ lost[v] \subseteq lost'[v]
             /\ keys'[v] \subseteq keys[v] \cup lost'[v]
             /\ v # w => keys'[v] = keys[v]
    <3>1. CASE UNCHANGED <<keys, lost>>
      BY <1>1, <3>1 DEF TypeOK
    <3>2. CASE InsertFails(w, a)
      BY <1>1, <3>2, InsertFailsInv
    <3> QED
      BY <1>6, <3>1, <3>2
  <2>2. PICK t : t = [turn[w] EXCEPT !.cands = @ \ {a}]
    OBVIOUS
  <2>3. /\ t \in Turns /\ t.pc = turn[w].pc /\ t.left = {} /\ t.cands = turn[w].cands \ {a}
        /\ t.lines = turn[w].lines /\ t.also = {}
    BY <1>2, <1>3, <2>2 DEF Turns
  <2>4. turn' = [turn EXCEPT ![w] = t] /\ Len(t.lines) <= MaxLines
    BY <1>1, <1>2, <1>3, <1>6, <2>2, <2>3 DEF TypeOK
  <2>5. ASSUME turn'[w] = t PROVE AlertsOf(w)'
    <3>1. Apart(t)
      BY <1>1, <1>2, <2>3 DEF AlertsOf, Apart
    <3>2. \A b \in keys'[w] \cap Alerts : Covers(b, Heard(w)')
      <4>1. SUFFICES ASSUME NEW b \in keys'[w] \cap Alerts PROVE Covers(b, Heard(w)')
        OBVIOUS
      <4>2. Heard(w) \subseteq Heard(w)' /\ lost'[w] \cap Alerts \subseteq Heard(w)'
        BY <1>2, <2>1, <2>3, <2>5 DEF Heard
      <4>3. CASE b \in keys[w]
        BY <1>1, <4>2, <4>3 DEF AlertsOf, Covers
      <4>4. CASE b \in lost'[w]
        BY <4>2, <4>4 DEF Covers, Alerts, Thresholds
      <4> QED
        BY <2>1, <4>3, <4>4
    <3>3. \A b \in Elements(told[w]) : b \in keys'[w] /\ Below(b) \subseteq keys'[w] \cup unmarked[w]
      BY <1>1, <2>1 DEF AlertsOf
    <3>4. \A b \in Elements(turn[w].lines) : b \in keys'[w] /\ Below(b) \subseteq keys'[w] \cup unmarked[w]
      BY <1>1, <1>2, <2>1 DEF AlertsOf
    <3> QED
      BY <1>1, <1>2, <1>4, <2>3, <2>5, <3>1, <3>2, <3>3, <3>4 DEF AlertsOf, Rises
  <2> QED
    BY <1>1, <1>2, <2>1, <2>3, <2>4, <2>5, OneTurn DEF TypeOK
<1> QED
  BY <1>5, <1>6 DEF MarkAlert

LEMMA AlsoMarkInv ==
  ASSUME NoticesInv, NEW w \in Workspaces, NEW a \in Alerts, AlsoMark(w, a)
  PROVE  NoticesInv'
<1>1. TypeOK /\ AlertsOf(w)
  BY DEF NoticesInv, AlertInv
<1>2. UNCHANGED <<prefs, spent, job, told, delivered, lost>> /\ a \in turn[w].also
  BY DEF AlsoMark
<1>3. turn[w] \in Turns /\ Len(turn[w].lines) <= MaxLines /\ Summaries \cap Alerts = {}
  BY <1>1, Kinds DEF TypeOK
<1>4. turn[w].pc # "idle"
  BY <1>1, <1>2 DEF AlertsOf, Turn, NoTurn
<1>5. PICK t : t = [turn[w] EXCEPT !.also = @ \ {a}]
  OBVIOUS
<1>6. /\ t \in Turns /\ t.pc = turn[w].pc /\ t.left = turn[w].left /\ t.cands = turn[w].cands
      /\ t.lines = turn[w].lines /\ t.also = turn[w].also \ {a}
  BY <1>3, <1>5 DEF Turns
<1>7. turn' = [turn EXCEPT ![w] = t]
  BY <1>1, <1>5 DEF AlsoMark, TypeOK
<1>8. /\ keys' \in [Workspaces -> SUBSET (Summaries \cup Alerts)] /\ unmarked' \in [Workspaces -> SUBSET Alerts]
      /\ \A v \in Workspaces : v # w => keys'[v] = keys[v] /\ unmarked'[v] = unmarked[v]
      /\ \A v \in Workspaces : keys[v] \subseteq keys'[v] /\ keys'[v] \subseteq keys[v] \cup {a}
      /\ unmarked[w] \subseteq unmarked'[w] /\ a \in keys'[w] \cup unmarked'[w]
  <2>1. CASE keys' = [keys EXCEPT ![w] = @ \cup {a}] /\ UNCHANGED unmarked
    BY <1>1, <2>1 DEF TypeOK
  <2>2. CASE unmarked' = [unmarked EXCEPT ![w] = @ \cup {a}] /\ UNCHANGED keys
    BY <1>1, <2>2 DEF TypeOK
  <2> QED
    BY <2>1, <2>2 DEF AlsoMark
<1>9. ASSUME turn'[w] = t PROVE AlertsOf(w)'
  <2>1. Apart(t)
    BY <1>1, <1>6 DEF AlertsOf, Apart
  <2>2. \A b \in Elements(told[w]) : b \in keys'[w] /\ Below(b) \subseteq keys'[w] \cup unmarked'[w]
    BY <1>1, <1>8 DEF AlertsOf
  <2>3. \A b \in Elements(t.lines) : b \in keys'[w] /\ Below(b) \subseteq keys'[w] \cup unmarked'[w] \cup t.also
    BY <1>1, <1>6, <1>8 DEF AlertsOf
  <2>4. \A b \in t.also : Covers(b, Elements(t.lines))
    BY <1>1, <1>6 DEF AlertsOf
  <2>5. \A b \in keys'[w] \cap Alerts : Covers(b, Heard(w)')
    <3>1. Heard(w)' = Heard(w) /\ Elements(turn[w].lines) \subseteq Heard(w)
      BY <1>2, <1>6, <1>9 DEF Heard
    <3>2. Covers(a, Elements(turn[w].lines))
      BY <1>1, <1>2 DEF AlertsOf
    <3> QED
      BY <1>1, <1>8, <3>1, <3>2 DEF AlertsOf, Covers
  <2>6. \A i \in DOMAIN told[w], k \in DOMAIN t.lines :
          told[w][i][1] = t.lines[k][1] => Rises(w, told[w][i], t.lines[k])'
    BY <1>1, <1>2, <1>6, <1>8 DEF AlertsOf, Rises
  <2>7. \A i, k \in DOMAIN told[w] :
          i < k /\ told[w][i][1] = told[w][k][1] => Rises(w, told[w][i], told[w][k])'
    BY <1>1, <1>2, <1>8 DEF AlertsOf, Rises
  <2>8. told'[w] = told[w] /\ t.pc # "idle"
    BY <1>2, <1>4, <1>6
  <2> QED
    BY <1>9, <2>1, <2>2, <2>3, <2>4, <2>5, <2>6, <2>7, <2>8 DEF AlertsOf, Rises
<1>10. /\ spent' \in [Workspaces \X Categories -> Levels] /\ told' \in [Workspaces -> Seq(Alerts)]
       /\ lost' \in [Workspaces -> SUBSET (Summaries \cup Alerts)]
  BY <1>1, <1>2 DEF TypeOK
<1>11. \A v \in Workspaces : keys'[v] \cap Summaries \subseteq keys[v]
  BY <1>3, <1>8
<1> QED
  BY <1>2, <1>3, <1>6, <1>7, <1>8, <1>9, <1>10, <1>11, OneTurn

(* Reading the lines of a reply after what was read before.                *)
LEMMA Concatenation ==
  ASSUME NEW S, NEW s \in Seq(S), NEW r \in Seq(S)
  PROVE  /\ s \o r \in Seq(S) /\ Elements(s \o r) = Elements(s) \cup Elements(r)
         /\ Len(s) \in Nat /\ DOMAIN s = 1 .. Len(s) /\ DOMAIN r = 1 .. Len(r)
         /\ \A i \in DOMAIN (s \o r) :
              \/ i \in DOMAIN s /\ (s \o r)[i] = s[i]
              \/ i > Len(s) /\ i - Len(s) \in DOMAIN r /\ (s \o r)[i] = r[i - Len(s)]
<1>1. /\ s \o r \in Seq(S) /\ Len(s) \in Nat /\ Len(r) \in Nat /\ DOMAIN s = 1 .. Len(s) /\ DOMAIN r = 1 .. Len(r)
      /\ DOMAIN (s \o r) = 1 .. Len(s) + Len(r)
      /\ \A i \in 1 .. Len(s) + Len(r) : (s \o r)[i] = IF i <= Len(s) THEN s[i] ELSE r[i - Len(s)]
  OBVIOUS
<1>2. \A i \in DOMAIN (s \o r) :
        \/ i \in DOMAIN s /\ (s \o r)[i] = s[i]
        \/ i > Len(s) /\ i - Len(s) \in DOMAIN r /\ (s \o r)[i] = r[i - Len(s)]
  BY <1>1
<1>3. Elements(s \o r) \subseteq Elements(s) \cup Elements(r)
  BY <1>2 DEF Elements
<1>4. \A i \in DOMAIN s : i \in DOMAIN (s \o r) /\ (s \o r)[i] = s[i]
  BY <1>1
<1>5. \A i \in DOMAIN r : Len(s) + i \in DOMAIN (s \o r) /\ (s \o r)[Len(s) + i] = r[i]
  BY <1>1
<1>6. Elements(s) \subseteq Elements(s \o r)
  BY <1>4 DEF Elements
<1>7. Elements(r) \subseteq Elements(s \o r)
  BY <1>5 DEF Elements
<1>8. Elements(s \o r) = Elements(s) \cup Elements(r)
  BY <1>3, <1>6, <1>7
<1> QED
  BY <1>1, <1>2, <1>8

LEMMA ReplyInv ==
  ASSUME NoticesInv, NEW w \in Workspaces, Reply(w)
  PROVE  NoticesInv'
<1>1. TypeOK /\ AlertsOf(w)
  BY DEF NoticesInv, AlertInv
<1>2. /\ UNCHANGED <<prefs, spent, keys, job, delivered, unmarked>> /\ keys' = keys /\ unmarked' = unmarked
      /\ turn[w].also = {} /\ turn' = [turn EXCEPT ![w] = NoTurn]
  BY DEF Reply
<1>3. /\ turn[w] \in Turns /\ turn[w].lines \in Seq(Alerts) /\ told[w] \in Seq(Alerts)
      /\ NoTurn \in Turns /\ Len(NoTurn.lines) <= MaxLines /\ NoTurn.lines = <<>>
  BY <1>1, Kinds DEF TypeOK, Turns
<1>4. /\ NoTurn.pc = "idle" /\ NoTurn.left = {} /\ NoTurn.cands = {} /\ NoTurn.also = {}
      /\ Elements(NoTurn.lines) = {} /\ DOMAIN NoTurn.lines = {}
  BY DEF Turn, NoTurn, Elements
<1>5. Apart(NoTurn)
  BY <1>4 DEF Apart
<1>6. Elements(told[w]) \subseteq Alerts /\ Elements(turn[w].lines) \subseteq Alerts
  BY <1>3 DEF Elements
<1>7. CASE told' = [told EXCEPT ![w] = @ \o turn[w].lines] /\ UNCHANGED lost
  <2>1. PICK s \in Seq(Alerts), r \in Seq(Alerts) : s = told[w] /\ r = turn[w].lines
    BY <1>3
  <2>2. /\ s \o r \in Seq(Alerts) /\ Elements(s \o r) = Elements(s) \cup Elements(r)
        /\ Len(s) \in Nat /\ DOMAIN s = 1 .. Len(s) /\ DOMAIN r = 1 .. Len(r)
        /\ \A i \in DOMAIN (s \o r) :
             \/ i \in DOMAIN s /\ (s \o r)[i] = s[i]
             \/ i > Len(s) /\ i - Len(s) \in DOMAIN r /\ (s \o r)[i] = r[i - Len(s)]
    BY Concatenation
  <2>3. told' \in [Workspaces -> Seq(Alerts)] /\ told'[w] = s \o r /\ \A v \in Workspaces : v # w => told'[v] = told[v]
    BY <1>1, <1>7, <2>1, <2>2 DEF TypeOK
  <2>4. ASSUME turn'[w] = NoTurn PROVE AlertsOf(w)'
    <3>1. \A b \in Elements(s \o r) : b \in keys[w] /\ Below(b) \subseteq keys[w] \cup unmarked[w]
      BY <1>1, <1>2, <2>1, <2>2 DEF AlertsOf
    <3>2. Heard(w)' = Heard(w)
      BY <1>4, <1>7, <2>1, <2>2, <2>3, <2>4 DEF Heard
    <3>3. \A i, k \in DOMAIN (s \o r) :
            i < k /\ (s \o r)[i][1] = (s \o r)[k][1] => Rises(w, (s \o r)[i], (s \o r)[k])
      <4>1. SUFFICES ASSUME NEW i \in DOMAIN (s \o r), NEW k \in DOMAIN (s \o r), i < k,
                            (s \o r)[i][1] = (s \o r)[k][1]
                     PROVE  Rises(w, (s \o r)[i], (s \o r)[k])
        OBVIOUS
      <4>2. CASE k \in DOMAIN s /\ (s \o r)[k] = s[k]
        <5>1. i \in DOMAIN s /\ (s \o r)[i] = s[i]
          BY <2>2, <4>1, <4>2
        <5> QED
          BY <1>1, <2>1, <4>1, <4>2, <5>1 DEF AlertsOf
      <4>3. CASE k > Len(s) /\ k - Len(s) \in DOMAIN r /\ (s \o r)[k] = r[k - Len(s)]
        <5>1. CASE i \in DOMAIN s /\ (s \o r)[i] = s[i]
          BY <1>1, <2>1, <4>1, <4>3, <5>1 DEF AlertsOf
        <5>2. CASE i > Len(s) /\ i - Len(s) \in DOMAIN r /\ (s \o r)[i] = r[i - Len(s)]
          <6>1. i - Len(s) # k - Len(s)
            BY <2>2, <4>1, <4>3, <5>2
          <6> QED
            BY <1>1, <2>1, <4>1, <4>3, <5>2, <6>1 DEF AlertsOf, Apart
        <5> QED
          BY <2>2, <5>1, <5>2
      <4> QED
        BY <2>2, <4>2, <4>3
    <3>4. \A b \in keys[w] \cap Alerts : Covers(b, Heard(w))
      BY <1>1 DEF AlertsOf
    <3>5. PICK q : q = s \o r
      OBVIOUS
    <3>6. told'[w] = q /\ turn'[w] = NoTurn /\ keys'[w] = keys[w] /\ unmarked'[w] = unmarked[w]
      BY <1>2, <2>3, <2>4, <3>5
    <3>7. \A i, k \in DOMAIN q : i < k /\ q[i][1] = q[k][1] => Rises(w, q[i], q[k])
      BY <3>3, <3>5
    <3>8. \A b \in Elements(q) : b \in keys[w] /\ Below(b) \subseteq keys[w] \cup unmarked[w]
      BY <3>1, <3>5
    <3> QED
      BY <1>4, <1>5, <3>2, <3>4, <3>6, <3>7, <3>8 DEF AlertsOf, Rises
  <2>5. /\ spent' \in [Workspaces \X Categories -> Levels] /\ unmarked' \in [Workspaces -> SUBSET Alerts]
        /\ keys' \in [Workspaces -> SUBSET (Summaries \cup Alerts)]
        /\ lost' \in [Workspaces -> SUBSET (Summaries \cup Alerts)]
    BY <1>1, <1>2, <1>7 DEF TypeOK
  <2> QED
    BY <1>2, <1>3, <1>7, <2>3, <2>4, <2>5, OneTurn
<1>8. CASE lost' = [lost EXCEPT ![w] = @ \cup Elements(turn[w].lines)] /\ told' = told
  <2>1. /\ lost' \in [Workspaces -> SUBSET (Summaries \cup Alerts)]
        /\ lost'[w] = lost[w] \cup Elements(turn[w].lines) /\ \A v \in Workspaces : lost[v] \subseteq lost'[v]
    BY <1>1, <1>6, <1>8 DEF TypeOK
  <2>2. ASSUME turn'[w] = NoTurn PROVE AlertsOf(w)'
    <3>1. Heard(w)' = Heard(w)
      BY <1>4, <1>6, <1>8, <2>1, <2>2 DEF Heard
    <3>2. /\ \A b \in keys[w] \cap Alerts : Covers(b, Heard(w))
          /\ \A b \in Elements(told[w]) : b \in keys[w] /\ Below(b) \subseteq keys[w] \cup unmarked[w]
          /\ \A i, k \in DOMAIN told[w] :
               i < k /\ told[w][i][1] = told[w][k][1] => Rises(w, told[w][i], told[w][k])
      BY <1>1 DEF AlertsOf
    <3> QED
      BY <1>2, <1>4, <1>5, <1>8, <2>2, <3>1, <3>2 DEF AlertsOf, Rises
  <2>3. /\ spent' \in [Workspaces \X Categories -> Levels] /\ unmarked' \in [Workspaces -> SUBSET Alerts]
        /\ keys' \in [Workspaces -> SUBSET (Summaries \cup Alerts)] /\ told' \in [Workspaces -> Seq(Alerts)]
    BY <1>1, <1>2, <1>8 DEF TypeOK
  <2> QED
    BY <1>2, <1>3, <1>8, <2>1, <2>2, <2>3, OneTurn
<1> QED
  BY <1>7, <1>8 DEF Reply

-----------------------------------------------------------------------------
(* The rest.                                                               *)

(* Nothing but the calendar, the preferences or the spending moves.        *)
LEMMA OutsideInv ==
  ASSUME NoticesInv, UNCHANGED <<keys, job, turn, told, delivered, lost, unmarked>>,
         monthly' \in [Workspaces -> {"off", "last_day", "first_day"}],
         weekly' \in [Workspaces -> BOOLEAN], linked' \in [Workspaces -> BOOLEAN],
         spent' \in [Workspaces \X Categories -> Levels]
  PROVE  NoticesInv'
<1>1. TypeOK /\ SummaryInv /\ AlertInv
  BY DEF NoticesInv
<1>2. AlertInv'
  BY <1>1, AlertFrame DEF AlertInv
<1>3. SummaryInv'
  BY <1>1, SummaryFrame
<1>4. TypeOK'
  BY <1>1 DEF TypeOK
<1> QED
  BY <1>2, <1>3, <1>4 DEF NoticesInv

LEMMA CrashInv ==
  ASSUME NoticesInv, Crash
  PROVE  NoticesInv'
<1>1. TypeOK /\ SummaryInv /\ AlertInv
  BY DEF NoticesInv
<1>2. UNCHANGED <<prefs, spent, keys, told, delivered, unmarked>>
  BY DEF Crash
<1>3. /\ job' = [j \in Jobs |-> NoJob] /\ turn' = [w \in Workspaces |-> NoTurn]
      /\ lost' = [w \in Workspaces |-> lost[w] \cup Elements(turn[w].lines) \cup
                    {Key(j) : j \in {j \in Jobs : w \in job[j].at /\ job[j].pc \in {"claimed", "failed"}}}]
  BY DEF Crash
<1>4. /\ NoTurn.pc = "idle" /\ NoTurn.left = {} /\ NoTurn.cands = {} /\ NoTurn.also = {}
      /\ Elements(NoTurn.lines) = {} /\ DOMAIN NoTurn.lines = {} /\ NoTurn.lines = <<>> /\ Len(NoTurn.lines) <= MaxLines
  BY Kinds DEF Turn, NoTurn, Elements
<1>5. Apart(NoTurn)
  BY <1>4 DEF Apart
<1>6. \A w \in Workspaces : Elements(turn[w].lines) \subseteq Alerts
  <2>1. SUFFICES ASSUME NEW w \in Workspaces PROVE Elements(turn[w].lines) \subseteq Alerts
    OBVIOUS
  <2>2. turn[w].lines \in Seq(Alerts)
    BY <1>1 DEF TypeOK, Turns
  <2> QED
    BY <2>2 DEF Elements
<1>7. /\ lost' \in [Workspaces -> SUBSET (Summaries \cup Alerts)]
      /\ \A w \in Workspaces : lost[w] \cup Elements(turn[w].lines) \subseteq lost'[w]
      /\ \A w \in Workspaces, j \in Jobs : Working(j, w) => Key(j) \in lost'[w]
      /\ \A w \in Workspaces : lost'[w] \cap Alerts = (lost[w] \cap Alerts) \cup Elements(turn[w].lines)
  BY <1>1, <1>3, <1>6, Kinds DEF TypeOK, Working
<1>8. job' \in [Jobs -> JobRuns] /\ \A j \in Jobs : job'[j].at = {} /\ \A w : ~Working(j, w)'
  BY <1>3, Kinds DEF Working
<1>9. SummariesSaid'
  <2>1. SUFFICES ASSUME NEW w \in Workspaces, NEW k \in keys[w] \cap Summaries, ~(delivered[<<w, k>>] > 0)
                 PROVE  k \in lost'[w]
    BY <1>2 DEF SummariesSaid
  <2>2. CASE k \in lost[w]
    BY <1>7, <2>2
  <2>3. CASE \E j \in Jobs : Key(j) = k /\ Working(j, w)
    BY <1>7, <2>3
  <2> QED
    BY <1>1, <2>1, <2>2, <2>3 DEF SummaryInv, SummariesSaid
<1>10. SummaryInv'
  BY <1>1, <1>2, <1>8, <1>9 DEF SummaryInv
<1>11. ASSUME NEW w \in Workspaces PROVE AlertsOf(w)'
  <2>1. turn'[w] = NoTurn /\ told'[w] = told[w] /\ keys'[w] = keys[w] /\ unmarked'[w] = unmarked[w]
    BY <1>2, <1>3
  <2>2. Heard(w)' = Heard(w)
    BY <1>4, <1>7, <2>1 DEF Heard
  <2>3. /\ \A b \in keys[w] \cap Alerts : Covers(b, Heard(w))
        /\ \A b \in Elements(told[w]) : b \in keys[w] /\ Below(b) \subseteq keys[w] \cup unmarked[w]
        /\ \A i, k \in DOMAIN told[w] :
             i < k /\ told[w][i][1] = told[w][k][1] => Rises(w, told[w][i], told[w][k])
    BY <1>1 DEF AlertInv, AlertsOf
  <2> QED
    BY <1>4, <1>5, <2>1, <2>2, <2>3 DEF AlertsOf, Rises
<1>12. AlertInv'
  BY <1>11 DEF AlertInv
<1>13. turn' \in [Workspaces -> Turns] /\ \A w \in Workspaces : Len(turn'[w].lines) <= MaxLines
  BY <1>3, <1>4, Kinds
<1>14. TypeOK'
  BY <1>1, <1>2, <1>7, <1>8, <1>13 DEF TypeOK, prefs
<1> QED
  BY <1>10, <1>12, <1>14 DEF NoticesInv

LEMMA InitInv == Init => NoticesInv
<1> SUFFICES ASSUME Init PROVE NoticesInv
  OBVIOUS
<1>1. \A w \in Workspaces : keys[w] = {} /\ turn[w] = NoTurn /\ told[w] = <<>> /\ lost[w] = {}
  BY DEF Init
<1>2. \A j \in Jobs : job[j] = NoJob /\ job[j].at = {} /\ \A w : ~Working(j, w)
  BY Kinds DEF Init, Working
<1>3. /\ NoTurn.pc = "idle" /\ NoTurn.left = {} /\ NoTurn.cands = {} /\ NoTurn.also = {}
      /\ Elements(NoTurn.lines) = {} /\ DOMAIN NoTurn.lines = {} /\ NoTurn.lines = <<>> /\ Len(NoTurn.lines) <= MaxLines
  BY Kinds DEF Turn, NoTurn, Elements
<1>4. TypeOK
  <2>1. job \in [Jobs -> JobRuns] /\ turn \in [Workspaces -> Turns]
    BY Kinds DEF Init
  <2>2. \A w \in Workspaces : Len(turn[w].lines) <= MaxLines
    BY <1>1, <1>3
  <2> QED
    BY <2>1, <2>2 DEF Init, TypeOK
<1>5. \A w \in Workspaces, k \in Summaries : delivered[<<w, k>>] = 0
  BY DEF Init
<1>6. SummaryInv
  BY <1>1, <1>2, <1>5 DEF SummaryInv, SummariesSaid
<1>7. Apart(NoTurn) /\ Elements(<<>>) = {} /\ DOMAIN <<>> = {}
  BY <1>3 DEF Apart, Elements
<1>8. AlertInv
  BY <1>1, <1>3, <1>7 DEF AlertInv, AlertsOf
<1> QED
  BY <1>4, <1>6, <1>8 DEF NoticesInv

LEMMA NextInv == NoticesInv /\ [Next]_vars => NoticesInv'
<1> SUFFICES ASSUME NoticesInv, [Next]_vars PROVE NoticesInv'
  OBVIOUS
<1> USE DEF history, prefs
<1>1. TypeOK
  BY DEF NoticesInv
<1>2. CASE DayPasses
  BY <1>1, <1>2, OutsideInv DEF DayPasses, TypeOK
<1>3. CASE Crash
  BY <1>3, CrashInv
<1>4. ASSUME NEW j \in Jobs, RunJob(j) PROVE NoticesInv'
  BY <1>4, RunJobInv
<1>5. ASSUME NEW j \in Jobs, NEW w \in Workspaces, JobStep(j, w) PROVE NoticesInv'
  BY <1>5, PrepareInv, ClaimInv, SendSummaryInv, ReleaseInv DEF JobStep
<1>6. ASSUME NEW w \in Workspaces, TurnStep(w) PROVE NoticesInv'
  BY <1>6, ChangeInChatInv, BudgetAlertInv, MarkAlertInv, AlsoMarkInv, ReplyInv DEF TurnStep
<1>7. ASSUME NEW w \in Workspaces, UpdateSettings(w) PROVE NoticesInv'
  BY <1>1, <1>7, OutsideInv DEF UpdateSettings, TypeOK
<1>8. ASSUME NEW w \in Workspaces, LinkGroup(w) PROVE NoticesInv'
  BY <1>1, <1>8, OutsideInv DEF LinkGroup, TypeOK
<1>9. ASSUME NEW w \in Workspaces, NEW c \in Categories, ChangeInPanel(w, c) PROVE NoticesInv'
  <2>1. PICK l \in Levels : spent' = [spent EXCEPT ![<<w, c>>] = l]
    BY <1>9 DEF ChangeInPanel
  <2>2. spent' \in [Workspaces \X Categories -> Levels]
    BY <1>1, <2>1 DEF TypeOK
  <2> QED
    BY <1>1, <1>9, <2>2, OutsideInv DEF ChangeInPanel, TypeOK
<1>10. CASE UNCHANGED vars
  BY <1>1, <1>10, OutsideInv DEF vars, TypeOK
<1> QED
  BY <1>2, <1>3, <1>4, <1>5, <1>6, <1>7, <1>8, <1>9, <1>10 DEF Next

LEMMA Invariant == Spec => []NoticesInv
  BY InitInv, NextInv, PTL DEF Spec

-----------------------------------------------------------------------------
(* The types, and the limit of lines in a reply, for any workspaces,       *)
(* categories and limit (finance/alerts.go:60-98).                         *)
THEOREM NoticesTyped == Spec => []TypeOK
<1>1. NoticesInv => TypeOK
  BY DEF NoticesInv
<1> QED
  BY <1>1, Invariant, PTL

(* A month and a week are summarised at most once, whatever overlaps and   *)
(* whatever fails (finance/summaries.go:229-246).                          *)
THEOREM OneSummary == Spec => []SummaryOnce
<1>1. NoticesInv => SummaryOnce
  BY DEF NoticesInv, SummaryInv, SummaryOnce, TypeOK
<1> QED
  BY <1>1, Invariant, PTL

(* The levels a group reads about a category rise, apart from a level      *)
(* whose mark failed (finance/alerts.go:80-95).                            *)
THEOREM LevelsOnlyRise == Spec => []LevelsRise
<1>1. NoticesInv => LevelsRise
  <2>1. SUFFICES ASSUME NoticesInv, NEW w \in Workspaces, NEW i \in DOMAIN told[w], NEW k \in DOMAIN told[w],
                        i < k, told[w][i][1] = told[w][k][1]
                 PROVE  \/ told[w][i][2] < told[w][k][2]
                        \/ told[w][i][2] # told[w][k][2] /\ told[w][k] \in unmarked[w]
    BY DEF LevelsRise
  <2> QED
    BY <2>1 DEF NoticesInv, AlertInv, AlertsOf, Rises
<1> QED
  BY <1>1, Invariant, PTL

(* What is marked as sent was said, is about to be said, or was cut off by *)
(* a restart, a failed reply, a failed DELETE, or an INSERT of the mark     *)
(* that was committed and its answer lost (finance/alerts.go:80-95,        *)
(* finance/summaries.go:228-246).                                          *)
THEOREM NothingForgotten == Spec => []MarkedIsSaid
<1>1. NoticesInv => MarkedIsSaid
  <2>. SUFFICES ASSUME NoticesInv PROVE MarkedIsSaid
    OBVIOUS
  <2>1. \A w \in Workspaces : \A a \in keys[w] \cap Alerts : Covers(a, Heard(w))
    BY DEF NoticesInv, AlertInv, AlertsOf
  <2>2. SummariesSaid
    BY DEF NoticesInv, SummaryInv
  <2> QED
    BY <2>1, <2>2 DEF Heard, SummariesSaid, Working, MarkedIsSaid
<1> QED
  BY <1>1, Invariant, PTL
=============================================================================
