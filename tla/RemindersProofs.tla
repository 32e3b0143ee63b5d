--------------------------- MODULE RemindersProofs ---------------------------
(***************************************************************************)
(* Proofs about Reminders, for any timers, appointments, contacts, retries *)
(* and any number of faults, crashes and saves of the contact.             *)
(*                                                                         *)
(* An alert is owed once by each source that will still send it.  What was *)
(* sent and what is owed never exceed one alert and one for each reason to  *)
(* repeat it; and an alert that nobody owes or has just sent was repeated   *)
(* for reasons only, so that the next life may send it again.              *)
(***************************************************************************)
EXTENDS Reminders, FiniteSetTheorems, TLAPS

Alarms == [pc : {"off", "armed", "sent"}, tries : 0 .. Retries - 1]
Restores == [pc : {"down", "waiting", "skipped", "reading"},
             rows : SUBSET Timers, late : SUBSET Timers, busy : SUBSET Timers]
Workers == [list : SUBSET Appointments, mark : SUBSET Appointments]

TimerTypes ==
  /\ timers \in [Timers -> {"none", "pending", "executed"}] /\ due \subseteq Timers
  /\ creating \subseteq Timers /\ dropped \subseteq Timers
  /\ alarms \in [Timers -> [Registrars -> Alarms]]
  /\ restore \in Restores

AppointmentTypes ==
  /\ appts \in [Appointments -> {"none", "bare", "set", "sent"}] /\ booking \subseteq Appointments
  /\ clock \in [Appointments -> {"early", "window", "started"}]
  /\ worker \in Workers

ContactTypes == contacts \in [Contacts -> {"absent", "active", "inactive"}] /\ saving \subseteq Contacts

HistoryTypes == sent \in [Timers \cup Appointments -> Nat] /\ excused \in [Timers \cup Appointments -> Nat]

(* A timer has one source of each kind at most: the tool's is its goroutine *)
(* or its alarm, the restore's the row it read or its alarm.               *)
Sourced(t) ==
  /\ timers[t] = "none" =>
       /\ t \notin creating /\ t \notin restore.rows
       /\ alarms[t]["tool"].pc = "off" /\ alarms[t]["restore"].pc = "off"
  /\ t \in creating => alarms[t]["tool"].pc = "off"
  /\ t \in restore.rows \/ restore.pc # "reading" => alarms[t]["restore"].pc = "off"
  /\ restore.pc # "reading" => t \notin restore.rows

Owes(t, w) ==
  IF alarms[t][w].pc = "armed" \/ t \in (IF w = "tool" THEN creating ELSE restore.rows) THEN 1 ELSE 0

Owed(t) == Owes(t, "tool") + Owes(t, "restore")

JustSent(t) == alarms[t]["tool"].pc = "sent" \/ alarms[t]["restore"].pc = "sent"

(* What was sent and what is still to be.                                  *)
Alerted(t) ==
  /\ sent[t] + Owed(t) <= 1 + excused[t]
  /\ timers[t] # "executed" /\ Owed(t) = 0 /\ ~JustSent(t) => sent[t] <= excused[t]
  /\ timers[t] = "executed" \/ JustSent(t) => sent[t] > 0

(* The restore that read the table leaves no pending timer out.            *)
Remembered(t) ==
  restore.pc = "reading" /\ timers[t] = "pending" =>
    \/ t \in creating \/ t \in restore.rows \/ t \in dropped
    \/ alarms[t]["tool"].pc # "off" \/ alarms[t]["restore"].pc # "off"

TimerInv == \A t \in Timers : Sourced(t) /\ Alerted(t) /\ Remembered(t)

(* The restore waits for one late delivery at a time.                      *)
BusyInv ==
  /\ restore.pc # "reading" => restore.busy = {}
  /\ \A s, t \in restore.busy : s = t

(* The same for the worker, which looks at one appointment at a time.      *)
AppointmentInv ==
  /\ \A a \in booking : appts[a] = "bare"
  /\ \A a \in worker.list : appts[a] = "set" /\ a \notin worker.mark
  /\ \A a, b \in worker.mark : appts[a] = "set" /\ a = b
  /\ \A a \in Appointments :
       /\ sent[a] <= 1 + excused[a]
       /\ appts[a] # "sent" /\ a \notin worker.mark => sent[a] <= excused[a]
       /\ appts[a] = "sent" \/ a \in worker.mark => sent[a] > 0

(* All active contacts but one are about to deactivate the others.         *)
ContactInv == ~cut => \A c, d \in Active \ saving : c = d

Types == TimerTypes /\ AppointmentTypes /\ ContactTypes /\ HistoryTypes

RemindersInv == Types /\ TimerInv /\ BusyInv /\ AppointmentInv /\ ContactInv

-----------------------------------------------------------------------------
(* What a step leaves alone.                                               *)

(* A timer nothing happens to.                                             *)
SameTimer(t) ==
  /\ timers'[t] = timers[t] /\ sent'[t] = sent[t] /\ excused'[t] = excused[t]
  /\ (t \in creating') = (t \in creating) /\ (t \in restore'.rows) = (t \in restore.rows)
  /\ t \in dropped => t \in dropped'
  /\ \A w \in Registrars : alarms'[t][w] = alarms[t][w]

LEMMA OtherTimer ==
  ASSUME NEW t \in Timers, Sourced(t) /\ Alerted(t) /\ Remembered(t), SameTimer(t), restore'.pc = restore.pc
  PROVE  (Sourced(t) /\ Alerted(t) /\ Remembered(t))'
<1>. USE DEF SameTimer, Registrars
<1>1. Sourced(t)'
  BY DEF Sourced
<1>2. Owed(t)' = Owed(t) /\ JustSent(t)' = JustSent(t)
  BY DEF Owed, Owes, JustSent
<1>3. Alerted(t)'
  BY <1>2 DEF Alerted
<1>4. Remembered(t)'
  BY DEF Remembered
<1>. QED
  BY <1>1, <1>3, <1>4

LEMMA SameTimers ==
  ASSUME TimerTypes, TimerInv, BusyInv, UNCHANGED <<timers, due, creating, alarms, restore, dropped>>,
         \A t \in Timers : sent'[t] = sent[t] /\ excused'[t] = excused[t]
  PROVE  TimerTypes' /\ TimerInv' /\ BusyInv'
<1>1. TimerTypes' /\ BusyInv'
  BY DEF TimerTypes, BusyInv
<1>2. TimerInv'
  BY OtherTimer DEF TimerInv, SameTimer
<1>. QED
  BY <1>1, <1>2

LEMMA SameAppointments ==
  ASSUME AppointmentTypes, AppointmentInv, UNCHANGED <<appts, booking, clock, worker>>,
         \A a \in Appointments : sent'[a] = sent[a] /\ excused'[a] = excused[a]
  PROVE  AppointmentTypes' /\ AppointmentInv'
BY DEF AppointmentTypes, AppointmentInv

LEMMA SameContacts ==
  ASSUME ContactTypes, ContactInv, UNCHANGED <<contacts, saving, cut>>
  PROVE  ContactTypes' /\ ContactInv'
BY DEF ContactTypes, ContactInv, Active

(* Alerts and reasons are counted up.                                      *)
LEMMA Counted ==
  ASSUME NEW h \in [Timers \cup Appointments -> Nat], NEW s
  PROVE  /\ Count(h, s) \in [Timers \cup Appointments -> Nat]
         /\ \A x \in Timers \cup Appointments : Count(h, s)[x] = IF x \in s THEN h[x] + 1 ELSE h[x]
BY DEF Count

CountedOne(g, h, x) ==
  /\ g \in [Timers \cup Appointments -> Nat] /\ g[x] = h[x] + 1
  /\ \A y \in Timers \cup Appointments : y # x => g[y] = h[y]

LEMMA OneCounted ==
  ASSUME NEW h \in [Timers \cup Appointments -> Nat], NEW x \in Timers \cup Appointments
  PROVE  CountedOne(Count(h, {x}), h, x)
BY DEF Count, CountedOne

(* One alarm changes.                                                      *)
AlarmIs(f, t, w, x) ==
  /\ f \in [Timers -> [Registrars -> Alarms]] /\ f[t][w] = x
  /\ \A s \in Timers, v \in Registrars : s # t \/ v # w => f[s][v] = alarms[s][v]

Changed(t, w, x) == [alarms EXCEPT ![t][w] = x]

LEMMA OneAlarm ==
  ASSUME TimerTypes, NEW t \in Timers, NEW w \in Registrars, NEW x \in Alarms
  PROVE  AlarmIs(Changed(t, w, x), t, w, x)
BY DEF TimerTypes, Changed, AlarmIs

LEMMA OneTimer ==
  ASSUME TimerInv, NEW t \in Timers, restore'.pc = restore.pc,
         \A s \in Timers : s # t => SameTimer(s), (Sourced(t) /\ Alerted(t) /\ Remembered(t))'
  PROVE  TimerInv'
BY OtherTimer DEF TimerInv

LEMMA ReturnsKeeps ==
  ASSUME TimerTypes, BusyInv, NEW t \in Timers, NEW w \in Registrars, Returns(t, w)
  PROVE  /\ restore' \in Restores /\ restore'.pc = restore.pc /\ restore'.rows = restore.rows
         /\ BusyInv'
<1>1. CASE w = "restore"
  <2>1. restore' = [restore EXCEPT !.busy = @ \ {t}]
    BY <1>1 DEF Returns
  <2>2. /\ restore' \in Restores /\ restore'.pc = restore.pc /\ restore'.rows = restore.rows
        /\ restore'.busy = restore.busy \ {t}
    BY <2>1 DEF TimerTypes, Restores
  <2>. QED
    BY <2>2 DEF BusyInv
<1>2. CASE w # "restore"
  BY <1>2 DEF Returns, TimerTypes, BusyInv
<1>. QED
  BY <1>1, <1>2

-----------------------------------------------------------------------------
(* One lemma for each step of a timer.                                     *)

TimersInv == TimerTypes /\ HistoryTypes /\ TimerInv /\ BusyInv

LEMMA TimePassesInv ==
  ASSUME TimersInv, NEW t \in Timers, TimePasses(t)
  PROVE  TimersInv'
<1>1. /\ UNCHANGED <<timers, creating, alarms, restore, dropped, sent, excused>> /\ due' = due \cup {t}
  BY DEF TimePasses, memory, history
<1>2. TimerTypes' /\ BusyInv' /\ HistoryTypes'
  BY <1>1 DEF TimersInv, TimerTypes, BusyInv, HistoryTypes
<1>3. TimerInv'
  BY <1>1, OtherTimer DEF TimersInv, TimerInv, SameTimer
<1>. QED
  BY <1>2, <1>3 DEF TimersInv

LEMMA CreateTimerInv ==
  ASSUME TimersInv, NEW t \in Timers, CreateTimer(t)
  PROVE  TimersInv'
<1>1. /\ timers[t] = "none" /\ timers' = [timers EXCEPT ![t] = "pending"] /\ creating' = creating \cup {t}
      /\ UNCHANGED <<due, alarms, restore, dropped, sent, excused>>
  BY DEF CreateTimer, history
<1>2. TimerTypes' /\ BusyInv' /\ HistoryTypes'
  BY <1>1 DEF TimersInv, TimerTypes, BusyInv, HistoryTypes
<1>3. \A s \in Timers : s # t => SameTimer(s)
  BY <1>1 DEF TimersInv, TimerTypes, SameTimer
<1>4. /\ Sourced(t) /\ Alerted(t) /\ timers'[t] = "pending"
      /\ sent[t] \in Nat /\ excused[t] \in Nat
  BY <1>1 DEF TimersInv, TimerTypes, HistoryTypes, TimerInv
<1>5. Owed(t) = 0 /\ Owed(t)' = 1 /\ ~JustSent(t)
  BY <1>1, <1>4 DEF Sourced, Owed, Owes, JustSent
<1>6. (Sourced(t) /\ Alerted(t) /\ Remembered(t))'
  <2>1. Sourced(t)' /\ Remembered(t)'
    BY <1>1, <1>4 DEF Sourced, Remembered
  <2>2. Alerted(t)'
    BY <1>1, <1>4, <1>5 DEF Alerted, JustSent
  <2>. QED
    BY <2>1, <2>2
<1>7. TimerInv'
  BY <1>1, <1>3, <1>6, OneTimer DEF TimersInv
<1>. QED
  BY <1>2, <1>7 DEF TimersInv

LEMMA ArmedType ==
  /\ Armed \in Alarms /\ Armed.pc = "armed"
  /\ NoAlarm \in Alarms /\ NoAlarm.pc = "off"
  BY RemindersAssumption DEF Armed, NoAlarm, Alarms

LEMMA RegisterInv ==
  ASSUME TimersInv, NEW t \in Timers, RegisterDynamicTimer(t)
  PROVE  TimersInv'
<1>1. /\ t \in creating /\ creating' = creating \ {t} /\ alarms' = [alarms EXCEPT ![t]["tool"] = Armed]
      /\ UNCHANGED <<timers, due, restore, dropped, sent, excused>>
  BY DEF RegisterDynamicTimer, table, history
<1>2. /\ alarms' \in [Timers -> [Registrars -> Alarms]] /\ alarms'[t]["tool"] = Armed
      /\ \A s \in Timers, v \in Registrars : s # t \/ v # "tool" => alarms'[s][v] = alarms[s][v]
  <2>1. alarms' = Changed(t, "tool", Armed) /\ TimerTypes /\ "tool" \in Registrars
    BY <1>1 DEF Changed, TimersInv, Registrars
  <2>2. AlarmIs(Changed(t, "tool", Armed), t, "tool", Armed)
    BY <2>1, ArmedType, OneAlarm
  <2>. QED
    BY <2>1, <2>2 DEF AlarmIs
<1>3. TimerTypes' /\ BusyInv' /\ HistoryTypes'
  BY <1>1, <1>2 DEF TimersInv, TimerTypes, BusyInv, HistoryTypes
<1>4. \A s \in Timers : s # t => SameTimer(s)
  BY <1>1, <1>2 DEF SameTimer
<1>5. /\ Sourced(t) /\ Alerted(t) /\ alarms'[t]["tool"].pc = "armed"
      /\ alarms'[t]["restore"] = alarms[t]["restore"]
  BY <1>1, <1>2 DEF TimersInv, TimerInv, Armed, Registrars
<1>6. Owed(t)' = Owed(t) /\ JustSent(t)' = JustSent(t)
  BY <1>1, <1>5 DEF Sourced, Owed, Owes, JustSent
<1>7. (Sourced(t) /\ Alerted(t) /\ Remembered(t))'
  <2>1. Sourced(t)' /\ Remembered(t)'
    BY <1>1, <1>5 DEF Sourced, Remembered
  <2>2. Alerted(t)'
    BY <1>1, <1>5, <1>6 DEF Alerted
  <2>. QED
    BY <2>1, <2>2
<1>8. TimerInv'
  BY <1>1, <1>4, <1>7, OneTimer DEF TimersInv
<1>. QED
  BY <1>3, <1>8 DEF TimersInv

LEMMA DeliverTimerInv ==
  ASSUME TimersInv, NEW t \in Timers, NEW w \in Registrars, DeliverTimer(t, w)
  PROVE  TimersInv'
<1>1. /\ alarms[t][w].pc = "armed"
      /\ UNCHANGED <<timers, due, creating, excused>>
  BY DEF DeliverTimer, table
<1>2. /\ alarms[t][w] \in Alarms /\ Alerted(t) /\ Sourced(t) /\ sent[t] \in Nat /\ excused[t] \in Nat
      /\ TimerTypes /\ BusyInv /\ HistoryTypes /\ TimerInv
  BY DEF TimersInv, TimerTypes, TimerInv, HistoryTypes
<1>3. timers[t] # "none" /\ t \notin (IF w = "tool" THEN creating ELSE restore.rows)
  BY <1>1, <1>2 DEF Sourced, Registrars
<1>4. CASE Works /\ alarms' = [alarms EXCEPT ![t][w].pc = "sent"] /\ sent' = Count(sent, {t})
           /\ UNCHANGED <<restore, dropped>>
  <2>1. PICK x : x = [alarms[t][w] EXCEPT !.pc = "sent"]
    OBVIOUS
  <2>2. x \in Alarms /\ x.pc = "sent" /\ alarms' = [alarms EXCEPT ![t][w] = x]
    BY <1>2, <1>4, <2>1 DEF Alarms
  <2>3. /\ alarms' \in [Timers -> [Registrars -> Alarms]] /\ alarms'[t][w].pc = "sent"
        /\ \A s \in Timers, v \in Registrars : s # t \/ v # w => alarms'[s][v] = alarms[s][v]
    <3>1. alarms' = Changed(t, w, x) /\ TimerTypes
      BY <1>2, <2>2 DEF Changed
    <3>2. AlarmIs(Changed(t, w, x), t, w, x)
      BY <2>2, <3>1, OneAlarm
    <3>. QED
      BY <2>2, <3>1, <3>2 DEF AlarmIs
  <2>4. /\ sent' \in [Timers \cup Appointments -> Nat] /\ sent'[t] = sent[t] + 1
        /\ \A s \in Timers : s # t => sent'[s] = sent[s]
    <3>1. sent \in [Timers \cup Appointments -> Nat]
      BY <1>2 DEF HistoryTypes
    <3>2. sent' = Count(sent, {t})
      BY <1>4
    <3>3. CountedOne(Count(sent, {t}), sent, t)
      BY <3>1, OneCounted
    <3>. QED
      BY <3>2, <3>3 DEF CountedOne
  <2>5. TimerTypes' /\ BusyInv' /\ HistoryTypes'
    BY <1>1, <1>2, <1>4, <2>3, <2>4 DEF TimerTypes, BusyInv, HistoryTypes
  <2>6. \A s \in Timers : s # t => SameTimer(s)
    BY <1>1, <1>4, <2>3, <2>4 DEF SameTimer
  <2>7. Owed(t) = Owed(t)' + 1 /\ Owed(t)' \in Nat /\ JustSent(t)'
    BY <1>1, <1>3, <1>4, <2>3 DEF Owed, Owes, JustSent, Registrars
  <2>8. Alerted(t)'
    BY <1>1, <1>2, <2>4, <2>7 DEF Alerted
  <2>9. Sourced(t)' /\ Remembered(t)'
    BY <1>1, <1>2, <1>3, <1>4, <2>3 DEF Sourced, Remembered, Registrars
  <2>10. TimerInv'
    BY <1>2, <1>4, <2>6, <2>8, <2>9, OneTimer
  <2>. QED
    BY <2>5, <2>10 DEF TimersInv
<1>5. CASE /\ Fails("send") /\ Returns(t, w) /\ UNCHANGED sent
           /\ IF alarms[t][w].tries + 1 < Retries
                THEN alarms' = [alarms EXCEPT ![t][w].tries = @ + 1] /\ UNCHANGED dropped
                ELSE alarms' = [alarms EXCEPT ![t][w] = NoAlarm] /\ dropped' = dropped \cup {t}
  <2>1. /\ restore' \in Restores /\ restore'.pc = restore.pc /\ restore'.rows = restore.rows /\ BusyInv'
    BY <1>2, <1>5, ReturnsKeeps
  <2>2. CASE alarms[t][w].tries + 1 < Retries
    <3>1. PICK x : x = [alarms[t][w] EXCEPT !.tries = alarms[t][w].tries + 1]
      OBVIOUS
    <3>2. x \in Alarms /\ x.pc = "armed" /\ alarms' = [alarms EXCEPT ![t][w] = x] /\ dropped' = dropped
      BY <1>1, <1>2, <1>5, <2>2, <3>1, RemindersAssumption DEF Alarms
    <3>3. /\ alarms' \in [Timers -> [Registrars -> Alarms]] /\ alarms'[t][w] = x
          /\ \A s \in Timers, v \in Registrars : s # t \/ v # w => alarms'[s][v] = alarms[s][v]
      <4>1. alarms' = Changed(t, w, x) /\ TimerTypes
        BY <1>2, <3>2 DEF Changed
      <4>2. AlarmIs(Changed(t, w, x), t, w, x)
        BY <3>2, <4>1, OneAlarm
      <4>. QED
        BY <4>1, <4>2 DEF AlarmIs
    <3>4. TimerTypes' /\ HistoryTypes'
      BY <1>1, <1>2, <1>5, <2>1, <3>2, <3>3 DEF TimerTypes, HistoryTypes
    <3>5. \A s \in Timers : s # t => SameTimer(s)
      BY <1>1, <1>5, <2>1, <3>2, <3>3 DEF SameTimer
    <3>6. Owed(t)' = Owed(t) /\ JustSent(t)' = JustSent(t)
      BY <1>1, <2>1, <3>2, <3>3 DEF Owed, Owes, JustSent, Registrars
    <3>7. Alerted(t)'
      BY <1>1, <1>2, <1>5, <3>6 DEF Alerted
    <3>8. Sourced(t)' /\ Remembered(t)'
      BY <1>1, <1>2, <1>3, <2>1, <3>2, <3>3 DEF Sourced, Remembered, Registrars
    <3>9. TimerInv'
      BY <1>2, <2>1, <3>5, <3>7, <3>8, OneTimer
    <3>. QED
      BY <2>1, <3>4, <3>9 DEF TimersInv
  <2>3. CASE ~(alarms[t][w].tries + 1 < Retries)
    <3>1. PICK x : x = NoAlarm
      OBVIOUS
    <3>2. alarms' = [alarms EXCEPT ![t][w] = x] /\ dropped' = dropped \cup {t} /\ x \in Alarms
      BY <1>5, <2>3, <3>1, ArmedType
    <3>3. /\ alarms' \in [Timers -> [Registrars -> Alarms]] /\ alarms'[t][w] = x
          /\ \A s \in Timers, v \in Registrars : s # t \/ v # w => alarms'[s][v] = alarms[s][v]
      <4>1. alarms' = Changed(t, w, x) /\ TimerTypes
        BY <1>2, <3>2 DEF Changed
      <4>2. AlarmIs(Changed(t, w, x), t, w, x)
        BY <3>2, <4>1, OneAlarm
      <4>. QED
        BY <4>1, <4>2 DEF AlarmIs
    <3>4. TimerTypes' /\ HistoryTypes'
      BY <1>1, <1>2, <1>5, <2>1, <3>2, <3>3 DEF TimerTypes, HistoryTypes
    <3>5. \A s \in Timers : s # t => SameTimer(s)
      BY <1>1, <1>5, <2>1, <3>2, <3>3 DEF SameTimer
    <3>6. Owed(t) = Owed(t)' + 1 /\ Owed(t)' \in Nat /\ JustSent(t)' = JustSent(t)
      BY <1>1, <1>3, <2>1, <3>1, <3>3, ArmedType DEF Owed, Owes, JustSent, Registrars
    <3>7. Alerted(t)'
      BY <1>1, <1>2, <1>5, <3>6 DEF Alerted
    <3>8. Sourced(t)' /\ Remembered(t)'
      BY <1>1, <1>2, <1>3, <2>1, <3>1, <3>2, <3>3, ArmedType DEF Sourced, Remembered, Registrars
    <3>9. TimerInv'
      BY <1>2, <2>1, <3>5, <3>7, <3>8, OneTimer
    <3>. QED
      BY <2>1, <3>4, <3>9 DEF TimersInv
  <2>. QED
    BY <2>2, <2>3
<1>. QED
  BY <1>4, <1>5 DEF DeliverTimer

LEMMA MarkTimerExecutedInv ==
  ASSUME TimersInv, NEW t \in Timers, NEW w \in Registrars, MarkTimerExecuted(t, w)
  PROVE  TimersInv'
<1>1. /\ alarms[t][w].pc = "sent" /\ alarms' = [alarms EXCEPT ![t][w] = NoAlarm] /\ Returns(t, w)
      /\ UNCHANGED <<due, creating, sent>>
  BY DEF MarkTimerExecuted
<1>2. /\ alarms[t][w] \in Alarms /\ Alerted(t) /\ Sourced(t) /\ sent[t] \in Nat /\ excused[t] \in Nat
      /\ TimerTypes /\ BusyInv /\ HistoryTypes /\ TimerInv
  BY DEF TimersInv, TimerTypes, TimerInv, HistoryTypes
<1>3. timers[t] # "none" /\ JustSent(t) /\ sent[t] > 0
  BY <1>1, <1>2 DEF Sourced, Registrars, JustSent, Alerted
<1>4. /\ restore' \in Restores /\ restore'.pc = restore.pc /\ restore'.rows = restore.rows /\ BusyInv'
  BY <1>1, <1>2, ReturnsKeeps
<1>5. /\ alarms' \in [Timers -> [Registrars -> Alarms]] /\ alarms'[t][w] = NoAlarm
      /\ \A s \in Timers, v \in Registrars : s # t \/ v # w => alarms'[s][v] = alarms[s][v]
  <2>1. alarms' = Changed(t, w, NoAlarm) /\ TimerTypes
    BY <1>1, <1>2 DEF Changed
  <2>2. AlarmIs(Changed(t, w, NoAlarm), t, w, NoAlarm)
    BY <2>1, OneAlarm, ArmedType
  <2>. QED
    BY <2>1, <2>2 DEF AlarmIs
<1>6. Owed(t)' = Owed(t) /\ Owed(t) \in Nat
  BY <1>1, <1>4, <1>5, ArmedType DEF Owed, Owes, Registrars
<1>7. CASE Works /\ timers' = [timers EXCEPT ![t] = "executed"] /\ UNCHANGED <<dropped, excused>>
  <2>1. /\ timers' \in [Timers -> {"none", "pending", "executed"}] /\ timers'[t] = "executed"
        /\ \A s \in Timers : s # t => timers'[s] = timers[s]
    BY <1>2, <1>7 DEF TimerTypes
  <2>2. TimerTypes' /\ HistoryTypes'
    BY <1>1, <1>2, <1>4, <1>5, <1>7, <2>1 DEF TimerTypes, HistoryTypes
  <2>3. \A s \in Timers : s # t => SameTimer(s)
    BY <1>1, <1>4, <1>5, <1>7, <2>1 DEF SameTimer
  <2>4. Alerted(t)'
    BY <1>1, <1>2, <1>3, <1>6, <1>7, <2>1 DEF Alerted
  <2>5. Sourced(t)' /\ Remembered(t)'
    BY <1>1, <1>2, <1>4, <1>5, <2>1, ArmedType DEF Sourced, Remembered, Registrars
  <2>6. TimerInv'
    BY <1>2, <1>4, <2>3, <2>4, <2>5, OneTimer
  <2>. QED
    BY <1>4, <2>2, <2>6 DEF TimersInv
<1>8. CASE Fails("mark") /\ dropped' = dropped \cup {t} /\ excused' = Count(excused, {t}) /\ UNCHANGED timers
  <2>1. /\ excused' \in [Timers \cup Appointments -> Nat] /\ excused'[t] = excused[t] + 1
        /\ \A s \in Timers : s # t => excused'[s] = excused[s]
    <3>1. excused \in [Timers \cup Appointments -> Nat]
      BY <1>2 DEF HistoryTypes
    <3>2. excused' = Count(excused, {t})
      BY <1>8
    <3>3. CountedOne(Count(excused, {t}), excused, t)
      BY <3>1, OneCounted
    <3>. QED
      BY <3>2, <3>3 DEF CountedOne
  <2>2. TimerTypes' /\ HistoryTypes'
    BY <1>1, <1>2, <1>4, <1>5, <1>8, <2>1 DEF TimerTypes, HistoryTypes
  <2>3. \A s \in Timers : s # t => SameTimer(s)
    BY <1>1, <1>4, <1>5, <1>8, <2>1 DEF SameTimer
  <2>4. Alerted(t)'
    BY <1>1, <1>2, <1>3, <1>6, <1>8, <2>1 DEF Alerted
  <2>5. Sourced(t)' /\ Remembered(t)'
    BY <1>1, <1>2, <1>3, <1>4, <1>5, <1>8, ArmedType DEF Sourced, Remembered, Registrars
  <2>6. TimerInv'
    BY <1>2, <1>4, <2>3, <2>4, <2>5, OneTimer
  <2>. QED
    BY <1>4, <2>2, <2>6 DEF TimersInv
<1>. QED
  BY <1>7, <1>8 DEF MarkTimerExecuted

LEMMA RestoreNextInv ==
  ASSUME TimersInv, NEW t \in Timers, RestoreNext(t)
  PROVE  TimersInv'
<1>1. /\ t \in restore.rows /\ restore.busy = {} /\ alarms' = [alarms EXCEPT ![t]["restore"] = Armed]
      /\ restore' = [restore EXCEPT !.rows = @ \ {t}, !.busy = {t} \cap restore.late]
      /\ UNCHANGED <<timers, due, creating, dropped, sent, excused>>
  BY DEF RestoreNext, table, history
<1>2. /\ Alerted(t) /\ Sourced(t) /\ TimerTypes /\ BusyInv /\ HistoryTypes /\ TimerInv
  BY DEF TimersInv, TimerInv
<1>3. /\ alarms' \in [Timers -> [Registrars -> Alarms]] /\ alarms'[t]["restore"] = Armed
      /\ \A s \in Timers, v \in Registrars : s # t \/ v # "restore" => alarms'[s][v] = alarms[s][v]
  <2>1. alarms' = Changed(t, "restore", Armed) /\ TimerTypes /\ "restore" \in Registrars
    BY <1>1, <1>2 DEF Changed, Registrars
  <2>2. AlarmIs(Changed(t, "restore", Armed), t, "restore", Armed)
    BY <2>1, OneAlarm, ArmedType
  <2>. QED
    BY <2>1, <2>2 DEF AlarmIs
<1>4. /\ restore' \in Restores /\ restore'.pc = restore.pc /\ restore'.rows = restore.rows \ {t}
      /\ restore'.busy \subseteq {t}
  BY <1>1, <1>2 DEF TimerTypes, Restores
<1>5. TimerTypes' /\ HistoryTypes'
  BY <1>1, <1>2, <1>3, <1>4 DEF TimerTypes, HistoryTypes
<1>6. timers[t] # "none" /\ restore.pc = "reading" /\ alarms[t]["restore"].pc = "off"
  BY <1>1, <1>2 DEF Sourced
<1>7. BusyInv'
  BY <1>4, <1>6 DEF BusyInv
<1>8. \A s \in Timers : s # t => SameTimer(s)
  BY <1>1, <1>3, <1>4 DEF SameTimer
<1>9. Owed(t)' = Owed(t) /\ JustSent(t)' = JustSent(t)
  BY <1>1, <1>3, <1>4, <1>6, ArmedType DEF Owed, Owes, JustSent, Registrars
<1>10. Alerted(t)'
  BY <1>1, <1>2, <1>9 DEF Alerted
<1>11. Sourced(t)' /\ Remembered(t)'
  BY <1>1, <1>2, <1>3, <1>4, <1>6, ArmedType DEF Sourced, Remembered, Registrars
<1>12. TimerInv'
  BY <1>2, <1>4, <1>8, <1>10, <1>11, OneTimer
<1>. QED
  BY <1>5, <1>7, <1>12 DEF TimersInv
LEMMA RestoreReadsInv ==
  ASSUME TimersInv, RestoreReads
  PROVE  TimersInv'
<1>1. restore.pc = "waiting" /\ UNCHANGED <<timers, due, creating, alarms, dropped, sent>>
  BY DEF RestoreReads, table
<1>2. /\ TimerTypes /\ BusyInv /\ HistoryTypes
      /\ \A t \in Timers : /\ Sourced(t) /\ Alerted(t) /\ sent[t] \in Nat /\ excused[t] \in Nat
                           /\ alarms[t]["restore"].pc = "off" /\ t \notin restore.rows
  BY <1>1 DEF TimersInv, TimerInv, HistoryTypes, Sourced
<1>3. CASE restore' = [restore EXCEPT !.pc = "skipped"] /\ UNCHANGED excused
  <2>1. /\ restore' \in Restores /\ restore'.pc = "skipped" /\ restore'.rows = restore.rows
        /\ restore'.busy = restore.busy
    BY <1>2, <1>3 DEF TimerTypes, Restores
  <2>2. TimerTypes' /\ BusyInv' /\ HistoryTypes'
    BY <1>1, <1>2, <1>3, <2>1 DEF TimerTypes, BusyInv, HistoryTypes
  <2>3. ASSUME NEW t \in Timers
        PROVE  (Sourced(t) /\ Alerted(t) /\ Remembered(t))'
    <3>1. Owed(t)' = Owed(t) /\ JustSent(t)' = JustSent(t)
      BY <1>1, <2>1 DEF Owed, Owes, JustSent
    <3>2. Alerted(t)'
      BY <1>1, <1>2, <1>3, <3>1 DEF Alerted
    <3>. QED
      BY <1>1, <1>2, <2>1, <3>2 DEF Sourced, Remembered
  <2>. QED
    BY <2>2, <2>3 DEF TimersInv, TimerInv
<1>4. CASE /\ restore' = [pc |-> "reading", rows |-> Unexecuted, late |-> Unexecuted \cap due, busy |-> {}]
           /\ excused' = Count(excused, {t \in Unexecuted : t \in creating \/ alarms[t]["tool"].pc # "off"})
  <2>1. /\ restore' \in Restores /\ restore'.pc = "reading" /\ restore'.rows = Unexecuted
        /\ restore'.busy = {} /\ Unexecuted \subseteq Timers
    BY <1>4 DEF Restores, Unexecuted
  <2>2. /\ excused' \in [Timers \cup Appointments -> Nat]
        /\ \A t \in Timers :
             excused'[t] = IF timers[t] = "pending" /\ (t \in creating \/ alarms[t]["tool"].pc # "off")
                             THEN excused[t] + 1 ELSE excused[t]
    <3>1. PICK s : s = {t \in Unexecuted : t \in creating \/ alarms[t]["tool"].pc # "off"}
      OBVIOUS
    <3>2. /\ excused' \in [Timers \cup Appointments -> Nat]
          /\ \A x \in Timers \cup Appointments : excused'[x] = IF x \in s THEN excused[x] + 1 ELSE excused[x]
      <4>1. excused' = Count(excused, s) /\ excused \in [Timers \cup Appointments -> Nat]
        BY <1>2, <1>4, <3>1 DEF HistoryTypes
      <4>2. Count(excused, s) \in [Timers \cup Appointments -> Nat]
        BY <4>1, Counted
      <4>3. \A x \in Timers \cup Appointments : Count(excused, s)[x] = IF x \in s THEN excused[x] + 1 ELSE excused[x]
        BY <4>1, Counted
      <4>. QED
        BY <4>1, <4>2, <4>3
    <3>3. \A t \in Timers : t \in s <=> timers[t] = "pending" /\ (t \in creating \/ alarms[t]["tool"].pc # "off")
      BY <3>1 DEF Unexecuted
    <3>. QED
      BY <3>2, <3>3
  <2>3. TimerTypes' /\ BusyInv' /\ HistoryTypes'
    BY <1>1, <1>2, <2>1, <2>2 DEF TimerTypes, BusyInv, HistoryTypes
  <2>4. ASSUME NEW t \in Timers
        PROVE  (Sourced(t) /\ Alerted(t) /\ Remembered(t))'
    <3>1. Sourced(t)' /\ Remembered(t)'
      BY <1>1, <1>2, <2>1 DEF Sourced, Remembered, Unexecuted
    <3>2. JustSent(t)' = JustSent(t) /\ Owed(t) \in Nat
      BY <1>1 DEF JustSent, Owed, Owes
    <3>3. t \in restore'.rows <=> timers[t] = "pending"
      BY <2>1 DEF Unexecuted
    <3>4. /\ alarms[t]["restore"].pc = "off" /\ t \notin restore.rows
          /\ excused'[t] = IF timers[t] = "pending" /\ (t \in creating \/ alarms[t]["tool"].pc # "off")
                             THEN excused[t] + 1 ELSE excused[t]
      BY <1>2, <2>2
    <3>5. CASE timers[t] = "pending"
      <4>1. Owed(t)' = Owed(t) + 1
        BY <1>1, <3>3, <3>4, <3>5 DEF Owed, Owes
      <4>2. CASE t \in creating \/ alarms[t]["tool"].pc # "off"
        <5>1. Alerted(t)'
          BY <1>1, <1>2, <3>2, <3>4, <3>5, <4>1, <4>2 DEF Alerted
        <5>. QED
          BY <3>1, <5>1
      <4>3. CASE ~(t \in creating \/ alarms[t]["tool"].pc # "off")
        <5>1. Owed(t) = 0 /\ ~JustSent(t)
          BY <3>4, <4>3 DEF Owed, Owes, JustSent
        <5>. QED
          BY <1>1, <1>2, <3>1, <3>2, <3>4, <3>5, <4>1, <4>3, <5>1 DEF Alerted
      <4>. QED
        BY <3>1, <4>2, <4>3
    <3>6. CASE timers[t] # "pending"
      <4>1. Owed(t)' = Owed(t)
        BY <1>1, <3>3, <3>4, <3>6 DEF Owed, Owes
      <4>2. Alerted(t)'
        BY <1>1, <1>2, <3>2, <3>4, <3>6, <4>1 DEF Alerted
      <4>. QED
        BY <3>1, <4>2
    <3>. QED
      BY <3>5, <3>6
  <2>. QED
    BY <2>3, <2>4 DEF TimersInv, TimerInv
<1>. QED
  BY <1>3, <1>4 DEF RestoreReads

LEMMA DownType == /\ Down \in Restores /\ Down.pc = "down" /\ Down.rows = {} /\ Down.busy = {}
  BY DEF Down, Restores

LEMMA StartSchedulerInv ==
  ASSUME TimersInv, StartScheduler
  PROVE  TimersInv'
<1>1. /\ restore.pc = "down" /\ restore' = [Down EXCEPT !.pc = "waiting"]
      /\ UNCHANGED <<timers, due, creating, alarms, dropped, sent, excused>>
  BY DEF StartScheduler, table, history, Up
<1>2. /\ TimerTypes /\ BusyInv /\ HistoryTypes
      /\ \A t \in Timers : /\ Sourced(t) /\ Alerted(t)
                           /\ alarms[t]["restore"].pc = "off" /\ t \notin restore.rows
  BY <1>1 DEF TimersInv, TimerInv, HistoryTypes, Sourced
<1>3. restore' \in Restores /\ restore'.pc = "waiting" /\ restore'.rows = {} /\ restore'.busy = {}
  BY <1>1 DEF Down, Restores
<1>4. TimerTypes' /\ BusyInv' /\ HistoryTypes'
  BY <1>1, <1>2, <1>3 DEF TimerTypes, BusyInv, HistoryTypes
<1>5. ASSUME NEW t \in Timers
      PROVE  (Sourced(t) /\ Alerted(t) /\ Remembered(t))'
  <2>1. Owed(t)' = Owed(t) /\ JustSent(t)' = JustSent(t)
    BY <1>1, <1>2, <1>3 DEF Owed, Owes, JustSent
  <2>2. Alerted(t)'
    BY <1>1, <1>2, <2>1 DEF Alerted
  <2>. QED
    BY <1>1, <1>2, <1>3, <2>2 DEF Sourced, Remembered
<1>. QED
  BY <1>4, <1>5 DEF TimersInv, TimerInv

LEMMA CrashTimersInv ==
  ASSUME TimersInv, AppointmentTypes, Crash
  PROVE  TimersInv'
<1>1. /\ restore' = Down /\ creating' = {} /\ dropped' = {} /\ alarms' = NoAlarms
      /\ UNCHANGED <<timers, due, sent>>
  BY DEF Crash, table
<1>2. /\ TimerTypes /\ BusyInv /\ HistoryTypes /\ worker.mark \subseteq Appointments
      /\ \A t \in Timers : Sourced(t) /\ Alerted(t) /\ sent[t] \in Nat /\ excused[t] \in Nat
  BY DEF TimersInv, TimerInv, HistoryTypes, AppointmentTypes, Workers
<1>3. /\ excused' \in [Timers \cup Appointments -> Nat]
      /\ \A t \in Timers : excused'[t] = IF JustSent(t) THEN excused[t] + 1 ELSE excused[t]
  <2>1. PICK s : s = worker.mark \cup {t \in Timers : \E w \in Registrars : alarms[t][w].pc = "sent"}
    OBVIOUS
  <2>2. excused' = Count(excused, s)
    BY <2>1 DEF Crash
  <2>3. /\ excused' \in [Timers \cup Appointments -> Nat]
        /\ \A x \in Timers \cup Appointments : excused'[x] = IF x \in s THEN excused[x] + 1 ELSE excused[x]
    BY <1>2, <2>2, Counted DEF HistoryTypes
  <2>4. \A t \in Timers : t \in s <=> JustSent(t)
    BY <1>2, <2>1, RemindersAssumption DEF JustSent, Registrars
  <2>. QED
    BY <2>3, <2>4
<1>4. \A t \in Timers, w \in Registrars : alarms'[t][w] = NoAlarm
  BY <1>1 DEF NoAlarms
<1>5. TimerTypes' /\ BusyInv' /\ HistoryTypes'
  <2>1. alarms' \in [Timers -> [Registrars -> Alarms]]
    BY <1>1, ArmedType DEF NoAlarms
  <2>. QED
    BY <1>1, <1>2, <1>3, <2>1, DownType DEF TimerTypes, BusyInv, HistoryTypes
<1>6. ASSUME NEW t \in Timers
      PROVE  (Sourced(t) /\ Alerted(t) /\ Remembered(t))'
  <2>1. alarms'[t]["tool"].pc = "off" /\ alarms'[t]["restore"].pc = "off"
    BY <1>4, ArmedType DEF Registrars
  <2>2. Owed(t)' = 0 /\ ~JustSent(t)' /\ Owed(t) \in {0, 1, 2}
    BY <1>1, <2>1, DownType DEF Owed, Owes, JustSent
  <2>3. Alerted(t)'
    BY <1>1, <1>2, <1>3, <2>2 DEF Alerted
  <2>4. Sourced(t)' /\ Remembered(t)'
    BY <1>1, <2>1, DownType DEF Sourced, Remembered
  <2>. QED
    BY <2>3, <2>4
<1>. QED
  BY <1>5, <1>6 DEF TimersInv, TimerInv
-----------------------------------------------------------------------------
(* One lemma for each step of an appointment and for a crash.              *)

AppointmentsInv == AppointmentTypes /\ HistoryTypes /\ AppointmentInv

LEMMA ComesNearInv ==
  ASSUME AppointmentsInv, NEW a \in Appointments, ComesNear(a)
  PROVE  AppointmentsInv'
<1>1. /\ clock' = [clock EXCEPT ![a] = IF @ = "early" THEN "window" ELSE "started"]
      /\ UNCHANGED <<appts, booking, worker, sent, excused>>
  BY DEF ComesNear, memory, history
<1>2. clock' \in [Appointments -> {"early", "window", "started"}]
  BY <1>1 DEF AppointmentsInv, AppointmentTypes
<1>. QED
  BY <1>1, <1>2 DEF AppointmentsInv, AppointmentTypes, AppointmentInv, HistoryTypes

(* An appointment moves on before its reminder waits or is sent.           *)
LEMMA ApptsInv ==
  ASSUME AppointmentsInv, NEW a \in Appointments, NEW x \in {"bare", "set"},
         appts' = [appts EXCEPT ![a] = x], appts[a] \in {"none", "bare"},
         booking' \subseteq Appointments, \A b \in booking' : appts'[b] = "bare",
         UNCHANGED <<clock, worker, sent, excused>>
  PROVE  AppointmentsInv'
<1>1. /\ appts' \in [Appointments -> {"none", "bare", "set", "sent"}] /\ appts'[a] = x
      /\ \A b \in Appointments : b # a => appts'[b] = appts[b]
  BY DEF AppointmentsInv, AppointmentTypes
<1>2. AppointmentTypes' /\ HistoryTypes'
  BY <1>1 DEF AppointmentsInv, AppointmentTypes, HistoryTypes
<1>3. \A b \in worker.list : b \in Appointments /\ appts[b] = "set" /\ b \notin worker.mark
  BY DEF AppointmentsInv, AppointmentTypes, AppointmentInv, Workers
<1>4. \A b \in worker.mark : b \in Appointments /\ appts[b] = "set"
  BY DEF AppointmentsInv, AppointmentTypes, AppointmentInv, Workers
<1>5. AppointmentInv'
  BY <1>1, <1>3, <1>4 DEF AppointmentsInv, AppointmentInv
<1>. QED
  BY <1>2, <1>5 DEF AppointmentsInv

LEMMA CreateAppointmentInv ==
  ASSUME AppointmentsInv, NEW a \in Appointments, CreateAppointment(a)
  PROVE  AppointmentsInv'
<1>1. /\ appts[a] = "none" /\ appts' = [appts EXCEPT ![a] = "bare"] /\ booking' = booking \cup {a}
      /\ UNCHANGED <<clock, worker, sent, excused>>
  BY DEF CreateAppointment, history
<1>2. booking' \subseteq Appointments /\ \A b \in booking' : appts'[b] = "bare"
  BY <1>1 DEF AppointmentsInv, AppointmentTypes, AppointmentInv
<1>. QED
  BY <1>1, <1>2, ApptsInv

LEMMA AddReminderInv ==
  ASSUME AppointmentsInv, NEW a \in Appointments, AddReminder(a)
  PROVE  AppointmentsInv'
<1>1. /\ a \in booking /\ booking' = booking \ {a} /\ UNCHANGED <<clock, worker, sent, excused>>
  BY DEF AddReminder, history
<1>2. booking \subseteq Appointments /\ \A b \in booking : appts[b] = "bare"
  BY DEF AppointmentsInv, AppointmentTypes, AppointmentInv
<1>3. CASE appts' = [appts EXCEPT ![a] = "set"]
  <2>1. booking' \subseteq Appointments /\ \A b \in booking' : appts'[b] = "bare"
    BY <1>1, <1>2, <1>3 DEF AppointmentsInv, AppointmentTypes
  <2>. QED
    BY <1>1, <1>2, <1>3, <2>1, ApptsInv
<1>4. CASE UNCHANGED appts
  BY <1>1, <1>2, <1>4 DEF AppointmentsInv, AppointmentTypes, AppointmentInv, HistoryTypes
<1>. QED
  BY <1>3, <1>4 DEF AddReminder

LEMMA TickInv ==
  ASSUME AppointmentsInv, Tick
  PROVE  AppointmentsInv'
<1>1. /\ worker = Idle /\ UNCHANGED <<appts, clock, booking, sent, excused>>
      /\ worker' = [Idle EXCEPT !.list = {a \in Appointments : appts[a] = "set" /\ clock[a] = "window"}]
  BY DEF Tick, table, history
<1>2. /\ worker.mark = {} /\ worker'.mark = {} /\ worker' \in Workers
      /\ worker'.list = {a \in Appointments : appts[a] = "set" /\ clock[a] = "window"}
  BY <1>1 DEF Idle, Workers
<1>3. AppointmentTypes' /\ HistoryTypes'
  BY <1>1, <1>2 DEF AppointmentsInv, AppointmentTypes, HistoryTypes
<1>4. AppointmentInv'
  BY <1>1, <1>2 DEF AppointmentsInv, AppointmentInv
<1>. QED
  BY <1>3, <1>4 DEF AppointmentsInv

LEMMA SendReminderInv ==
  ASSUME AppointmentsInv, NEW a \in Appointments, SendReminder(a)
  PROVE  AppointmentsInv'
<1>1. /\ a \in worker.list /\ worker.mark = {} /\ UNCHANGED <<appts, clock, booking, excused>>
  BY DEF SendReminder, table
<1>2. /\ AppointmentTypes /\ AppointmentInv /\ HistoryTypes /\ worker \in Workers
      /\ \A b \in Appointments : sent[b] \in Nat /\ excused[b] \in Nat
  BY DEF AppointmentsInv, AppointmentTypes, HistoryTypes
<1>3. CASE worker' = [list |-> worker.list \ {a}, mark |-> {a}] /\ sent' = Count(sent, {a})
  <2>1. worker' \in Workers /\ worker'.list = worker.list \ {a} /\ worker'.mark = {a}
    BY <1>2, <1>3 DEF Workers
  <2>2. /\ sent' \in [Timers \cup Appointments -> Nat] /\ sent'[a] = sent[a] + 1
        /\ \A b \in Appointments : b # a => sent'[b] = sent[b]
    <3>1. sent' = Count(sent, {a}) /\ sent \in [Timers \cup Appointments -> Nat]
      BY <1>2, <1>3 DEF HistoryTypes
    <3>2. CountedOne(Count(sent, {a}), sent, a)
      BY <3>1, OneCounted
    <3>. QED
      BY <3>1, <3>2 DEF CountedOne
  <2>3. AppointmentTypes' /\ HistoryTypes'
    BY <1>1, <1>2, <2>1, <2>2 DEF AppointmentTypes, HistoryTypes
  <2>4. sent[a] <= excused[a] /\ appts[a] = "set"
    BY <1>1, <1>2 DEF AppointmentInv
  <2>5. ASSUME NEW b \in Appointments
        PROVE  /\ sent'[b] <= 1 + excused'[b]
               /\ appts'[b] # "sent" /\ b \notin worker'.mark => sent'[b] <= excused'[b]
               /\ appts'[b] = "sent" \/ b \in worker'.mark => sent'[b] > 0
    BY <1>1, <1>2, <2>1, <2>2, <2>4 DEF AppointmentInv
  <2>6. AppointmentInv'
    BY <1>1, <1>2, <2>1, <2>5 DEF AppointmentInv
  <2>. QED
    BY <2>3, <2>6 DEF AppointmentsInv
<1>4. CASE worker' = [worker EXCEPT !.list = @ \ {a}] /\ UNCHANGED sent
  <2>1. worker' \in Workers /\ worker'.list = worker.list \ {a} /\ worker'.mark = worker.mark
    BY <1>2, <1>4 DEF Workers
  <2>. QED
    BY <1>1, <1>2, <1>4, <2>1 DEF AppointmentsInv, AppointmentTypes, AppointmentInv, HistoryTypes
<1>. QED
  BY <1>3, <1>4 DEF SendReminder

LEMMA MarkReminderInv ==
  ASSUME AppointmentsInv, NEW a \in Appointments, MarkReminder(a)
  PROVE  AppointmentsInv'
<1>1. /\ a \in worker.mark /\ worker' = [worker EXCEPT !.mark = {}]
      /\ UNCHANGED <<clock, booking, sent>>
  BY DEF MarkReminder
<1>2. /\ AppointmentTypes /\ AppointmentInv /\ HistoryTypes /\ worker \in Workers
      /\ \A b \in Appointments : sent[b] \in Nat /\ excused[b] \in Nat
  BY DEF AppointmentsInv, AppointmentTypes, HistoryTypes
<1>3. worker' \in Workers /\ worker'.list = worker.list /\ worker'.mark = {}
  BY <1>1, <1>2 DEF Workers
<1>4. /\ \A b \in worker.mark : b = a /\ appts[a] = "set"
      /\ \A b \in worker.list : appts[b] = "set" /\ b # a
      /\ sent[a] <= 1 + excused[a] /\ sent[a] > 0
  BY <1>1, <1>2 DEF AppointmentInv
<1>5. /\ \A b \in booking : b \in Appointments /\ appts[b] = "bare"
      /\ \A b \in worker.list : b \in Appointments
  BY <1>2 DEF AppointmentTypes, AppointmentInv, Workers
<1>6. CASE appts' = [appts EXCEPT ![a] = "sent"] /\ UNCHANGED excused
  <2>1. /\ appts' \in [Appointments -> {"none", "bare", "set", "sent"}] /\ appts'[a] = "sent"
        /\ \A b \in Appointments : b # a => appts'[b] = appts[b]
    BY <1>2, <1>6 DEF AppointmentTypes
  <2>2. AppointmentTypes' /\ HistoryTypes'
    BY <1>1, <1>2, <1>3, <1>6, <2>1 DEF AppointmentTypes, HistoryTypes
  <2>3. ASSUME NEW b \in Appointments
        PROVE  /\ sent'[b] <= 1 + excused'[b]
               /\ appts'[b] # "sent" /\ b \notin worker'.mark => sent'[b] <= excused'[b]
               /\ appts'[b] = "sent" \/ b \in worker'.mark => sent'[b] > 0
    BY <1>1, <1>2, <1>3, <1>4, <1>6, <2>1 DEF AppointmentInv
  <2>4. AppointmentInv'
    BY <1>1, <1>3, <1>4, <1>5, <2>1, <2>3 DEF AppointmentInv
  <2>. QED
    BY <2>2, <2>4 DEF AppointmentsInv
<1>7. CASE excused' = Count(excused, {a}) /\ UNCHANGED appts
  <2>1. /\ excused' \in [Timers \cup Appointments -> Nat] /\ excused'[a] = excused[a] + 1
        /\ \A b \in Appointments : b # a => excused'[b] = excused[b]
    <3>1. excused \in [Timers \cup Appointments -> Nat]
      BY <1>2 DEF HistoryTypes
    <3>2. excused' = Count(excused, {a})
      BY <1>7
    <3>3. CountedOne(Count(excused, {a}), excused, a)
      BY <3>1, OneCounted
    <3>. QED
      BY <3>2, <3>3 DEF CountedOne
  <2>2. AppointmentTypes' /\ HistoryTypes'
    BY <1>1, <1>2, <1>3, <1>7, <2>1 DEF AppointmentTypes, HistoryTypes
  <2>3. ASSUME NEW b \in Appointments
        PROVE  /\ sent'[b] <= 1 + excused'[b]
               /\ appts'[b] # "sent" /\ b \notin worker'.mark => sent'[b] <= excused'[b]
               /\ appts'[b] = "sent" \/ b \in worker'.mark => sent'[b] > 0
    <3>1. CASE b = a
      BY <1>1, <1>2, <1>3, <1>4, <1>7, <2>1, <3>1
    <3>2. CASE b # a
      BY <1>1, <1>2, <1>3, <1>4, <1>7, <2>1, <3>2 DEF AppointmentInv
    <3>. QED
      BY <3>1, <3>2
  <2>4. AppointmentInv'
    BY <1>1, <1>2, <1>3, <1>4, <1>7, <2>3 DEF AppointmentInv
  <2>. QED
    BY <2>2, <2>4 DEF AppointmentsInv
<1>. QED
  BY <1>6, <1>7 DEF MarkReminder

LEMMA CrashAppointmentsInv ==
  ASSUME AppointmentsInv, Crash
  PROVE  AppointmentsInv'
<1>1. booking' = {} /\ worker' = Idle /\ UNCHANGED <<appts, clock, sent>>
  BY DEF Crash, table
<1>2. /\ AppointmentTypes /\ AppointmentInv /\ HistoryTypes
      /\ \A b \in Appointments : sent[b] \in Nat /\ excused[b] \in Nat
  BY DEF AppointmentsInv, HistoryTypes
<1>3. /\ excused' \in [Timers \cup Appointments -> Nat]
      /\ \A b \in Appointments : excused'[b] = IF b \in worker.mark THEN excused[b] + 1 ELSE excused[b]
  <2>1. PICK s : s = worker.mark \cup {t \in Timers : \E w \in Registrars : alarms[t][w].pc = "sent"}
    OBVIOUS
  <2>2. excused' = Count(excused, s)
    BY <2>1 DEF Crash
  <2>3. /\ excused' \in [Timers \cup Appointments -> Nat]
        /\ \A x \in Timers \cup Appointments : excused'[x] = IF x \in s THEN excused[x] + 1 ELSE excused[x]
    BY <1>2, <2>2, Counted DEF HistoryTypes
  <2>4. \A b \in Appointments : b \in s <=> b \in worker.mark
    BY <2>1, RemindersAssumption
  <2>. QED
    BY <2>3, <2>4
<1>4. worker' \in Workers /\ worker'.list = {} /\ worker'.mark = {}
  BY <1>1 DEF Idle, Workers
<1>5. AppointmentTypes' /\ HistoryTypes'
  BY <1>1, <1>2, <1>3, <1>4 DEF AppointmentTypes, HistoryTypes
<1>6. ASSUME NEW b \in Appointments
      PROVE  /\ sent'[b] <= 1 + excused'[b]
             /\ appts'[b] # "sent" /\ b \notin worker'.mark => sent'[b] <= excused'[b]
             /\ appts'[b] = "sent" \/ b \in worker'.mark => sent'[b] > 0
  BY <1>1, <1>2, <1>3, <1>4 DEF AppointmentInv
<1>7. AppointmentInv'
  BY <1>1, <1>4, <1>6 DEF AppointmentInv
<1>. QED
  BY <1>5, <1>7 DEF AppointmentsInv
-----------------------------------------------------------------------------
(* One lemma for each step of the contact.                                 *)

ContactsInv == ContactTypes /\ ContactInv

LEMMA SaveJIDInv ==
  ASSUME ContactsInv, NEW c \in Contacts, SaveJID(c)
  PROVE  ContactsInv'
<1>1. contacts' = [contacts EXCEPT ![c] = "active"] /\ saving' = saving \cup {c} /\ cut' = cut
  BY DEF SaveJID
<1>2. ContactTypes' /\ \A d \in Contacts : d # c => contacts'[d] = contacts[d]
  BY <1>1 DEF ContactsInv, ContactTypes
<1>3. ContactInv'
  BY <1>1, <1>2 DEF ContactsInv, ContactInv, Active
<1>. QED
  BY <1>2, <1>3 DEF ContactsInv

LEMMA DeactivateOthersInv ==
  ASSUME ContactsInv, NEW c \in Contacts, DeactivateOthers(c)
  PROVE  ContactsInv'
<1>1. CASE contacts' = Deactivated(c) /\ cut' = FALSE /\ saving' = saving \ {c}
  <2>1. ContactTypes' /\ \A d \in Contacts : contacts'[d] = "active" => d = c
    BY <1>1 DEF ContactsInv, ContactTypes, Deactivated
  <2>. QED
    BY <2>1 DEF ContactsInv, ContactInv, Active
<1>2. CASE cut' = TRUE /\ UNCHANGED contacts /\ saving' = saving \ {c}
  BY <1>2 DEF ContactsInv, ContactTypes, ContactInv
<1>. QED
  BY <1>1, <1>2 DEF DeactivateOthers

(* A crash while a contact is being saved is a cut.                        *)
LEMMA CrashContactsInv ==
  ASSUME ContactsInv, Crash
  PROVE  ContactsInv'
<1>1. cut' = (cut \/ saving # {}) /\ saving' = {} /\ contacts' = contacts
  BY DEF Crash
<1>. QED
  BY <1>1 DEF ContactsInv, ContactTypes, ContactInv, Active

-----------------------------------------------------------------------------
(* The invariant.                                                          *)

LEMMA InvParts == RemindersInv <=> TimersInv /\ AppointmentsInv /\ ContactsInv
  BY DEF RemindersInv, Types, TimersInv, AppointmentsInv, ContactsInv

(* Steps of one part leave the others alone.                               *)
LEMMA TimersAlone ==
  ASSUME TimersInv, HistoryTypes', UNCHANGED <<timers, due, creating, alarms, restore, dropped>>,
         \A t \in Timers : sent'[t] = sent[t] /\ excused'[t] = excused[t]
  PROVE  TimersInv'
BY SameTimers DEF TimersInv

LEMMA AppointmentsAlone ==
  ASSUME AppointmentsInv, HistoryTypes', UNCHANGED <<appts, booking, clock, worker>>,
         \A a \in Appointments : sent'[a] = sent[a] /\ excused'[a] = excused[a]
  PROVE  AppointmentsInv'
BY SameAppointments DEF AppointmentsInv

LEMMA ContactsAlone ==
  ASSUME ContactsInv, UNCHANGED <<contacts, saving, cut>>
  PROVE  ContactsInv'
BY SameContacts DEF ContactsInv

(* An alert of one kind counts nothing for the other.                      *)
LEMMA CountsOther ==
  ASSUME NEW h \in [Timers \cup Appointments -> Nat], NEW s
  PROVE  /\ s \subseteq Timers => \A a \in Appointments : Count(h, s)[a] = h[a]
         /\ s \subseteq Appointments => \A t \in Timers : Count(h, s)[t] = h[t]
BY RemindersAssumption DEF Count

LEMMA InitInv == Init => RemindersInv
<1>. SUFFICES ASSUME Init
              PROVE  RemindersInv
  OBVIOUS
<1>1. TimerTypes
  <2>1. alarms \in [Timers -> [Registrars -> Alarms]]
    BY ArmedType DEF Init, NoAlarms
  <2>. QED
    BY <2>1, DownType DEF Init, TimerTypes
<1>2. AppointmentTypes /\ ContactTypes /\ HistoryTypes
  BY DEF Init, AppointmentTypes, ContactTypes, HistoryTypes, Idle, Workers
<1>3. TimerInv
  <2>. SUFFICES ASSUME NEW t \in Timers
                PROVE  Sourced(t) /\ Alerted(t) /\ Remembered(t)
    BY DEF TimerInv
  <2>1. /\ timers[t] = "none" /\ alarms[t]["tool"].pc = "off" /\ alarms[t]["restore"].pc = "off"
        /\ sent[t] = 0 /\ excused[t] = 0 /\ creating = {}
    BY ArmedType DEF Init, NoAlarms, Registrars
  <2>2. restore.pc = "down" /\ restore.rows = {}
    BY DownType DEF Init
  <2>3. Owed(t) = 0 /\ ~JustSent(t)
    BY <2>1, <2>2 DEF Owed, Owes, JustSent
  <2>. QED
    BY <2>1, <2>2, <2>3 DEF Sourced, Alerted, Remembered
<1>4. BusyInv
  BY DownType DEF Init, BusyInv
<1>5. AppointmentInv
  BY DEF Init, AppointmentInv, Idle
<1>6. ContactInv
  BY DEF Init, ContactInv, Active
<1>. QED
  BY <1>1, <1>2, <1>3, <1>4, <1>5, <1>6 DEF RemindersInv, Types
LEMMA TimerStepInv ==
  ASSUME RemindersInv, NEW t \in Timers, TimerStep(t)
  PROVE  RemindersInv'
<1>1. TimersInv /\ AppointmentsInv /\ ContactsInv /\ HistoryTypes
  BY InvParts DEF TimersInv
<1>2. TimersInv'
  BY <1>1, TimePassesInv, CreateTimerInv, RegisterInv, RestoreNextInv, DeliverTimerInv, MarkTimerExecutedInv
     DEF TimerStep
<1>3. UNCHANGED <<appts, booking, clock, worker, contacts, saving, cut>>
  BY DEF TimerStep, TimePasses, CreateTimer, RegisterDynamicTimer, RestoreNext, DeliverTimer,
         MarkTimerExecuted, table, memory, people
<1>4. /\ sent' = sent \/ sent' = Count(sent, {t})
      /\ excused' = excused \/ excused' = Count(excused, {t})
  BY DEF TimerStep, TimePasses, CreateTimer, RegisterDynamicTimer, RestoreNext, DeliverTimer,
         MarkTimerExecuted, history
<1>5. \A a \in Appointments : sent'[a] = sent[a] /\ excused'[a] = excused[a]
  <2>1. \A a \in Appointments : Count(sent, {t})[a] = sent[a] /\ Count(excused, {t})[a] = excused[a]
    BY <1>1, CountsOther DEF HistoryTypes
  <2>. QED
    BY <1>4, <2>1
<1>6. AppointmentsInv' /\ ContactsInv'
  BY <1>1, <1>2, <1>3, <1>5, AppointmentsAlone, ContactsAlone DEF TimersInv
<1>. QED
  BY <1>2, <1>6, InvParts DEF RemindersInv, Types, TimersInv, AppointmentsInv, ContactsInv

LEMMA AppointmentStepInv ==
  ASSUME RemindersInv, NEW a \in Appointments, AppointmentStep(a)
  PROVE  RemindersInv'
<1>1. TimersInv /\ AppointmentsInv /\ ContactsInv /\ HistoryTypes
  BY InvParts DEF TimersInv
<1>2. AppointmentsInv'
  BY <1>1, ComesNearInv, CreateAppointmentInv, AddReminderInv, SendReminderInv, MarkReminderInv
     DEF AppointmentStep
<1>3. UNCHANGED <<timers, due, creating, alarms, restore, dropped, contacts, saving, cut>>
  BY DEF AppointmentStep, ComesNear, CreateAppointment, AddReminder, SendReminder, MarkReminder,
         table, memory, people
<1>4. /\ sent' = sent \/ sent' = Count(sent, {a})
      /\ excused' = excused \/ excused' = Count(excused, {a})
  BY DEF AppointmentStep, ComesNear, CreateAppointment, AddReminder, SendReminder, MarkReminder, history
<1>5. \A t \in Timers : sent'[t] = sent[t] /\ excused'[t] = excused[t]
  <2>1. \A t \in Timers : Count(sent, {a})[t] = sent[t] /\ Count(excused, {a})[t] = excused[t]
    BY <1>1, CountsOther DEF HistoryTypes
  <2>. QED
    BY <1>4, <2>1
<1>6. TimersInv' /\ ContactsInv'
  BY <1>1, <1>2, <1>3, <1>5, TimersAlone, ContactsAlone DEF AppointmentsInv
<1>. QED
  BY <1>2, <1>6 DEF RemindersInv, Types, TimersInv, AppointmentsInv, ContactsInv

LEMMA NextInv == RemindersInv /\ [Next]_vars => RemindersInv'
<1>. SUFFICES ASSUME RemindersInv, [Next]_vars
              PROVE  RemindersInv'
  OBVIOUS
<1>. USE DEF RemindersInv, Types, TimersInv, AppointmentsInv, ContactsInv
<1>1. TimersInv /\ AppointmentsInv /\ ContactsInv /\ HistoryTypes
  OBVIOUS
<1>2. CASE StartScheduler
  <2>1. UNCHANGED <<appts, booking, clock, worker, sent, excused, contacts, saving, cut>>
    BY <1>2 DEF StartScheduler, table, people, history
  <2>2. TimersInv'
    BY <1>1, <1>2, StartSchedulerInv
  <2>3. AppointmentsInv' /\ ContactsInv'
    BY <1>1, <2>1, <2>2, AppointmentsAlone, ContactsAlone
  <2>. QED
    BY <2>2, <2>3
<1>3. CASE Crash
  <2>1. TimersInv' /\ AppointmentsInv' /\ ContactsInv'
    BY <1>1, <1>3, CrashTimersInv, CrashAppointmentsInv, CrashContactsInv
  <2>. QED
    BY <2>1
<1>4. CASE RestoreReads
  <2>1. UNCHANGED <<appts, booking, clock, worker, sent, contacts, saving, cut>>
    BY <1>4 DEF RestoreReads, table, people
  <2>2. TimersInv'
    BY <1>1, <1>4, RestoreReadsInv
  <2>3. \A a \in Appointments : excused'[a] = excused[a]
    <3>1. PICK s : s = {t \in Unexecuted : t \in creating \/ alarms[t]["tool"].pc # "off"}
      OBVIOUS
    <3>2. (excused' = excused \/ excused' = Count(excused, s)) /\ s \subseteq Timers
      BY <1>4, <3>1 DEF RestoreReads, Unexecuted
    <3>3. \A a \in Appointments : Count(excused, s)[a] = excused[a]
      BY <1>1, <3>2, CountsOther DEF HistoryTypes
    <3>. QED
      BY <3>2, <3>3
  <2>4. AppointmentsInv' /\ ContactsInv'
    BY <1>1, <2>1, <2>2, <2>3, AppointmentsAlone, ContactsAlone
  <2>. QED
    BY <2>2, <2>4
<1>5. CASE Tick
  <2>1. UNCHANGED <<timers, due, creating, alarms, restore, dropped, sent, excused, contacts, saving, cut>>
    BY <1>5 DEF Tick, table, people, history
  <2>2. AppointmentsInv'
    BY <1>1, <1>5, TickInv
  <2>3. TimersInv' /\ ContactsInv'
    BY <1>1, <2>1, <2>2, TimersAlone, ContactsAlone
  <2>. QED
    BY <2>2, <2>3
<1>6. CASE \E t \in Timers : TimerStep(t)
  BY <1>6, TimerStepInv
<1>7. CASE \E a \in Appointments : AppointmentStep(a)
  BY <1>7, AppointmentStepInv
<1>8. CASE \E c \in Contacts : SaveJID(c) \/ DeactivateOthers(c)
  <2>1. UNCHANGED <<timers, due, creating, alarms, restore, dropped, appts, booking, clock, worker, sent, excused>>
    BY <1>8 DEF SaveJID, DeactivateOthers, table, memory, history
  <2>2. ContactsInv'
    BY <1>1, <1>8, SaveJIDInv, DeactivateOthersInv
  <2>3. TimersInv' /\ AppointmentsInv'
    <3>1. HistoryTypes'
      BY <1>1, <2>1 DEF HistoryTypes
    <3>. QED
      BY <1>1, <2>1, <3>1, TimersAlone, AppointmentsAlone
  <2>. QED
    BY <2>2, <2>3
<1>9. CASE UNCHANGED vars
  <2>1. UNCHANGED <<timers, due, creating, alarms, restore, dropped, appts, booking, clock, worker,
                    sent, excused, contacts, saving, cut>>
    BY <1>9 DEF vars, table, memory, people, history
  <2>2. HistoryTypes'
    BY <1>1, <2>1 DEF HistoryTypes
  <2>3. TimersInv' /\ AppointmentsInv' /\ ContactsInv'
    BY <1>1, <2>1, <2>2, TimersAlone, AppointmentsAlone, ContactsAlone
  <2>. QED
    BY <2>3
<1>. QED
  BY <1>2, <1>3, <1>4, <1>5, <1>6, <1>7, <1>8, <1>9 DEF Next

(* The invariant the properties follow from (engine/scheduler.go,          *)
(* db/helpers.go:45-56).                                                   *)
THEOREM Invariant == Spec => []RemindersInv
<1>. QED
  BY InitInv, NextInv, PTL DEF Spec

-----------------------------------------------------------------------------
(* The properties.                                                         *)

LEMMA AtMostOne ==
  ASSUME NEW S, \A x, y \in S : x = y
  PROVE  Cardinality(S) <= 1
<1>1. CASE S = {}
  BY <1>1, FS_EmptySet
<1>2. CASE S # {}
  <2>1. PICK x \in S : S = {x}
    BY <1>2
  <2>. QED
    BY <2>1, FS_Singleton
<1>. QED
  BY <1>1, <1>2

(* Rows, alarms and goroutines keep their types; one worker and one        *)
(* restore, each with one alert in hand (engine/scheduler.go).             *)
THEOREM TypesOK == Spec => []TypeOK
<1>1. RemindersInv => TypeOK
  <2>. SUFFICES ASSUME RemindersInv
                PROVE  TypeOK
    OBVIOUS
  <2>1. Cardinality(worker.mark) <= 1 /\ Cardinality(restore.busy) <= 1
    BY AtMostOne DEF RemindersInv, AppointmentInv, BusyInv
  <2>. QED
    BY <2>1 DEF TypeOK, RemindersInv, Types, TimerTypes, AppointmentTypes, ContactTypes, Alarms, Restores, Workers
<1>. QED
  BY <1>1, Invariant, PTL

(* A pending timer is in memory once the table was read, unless its        *)
(* delivery ended without the mark (engine/scheduler.go:281-325).          *)
THEOREM NothingForgotten == Spec => []NoTimerForgotten
<1>1. RemindersInv => NoTimerForgotten
  BY DEF RemindersInv, TimerInv, Remembered, NoTimerForgotten, Registrars
<1>. QED
  BY <1>1, Invariant, PTL

(* Every repetition of an alert has a reason: a crash or a failed mark     *)
(* between the send and the mark, or a timer registered twice              *)
(* (engine/scheduler.go:95-110, 258-275). And an alert is marked only after *)
(* WhatsApp accepted it (36).                                              *)
THEOREM AlertsAccounted == Spec => []AlertsAreAccounted
<1>1. RemindersInv => AlertsAreAccounted
  <2>. SUFFICES ASSUME RemindersInv
                PROVE  AlertsAreAccounted
    OBVIOUS
  <2>1. ASSUME NEW t \in Timers
        PROVE  sent[t] <= 1 + excused[t] /\ (timers[t] = "executed" => sent[t] > 0)
    <3>1. Alerted(t) /\ sent[t] \in Nat /\ excused[t] \in Nat
      BY DEF RemindersInv, TimerInv, Types, HistoryTypes
    <3>2. Owed(t) \in Nat
      BY DEF Owed, Owes
    <3>. QED
      BY <3>1, <3>2 DEF Alerted
  <2>2. ASSUME NEW a \in Appointments
        PROVE  sent[a] <= 1 + excused[a] /\ (appts[a] = "sent" => sent[a] > 0)
    BY DEF RemindersInv, AppointmentInv
  <2>3. DOMAIN sent = Timers \cup Appointments
    BY DEF RemindersInv, Types, HistoryTypes
  <2>. QED
    BY <2>1, <2>2, <2>3 DEF AlertsAreAccounted
<1>. QED
  BY <1>1, Invariant, PTL

(* Overlapping saves leave one active contact, unless one of them ended    *)
(* between its statements (db/helpers.go:45-56).                           *)
THEOREM OneContact == Spec => []OneTarget
<1>1. RemindersInv => OneTarget
  <2>. SUFFICES ASSUME RemindersInv, saving = {}, ~cut
                PROVE  Cardinality(Active) <= 1
    BY DEF OneTarget
  <2>1. \A c, d \in Active : c = d
    BY DEF RemindersInv, ContactInv
  <2>. QED
    BY <2>1, AtMostOne
<1>. QED
  BY <1>1, Invariant, PTL
=============================================================================
