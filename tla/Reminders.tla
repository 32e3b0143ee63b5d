----------------------------- MODULE Reminders -----------------------------
(***************************************************************************)
(* The reminders of the personal assistant: timers (a row in "timers" and  *)
(* a time.AfterFunc in memory), appointment reminders (a worker that looks *)
(* every minute), the restore of timers after a restart, and the contact   *)
(* they all go to.  Source: engine/scheduler.go, db/helpers.go, the two    *)
(* tools of openai/client.go and web/server.go.                            *)
(*                                                                         *)
(* Time is abstract: a timer becomes due and an appointment comes near and *)
(* starts at some moment.  A send that fails stands for a lost connection  *)
(* as well as for an error of the call.  The texts are left out.           *)
(***************************************************************************)
EXTENDS Naturals, FiniteSets

CONSTANTS
  Timers, Appointments, Contacts,
  Retries,                  \* timerSendRetries
  Faults,                   \* the calls that may fail
  MaxFaults, MaxCrashes, MaxSaves   \* bounds

ASSUME RemindersAssumption ==
  /\ Timers \cap Appointments = {}
  /\ Retries \in Nat \ {0}
  /\ Faults \subseteq {"send", "mark", "insert", "restore", "save"}
  /\ {MaxFaults, MaxCrashes, MaxSaves} \subseteq Nat

VARIABLES
  timers,     \* rows of timers: "none", "pending" (executado = false) or "executed"
  due,        \* timers whose disparar_em has passed
  creating,   \* timers inserted by create_timer and not registered yet
  alarms,     \* the time.AfterFunc of each timer, by who registered it
  restore,    \* restorePendingTimers of this life of the process
  dropped,    \* timers whose delivery ended in this life without the mark
  appts,      \* "none", "bare" (no reminder row), "set", "sent" (enviado = true)
  booking,    \* appointments whose reminder row is about to be inserted
  clock,      \* how near the appointment is
  worker,     \* startEarlyWarningsWorker: the reminders it read, the one it just sent
  contacts,   \* rows of contacts_config
  saving,     \* contacts between the two statements of SaveJID
  cut,        \* a SaveJID ended after its first statement
  sent,       \* history: alerts WhatsApp accepted
  excused,    \* history: reasons to repeat an alert
  faults, crashes, saves

table == <<timers, due, appts, clock>>
memory == <<creating, alarms, restore, dropped, booking, worker>>
people == <<contacts, saving, cut, saves>>
history == <<sent, excused>>
vars == <<table, memory, people, history, faults, crashes>>

Registrars == {"tool", "restore"}
NoAlarm == [pc |-> "off", tries |-> 0]
NoAlarms == [t \in Timers |-> [w \in Registrars |-> NoAlarm]]
Armed == [pc |-> "armed", tries |-> 0]
Idle == [list |-> {}, mark |-> {}]
Down == [pc |-> "down", rows |-> {}, late |-> {}, busy |-> {}]

Up == restore.pc # "down"
Active == {c \in Contacts : contacts[c] = "active"}
Works == UNCHANGED faults
Fails(call) == call \in Faults /\ faults < MaxFaults /\ faults' = faults + 1
Count(h, s) == [x \in DOMAIN h |-> IF x \in s THEN h[x] + 1 ELSE h[x]]

Init ==
  /\ timers = [t \in Timers |-> "none"] /\ due = {} /\ creating = {}
  /\ alarms = NoAlarms
  /\ restore = Down /\ dropped = {}
  /\ appts = [a \in Appointments |-> "none"] /\ booking = {}
  /\ clock = [a \in Appointments |-> "early"]
  /\ worker = Idle
  /\ contacts = [c \in Contacts |-> "absent"] /\ saving = {} /\ cut = FALSE
  /\ sent = [x \in Timers \cup Appointments |-> 0]
  /\ excused = sent
  /\ faults = 0 /\ crashes = 0 /\ saves = 0

-----------------------------------------------------------------------------
(* The process and the clock *)

\* StartScheduler: the worker and the restore start together.
StartScheduler ==
  /\ ~Up
  /\ restore' = [Down EXCEPT !.pc = "waiting"]
  /\ UNCHANGED <<table, creating, alarms, dropped, booking, worker, people, history, faults, crashes>>

Crash ==
  /\ Up /\ crashes < MaxCrashes /\ crashes' = crashes + 1
  /\ restore' = Down /\ creating' = {} /\ dropped' = {} /\ booking' = {} /\ worker' = Idle
  /\ alarms' = NoAlarms
  /\ cut' = (cut \/ saving # {}) /\ saving' = {}
  /\ excused' = Count(excused, worker.mark \cup
                               {t \in Timers : \E w \in Registrars : alarms[t][w].pc = "sent"})
  /\ UNCHANGED <<table, contacts, saves, sent, faults>>

TimePasses(t) ==
  /\ timers[t] # "none" /\ t \notin due
  /\ due' = due \cup {t}
  /\ UNCHANGED <<timers, appts, clock, memory, people, history, faults, crashes>>

ComesNear(a) ==
  /\ appts[a] # "none" /\ clock[a] # "started"
  /\ clock' = [clock EXCEPT ![a] = IF @ = "early" THEN "window" ELSE "started"]
  /\ UNCHANGED <<timers, due, appts, memory, people, history, faults, crashes>>

-----------------------------------------------------------------------------
(* Timers *)

\* create_timer commits its row; only the configured contact can ask for it.
CreateTimer(t) ==
  /\ Up /\ Active # {} /\ timers[t] = "none"
  /\ timers' = [timers EXCEPT ![t] = "pending"]
  /\ creating' = creating \cup {t}
  /\ UNCHANGED <<due, appts, clock, alarms, restore, dropped, booking, worker,
                 people, history, faults, crashes>>

RegisterDynamicTimer(t) ==
  /\ t \in creating
  /\ creating' = creating \ {t}
  /\ alarms' = [alarms EXCEPT ![t]["tool"] = Armed]
  /\ UNCHANGED <<table, restore, dropped, booking, worker, people, history, faults, crashes>>

\* The late delivery runs inside the restore's loop, which waits for it.
Returns(t, w) == restore' = IF w = "restore" THEN [restore EXCEPT !.busy = @ \ {t}] ELSE restore

\* Mutant: one try too many.
DeliverTimerEndless(t, w) ==
  /\ t \in due /\ alarms[t][w].pc = "armed"
  /\ \/ /\ Works /\ alarms' = [alarms EXCEPT ![t][w].pc = "sent"]
        /\ sent' = Count(sent, {t}) /\ UNCHANGED restore
     \/ /\ Fails("send") /\ Returns(t, w) /\ alarms[t][w].tries < Retries
        /\ alarms' = [alarms EXCEPT ![t][w].tries = @ + 1] /\ UNCHANGED sent
  /\ UNCHANGED <<table, creating, dropped, booking, worker, people, excused, crashes>>

\* deliverTimer: send; on an error try again a minute later, Retries times.
DeliverTimer(t, w) ==
  /\ t \in due /\ alarms[t][w].pc = "armed"
  /\ \/ /\ Works
        /\ alarms' = [alarms EXCEPT ![t][w].pc = "sent"]
        /\ sent' = Count(sent, {t})
        /\ UNCHANGED <<restore, dropped>>
     \/ /\ Fails("send")
        /\ Returns(t, w)
        /\ IF alarms[t][w].tries + 1 < Retries
             THEN alarms' = [alarms EXCEPT ![t][w].tries = @ + 1] /\ UNCHANGED dropped
             ELSE alarms' = [alarms EXCEPT ![t][w] = NoAlarm] /\ dropped' = dropped \cup {t}
        /\ UNCHANGED sent
  /\ UNCHANGED <<table, creating, booking, worker, people, excused, crashes>>

\* Mutant: a successful mark does not reach the row (a wrong id).
MarkTimerExecutedLost(t, w) ==
  /\ alarms[t][w].pc = "sent"
  /\ alarms' = [alarms EXCEPT ![t][w] = NoAlarm]
  /\ Returns(t, w)
  /\ UNCHANGED <<table, creating, dropped, booking, worker, people, history, faults, crashes>>

\* ... and only then mark the row; a mark that fails is logged.
MarkTimerExecuted(t, w) ==
  /\ alarms[t][w].pc = "sent"
  /\ alarms' = [alarms EXCEPT ![t][w] = NoAlarm]
  /\ Returns(t, w)
  /\ \/ Works /\ timers' = [timers EXCEPT ![t] = "executed"] /\ UNCHANGED <<dropped, excused>>
     \/ Fails("mark") /\ dropped' = dropped \cup {t} /\ excused' = Count(excused, {t}) /\ UNCHANGED timers
  /\ UNCHANGED <<due, appts, clock, creating, booking, worker, people, sent, crashes>>

\* Mutant: timers that expired while the process was down are not read.
UnexecutedFuture == {t \in Timers : timers[t] = "pending" /\ t \notin due}

\* The rows the restore finds when the session is online, or after ten minutes.
Unexecuted == {t \in Timers : timers[t] = "pending"}

\* Nobody to write to, or an error of the query: there is no second try.
RestoreReads ==
  /\ restore.pc = "waiting"
  /\ \/ /\ Works /\ Active # {}
        /\ restore' = [pc |-> "reading", rows |-> Unexecuted, late |-> Unexecuted \cap due, busy |-> {}]
        /\ excused' = Count(excused, {t \in Unexecuted : t \in creating \/ alarms[t]["tool"].pc # "off"})
     \/ /\ (Works /\ Active = {}) \/ Fails("restore")
        /\ restore' = [restore EXCEPT !.pc = "skipped"] /\ UNCHANGED excused
  /\ UNCHANGED <<table, creating, alarms, dropped, booking, worker, people, sent, crashes>>

RestoreNext(t) ==
  /\ t \in restore.rows /\ restore.busy = {}
  /\ alarms' = [alarms EXCEPT ![t]["restore"] = Armed]
  /\ restore' = [restore EXCEPT !.rows = @ \ {t}, !.busy = {t} \cap restore.late]
  /\ UNCHANGED <<table, creating, dropped, booking, worker, people, history, faults, crashes>>

-----------------------------------------------------------------------------
(* Appointments and their reminders *)

CreateAppointment(a) ==
  /\ Up /\ Active # {} /\ appts[a] = "none"
  /\ appts' = [appts EXCEPT ![a] = "bare"] /\ booking' = booking \cup {a}
  /\ UNCHANGED <<timers, due, clock, creating, alarms, restore, dropped, worker,
                 people, history, faults, crashes>>

AddReminder(a) ==
  /\ a \in booking /\ booking' = booking \ {a}
  /\ \/ Works /\ appts' = [appts EXCEPT ![a] = "set"]
     \/ Fails("insert") /\ UNCHANGED appts
  /\ UNCHANGED <<timers, due, clock, creating, alarms, restore, dropped, worker,
                 people, history, crashes>>

\* A tick reads what is due, then sleeps up to ninety seconds.
Tick ==
  /\ Up /\ Active # {} /\ worker = Idle
  /\ worker' = [Idle EXCEPT !.list = {a \in Appointments : appts[a] = "set" /\ clock[a] = "window"}]
  /\ UNCHANGED <<table, creating, alarms, restore, dropped, booking, people, history, faults, crashes>>

SendReminder(a) ==
  /\ a \in worker.list /\ worker.mark = {}
  /\ \/ /\ Works /\ worker' = [list |-> worker.list \ {a}, mark |-> {a}]
        /\ sent' = Count(sent, {a})
     \/ /\ Fails("send") /\ worker' = [worker EXCEPT !.list = @ \ {a}] /\ UNCHANGED sent
  /\ UNCHANGED <<table, creating, alarms, restore, dropped, booking, people, excused, crashes>>

MarkReminder(a) ==
  /\ a \in worker.mark /\ worker' = [worker EXCEPT !.mark = {}]
  /\ \/ Works /\ appts' = [appts EXCEPT ![a] = "sent"] /\ UNCHANGED excused
     \/ Fails("mark") /\ excused' = Count(excused, {a}) /\ UNCHANGED appts
  /\ UNCHANGED <<timers, due, clock, creating, alarms, restore, dropped, booking,
                 people, sent, crashes>>

-----------------------------------------------------------------------------
(* The contact: the panel saves it with two statements *)

\* Mutant: the other contacts are left as they are.
SaveJIDAlone(c) ==
  /\ Up /\ c \notin saving /\ saves < MaxSaves /\ saves' = saves + 1
  /\ contacts' = [contacts EXCEPT ![c] = "active"]
  /\ UNCHANGED <<table, memory, saving, cut, history, faults, crashes>>

SaveJID(c) ==
  /\ Up /\ c \notin saving /\ saves < MaxSaves /\ saves' = saves + 1
  /\ contacts' = [contacts EXCEPT ![c] = "active"]
  /\ saving' = saving \cup {c}
  /\ UNCHANGED <<table, memory, cut, history, faults, crashes>>

Deactivated(c) == [d \in Contacts |-> IF d # c /\ contacts[d] = "active" THEN "inactive" ELSE contacts[d]]

DeactivateOthers(c) ==
  /\ c \in saving /\ saving' = saving \ {c}
  /\ \/ Works /\ contacts' = Deactivated(c) /\ cut' = FALSE
     \/ Fails("save") /\ cut' = TRUE /\ UNCHANGED contacts
  /\ UNCHANGED <<table, memory, saves, history, crashes>>

-----------------------------------------------------------------------------
TimerStep(t) ==
  \/ TimePasses(t) \/ CreateTimer(t) \/ RegisterDynamicTimer(t) \/ RestoreNext(t)
  \/ \E w \in Registrars : DeliverTimer(t, w) \/ MarkTimerExecuted(t, w)

AppointmentStep(a) ==
  ComesNear(a) \/ CreateAppointment(a) \/ AddReminder(a) \/ SendReminder(a) \/ MarkReminder(a)

Next ==
  \/ StartScheduler \/ Crash \/ RestoreReads \/ Tick
  \/ \E t \in Timers : TimerStep(t)
  \/ \E a \in Appointments : AppointmentStep(a)
  \/ \E c \in Contacts : SaveJID(c) \/ DeactivateOthers(c)

Spec == Init /\ [][Next]_vars

\* The process is restarted, goroutines and runtime timers run, time goes by.
Fairness ==
  /\ WF_vars(StartScheduler) /\ WF_vars(RestoreReads)
  /\ \A t \in Timers :
       /\ WF_vars(TimePasses(t)) /\ WF_vars(RegisterDynamicTimer(t)) /\ WF_vars(RestoreNext(t))
       /\ \A w \in Registrars : WF_vars(DeliverTimer(t, w)) /\ WF_vars(MarkTimerExecuted(t, w))

FairSpec == Spec /\ Fairness

-----------------------------------------------------------------------------
(* Properties *)

\* Rows, alarms and the goroutines' variables keep their types, and at most
\* one reminder waits for its mark (one worker goroutine).
TypeOK ==
  /\ timers \in [Timers -> {"none", "pending", "executed"}] /\ due \subseteq Timers
  /\ creating \subseteq Timers /\ dropped \subseteq Timers
  /\ alarms \in [Timers -> [Registrars -> [pc : {"off", "armed", "sent"}, tries : 0 .. Retries - 1]]]
  /\ restore \in [pc : {"down", "waiting", "skipped", "reading"},
                  rows : SUBSET Timers, late : SUBSET Timers, busy : SUBSET Timers]
  /\ appts \in [Appointments -> {"none", "bare", "set", "sent"}] /\ booking \subseteq Appointments
  /\ clock \in [Appointments -> {"early", "window", "started"}]
  /\ worker \in [list : SUBSET Appointments, mark : SUBSET Appointments]
  /\ Cardinality(worker.mark) <= 1 /\ Cardinality(restore.busy) <= 1
  /\ contacts \in [Contacts -> {"absent", "active", "inactive"}] /\ saving \subseteq Contacts

\* Once the restore has read the table, every pending timer is in memory too
\* (being registered, restored, waiting, or sent and not marked yet), unless
\* its retries were spent or its mark failed (engine/scheduler.go:281-325).
NoTimerForgotten ==
  restore.pc = "reading" =>
    \A t \in Timers : timers[t] = "pending" =>
      \/ t \in creating \cup restore.rows \cup dropped
      \/ \E w \in Registrars : alarms[t][w].pc # "off"

\* An alert goes out again only for a reason: the process died or the mark
\* failed between the send and the mark, or a timer created before the restore
\* read the table was registered by both (engine/scheduler.go:95-110, 258-275).
\* And "a timer alert is only marked as executed once WhatsApp accepted it"
\* (engine/scheduler.go:36), an appointment's reminder likewise.
AlertsAreAccounted ==
  /\ \A x \in DOMAIN sent : sent[x] <= 1 + excused[x]
  /\ \A t \in Timers : timers[t] = "executed" => sent[t] > 0
  /\ \A a \in Appointments : appts[a] = "sent" => sent[a] > 0

\* Saves of the contact that overlap never leave two active contacts, unless
\* one of them ended between its statements (db/helpers.go:45-56).
OneTarget == saving = {} /\ ~cut => Cardinality(Active) <= 1

\* A timer survives restarts (README.md:28): once created it is delivered,
\* unless its retries were spent or the restore of that life was skipped.
EventuallyAlerted ==
  \A t \in Timers :
    timers[t] = "pending" ~> (sent[t] > 0 \/ t \in dropped \/ restore.pc = "skipped")

=============================================================================
