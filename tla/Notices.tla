------------------------------ MODULE Notices ------------------------------
(***************************************************************************)
(* What the finance module tells a group unasked: the scheduled summaries  *)
(* (a cron job each, a claim in finance_alerts_sent, a send) and the       *)
(* budget alerts appended to the reply of a turn.  Source:                 *)
(* finance/summaries.go, finance/alerts.go and the job table of main.go.   *)
(*                                                                         *)
(* One month and one week.  The spending of a category is a level: 0 no    *)
(* entry, 1 below the thresholds, 2, 3 and 4 from 70, 80 and 100 percent   *)
(* of its budget.  The other kinds of alert use the same keys and lines    *)
(* with other conditions, and are left out.                                *)
(***************************************************************************)
EXTENDS Naturals, Sequences

CONSTANTS
  Workspaces, Categories,
  Touches,       \* the categories an entry counts for: its own, and the parent's
  MaxLines,      \* maxAlertLines
  Faults,        \* the calls that may fail
  MaxChanges, MaxPanel, MaxFaults, MaxCrashes   \* bounds

ASSUME NoticesAssumption ==
  /\ Touches \subseteq SUBSET Categories
  /\ {MaxLines, MaxChanges, MaxPanel, MaxFaults, MaxCrashes} \subseteq Nat
  /\ Faults \subseteq {"render", "claim", "send", "release", "read", "mark", "reply"}

VARIABLES
  day,           \* "before", "last" day of the month, "first" of the next, "after"
  monthly, weekly, linked,   \* the workspace's preferences and its group
  spent,         \* the level of a category this month
  keys,          \* rows of finance_alerts_sent
  fired,         \* cron jobs that ran
  job,           \* a running job: the workspaces left, the one at hand, the step
  turn,          \* the turn of a workspace after its tools changed the ledger
  told,          \* history: the budget alerts the group read, in order
  delivered,     \* history: summaries the group got
  lost,          \* history: keys whose message was cut off
  unmarked,      \* history: lower levels whose mark failed
  changes, panel, faults, crashes

prefs == <<monthly, weekly, linked>>
history == <<told, delivered, lost, unmarked>>
bounds == <<changes, panel, faults, crashes>>
vars == <<day, prefs, spent, keys, fired, job, turn, history, bounds>>

Jobs == {"last_day", "first_day", "weekly"}
Summaries == {<<"monthly", 0>>, <<"weekly", 0>>}
Levels == 0 .. 4
Thresholds == 2 .. 4
Alerts == Categories \X Thresholds
NoJob == [pc |-> "idle", todo |-> {}, at |-> {}]
Turn(pc, left) == [pc |-> pc, left |-> left, cands |-> {}, also |-> {}, lines |-> <<>>]
NoTurn == Turn("idle", {})

Works == UNCHANGED faults
Fails(call) == call \in Faults /\ faults < MaxFaults /\ faults' = faults + 1

\* The month is under way: preferences were chosen, entries made, and jobs
\* missed while the process was down.
Init ==
  /\ day = "before"
  /\ monthly \in [Workspaces -> {"off", "last_day", "first_day"}]
  /\ weekly \in [Workspaces -> BOOLEAN] /\ linked = [w \in Workspaces |-> TRUE]
  /\ spent \in [Workspaces \X Categories -> Levels]
  /\ keys = [w \in Workspaces |-> {}]
  /\ fired \in SUBSET Jobs /\ job = [j \in Jobs |-> NoJob]
  /\ turn = [w \in Workspaces |-> NoTurn]
  /\ told = [w \in Workspaces |-> <<>>]
  /\ delivered = [x \in Workspaces \X Summaries |-> 0]
  /\ lost = [w \in Workspaces |-> {}] /\ unmarked = [w \in Workspaces |-> {}]
  /\ changes \in {0, MaxChanges} /\ panel = 0 /\ faults = 0 /\ crashes = 0

-----------------------------------------------------------------------------
(* Scheduled summaries *)

\* The month's summary has one key, whichever of the two jobs sends it.
Key(j) == IF j = "weekly" THEN <<"weekly", 0>> ELSE <<"monthly", 0>>
Due(j) == CASE j = "last_day" -> day = "last" [] j = "first_day" -> day = "first" [] OTHER -> day # "before"
Wants(w, j) == linked[w] /\ (IF j = "weekly" THEN weekly[w] ELSE monthly[w] = j)

\* The cron starts a job: preferences and groups are read once, here; without
\* a session, or after an error of the query, there is nothing to do.
RunJob(j) ==
  /\ Due(j) /\ j \notin fired /\ fired' = fired \cup {j}
  /\ \/ Works /\ job' = [job EXCEPT ![j].todo = {w \in Workspaces : Wants(w, j)}]
     \/ Fails("read") /\ UNCHANGED job
  /\ UNCHANGED <<day, prefs, spent, keys, turn, history, changes, panel, crashes>>

Empty(w) == \A c \in Categories : spent[<<w, c>>] = 0

\* send: already sent, offline or an empty period ends it; else wait (jitter).
Prepare(j, w) ==
  /\ job[j].pc = "idle" /\ w \in job[j].todo
  /\ \/ /\ (Works /\ Key(j) \notin keys[w]) \/ Fails("read")
        /\ ~Empty(w)
        /\ job' = [job EXCEPT ![j] = [pc |-> "waiting", todo |-> @.todo \ {w}, at |-> {w}]]
     \/ /\ (Works /\ (Key(j) \in keys[w] \/ Empty(w))) \/ Fails("render")
        /\ job' = [job EXCEPT ![j].todo = @ \ {w}]
  /\ UNCHANGED <<day, prefs, spent, keys, fired, turn, history, changes, panel, crashes>>

Ends(j) == job' = [job EXCEPT ![j] = [NoJob EXCEPT !.todo = job[j].todo]]

\* Mutant: the claim's outcome is not looked at.
ClaimUnchecked(j, w) ==
  /\ job[j].pc = "waiting" /\ w \in job[j].at /\ Works
  /\ keys' = [keys EXCEPT ![w] = @ \cup {Key(j)}]
  /\ job' = [job EXCEPT ![j].pc = "claimed"]
  /\ UNCHANGED <<day, prefs, spent, fired, turn, history, changes, panel, crashes>>

\* A failed INSERT, or one that committed and whose answer was lost.
InsertFails(w, key) ==
  \/ UNCHANGED <<keys, lost>>
  \/ /\ key \notin keys[w]
     /\ keys' = [keys EXCEPT ![w] = @ \cup {key}]
     /\ lost' = [lost EXCEPT ![w] = @ \cup {key}]

\* markSent: the first to insert the key sends.
Claim(j, w) ==
  /\ job[j].pc = "waiting" /\ w \in job[j].at
  /\ \/ /\ Works /\ Key(j) \notin keys[w]
        /\ keys' = [keys EXCEPT ![w] = @ \cup {Key(j)}]
        /\ job' = [job EXCEPT ![j].pc = "claimed"]
        /\ UNCHANGED lost
     \/ Works /\ Key(j) \in keys[w] /\ Ends(j) /\ UNCHANGED <<keys, lost>>
     \/ Fails("claim") /\ Ends(j) /\ InsertFails(w, Key(j))
  /\ UNCHANGED <<day, prefs, spent, fired, turn, told, delivered, unmarked, changes, panel, crashes>>

SendSummary(j, w) ==
  /\ job[j].pc = "claimed" /\ w \in job[j].at
  /\ \/ Works /\ delivered' = [delivered EXCEPT ![<<w, Key(j)>>] = @ + 1] /\ Ends(j)
     \/ Fails("send") /\ job' = [job EXCEPT ![j].pc = "failed"] /\ UNCHANGED delivered
  /\ UNCHANGED <<day, prefs, spent, keys, fired, turn, told, lost, unmarked, changes, panel, crashes>>

\* Mutant: the key of a summary that was not sent is kept.
ReleaseForgotten(j, w) ==
  /\ job[j].pc = "failed" /\ w \in job[j].at /\ Ends(j)
  /\ UNCHANGED <<day, prefs, spent, keys, fired, turn, history, bounds>>

\* A failed send gives its claim back; an error of the DELETE is not looked at.
Release(j, w) ==
  /\ job[j].pc = "failed" /\ w \in job[j].at /\ Ends(j)
  /\ \/ Works /\ keys' = [keys EXCEPT ![w] = @ \ {Key(j)}] /\ UNCHANGED lost
     \/ Fails("release") /\ lost' = [lost EXCEPT ![w] = @ \cup {Key(j)}] /\ UNCHANGED keys
  /\ UNCHANGED <<day, prefs, spent, fired, turn, told, delivered, unmarked, changes, panel, crashes>>

-----------------------------------------------------------------------------
(* Alerts in the reply of a turn *)

\* The tools of a turn changed the spending; Handle asks for alerts.
ChangeInChat(w, cs) ==
  /\ turn[w].pc = "idle" /\ changes < MaxChanges /\ changes' = changes + 1
  /\ \E level \in [cs -> Levels] :
       spent' = [x \in DOMAIN spent |-> IF x[1] = w /\ x[2] \in cs THEN level[x[2]] ELSE spent[x]]
  /\ turn' = [turn EXCEPT ![w] = Turn("alerts", cs)]
  /\ UNCHANGED <<day, prefs, keys, fired, job, history, panel, faults, crashes>>

\* budgetAlerts: only the highest level reached, unless it was announced.
BudgetAlert(w, c) ==
  /\ c \in turn[w].left
  /\ LET reached == {<<c, l>> : l \in {spent[<<w, c>>]} \cap Thresholds}
     IN \/ Works /\ turn' = [turn EXCEPT ![w].left = @ \ {c}, ![w].cands = @ \cup (reached \ keys[w])]
        \/ Fails("read") /\ turn' = [turn EXCEPT ![w].left = @ \ {c}, ![w].cands = @ \cup reached]
  /\ UNCHANGED <<day, prefs, spent, keys, fired, job, history, changes, panel, crashes>>

\* The candidate with the highest threshold comes first.
First(w, a) == a \in turn[w].cands /\ \A b \in turn[w].cands : b[2] <= a[2]
Room(w) == Len(turn[w].lines) < MaxLines
Below(a) == {b \in Alerts : b[1] = a[1] /\ b[2] < a[2]}

\* AlertsAfterChange: claim the key, then say it; a key that is taken, or an
\* error, says nothing.
MarkAlert(w, a) ==
  /\ turn[w].left = {} /\ turn[w].also = {} /\ First(w, a) /\ Room(w)
  /\ \/ /\ Works /\ a \notin keys[w]
        /\ keys' = [keys EXCEPT ![w] = @ \cup {a}]
        /\ turn' = [turn EXCEPT ![w].cands = @ \ {a}, ![w].lines = Append(@, a), ![w].also = Below(a)]
        /\ UNCHANGED lost
     \/ /\ \/ Works /\ a \in keys[w] /\ UNCHANGED <<keys, lost>>
           \/ Fails("mark") /\ InsertFails(w, a)
        /\ turn' = [turn EXCEPT ![w].cands = @ \ {a}]
  /\ UNCHANGED <<day, prefs, spent, fired, job, told, delivered, unmarked, changes, panel, crashes>>

\* Mutant: the lower levels stay open.
AlsoMarkNothing(w, a) ==
  /\ a \in turn[w].also
  /\ turn' = [turn EXCEPT ![w].also = @ \ {a}]
  /\ UNCHANGED <<day, prefs, spent, keys, fired, job, history, bounds>>

\* The lower levels are settled with it; an error is not looked at.
AlsoMark(w, a) ==
  /\ a \in turn[w].also
  /\ turn' = [turn EXCEPT ![w].also = @ \ {a}]
  /\ \/ Works /\ keys' = [keys EXCEPT ![w] = @ \cup {a}] /\ UNCHANGED unmarked
     \/ Fails("mark") /\ unmarked' = [unmarked EXCEPT ![w] = @ \cup {a}] /\ UNCHANGED keys
  /\ UNCHANGED <<day, prefs, spent, fired, job, told, delivered, lost, changes, panel, crashes>>

Elements(s) == {s[i] : i \in DOMAIN s}

\* The worker sends the reply with its lines once, whatever happens.
Reply(w) ==
  /\ turn[w].pc = "alerts" /\ turn[w].left = {} /\ turn[w].also = {}
  /\ turn[w].cands = {} \/ ~Room(w)
  /\ \/ Works /\ told' = [told EXCEPT ![w] = @ \o turn[w].lines] /\ UNCHANGED lost
     \/ Fails("reply") /\ lost' = [lost EXCEPT ![w] = @ \cup Elements(turn[w].lines)] /\ UNCHANGED told
  /\ turn' = [turn EXCEPT ![w] = NoTurn]
  /\ UNCHANGED <<day, prefs, spent, keys, fired, job, delivered, unmarked, changes, panel, crashes>>

-----------------------------------------------------------------------------
(* The panel, the calendar, and a restart *)

ByPanel == panel < MaxPanel /\ panel' = panel + 1

ChangeInPanel(w, c) ==
  /\ ByPanel /\ \E l \in Levels \ {spent[<<w, c>>]} : spent' = [spent EXCEPT ![<<w, c>>] = l]
  /\ UNCHANGED <<day, prefs, keys, fired, job, turn, history, changes, faults, crashes>>

UpdateSettings(w) ==
  /\ ByPanel
  /\ \E p \in {"off", "last_day", "first_day"} : monthly' = [monthly EXCEPT ![w] = p]
  /\ \E b \in BOOLEAN : weekly' = [weekly EXCEPT ![w] = b]
  /\ UNCHANGED <<linked, day, spent, keys, fired, job, turn, history, changes, faults, crashes>>

\* LinkGroup and UnlinkGroup.
LinkGroup(w) ==
  /\ ByPanel /\ linked' = [linked EXCEPT ![w] = ~@]
  /\ UNCHANGED <<monthly, weekly, day, spent, keys, fired, job, turn, history, changes, faults, crashes>>

DayPasses ==
  /\ day # "after"
  /\ day' = CASE day = "before" -> "last" [] day = "last" -> "first" [] OTHER -> "after"
  /\ UNCHANGED <<prefs, spent, keys, fired, job, turn, history, bounds>>

\* What is running is lost; a turn whose tools committed is not run again
\* (alreadyApplied), so its lines are lost too.
Crash ==
  /\ crashes < MaxCrashes /\ crashes' = crashes + 1
  /\ lost' = [w \in Workspaces |-> lost[w] \cup Elements(turn[w].lines) \cup
                {Key(j) : j \in {j \in Jobs : w \in job[j].at /\ job[j].pc \in {"claimed", "failed"}}}]
  /\ job' = [j \in Jobs |-> NoJob]
  /\ turn' = [w \in Workspaces |-> NoTurn]
  /\ UNCHANGED <<day, prefs, spent, keys, fired, told, delivered, unmarked, changes, panel, faults>>

JobStep(j, w) == Prepare(j, w) \/ Claim(j, w) \/ SendSummary(j, w) \/ Release(j, w)

TurnStep(w) ==
  \/ \E cs \in Touches : ChangeInChat(w, cs)
  \/ \E c \in Categories : BudgetAlert(w, c)
  \/ \E a \in Alerts : MarkAlert(w, a) \/ AlsoMark(w, a)
  \/ Reply(w)

Next ==
  \/ DayPasses \/ Crash
  \/ \E j \in Jobs : RunJob(j) \/ \E w \in Workspaces : JobStep(j, w)
  \/ \E w \in Workspaces : TurnStep(w) \/ UpdateSettings(w) \/ LinkGroup(w) \/ \E c \in Categories : ChangeInPanel(w, c)

Spec == Init /\ [][Next]_vars

-----------------------------------------------------------------------------
(* Properties *)

JobRuns == [pc : {"idle", "waiting", "claimed", "failed"}, todo : SUBSET Workspaces, at : SUBSET Workspaces]

Turns ==
  [pc : {"idle", "alerts"}, left : SUBSET Categories, cands : SUBSET Alerts, also : SUBSET Alerts, lines : Seq(Alerts)]

\* Preferences, keys, jobs and turns keep their types; a reply has at most
\* MaxLines alerts (docs/finance/ARCHITECTURE.md:158).
TypeOK ==
  /\ monthly \in [Workspaces -> {"off", "last_day", "first_day"}]
  /\ weekly \in [Workspaces -> BOOLEAN] /\ linked \in [Workspaces -> BOOLEAN]
  /\ spent \in [Workspaces \X Categories -> Levels]
  /\ keys \in [Workspaces -> SUBSET (Summaries \cup Alerts)]
  /\ job \in [Jobs -> JobRuns]
  /\ turn \in [Workspaces -> Turns]
  /\ told \in [Workspaces -> Seq(Alerts)]
  /\ delivered \in [Workspaces \X Summaries -> Nat]
  /\ lost \in [Workspaces -> SUBSET (Summaries \cup Alerts)]
  /\ unmarked \in [Workspaces -> SUBSET Alerts]
  /\ \A w \in Workspaces : Len(turn[w].lines) <= MaxLines

\* The levels a group reads about a category only rise, however the spending
\* goes up and down: no level is announced twice, and none below one already
\* announced, apart from a lower level whose mark failed and was not looked at
\* (finance/alerts.go:80-95, 112-156).
LevelsRise ==
  \A w \in Workspaces : \A i, k \in DOMAIN told[w] :
    i < k /\ told[w][i][1] = told[w][k][1] =>
      \/ told[w][i][2] < told[w][k][2]
      \/ told[w][i][2] # told[w][k][2] /\ told[w][k] \in unmarked[w]

\* A month and a week are summarised once, also when the preference moves from
\* the last day to the first and when runs overlap (finance/summaries.go:229).
SummaryOnce == \A x \in DOMAIN delivered : delivered[x] <= 1

Covers(a, s) == \E b \in s : b[1] = a[1] /\ b[2] >= a[2]

\* What is marked as sent was said, is about to be said, or was cut off by a
\* restart, a failed reply, a failed DELETE, or an INSERT of the mark that was
\* committed and its answer lost: nothing else is marked and forgotten
\* (finance/alerts.go:80-95, finance/summaries.go:228-246).
MarkedIsSaid ==
  \A w \in Workspaces :
    /\ \A a \in keys[w] \cap Alerts :
         Covers(a, Elements(told[w]) \cup Elements(turn[w].lines) \cup (lost[w] \cap Alerts))
    /\ \A k \in keys[w] \cap Summaries :
         \/ delivered[<<w, k>>] > 0 \/ k \in lost[w]
         \/ \E j \in Jobs : Key(j) = k /\ w \in job[j].at /\ job[j].pc \in {"claimed", "failed"}
=============================================================================
