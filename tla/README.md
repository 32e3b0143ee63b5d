# Formal verification of the WhatsApp assistant

This directory holds TLA+ specifications of the backend in `src/backend`, the TLC
configurations that check them on small instances, and proofs checked by TLAPS.
The program is a Go service with two faces on one WhatsApp account: a personal
assistant in a private chat (appointments, timers, notes) and a finance manager
in a group (entries written by an agent, an audited ledger, open questions,
alerts and summaries), with a web panel that reads and writes the same ledger.

Everything here is translated from the source. Where the text below says
"the code", the file and line are in `src/backend` unless another path is given.

    tlc -workers 2 -config MCInbox.cfg MCInbox     # any run: its cfg and its module
    tlapm InboxProofs.tla                                # the proofs

## 1. Inventory

### Components, their state and what makes them correct

| Component | State | Operations | Correct when |
|---|---|---|---|
| **Inbox** `finance/inbox.go`, `main.go` | table `finance_inbox` (status, attempts, `next_attempt_at`, `processing_at`); in memory: group map, one worker goroutine and one wake-up channel per workspace | `Accept`, `wake`, `runWorker`, `Drain`, `claimInbox`, `process`, `reply`, `finishInbox`, `Recover`, `wakePending`, `Start` | a message changes the ledger in one attempt at most, messages of a workspace are handled in order, every accepted message is closed, closed ones stay closed, a replay is silent |
| **Ledger** `finance/ledger.go` | `finance_transactions`, `finance_transaction_events` | create a batch, update, delete, undo the last, restore; row locks | the audit trail of an entry is a chain that ends in the row; nothing is undone twice; an undo drops no later change it could have seen; a CONFIRMED entry is complete |
| **Conversation** `finance/pending.go`, `agent.go`, `agent_tools.go` | `finance_pending_actions`; in memory: the turn | find the question a message answers, resolve it or leave it to the model, the mutating tools, ask, ask again, give up, synchronise | one open question per member, it matches the draft, a settled one stays settled, only an open and valid one is answered, a question is asked again only so often |
| **Summaries and alerts** `finance/summaries.go`, `finance/alerts.go` | `finance_alerts_sent`, preferences; in memory: running jobs | `RunMonthly`, `RunWeekly`, `send`, `markSent`, `AlertsAfterChange`, `budgetAlerts` | a period is summarised once, levels announced only rise, nothing is marked as sent and forgotten |
| **Reminders** `engine/scheduler.go`, `db/helpers.go`, tools of `openai/client.go` | `timers`, `appointments`, `reminders`, `contacts_config`; in memory: `time.AfterFunc` alarms, the worker | create a timer, deliver, mark, restore; create an appointment, remind; save the contact | no pending timer is out of memory, alerts repeat only for a reason, a timer survives restarts, one contact is active |
| **Workspaces, members, groups** `finance/workspace.go`, `groups.go`, `inbox.go:133`, `web/finance_whatsapp.go`, `whatsapp/message.go` | `finance_workspaces`, `finance_members`; in memory: the group map | create the first workspace, link, unlink, synchronise the members, register a sender, `RefreshGroups`, `Decide` | the router's map follows the table; a row has the identities of one person, and a person is one member |
| **Categories and budgets** `finance/categories.go`, `insights.go` | `finance_categories` | create, change, archive; budgets | a tree of two levels, a subcategory has the kind of its parent |
| Receipts `finance/receipts.go`, `attachments.go` | `finance_attachments` | download, validate, extract, duplicate score | a file is stored once, the score orders candidates |
| **Dates**, money, text `finance/dates.go`, `money.go`, `text.go`, `timeutil` | none | days, periods and baselines; parsing and formatting | a resolved day is the day that was said; a baseline is comparable and disjoint |
| **Reports** `finance/reports.go`, `views.go`, `insights.go`, `report_tools.go`, `context.go` | none: computed from the rows | summary, series, budgets, roll-up | summary, baseline, breakdowns, series, filters and budgets tell the same amounts |
| **WhatsApp** `whatsapp/*.go` | the device, the socket, the QR session and the status the panel shows | pairing, refresh, logout, receive, route (`Decide`), send | the code on the screen is of the latest connection, a linked device is not cut off, a message goes to one handler |
| OpenAI `openai/*.go` | none (tool loop) | call, tool loop, transcription | — |
| **Web and login** `web/*.go` | signed cookies, revoked ids, the login limiter | login, logout, `Blocked`, `Fail`; the panel's API | a session that logged out stays ended in the life of the process (and for good without `SESSION_SECRET`), the limiter counts what failed |
| **Database** `db/db.go`, `migrate.go`, `migrate_cmd.go` | `schema_migrations`, an advisory lock | apply, baseline at boot, status, `startFinance` waiting | versions take effect once and in order, whoever runs them |
| Panel front end `src/frontend` | a client of the API | — | — |

### How they interact

    WhatsApp event ──> Decide ──> MessageCallback ──> personal assistant ──> timers, appointments
                         └──────> Accept ──> finance_inbox ──> worker ──> Agent.Handle ──┐
    panel (HTTP) ─────────────────────────────────────────> Ledger <── tools ────────────┤
                                                              │                         ├─> reply
    panel ──> links, members, categories, reports, logins, pairing
    cron ──> Summaries, morning summary                       └──> alerts ───────────────┘
    ticker (30 s) ──> Recover         ticker (1 min) ──> reminders      AfterFunc ──> timers

* The router calls `Accept` synchronously. `Accept` writes one row and pushes a
  token into the channel of its workspace's worker.
* The worker calls `Agent.Handle`, which runs the turn: several SQL transactions
  (tools), each committed on its own. `Handle` returns a reply; the worker sends
  it and closes the row in statements of their own.
* The panel's requests run in goroutines of their own and meet the worker only in
  the database: in the row locks of the ledger, in `finance_pending_actions`.
* Everything in memory (workers, tokens, alarms, running jobs, the group map) is
  gone after a restart. The tables decide what is done again.

### What is hard here

* a crash or an error between two commits of one turn, and the next attempt;
* `Recover` taking a row away from, or giving it to, a worker;
* wake-ups sent while the worker drains, parks, or does not exist yet;
* the panel changing what a turn has read, or what a question is about;
* an undo that picks its event, looks for later changes and locks the row in
  three steps;
* claims (`finance_alerts_sent`, the inbox row) that are written before, and marks
  (`executado`, `enviado`) that are written after, a message is sent;
* timers that live in a table and in memory;
* requests of the panel that validate, write and refresh in statements of their own
  (categories, groups, members), next to one another and to the message handler;
* a reader of pairing codes that outlives the attempt it belongs to;
* migrations of two processes, and a lock that belongs to a connection;
* ends of months, leap days, and four queries that must sum the same rows alike.

`PROJECT.json` lists these hazards line by line, each with the properties that
watch it or with the reason why none does.

## 2. Modules

| Module | What it is |
|---|---|
| `Inbox` | the inbox, its workers, recovery and restarts |
| `OrderedQueue` | what the inbox promises: a queue per workspace, each message applied by one run at most, at the head, closed once; `Inbox` implements it |
| `InboxProofs` | the TLAPS proofs about `Inbox` |
| `Ledger` | entries, the audit trail, undoing, with clients that interleave |
| `UndoStack` | what undoing promises: a stack of changes per entry (the set of its changes, numbered); a change put on top inside an undo tears the entry, nothing else does; `Ledger` implements it |
| `LedgerProofs` | the proofs about `Ledger` |
| `Conversation`, `ConversationProofs` | open questions, turns, tools, the panel's changes; its proofs |
| `Notices`, `NoticesProofs` | summaries and budget alerts; their proofs |
| `Reminders`, `RemindersProofs` | timers, appointment reminders, the contact; their proofs |
| `Directory` | the workspace, the linked group and the router's map, the members |
| `CategoryTree` | the category tree under concurrent requests |
| `Migrations` | migrations, their lock, and the boot |
| `DatabaseProofs` | the proofs about `Directory` and `Migrations` |
| `Pairing` | linking the device by QR code |
| `Sessions` | logins, logouts, cookies and the login limiter |
| `PanelProofs` | the proofs about `CategoryTree`, `Pairing` and `Sessions` |
| `Calendar`, `Reports` | civil days, periods and baselines; the reports computed from the entries |
| `ReportsProofs` | the proofs about both |
| `MCInbox`, `MCLedger`, `MCConversation`, `MCReminders`, `MCReports` | instances for TLC |
| `MCParts` | one instance of every part that shares no state with another |

Each module names in its comments the function a definition stands for, and
`PROJECT.json` maps every definition to its lines.

### Inbox

A row is its message: the unique key (chat, sender, WhatsApp id) makes a redelivery
find the row already there. `status`, `attempts`, `deferred` (`next_attempt_at` in
the future) and `stale` (`processing_at` older than `StaleAfter`) are the columns;
`applied` and `answered` record which attempts changed the ledger and answered.
`phase` is the progress of `startFinance` and `Start`. `worker[w]` is the program
counter of a worker: `head` (`ReadHead`), `claim`, `check` (`AlreadyApplied`),
`handle` (`LedgerCommit`, `HandleReturns`), `reply`, `finish`, `parked`, `timed`.
Every call to the database or WhatsApp on the way is a step and may fail if its
name is in `Faults`; those that write may also commit and lose their answer. `wakeLost` remembers that a call
failed after which a PENDING row may have nobody to wake for it. `Recover` is two statements and so two steps (`RecoverApplied`,
`RecoverRest`). `Crash` may come between any two steps. `Timely` says that an
attempt ends (`ProcessTimeout`, 2 min) before its row counts as abandoned
(`StaleAfter`, 3 min); without it `Recover` may take a row from a live worker.

### Ledger

`row` and `events` are the two tables. A create, update or delete is one action
because it is one SQL transaction with the row locked. An undo is three:
`UndoLast`/`RestoreTransaction` pick the event, `LockEvent` locks it and looks for a
later change (`seen` remembers how far the trail went then), `RevertEvent` locks the row and
writes. Other clients may commit between any two of them. The members' requests share one client
(the worker is serial), the panel's have one each. `Normalized` and `Acceptable`
are `normalizeInput`: which reasons keep an entry PENDING. `kind` and `archived` are the
columns of a category that entries depend on; `UpdateCategory` changes both at any time, and
`kindSince` remembers how long the trail was when the kind last changed.

### Conversation

Of an entry only its doubts are kept; it is CONFIRMED when it has none. `turn` is the
turn in progress: the answer, the question it found (`act`), the attempt, the tools
used, whether something was committed. `ActivePending` looks for the question:
the quoted one, the sender's latest, the latest of the group. `LookReceipt`,
`LookSettled` and `LookPending` are the branches of `replyToPending`; `ApplyPending`,
`SettlePending`, `Reask`, `GiveUp`, `Refuse`, `Cancel` what follows; the tools come
after. Each is one commit. `Fault` ends the turn anywhere; the inbox then runs the
message again (`Retried`) unless the ledger has changed. The panel (`PatchTransaction`,
`PanelDelete`, `PanelRestore`) acts between any two steps. What the model decides is a
nondeterministic choice among the tools the code lets it call.

### Notices

`job[j]` is a running cron job: the workspaces left, the one at hand, and whether it
waits (jitter), has claimed the key, or failed to send. Preferences and groups are
read once, when the job starts, as in the code. `turn[w]` is the alert part of a turn:
categories to evaluate, candidates, lower levels to mark, lines of the reply. The
spending of a category is a level (none, below, 70, 80, 100 percent) that chat and
panel change at will. Every INSERT may fail, also after it committed (`InsertFails`).
Four history variables say what the group got: `told`, in order, `delivered`, what was cut off
(`lost`), and the lower levels whose mark failed (`unmarked`).

### Reminders

A timer is a row (`timers`) and up to two alarms in memory (`alarms`): one registered by
the tool that created it, one by the restore. `DeliverTimer` is one call of
`deliverTimer`, `MarkTimerExecuted` the UPDATE after it. `restore` is the goroutine
`restorePendingTimers`: it may read the table long after boot, and a late alert is
sent inside its loop (`busy`). The worker of appointment reminders reads a list,
sleeps, then sends and marks one by one. `SaveJID` and `DeactivateOthers` are the two
statements that change the contact. A failed send also stands for a lost connection.

### Directory

Every SQL statement of a request is a step: the first request finds no workspace, takes an
advisory lock, looks again and creates it; linking asks WhatsApp for the group, updates
the row, registers the participants one by one, and refreshes the router's map, which is a
query and then an assignment under a mutex. A link time separates one link from the next, so a map
from an older link is seen as stale. A person has a phone number and a LID; WhatsApp shows
one or both. `UpsertMember` is two steps: `FindMember`'s read, and the INSERT or
UPDATE with its two unique indexes. The message handler is one more actor. `blame`,
`faces` and `refused` record why a map or a member may be off.

### CategoryTree

A request validates the parent, then counts children, then writes, then passes a new kind on to the
subcategories: four statements, no transaction. `overtaken` says that some
request wrote what its validation, repeated at the moment of the write, would refuse.

### Migrations

A run is a boot (baseline only) or `migrate apply`, of a binary that embeds some prefix of the versions, of which some
may have been edited since. `migLock` is the session that holds the lock; the status is
read through the pool and the versions are applied on the locked connection, which may
break, or its process die, between any two steps; a commit's answer may be lost.

### Pairing

`flow[f]` is the program counter of a goroutine in `startQRFlow` (boot, logout) or `RestartQRFlow` (the button):
lock, check, clear, tear down, wait for the old reader with a limit, open a channel,
connect. Channels have queues of items and a reader of their own. whatsmeow and the
phone are external: codes, scans, drops, reconnections and logouts come at any time.

### Sessions

A cookie is an expiry and the key it was signed with. `revoked`, `perIP`, `global` and
`blockedGlobal` are the maps and lists in memory, pruned in place as the code prunes them. A login is two steps,
the question to the limiter and the verdict, so that requests overlap.

### Calendar and Reports

A day is a number; `Civil`, `YearOf`, `MonthOf` convert with the Gregorian rules, months and days out of range
are carried on as `time.Date` does. `LatestDay`, `ResolveDate`, `ResolvePeriod`,
`PreviousPeriod` and `IsWholeMonths` follow `dates.go`. `Reports` has the rows of the ledger as `book` and
`Summary`, `Series`, `CategorySpending`, `RollUp` and `Spent` as operators on it; days pass, entries are
recorded and deleted, a subcategory is archived, and then somebody asks. A PENDING row is in no report and
not in `book`. Until November 2018 the clocks of Sao Paulo skipped one midnight a year, and `time.Date` gives the
day before for such a day; the module is about days from 2019 on, and so questions are asked after 2021.

## 3. Runs

Bounds are constants of the modules named `Max...`, except the sets themselves.

| Run | Instance and bounds | Question |
|---|---|---|
| `inbox` | 1 workspace, 2 messages, 2 attempts, any 1 call fails, 1 crash, fairness | `AppliedOnce`, `InOrder`, `SilentReplay`, `TerminalIsFinal`; the inbox implements `OrderedQueue` (`QueueSpec`); `EventuallyClosed` |
| `inbox_refused` | 1 message, no fault | refutes `AppliedIsNotRefused` |
| `ledger_trail` | 1 entry, 1 member, 1 panel session, all drafts and patches, 4 events, a category that is archived and changes kind | `AuditChain`, `UndoneOnce`, `ConfirmedIsComplete` |
| `ledger_stack` | 2 entries, batches, 2 members, 1 panel session, 4 events | `UndoDropsNothingSeen`; the ledger implements `UndoStack` (`StackSpec`) |
| `ledger_dropped` | 1 entry, 4 events | refutes `UndoDropsNothing` |
| `conversation_alone` | 2 members, 2 entries, 3 messages, 2 rounds, no panel, no fault | `QuestionMatchesDraft`, `GivesUp` |
| `conversation_faults` | 2 messages, 2 tools a turn, 1 fault, 1 panel change | `OneOpenQuestion`, `AnswersReachOpenQuestions`, `SettledIsFinal` |
| `conversation_panel` | 2 messages, 1 panel change | refutes `QuestionMatchesDraft` |
| `conversation_loops` | 1 member, 1 entry, 5 messages, 3 rounds, no fault | refutes `NeverLoops` |
| `reminders` | 1 timer, 1 appointment, 2 contacts, 2 saves, 2 tries per alert, 2 faults, 1 crash, fairness | `NoTimerForgotten`, `AlertsAreAccounted`, `OneTarget`, `EventuallyAlerted` |
| `parts` | one part moves per behaviour (`focus`), see below | `PartsTypeOK` and the 15 properties below |
| `income_series` | 1 or 2 entries, 120 days | refutes `IncomeBucketsAlike` |

Each passing run also checks the type invariant of its module where listed in its cfg.

The parts that share no variable are checked side by side in `parts`: the initial state
chooses a part, every step is a step of it, and the others rest in one of their initial
states. Its state space is the sum of theirs (about 590,000 states, a few minutes), and
every property is one of the part in the second column.

| Part | Bounds | Properties |
|---|---|---|
| `Directory` | 2 people (one shown by number or in full, one by LID), 1 group, 2 requests, 1 message, 1 error | `MapFollowsTable`, `OnePersonPerRow`, `SplitIsExcused`; one workspace in `DirectoryTypeOK` |
| `CategoryTree` | 3 categories (one under another, one to create), 2 requests at a time, 3 in all, 1 error | `CategoriesAgree` |
| `Migrations` | 2 processes, 3 versions, 3 binaries (one older, one with an edited version), 3 runs, 1 break | `StatusHolds`, `SchemaGrowsInOrder` |
| `Pairing` | 2 flows, 2 presses, 2 codes, 1 logout, 1 trouble (drop, failed or slow call) | `ShownCodeIsLatest`, `LinkedStaysOnline` |
| `Sessions` | 2 login requests, 2 addresses, 2 cookies, 3 tries, time 0..3, 1 restart | `SessionsEnd`, `LimiterCounts` |
| `Calendar`, `Reports` | 120 days (ends of months, leap year, ordinary February), 6 kinds of entries, 2 in the book, every period key and filter | `DatesHold`, `ReportsAgree` |
| `Notices`, alerts | a category and its parent, 1 line, 2 changes in chat, 1 in the panel, 1 fault, 1 crash | `LevelsRise`, `MarkedIsSaid` |
| `Notices`, summaries | the three jobs, all preferences, 1 change in the panel, 1 fault, 1 crash | `SummaryOnce`, `MarkedIsSaid` |

**Why the bounds are enough.** Two messages are the least for an order; two
attempts are one that is the last and one that is not, which is all the code tells apart; workspaces share no row, worker
or token (`Recover`'s statements act on each row by itself), so one is enough. One fault and
one crash put a failure and a restart at every pair of steps. The trail of an entry
needs four events for create, delete, undo and a change, in every order, and as many for an entry
that is made, changed and undone around a change of kind. Two members, two entries and a session of
the panel, with four events, let an undo look, be overtaken and be undone itself. Two members and two entries make
every case of superseding; two rounds instead of three reach giving up sooner. Among the alerts
one line makes two candidates compete, as three would for the two lines of
the code; summaries and alerts use different keys, so a behaviour has
one or the other. Two requests are the least that interleave, and the third category is a
third level. Three versions make an order and a gap; an edited one blocks. Two flows are a
reader that outlives its attempt and its successor. The days hold every kind of month end; two
entries meet a boundary from both sides. In `reminders` two tries stand for ten, and two faults spend them; every life of the process starts
from the table alone, so one restart shows what any restart finds; one timer is
enough because timers share nothing but the order of late deliveries.
`SYMMETRY` is used for entries in `Conversation` and, in `MCParts`, for `x1` and `x2`, the two
goroutines or processes of whichever part moves; in runs without liveness only.

**Deadlock** is not checked (`CHECK_DEADLOCK FALSE`): with every budget spent and every
message closed the system rests.

**Fairness.** `Inbox.FairSpec` and `Reminders.FairSpec` assume weak fairness of the steps
the process itself takes: the Go scheduler runs every goroutine, tickers and
`time.AfterFunc` fire, clocks advance, and the supervisor restarts the process
(`docker-compose.yml`: `restart: always`). Every such step stays enabled until it is taken, so weak
fairness is enough. Nothing is assumed of deliveries, users, faults or crashes;
these are bounded, so in the end the process stays up. The run `inbox` lets any call
fail, but `EventuallyClosed` claims nothing once `wakeLost` holds: after a failed `RefreshGroups` or `wakePending`, each tried once
per start, and after an INSERT of `Accept` or an UPDATE of `Recover` that commits and loses its answer, a PENDING
row may have nobody to wake for it (see below).

### What the refuted properties show

* **`AppliedIsNotRefused`** (`inbox_refused`). `docs/finance/ARCHITECTURE.md:79` says that a
  message that already changed the ledger is closed DONE. When the *last* attempt
  commits a tool and then fails, `process` goes to `attempts >= MaxAttempts`
  (`inbox.go:387`), which does not ask: the row ends FAILED and the group is told to
  send the message again.
* **`UndoDropsNothing`** (`ledger_dropped`). `ledger.go:453-455` says of `ErrUndoStale` that
  reverting "would silently drop the later change". The look for later changes
  (`ledger.go:524`) comes before the row lock (`533`): in the trace the undo of a CREATE deletes
  the entry together with a change committed in between; an undone UPDATE would overwrite it.
* **`QuestionMatchesDraft`** (`conversation_panel`). `pending.go:167-172` says that questions
  stay consistent after a change "by any path (a tool, the panel)". The panel's handlers
  never call `SyncPendingForTx`.
* **`NeverLoops`** (`conversation_loops`). `pending.go:397-398` says that a few unresolved rounds end the
  question "so the conversation never loops", `ARCHITECTURE.md:140` that three do. `applyPending` asks for what is
  still missing without counting (`pending.go:389`): to a question for a category one may give amounts without end,
  and is asked each time. `GivesUp` says what does hold: each such answer buys one more question, nothing else does.
* **`IncomeBucketsAlike`** (`income_series`). `reports.go:272` says that `IncomeSeries` "buckets
  income the same way". The query it shares with `SpendingSeries` adds expenses and
  subtracts everything else (`reports.go:292`), so every point of the income series is
  negative; `web/finance.go:485` hands it to the panel as it is.

### Seen while modelling, without a run

* `wakePending`'s query is tried once (`inbox.go:243`). If it fails, PENDING rows left by the
  previous process wait for the next message of their workspace.
* An INSERT of `Accept` (`inbox.go:206`) that commits and loses its answer leaves a PENDING row that nobody is woken for, and so
  does `Recover`'s UPDATE (`inbox.go:459`), whose rows no later `Recover` matches; they wait the same way.
* `alreadyApplied` may fail as often as there are attempts: a message that changed the ledger is then FAILED and its
  author asked to send it again by an attempt that could not find out. `SilentReplay` says so.
* `UpdateCategory` changes the kind of a category without a look at its entries (`categories.go:233`): a CONFIRMED
  expense may be under a category of income. `ConfirmedIsComplete` excuses what the entry had before.
* `revoke`'s map is in memory: after a restart with the same `SESSION_SECRET` a cookie that logged out is accepted
  again until it expires (`auth.go:49-78`).
* The notice that a message failed is sent with the context of the attempt
  (`inbox.go:388`): when the attempt ended by its timeout the notice cannot be sent.
  A row that `Recover` fails is announced by nobody (`ARCHITECTURE.md:69`: "FAILED com aviso").
* An answer that quotes a question no longer open falls through to the sender's
  latest one (`pending.go:125`).
* `turn.pendingOpened` keeps an action another tool of the same turn has settled
  (`pending.go:151`, `agent_tools.go:595`).
* A turn that fails after `reaskPending` is retried and counts its round twice
  (`pending.go:154`).
* A timer created between boot and the restore's query is registered twice and alerts
  twice (`scheduler.go:295`); `AlertsAreAccounted` counts it as a reason.
* Two overlapping saves of the contact may leave none active (`db/helpers.go:46`): each
  inserts its own, then each deactivates the other.
* A reminder read before the jitter may leave after its appointment has begun; a
  summary may go to a group unlinked, or tell of entries deleted, during its jitter.
* A failed mark of a lower level is not looked at (`alerts.go:91-93`): that level may be
  announced later, below a higher one. `LevelsRise` excuses it.
* A PATCH with a kind and no parent sets the kind of a subcategory alone
  (`categories.go:180` says it always has its parent's); two requests that validate before
  either writes can build three levels. `CategoriesAgree` excuses both by name.
* The router's map may keep an older reading, or an unlinked group, until the next refresh
  (`inbox.go:133`); `MapFollowsTable` names the causes. A member shown by number alone and then by LID alone becomes
  two members.
* A boot applies the baseline only, but still refuses to when *any* recorded version was
  edited (`migrate.go`), also one the boot would not touch.
* `Connected` "reports whether the session is logged in and online" (`client.go:249`), but "success" sets `IsConnected`
  when the code was accepted (`client.go:187`), before the login completes as in any pairing, or after it has gone;
  the panel shows a session that is not online until the next event of the connection.
* "29/02" said in January of a leap year is 1 March of the year before (`dates.go:143`).
* A several-months period that starts on the 1st (as `this_year`) is compared with the
  month before its start (`dates.go:267-280`).
* A budget leaves out what was spent in an archived subcategory, the summary does not. A series
  drops the baseline's days beyond its own last bucket. That happens also when the baseline has no more days than the
  period: 501 days that end on 28 October 2025 touch 17 months, the 501 days before them 18. `SeriesAddUp`
  therefore compares buckets, not days; the proof asked for it.
* After more than 10,000 addresses the limiter drops idle ones and may count a failure twice
  (`auth.go:384-390`).
* A flow started by a logout never asks whether the device was linked meanwhile; a restart
  asks and then disconnects in two steps; "success" read late marks a session that has gone, read early one that is not there yet; a
  failed connection at boot is not tried again (`client.go`). `LinkedStaysOnline` names each.
* An appointment whose reminder cannot be inserted exists, though the tool reports a failure
  (`db/helpers.go:100`).
* Every send that returns an error is taken to have sent nothing.

## 4. Proofs

### The inbox

`InboxProofs` proves, for any workspaces, messages, bound on attempts, crashes and faults, with `Timely`
either way, from `InboxAssumption` alone:

| Theorem | States |
|---|---|
| `Invariance` | `Spec => []Inv` |
| `TypeCorrect` | `TypeOK`, and so that attempts never exceed `MaxAttempts` |
| `AtMostOnce` | `AppliedOnce` |
| `Ordered` | `InOrder` |
| `ReplaySilent` | `SilentReplay`: no later answer, and no notice of an attempt that found out |
| `ClaimHits` | `ClaimNeverMisses`: the branch of `Drain` for a missed claim is unreachable, which is why `Inbox` leaves it out |
| `Freshness` | assuming `Timely`, `[]FreshInv`: `Recover` never takes the row a worker is at |
| `ImplementsQueue` | assuming `Timely`, `QueueSpec`: the inbox implements `OrderedQueue` |
| `ClosedForGood` | assuming `Timely`, `TerminalIsFinal` |

None of the invariants is inductive. `InOrder` needs to know that the row a worker is
about to claim was, and still is, the head of its queue; `AppliedOnce` that while the agent
runs, the ledger has rows of this attempt only; both that a worker holds a row of its own
workspace. Hence

    Inv == TypeOK /\ RowInv /\ HoldInv /\ ApplyInv /\ HeadInv /\ InOrder /\ AppliedOnce /\ SilentReplay

* `RowInv`: a row is absent iff it has no id; ids are below the next one; a PENDING
  row has attempts left; what was applied or answered was so by an attempt made; a notice of an error is the last attempt's.
* `HoldInv`: a worker past `ReadHead` holds a row of its workspace; a row about to be claimed is
  PENDING, a row in `process` has been attempted.
* `ApplyInv`: in `handle`, and with an answer to send, the ledger has rows of the current
  attempt at most.
* `HeadInv`: rows behind the held one are untouched, rows before it closed.

There is one lemma per action (`ClaimInv`, `FinishInv`, `RecoverAppliedInv`, …), a few
shared ones for actions that leave rows alone (`QuietInv`, `TokenStepInv`) or release
rows (`RecoverStepInv`), `NextInv` puts them together and `Invariance` is the temporal step.

Why `AppliedOnce` holds without `Timely`: a worker asks `AlreadyApplied` after its claim, a
claim needs a PENDING row, and only one worker exists per workspace, so the worker
whose row `Recover` released is the same that would claim it again.

The refinement and `TerminalIsFinal` are false without `Timely`: a worker whose row was taken by `Recover` would
close a message a second time. `FreshInv` says what `Timely` adds: the row of a worker in `process` is
PROCESSING and not stale, so no statement of `Recover` matches it. Then every step of the inbox
is a step of `OrderedQueue` or leaves its variables alone, one lemma per kind of step: `Accept`
puts a message at the end, the first commit of an attempt applies the head, `finishInbox` and the last
`Recover` close it, and everything else is a stutter.

### The ledger

`LedgerProofs`, for any members, panel sessions, entries, batches, drafts, patches and length of the
trail, from `LedgerAssumption` alone:

| Theorem | States |
|---|---|
| `LedgerTyped` | `TypeOK` |
| `TrailTellsAll` | `AuditChain` |
| `RevertedOnce` | `UndoneOnce` |
| `ConfirmedLacksNothing` | `ConfirmedIsComplete`, with any changes of kind |
| `SeenIsKept` | `UndoDropsNothingSeen`: an undo drops nothing that was there when it looked |
| `ImplementsStack` | `StackSpec`: the ledger implements `UndoStack` |

None of them assumes anything of who commits when: other clients may write between the steps of an undo.

    LedgerInv == LedgerTypes /\ RowsInv /\ ChainInv /\ UndoneInv /\ LockInv

* `RowsInv`: every row, and every row an event may lead back to, is complete if CONFIRMED.
  `ConfirmedIsComplete` alone is not inductive: an undo restores a row of the past.
* `ChainInv` says of one entry, its row and the trail what `AuditChain` says (`Chained`), so that
  lemmas about appending, marking and foreign events (`ChainAppend`, `ChainMark`, `ChainOther`, `ChainFresh`)
  can be stated about any sequence.
* `UndoneInv`: marks point forward, to an UNDO of the same entry, no two to the same one, and every
  UNDO has one.
* `LockInv`: an event that a client has locked is in effect and locked by nobody else, and a later change of its
  entry in effect is one that came after the client looked. This is what `SeenIsKept` says of the moment of reverting.
* `KindInv`, beside `LedgerInv`: what an entry has now or may get back was written once, and fits its category or was there before
  the category last changed its kind.

One lemma per kind of step: `CreateKeeps`, `OneChange` (updating, deleting), `PickKeeps`,
`LockKeeps`, `RevertKeeps`, `ReleaseKeeps`, and `SameTrail` for those that write nothing.

The refinement needs one more invariant. `ChainInv` is about all events of an entry, undone or not;
`StackInv` says the same of the changes *in effect* of an entry that is not torn: each started from what the one below it
left, the lowest one and no other is the CREATE, and the row is what the top one left (with none, the entry is not to be
seen). An entry is torn by the revert of a change that is no longer the top one, which `LockInv` allows only for a
change put on top since the undo looked. To the stack of
an entry a step does one of three things, `Leaves`, `Pushes` or `Pops`; what each does to the stack is proved
once, about any two trails (`LeavesStack`, `PushesStack`, `PopsStack`, …), and each action is
then shown to be one of them for every entry.

### Open questions

`ConversationProofs`, for any members, entries, reasons, tools and bounds, from the assumption of
`Conversation` alone:

| Theorem | States |
|---|---|
| `TypesOK` | `TypeOK` |
| `OneQuestionOpen` | `OneOpenQuestion` |
| `SettledStays` | `SettledIsFinal` (an action property) |
| `AnswersOpenQuestions` | `AnswersReachOpenQuestions` |
| `AsksAreBounded` | `GivesUp` |
| `QuestionsFit` | `QuestionMatchesDraft`, as long as no turn failed and the panel changed nothing |

The first five hold with every fault, retry and change of the panel. The last one carries its premise
inside the box, `[](faults = 0 /\ edits = 0 => ...)`: a turn that fails between the change and
`SyncPendingForTx` leaves the question behind, and why the panel is excluded the run `conversation_panel` shows.

    ConversationInv == TableTypes /\ TurnTyped /\ StepInv /\ OneOpenQuestion /\ OwnInv /\ ReadInv /\ FitInv

* `StepInv`: what a turn has at hand at each step; `OwnInv`: an entry has one question in its life.
* `ReadInv`: what the turn read of the question it answers is still so, whatever the panel does (it writes no
  question), until a tool of the turn succeeds. `AnswersReachOpenQuestions` follows from it.
* `RoundsInv`, beside it: how often a question was asked, and is about to be, is bounded by its counter of attempts and
  the answers taken. It counts what may still be asked, because a turn that fails after counting asks nothing.
* `FitInv`: an open question asks for what its entry lacks, unless the turn is between the two changes.

### Reminders

`RemindersProofs`, for any timers, appointments, contacts, retries, crashes and faults: `TypesOK` (`TypeOK`),
`NothingForgotten` (`NoTimerForgotten`), `AlertsAccounted` (`AlertsAreAccounted`)
and `OneContact` (`OneTarget`).

    RemindersInv == Types /\ TimerInv /\ BusyInv /\ AppointmentInv /\ ContactInv

* `TimerInv` has three parts. `Sourced`: a timer has one alarm, or one to come, from the tool and one from
  the restore. `Alerted`: alerts sent *and still owed* are one and one more per excuse; counting only
  those sent is not inductive, because an alarm already registered will still ring. `Remembered`: once the restore has read the table,
  each pending timer is being created, was read, has an alarm, or was dropped.
* `BusyInv` and `AppointmentInv`: the restore and the worker have one alert in hand at most, and what they have in hand is not yet marked.
* `ContactInv`: of the active contacts all but one are about to be deactivated, that is, saves in progress.

### Who is who

`DatabaseProofs`, for any people, groups, listings and requests, from `DirectoryAssumption`: `DirectoryTyped`
(`DirectoryTypeOK`) and three more.
`RowsKeepTheirPerson` (`OnePersonPerRow`) and `SplitsAreExcused` (`SplitIsExcused`) rest on `MemberInv`: the two
unique indexes hold; each row belongs to one person; the row an `UpsertMember` has read
belongs to the person it registers; and, unless a person was shown by number alone *and* by
LID alone, all rows of the person share the identity every listing had in common, so that
`FindMember` finds the row there is. `RouterFollows` (`MapFollowsTable`) rests on `RouterInv`, which adds that only a link or an unlink
gets to the UPDATE and the refresh, and that a participant is registered by a request that is at its
members: a step of one request then leaves the others where they were, on their way to the refresh or past it.

### Categories

`TreeAgrees` (`CategoriesAgree`), for any seeded tree and any requests: a write that its validation still
allows keeps two levels, because a request works on a category that is there, or on a new
one nobody else works on (`PatchInv`), and kinds differ only while one is being passed on.
`PanelProofs` has this proof and the next three.

### Pairing

`CodeShownIsLatest` (`ShownCodeIsLatest`) and `LinkStaysUp` (`LinkedStaysOnline`), with the types (`PairingTyped`), for any
flows, presses, codes, drops and logouts:

    PairingInv == PairingTypes /\ FlowInv /\ DeviceInv /\ UnderInv /\ ScreenInv /\ ReaderInv /\ LinkedStaysOnline

* `FlowInv`: one flow is past the mutex, and from its teardown until it connects there is no session.
* `DeviceInv`: a login needs a linked device on a socket; the channels of a linked device are closed.
* `UnderInv`: a flow that nothing stops any more from disconnecting a linked device started, or looked, before the
  link, which `linkedUnder` remembers.
* `ScreenInv`: a code on the screen has a reader that will clear it, or whose channel is still open.
* `ReaderInv`: as long as no shutdown lasted longer than a flow waits, there is one reader, the session's, with codes
  of the latest connection. That a code can still be scanned is not claimed: its socket may have dropped and the reader not know.

The content of the channels is a sequence of sequences; lemmas about what a step does to such a table
(`Tells`, `Reads`, `Becomes`, `Opens`) are stated for any table and cited by the actions.

### Logouts

`LogoutIsFinal` (`SessionsEnd`), for any windows, cookies and restarts: a cookie that logged out is accepted again only with
`SESSION_SECRET` and after a restart. It rests on `CookieInv`: no cookie outlives `now + SessionTTL`; an id that logged out in
this life is in the map until its cookie has expired, which makes dropping expired ids in `revoke` safe; and without the
secret the key of a cookie that logged out is not of a later life than the logout.

### The login limiter

`LimiterNeverMiscounts` (`LimiterCounts`) and `SessionsTyped` (`SessionsTypeOK`), for any limits, windows, addresses and any
finite number of concurrent requests, from `SessionsAssumption`.

    LimiterInv == LimiterTypes /\ for every address:
        /\ Covers(FailedAt(ip), failures[ip], Since, ~swept)
        /\ After(failures[ip], Since) + Cardinality(Checking(ip)) <= MaxPerIP - 1 + Cardinality(Logins)

* The first says that for every moment in the window the limiter counts at least the failures there were since,
  and exactly those unless addresses were swept. `LimiterCounts` speaks of the window of *now* only;
  time moves it, so the invariant needs all later windows.
* The second counts with the failures those still to come: a request past the question and
  before its answer is known. The bound is reached when all requests ask before one of them fails.

What the loop of `prune` leaves, and that pruning in place leaves the aliased list a list that counts no less,
is shown by induction over the list (`Prune`, `InPlace`).

### Migrations

`DatabaseProofs`: `MigrationsTyped` (`MigrationTypeOK`), `StatusStaysTrue` and `SchemaOrdered`, for any processes, binaries, versions and breaks:
`MigrationInv` adds to the two properties that a run past the lock whose connection lives is
its holder (`LockInv`), and that what a run believes done is done (`RunInv`). The
order of the versions needs only the second, which survives a broken connection: the
unique version in `schema_migrations` makes the commit of a run that lost its lock fail.

### Summaries and alerts

`OneSummary`, `LevelsOnlyRise` and `NothingForgotten`, for any workspaces, categories and limits and with every
fault and crash, with the types (`NoticesTyped`). The summaries and the alerts share only the table of keys;
each has an invariant and a frame lemma for the steps of the other.

* `SummaryInv`: a key that was claimed has exactly one job at work on it, and was not
  delivered; a delivered key stays. `SummaryOnce` alone is not inductive: a second claim
  must be impossible while the first job still has to send.
* `AlertInv`: candidates and lines of one turn are of different categories; what was
  said, or is about to be, is keyed, and so is every level below it, unless it is still to be marked
  or its mark failed. Hence a new key of a category is above all that was said.

### Reports and dates

`ReportsProofs`, for every day after 2021, any finite sets of categories and members, any entries dated with days that
exist, and any number of them, from `ReportsAssumption`:

| Theorem | States |
|---|---|
| `ReportsTyped` | `ReportsTypeOK` |
| `DatesHoldEveryDay` | `DatesHold`: the run asks on 120 days, the theorem on every day after 2021 |
| `ReportsAlwaysTellOneStory` | `ReportsAgree`: the run has two entries in the book, the theorem any number |

The invariant is the type alone: both properties are of the functions, and their proofs are lemmas.

* The calendar. Months are numbered through; `MonthStart(k)` is the day before month `k`, and every day belongs to
  the one month, its `Serial`, whose days it is among. The year, the month and the day of a date, the length of a
  month and `AddMonths` are told in these terms; what the properties say of weeks, months and baselines is
  then inequalities.
* The sums. That `SumOf` has a value, that the order of its terms does not matter, and that sorting rows into
  groups changes no total, is induction over the subsets of a finite set. Every figure of a report is
  then the sum of `Net` or `Earned` over the rows of a period, and two figures agree because they are of the same rows.

### Induction without an operator parameter

The theorems of the library that state induction take the formula as an operator, which these provers cannot
instantiate. The lemmas that need it take a least counterexample instead: a set of numbers that is not empty has a
least element (`NatLessThanWellFounded`, `WFMin`), a set of subsets of a finite set a smallest
one (`FS_StrictSubsetOrderingWellFounded`). It is enough for recursive functions over numbers or sets. It is
not for `SelectSeq`, which the prover cannot expand; `Sessions!Prune` is therefore the loop that `auth.go` has, a
function of how many elements it has seen.

### Model-checked only

* Liveness, `EventuallyClosed` and `EventuallyAlerted`: TLAPS does not reach fairness.
* `PartsTypeOK`, only because it is a conjunction over the parts `MCParts` composes: each of its
  conjuncts is a theorem about the specification of its part (`CategoriesTyped`, `MigrationsTyped`, `PairingTyped`,
  `NoticesTyped`, `DirectoryTyped`, `SessionsTyped`, `ReportsTyped`).

## 5. Not modelled

* Texts, prompts and what the language model answers: nondeterministic choices.
* Regular expressions and string handling of dates, money and names.
* The statistics behind four of the five kinds of alert; percentages, projections and
  ranks of the reports; the sentences of `insights.go`, `views.go`, `report_tools.go`.
* Media download, extraction, transcription: calls that succeed or fail inside a turn. The
  duplicate score of receipts is a sum of similarities without state.
* The personal assistant's notes, shopping list and chat history: single statements.
* HTTP plumbing, cross-origin checks, the front end, configuration, deployment.
* The development fakes (`fakellm.go`, `whatsapp/fake.go`).

## 6. Plan

1. *Done:* `Inbox` with `OrderedQueue`; `Ledger` with `UndoStack`; `Conversation`; `Notices`; `Reminders`;
   `Directory`; `CategoryTree`; `Migrations`; `Pairing`; `Sessions`; `Calendar` and `Reports`; the proofs of
   section 4.
2. *Next, the model:* the queue of receipts with their duplicate check, `ParseAmount` against a
   reference definition, the tool loop of the personal assistant with its chat history; the
   inbox composed with the conversation and with the group's unlinking.
3. *Next, the proofs:* those of item 2. Every invariant and action property of the present runs is stated by a
   theorem, apart from what "Model-checked only" names.
