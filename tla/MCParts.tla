------------------------------ MODULE MCParts -------------------------------
(* The parts that share no state with one another, side by side: a          *)
(* behaviour moves one of them, the rest stays where it started.            *)
(*                                                                         *)
(* Alerts and summaries (Notices) use different keys and share only the     *)
(* spending: an instance has one or the other, alerts from an empty month   *)
(* on.  See MCReports for the entries and the days of the reports.          *)
EXTENDS Directory, CategoryTree, Migrations, Pairing, Sessions, Notices, MCReports

CONSTANTS w1, home, p1, p2, g1, c1, c2, c3, x1, x2

VARIABLE focus

notices == vars
partsVars == <<focus, directoryVars, categoryVars, migrationVars, pairingVars, sessionsVars, reportVars, notices>>

(* Directory: WhatsApp shows p1 by number or in full, p2 by LID.           *)
NumberAndLid == {{<<p1, "phone">>}, {<<p1, "both">>, <<p2, "lid">>}}

(* CategoryTree: c2 under c1, c3 to be created.                            *)
OneUnderOther == (c1 :> Top) @@ (c2 :> c1)
Expenses == (c1 :> "EXPENSE") @@ (c2 :> "EXPENSE")

(* Migrations: the deploys before and after the last migration, and one     *)
(* that edited a migration already applied.                                *)
Deploys == {[top |-> 2, edited |-> {}], [top |-> 3, edited |-> {}], [top |-> 3, edited |-> {2}]}

(* Notices: an entry counts for its category and the parent.               *)
ChildAndParent == {{home}, {food, home}}
AllFaults == {"render", "claim", "send", "release", "read", "mark", "reply"}

(* Where each part starts, and stays when it is another one that moves.     *)
Start ==
  LET moves == focus = "summaries"
  IN /\ fired = IF moves THEN {} ELSE Jobs
     /\ changes = IF moves THEN MaxChanges ELSE 0
     /\ spent \in [Workspaces \X Categories -> IF moves THEN 0..1 ELSE {0}]
     /\ ~moves => monthly = [w \in Workspaces |-> "off"] /\ weekly = [w \in Workspaces |-> FALSE]
     /\ Init

PartsInit ==
  /\ focus \in {"directory", "categories", "migrations", "pairing", "sessions", "reports", "alerts", "summaries"}
  /\ DirectoryInit /\ CategoryInit /\ MigrationInit
  /\ PairingInit /\ (focus # "pairing" => deviceLinked /\ wire = "up")
  /\ SessionsInit /\ (focus # "sessions" => secret)
  /\ ReportsInit /\ (focus # "reports" => today = Civil(2024, 3, 31))
  /\ Start

AlertsNext == Crash \/ \E w \in Workspaces : TurnStep(w) \/ \E c \in Categories : ChangeInPanel(w, c)

SummariesNext ==
  \/ DayPasses \/ Crash
  \/ \E j \in Jobs : RunJob(j) \/ \E w \in Workspaces : JobStep(j, w)
  \/ \E w \in Workspaces : UpdateSettings(w) \/ LinkGroup(w)

PartsNext ==
  /\ UNCHANGED focus
  /\ \/ focus = "directory" /\ DirectoryNext
        /\ UNCHANGED <<categoryVars, migrationVars, pairingVars, sessionsVars, reportVars, notices>>
     \/ focus = "categories" /\ CategoryNext
        /\ UNCHANGED <<directoryVars, migrationVars, pairingVars, sessionsVars, reportVars, notices>>
     \/ focus = "migrations" /\ MigrationNext
        /\ UNCHANGED <<directoryVars, categoryVars, pairingVars, sessionsVars, reportVars, notices>>
     \/ focus = "pairing" /\ PairingNext
        /\ UNCHANGED <<directoryVars, categoryVars, migrationVars, sessionsVars, reportVars, notices>>
     \/ focus = "sessions" /\ SessionsNext
        /\ UNCHANGED <<directoryVars, categoryVars, migrationVars, pairingVars, reportVars, notices>>
     \/ focus = "reports" /\ ReportsNext
        /\ UNCHANGED <<directoryVars, categoryVars, migrationVars, pairingVars, sessionsVars, notices>>
     \/ focus = "alerts" /\ AlertsNext
        /\ UNCHANGED <<directoryVars, categoryVars, migrationVars, pairingVars, sessionsVars, reportVars>>
     \/ focus = "summaries" /\ SummariesNext
        /\ UNCHANGED <<directoryVars, categoryVars, migrationVars, pairingVars, sessionsVars, reportVars>>

PartsSpec == PartsInit /\ [][PartsNext]_partsVars

(* x1 and x2 are the two goroutines, or processes, of whichever part moves. *)
Interchangeable == Permutations({x1, x2})

(* The parts keep their types; among them: one workspace whatever the first *)
(* requests do (Directory), replies of at most maxAlertLines (Notices).     *)
PartsTypeOK ==
  /\ DirectoryTypeOK /\ CategoryTypeOK /\ MigrationTypeOK /\ PairingTypeOK
  /\ SessionsTypeOK /\ ReportsTypeOK /\ TypeOK
=============================================================================
