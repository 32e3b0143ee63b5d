----------------------------- MODULE Directory ------------------------------
(***************************************************************************)
(* Who is who: the workspace, its linked group and its members.            *)
(* backend/finance/workspace.go, groups.go, inbox.go 133-196,              *)
(* web/finance_whatsapp.go, whatsapp/message.go (Decide).                  *)
(*                                                                         *)
(* Requests of the panel run in goroutines of their own and link, unlink   *)
(* or synchronise the group; the WhatsApp event handler, one goroutine,    *)
(* registers the sender of each message of the linked group.  Every SQL    *)
(* statement is a step.  The router does not read the table: it reads a    *)
(* map that RefreshGroups fills with what it has queried before.           *)
(*                                                                         *)
(* A person has a phone-number JID and a LID; WhatsApp shows one of them   *)
(* or both, message by message and listing by listing.  Names are left out. *)
(***************************************************************************)
EXTENDS Naturals, Sequences, FiniteSets

CONSTANTS
  People,
  Groups,
  Listings,       \* the participant lists WhatsApp may give
  Requests,       \* request goroutines of the panel
  NoActor,
  MaxRequests,    \* bound: requests the panel makes
  MaxMessages,    \* bound: messages the group receives
  MaxDirErrors    \* bound: calls to the database or to WhatsApp that fail

Handler == "handler"
Actors == Requests \cup {Handler}

(* How a message or a participant list shows a person.                     *)
Faces == {"phone", "lid", "both"}

ASSUME DirectoryAssumption ==
  /\ Handler \notin Requests
  /\ Listings \subseteq SUBSET (People \X Faces)
  /\ NoActor \notin Actors
  /\ MaxRequests \in Nat /\ MaxMessages \in Nat /\ MaxDirErrors \in Nat

VARIABLES
  wsRows,      \* rows of finance_workspaces
  creating,    \* who holds the advisory lock 727002
  groupRow,    \* group_jid and group_linked_at of the workspace
  links,       \* links made so far, the clock of group_linked_at
  members,     \* finance_members in id order
  groupMap,    \* ing.groups
  blame,       \* why the map may differ from the table
  req,         \* request -> what it is about to do
  upsert,      \* actor -> the participant UpsertMember is registering
  faces,       \* person -> the ways WhatsApp showed them
  refused,     \* people refused by the unique index with nobody in between
  authors,     \* <<person, row>>: whose message was stored under which member
  opened, received, dirErrors

tableVars == <<wsRows, creating, groupRow, links>>
memberVars == <<members, faces, refused, authors>>
routerVars == <<groupMap, blame>>
dirBounds == <<opened, received, dirErrors>>
directoryVars == <<tableVars, memberVars, routerVars, req, upsert, dirBounds>>

NoId == <<"null", "null">>
Phone(p) == <<"phone", p>>
Lid(p) == <<"lid", p>>

NotLinked == [jid |-> "none", at |-> 0]

(* MemberInput: the JID is the phone number's when known, the LID else     *)
(* (ExtractMessage, syncMembers).                                          *)
MemberInput(p, face) ==
  [jid |-> IF face = "lid" THEN Lid(p) ELSE Phone(p),
   lid |-> IF face = "phone" THEN NoId ELSE Lid(p),
   phone |-> IF face = "lid" THEN NoId ELSE Phone(p)]

(* Mutant: an identity nobody has matches every row without it.            *)
IdentitiesWithNull(in) == {in.jid, in.lid, in.phone}

Identities(in) == {in.jid, in.lid, in.phone} \ {NoId}

IdleRequest == [pc |-> "free", op |-> "none", group |-> NotLinked.jid, reading |-> NotLinked, todo |-> {}]
IdleUpsert == [pc |-> "none", who |-> NoActor, face |-> "none", row |-> 0, size |-> 0]

DirectoryInit ==
  /\ wsRows = 0
  /\ creating = NoActor
  /\ groupRow = NotLinked
  /\ links = 0
  /\ members = <<>>
  /\ groupMap = NotLinked
  /\ blame = {}
  /\ req = [r \in Requests |-> IdleRequest]
  /\ upsert = [a \in Actors |-> IdleUpsert]
  /\ faces = [p \in People |-> {}]
  /\ refused = {}
  /\ authors = {}
  /\ opened = 0 /\ received = 0 /\ dirErrors = 0

At(r, pc) == req[r].pc = pc
Goto(r, pc) == req' = [req EXCEPT ![r].pc = pc]
Done(r) == req' = [req EXCEPT ![r] = IdleRequest]

NoDirError == UNCHANGED dirErrors
DirError == dirErrors < MaxDirErrors /\ dirErrors' = dirErrors + 1

-----------------------------------------------------------------------------
(* DefaultWorkspace, which api.ws calls before every handler.              *)

OpenRequest(r, op, g) ==
  /\ At(r, "free")
  /\ opened < MaxRequests
  /\ opened' = opened + 1
  /\ req' = [req EXCEPT ![r] = [IdleRequest EXCEPT !.pc = "default", !.op = op, !.group = g]]
  /\ UNCHANGED <<tableVars, memberVars, routerVars, upsert, received, dirErrors>>

(* Where a handler starts once it has its workspace: SyncMembers has       *)
(* nothing to do without a group.                                          *)
Enter(r) ==
  CASE req[r].op = "link" -> Goto(r, "info")
    [] req[r].op = "unlink" -> Goto(r, "update")
    [] OTHER -> IF groupRow = NotLinked THEN Done(r) ELSE Goto(r, "info")

ReadDefault(r) ==
  /\ At(r, "default")
  /\ IF wsRows > 0 THEN Enter(r) ELSE Goto(r, "lock")
  /\ UNCHANGED <<tableVars, memberVars, routerVars, upsert, dirBounds>>

LockCreation(r) ==
  /\ At(r, "lock")
  /\ creating = NoActor
  /\ creating' = r
  /\ Goto(r, "create")
  /\ UNCHANGED <<wsRows, groupRow, links, memberVars, routerVars, upsert, dirBounds>>

(* Mutant: no second look.                                                 *)
WorkspaceUnlooked == TRUE

(* The second look, under the lock.                                        *)
WorkspaceMissing == wsRows = 0

(* The second look and the insert commit together, and release the lock.   *)
CreateDefault(r) ==
  /\ At(r, "create")
  /\ wsRows' = IF WorkspaceMissing THEN wsRows + 1 ELSE wsRows
  /\ creating' = NoActor
  /\ Enter(r)
  /\ UNCHANGED <<groupRow, links, memberVars, routerVars, upsert, dirBounds>>

-----------------------------------------------------------------------------
(* LinkGroup, UnlinkGroup, SyncMembers.                                    *)

(* GroupInfo: WhatsApp lists the participants, or is not connected. (The   *)
(* label UpdateGroupName keeps is left out.)                               *)
GroupInfo(r) ==
  /\ At(r, "info")
  /\ \/ /\ NoDirError
        /\ \E listing \in Listings :
             req' = [req EXCEPT ![r].todo = listing,
                                ![r].pc = IF req[r].op = "link" THEN "update" ELSE "members"]
     \/ DirError /\ Done(r)
  /\ UNCHANGED <<tableVars, memberVars, routerVars, upsert, opened, received>>

(* Mutant: an unlink answers without RefreshGroups.                        *)
UpdateRowUnrefreshed(r) ==
  /\ At(r, "update") /\ NoDirError
  /\ IF req[r].op = "link"
     THEN links' = links + 1 /\ groupRow' = [jid |-> req[r].group, at |-> links + 1] /\ Goto(r, "members")
     ELSE groupRow' = NotLinked /\ Done(r) /\ UNCHANGED links
  /\ UNCHANGED <<wsRows, creating, memberVars, routerVars, upsert, opened, received>>

(* Service.LinkGroup and Service.UnlinkGroup: one UPDATE of the row.       *)
UpdateRow(r) ==
  /\ At(r, "update")
  /\ \/ /\ NoDirError
        /\ IF req[r].op = "link"
           THEN /\ links' = links + 1
                /\ groupRow' = [jid |-> req[r].group, at |-> links + 1]
                /\ Goto(r, "members")
           ELSE groupRow' = NotLinked /\ Goto(r, "query") /\ UNCHANGED links
     \/ DirError /\ Done(r) /\ UNCHANGED <<groupRow, links>>
  /\ UNCHANGED <<wsRows, creating, memberVars, routerVars, upsert, opened, received>>

(* A request that changed the row and returns before RefreshGroups.        *)
Unrefreshed(r) == IF req[r].op \in {"link", "unlink"} THEN {"unrefreshed"} ELSE {}

(* RefreshGroups: the query, then the store under ing.mu.                  *)
QueryGroups(r) ==
  /\ At(r, "query")
  /\ \/ NoDirError /\ req' = [req EXCEPT ![r].pc = "store", ![r].reading = groupRow] /\ UNCHANGED blame
     \/ DirError /\ blame' = blame \cup Unrefreshed(r) /\ Done(r)
  /\ UNCHANGED <<tableVars, memberVars, groupMap, upsert, opened, received>>

(* The status page that answers a link synchronises the members once more. *)
StoreGroups(r) ==
  /\ At(r, "store")
  /\ groupMap' = req[r].reading
  /\ blame' = IF req[r].reading = groupRow THEN {} ELSE blame \cup {"overtaken"}
  /\ IF req[r].op = "link" THEN req' = [req EXCEPT ![r].pc = "default", ![r].op = "sync"] ELSE Done(r)
  /\ UNCHANGED <<tableVars, memberVars, upsert, dirBounds>>

-----------------------------------------------------------------------------
(* UpsertMember: FindMember, then an UPDATE or an INSERT.                  *)

(* Mutant: only the JID column is compared.                                *)
MatchesJID(i, ids) == members[i].jid \in ids

Matches(i, ids) == {members[i].jid, members[i].lid, members[i].phone} \cap ids # {}

(* ORDER BY id LIMIT 1; 0 is ErrNotFound.                                  *)
FirstMatch(ids) ==
  IF \E i \in DOMAIN members : Matches(i, ids)
  THEN CHOOSE i \in DOMAIN members :
         Matches(i, ids) /\ \A j \in DOMAIN members : Matches(j, ids) => i <= j
  ELSE 0

FindMember(in) == FirstMatch(Identities(in))

StartUpsert(a, p, face) ==
  /\ upsert' = [upsert EXCEPT ![a] =
       [pc |-> "write", who |-> p, face |-> face, row |-> FindMember(MemberInput(p, face)), size |-> Len(members)]]
  /\ faces' = [faces EXCEPT ![p] = @ \cup {face}]

(* syncMembers takes the next participant of the listing.                  *)
NextParticipant(r) ==
  /\ At(r, "members")
  /\ upsert[r] = IdleUpsert
  /\ \E next \in req[r].todo :
       /\ StartUpsert(r, next[1], next[2])
       /\ req' = [req EXCEPT ![r].todo = @ \ {next}]
  /\ UNCHANGED <<tableVars, members, refused, authors, routerVars, dirBounds>>

MembersSynced(r) ==
  /\ At(r, "members")
  /\ req[r].todo = {} /\ upsert[r] = IdleUpsert
  /\ IF req[r].op = "link" THEN Goto(r, "query") ELSE Done(r)
  /\ UNCHANGED <<tableVars, memberVars, routerVars, upsert, dirBounds>>

(* The column keeps what it has: COALESCE(lid, NULLIF($3, '')).            *)
Coalesce(old, new) == IF old = NoId THEN new ELSE old

Merged(row, in) ==
  [row EXCEPT !.lid = Coalesce(row.lid, in.lid), !.phone = Coalesce(row.phone, in.phone)]

(* finance_members_lid_uq.                                                 *)
LidTaken(lid, i) == lid # NoId /\ \E j \in DOMAIN members : j # i /\ members[j].lid = lid

(* UNIQUE (workspace_id, jid), the conflict INSERT names.                  *)
SameJID(in) == {i \in DOMAIN members : members[i].jid = in.jid}

(* What the statement does: the row it returns (0 on a unique violation)   *)
(* and the table it leaves.                                                *)
Written(row, in) ==
  IF row # 0
  THEN IF LidTaken(Merged(members[row], in).lid, row)
       THEN [row |-> 0, table |-> members]
       ELSE [row |-> row, table |-> [members EXCEPT ![row] = Merged(@, in)]]
  ELSE IF SameJID(in) # {}
       THEN [row |-> CHOOSE i \in SameJID(in) : TRUE, table |-> members]
       ELSE IF LidTaken(in.lid, 0)
            THEN [row |-> 0, table |-> members]
            ELSE [row |-> Len(members) + 1, table |-> Append(members, in)]

(* Nobody inserted a member since this UpsertMember looked.                *)
Alone(a) == Len(members) = upsert[a].size

(* The caller's next step: Accept stores the message under the member it   *)
(* got, and drops the message on an error; syncMembers returns the error,  *)
(* and with it LinkGroup, before RefreshGroups.                            *)
AfterUpsert(a, row) ==
  IF a = Handler
  THEN /\ authors' = IF row = 0 THEN authors ELSE authors \cup {<<upsert[a].who, row>>}
       /\ UNCHANGED <<req, blame>>
  ELSE /\ UNCHANGED authors
       /\ IF row = 0 THEN Done(a) /\ blame' = blame \cup Unrefreshed(a) ELSE UNCHANGED <<req, blame>>

WriteMember(a) ==
  LET w == Written(upsert[a].row, MemberInput(upsert[a].who, upsert[a].face))
  IN /\ upsert[a].pc = "write"
     /\ upsert' = [upsert EXCEPT ![a] = IdleUpsert]
     /\ \/ /\ NoDirError
           /\ members' = w.table
           /\ refused' = IF w.row = 0 /\ Alone(a) THEN refused \cup {upsert[a].who} ELSE refused
           /\ AfterUpsert(a, w.row)
        \/ DirError /\ AfterUpsert(a, 0) /\ UNCHANGED <<members, refused>>
     /\ UNCHANGED <<tableVars, faces, groupMap, opened, received>>

-----------------------------------------------------------------------------
(* The router and Accept.                                                  *)

(* Decide: the route of a message. `chat` is a group, "private" (the       *)
(* configured number writes) or something the app ignores.                 *)
Decide(m) ==
  IF m.fromMe \/ m.chat = "broadcast" THEN "ignore"
  ELSE IF m.chat \in Groups THEN (IF m.chat = groupMap.jid THEN "finance" ELSE "ignore")
  ELSE "secretary"

(* Accept drops what was sent before the link; the rest registers its      *)
(* sender. `sent` counts the links made before the message was sent.       *)
Receive(m) ==
  /\ upsert[Handler] = IdleUpsert
  /\ received < MaxMessages
  /\ received' = received + 1
  /\ Decide(m) = "finance"
  /\ m.sent >= groupMap.at
  /\ StartUpsert(Handler, m.from, m.face)
  /\ UNCHANGED <<tableVars, members, refused, authors, routerVars, req, opened, dirErrors>>

GroupMessages ==
  [from : People, face : Faces, fromMe : BOOLEAN, chat : Groups \cup {"private", "broadcast"}, sent : 0..links]

-----------------------------------------------------------------------------
RequestStep(r) ==
  \/ ReadDefault(r) \/ LockCreation(r) \/ CreateDefault(r)
  \/ GroupInfo(r) \/ UpdateRow(r) \/ QueryGroups(r) \/ StoreGroups(r)
  \/ NextParticipant(r) \/ MembersSynced(r)

DirectoryNext ==
  \/ \E r \in Requests, op \in {"link", "unlink", "sync"}, g \in Groups : OpenRequest(r, op, g)
  \/ \E r \in Requests : RequestStep(r)
  \/ \E a \in Actors : WriteMember(a)
  \/ \E m \in GroupMessages : Receive(m)

DirectorySpec == DirectoryInit /\ [][DirectoryNext]_directoryVars

-----------------------------------------------------------------------------
(* Properties.                                                             *)

Links == [jid : Groups \cup {"none"}, at : Nat]
Rows == [jid : {Phone(p) : p \in People} \cup {Lid(p) : p \in People},
         lid : {Lid(p) : p \in People} \cup {NoId},
         phone : {Phone(p) : p \in People} \cup {NoId}]

RequestStates ==
  [pc : {"free", "default", "lock", "create", "info", "update", "members", "query", "store"},
   op : {"none", "link", "unlink", "sync"}, group : Groups \cup {"none"},
   reading : Links, todo : SUBSET (People \X Faces)]
UpsertStates ==
  [pc : {"none", "write"}, who : People \cup {NoActor}, face : Faces \cup {"none"}, row : Nat, size : Nat]

(* Types, and one workspace however many first requests there are.         *)
DirectoryTypeOK ==
  /\ wsRows \in 0..1
  /\ creating \in Requests \cup {NoActor}
  /\ groupRow \in Links /\ groupMap \in Links
  /\ links \in Nat
  /\ members \in Seq(Rows)
  /\ blame \subseteq {"unrefreshed", "overtaken"}
  /\ req \in [Requests -> RequestStates]
  /\ upsert \in [Actors -> UpsertStates]
  /\ faces \in [People -> SUBSET Faces]
  /\ refused \subseteq People
  /\ authors \subseteq People \X Nat

(* A request is between its UPDATE and its RefreshGroups.                  *)
Refreshing(r) ==
  \/ At(r, "members") /\ req[r].op = "link"
  \/ At(r, "query")
  \/ At(r, "store")

(* When no request is on its way to RefreshGroups the router knows the     *)
(* linked group and its link time, unless the last refresh failed, was     *)
(* not reached, or stored a reading that another request had overtaken.    *)
(* (RefreshGroups, inbox.go 133)                                           *)
MapFollowsTable ==
  (\A r \in Requests : ~Refreshing(r)) /\ blame = {} => groupMap = groupRow

BelongsTo(row, p) ==
  /\ row.jid \in {Phone(p), Lid(p)}
  /\ row.lid \in {Lid(p), NoId}
  /\ row.phone \in {Phone(p), NoId}

(* A member row never mixes the identities of two people, and a message    *)
(* is stored under a row of its sender, whoever registers whom at the same *)
(* time. (UpsertMember, workspace.go 192-195)                              *)
OnePersonPerRow ==
  /\ \A i \in DOMAIN members : \E p \in People : BelongsTo(members[i], p)
  /\ \A a \in authors : a[2] \in DOMAIN members /\ BelongsTo(members[a[2]], a[1])

RowsOf(p) == {i \in DOMAIN members : BelongsTo(members[i], p)}

(* A person is two members, or is refused by the unique index with nobody  *)
(* registering anybody in between, only after WhatsApp showed them once by *)
(* phone alone and once by LID alone. ("matching an existing member by any *)
(* of its identities", workspace.go 193)                                   *)
SplitIsExcused ==
  \A p \in People :
    Cardinality(RowsOf(p)) > 1 \/ p \in refused => {"phone", "lid"} \subseteq faces[p]

=============================================================================
