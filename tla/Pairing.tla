------------------------------ MODULE Pairing -------------------------------
(***************************************************************************)
(* Linking the device: backend/whatsapp/client.go 39-199 and 212-235, and  *)
(* the status page and the refresh button of backend/web/server.go.        *)
(*                                                                         *)
(* A flow (the one of the boot, one after each logout, one per press of    *)
(* the button) holds qrFlowMutex, tears the previous session down, waits   *)
(* for its reader, opens a QR channel and connects.  The reader publishes  *)
(* what the channel brings; the event handler follows the login.           *)
(*                                                                         *)
(* whatsmeow is external: a socket, the codes it gets, one handler per QR  *)
(* channel that is told of every code until the channel closes.            *)
(***************************************************************************)
EXTENDS Naturals, Sequences

CONSTANTS
  Flows,          \* goroutines that run a pairing flow
  NoFlow,
  MaxRestarts,    \* bound: presses of the button
  MaxCodes,       \* bound: codes WhatsApp sends
  MaxLogouts,     \* bound: times the phone unlinks the device
  MaxTrouble      \* bound: lost sockets, failed calls and shutdowns that last too long

ASSUME PairingAssumption ==
  /\ NoFlow \notin Flows
  /\ MaxRestarts \in Nat /\ MaxCodes \in Nat /\ MaxLogouts \in Nat /\ MaxTrouble \in Nat

VARIABLES
  qrFlowMutex, flow,       \* who holds the mutex; flow -> what it is doing
  session,                 \* currentQRSession: the channel its reader reads, 0 is nil
  chans,                   \* the QR channels opened so far, with their readers
  LatestQRCode,            \* the connection whose code is on the screen, 0 is ""
  IsConnected,
  deviceLinked,                  \* Client.Store.ID # nil
  wire, gen, online,       \* the socket, its connection's number, login completed
  late,                    \* "success" was read while no login was complete
  linkedUnder, bootFailed, timedOut,
  restarts, codes, logouts, trouble

screen == <<LatestQRCode, IsConnected, late>>
device == <<deviceLinked, wire, gen, online>>
flags == <<linkedUnder, bootFailed, timedOut>>
pairingBounds == <<restarts, codes, logouts, trouble>>
pairingVars == <<qrFlowMutex, flow, session, chans, screen, device, flags, pairingBounds>>

IdleFlow == [pc |-> "free", op |-> "none"]
StartFlow == [pc |-> "lock", op |-> "start"]

(* InitWhatsApp: an unlinked device starts a flow; a linked one connects   *)
(* once, and a failure is logged.                                          *)
PairingInit ==
  /\ qrFlowMutex = NoFlow
  /\ session = 0 /\ chans = <<>>
  /\ LatestQRCode = 0 /\ IsConnected = FALSE /\ late = FALSE
  /\ online = FALSE /\ linkedUnder = FALSE /\ timedOut = FALSE
  /\ restarts = 0 /\ codes = 0 /\ logouts = 0 /\ trouble = 0
  /\ \/ /\ deviceLinked = FALSE /\ wire = "off" /\ gen = 0 /\ bootFailed = FALSE
        /\ \E f \in Flows : flow = [g \in Flows |-> IF g = f THEN StartFlow ELSE IdleFlow]
     \/ /\ deviceLinked = TRUE /\ wire \in {"off", "up"} /\ gen = 1
        /\ bootFailed = (wire = "off")
        /\ flow = [f \in Flows |-> IdleFlow]

Trouble == trouble < MaxTrouble /\ trouble' = trouble + 1
NoTrouble == UNCHANGED trouble
Calm == UNCHANGED <<restarts, codes, logouts, trouble>>

Goes(f, pc) == flow' = [flow EXCEPT ![f].pc = pc] /\ UNCHANGED qrFlowMutex
Leaves(f) == flow' = [flow EXCEPT ![f] = IdleFlow] /\ qrFlowMutex' = NoFlow

-----------------------------------------------------------------------------
(* RestartQRFlow and StartQRFlow.                                          *)

PressRefresh(f) ==
  /\ flow[f] = IdleFlow
  /\ restarts < MaxRestarts
  /\ restarts' = restarts + 1
  /\ flow' = [flow EXCEPT ![f] = [pc |-> "lock", op |-> "restart"]]
  /\ UNCHANGED <<qrFlowMutex, session, chans, screen, device, flags, codes, logouts, trouble>>

TakeFlow(f) ==
  /\ flow[f].pc = "lock"
  /\ qrFlowMutex = NoFlow
  /\ qrFlowMutex' = f
  /\ flow' = [flow EXCEPT ![f].pc = IF flow[f].op = "restart" THEN "check" ELSE "teardown"]
  /\ UNCHANGED <<session, chans, screen, device, flags>> /\ Calm

(* Mutant: it is dropped.                                                  *)
MayRestartAlways == TRUE

(* ErrAlreadyPaired: a working session is not dropped.                     *)
MayRestart == ~deviceLinked

CheckLinked(f) ==
  /\ flow[f].pc = "check"
  /\ IF MayRestart THEN Goes(f, "clear") ELSE Leaves(f)
  /\ UNCHANGED <<session, chans, screen, device, flags>> /\ Calm

ClearStatus(f) ==
  /\ flow[f].pc = "clear"
  /\ LatestQRCode' = 0 /\ IsConnected' = FALSE /\ late' = FALSE
  /\ Goes(f, "teardown")
  /\ UNCHANGED <<session, chans, device, flags>> /\ Calm

(* Client.Disconnect, which raises no event and stops reconnecting.        *)
TearDown(f) ==
  /\ flow[f].pc = "teardown"
  /\ IF session # 0 \/ wire = "up"
     THEN wire' = "off" /\ online' = FALSE
     ELSE UNCHANGED <<wire, online>>
  /\ Goes(f, "wait")
  /\ UNCHANGED <<session, chans, screen, deviceLinked, gen, flags>> /\ Calm

(* Mutant: the reader is not waited for.                                   *)
SessionOverUnasked == TRUE

(* session.done is closed, or there is no session.                         *)
SessionOver == session # 0 => chans[session].reader = "gone"

(* Ten seconds at most (qrSessionShutdownTimeout).                         *)
WaitSession(f) ==
  /\ flow[f].pc = "wait"
  /\ \/ SessionOver /\ NoTrouble /\ UNCHANGED timedOut
     \/ ~SessionOver /\ Trouble /\ timedOut' = TRUE
  /\ session' = 0
  /\ Goes(f, "channel")
  /\ UNCHANGED <<chans, screen, device, linkedUnder, bootFailed, restarts, codes, logouts>>

(* GetQRChannel refuses a linked device.                                   *)
OpenChannel(f) ==
  /\ flow[f].pc = "channel"
  /\ \/ /\ ~deviceLinked
        /\ chans' = Append(chans, [gen |-> gen + 1, open |-> TRUE, items |-> <<>>, reader |-> "none"])
        /\ Goes(f, "connect")
        /\ NoTrouble
     \/ deviceLinked /\ Leaves(f) /\ UNCHANGED chans /\ NoTrouble
     \/ ~deviceLinked /\ Leaves(f) /\ UNCHANGED chans /\ Trouble
  /\ UNCHANGED <<session, screen, device, flags, restarts, codes, logouts>>

(* A failed Connect leaves a channel that nobody reads, and no session.    *)
ConnectQR(f) ==
  /\ flow[f].pc = "connect"
  /\ \/ /\ NoTrouble
        /\ wire' = "up" /\ gen' = gen + 1
        /\ chans' = [chans EXCEPT ![Len(chans)].reader = "reading"]
        /\ session' = Len(chans)
     \/ Trouble /\ UNCHANGED <<wire, gen, chans, session>>
  /\ Leaves(f)
  /\ UNCHANGED <<screen, deviceLinked, online, flags, restarts, codes, logouts>>

-----------------------------------------------------------------------------
(* consumeQRChannel: every event but a code and success is terminal.       *)
ReadItem(n) ==
  /\ chans[n].reader = "reading"
  /\ chans[n].items # <<>>
  /\ chans' = [chans EXCEPT ![n].items = Tail(@)]
  /\ LET item == Head(chans[n].items)
     IN /\ LatestQRCode' = IF item.event = "code" THEN item.gen ELSE 0
        /\ IF item.event = "success"
           THEN IsConnected' = TRUE /\ late' = ~online
           ELSE UNCHANGED <<IsConnected, late>>
  /\ UNCHANGED <<qrFlowMutex, flow, session, device, flags>> /\ Calm

ReaderExits(n) ==
  /\ chans[n].reader = "reading"
  /\ chans[n].items = <<>> /\ ~chans[n].open
  /\ chans' = [chans EXCEPT ![n].reader = "gone"]
  /\ UNCHANGED <<qrFlowMutex, flow, session, screen, device, flags>> /\ Calm

-----------------------------------------------------------------------------
(* whatsmeow, and eventHandler, which it calls.                            *)

(* The handler of an open channel passes an item on; the last one closes it. *)
Tell(c, item, last) == [c EXCEPT !.items = Append(@, item), !.open = ~last]

Item(event) == [event |-> event, gen |-> gen]

(* What the handlers of the open channels make of an event.                *)
Told(event, last) ==
  [n \in DOMAIN chans |-> IF chans[n].open THEN Tell(chans[n], Item(event), last) ELSE chans[n]]

NewCode ==
  /\ wire = "up" /\ ~deviceLinked
  /\ codes < MaxCodes
  /\ codes' = codes + 1
  /\ chans' = Told("code", FALSE)
  /\ UNCHANGED <<qrFlowMutex, flow, session, screen, device, flags, restarts, logouts, trouble>>

(* The batch ran out.                                                      *)
CodesRunOut ==
  /\ wire = "up" /\ ~deviceLinked
  /\ wire' = "off"
  /\ chans' = Told("timeout", TRUE)
  /\ UNCHANGED <<qrFlowMutex, flow, session, screen, deviceLinked, gen, online, flags>> /\ Calm

(* The handler of a channel whose socket is gone notices it, at some time. *)
ChannelEnds(n) ==
  /\ chans[n].open
  /\ chans[n].gen < gen \/ (chans[n].gen = gen /\ wire # "up")
  /\ chans' = [chans EXCEPT ![n] = Tell(@, Item("closed"), TRUE)]
  /\ UNCHANGED <<qrFlowMutex, flow, session, screen, device, flags>> /\ Calm

(* A flow that will disconnect without another look at Store.ID.           *)
Unstoppable(f) == flow[f].pc \in {"clear", "teardown"} \/ flow[f] = StartFlow

(* The phone scans a code of this connection.                              *)
ScanCode ==
  /\ wire = "up" /\ ~deviceLinked
  /\ LatestQRCode = gen
  /\ deviceLinked' = TRUE
  /\ chans' = Told("success", TRUE)
  /\ linkedUnder' = \E f \in Flows : Unstoppable(f)
  /\ bootFailed' = FALSE
  /\ UNCHANGED <<qrFlowMutex, flow, session, screen, wire, gen, online, timedOut>> /\ Calm

(* events.Connected                                                        *)
LoginCompletes ==
  /\ deviceLinked /\ wire = "up" /\ ~online
  /\ online' = TRUE
  /\ IsConnected' = TRUE /\ LatestQRCode' = 0 /\ late' = FALSE
  /\ UNCHANGED <<qrFlowMutex, flow, session, chans, deviceLinked, wire, gen, flags>> /\ Calm

(* events.Disconnected; whatsmeow reconnects a linked device.              *)
SocketDrops ==
  /\ wire = "up"
  /\ Trouble
  /\ wire' = IF deviceLinked THEN "dropped" ELSE "off"
  /\ online' = FALSE
  /\ IsConnected' = FALSE /\ late' = FALSE
  /\ UNCHANGED <<qrFlowMutex, flow, session, chans, LatestQRCode, deviceLinked, gen, flags, restarts, codes, logouts>>

Reconnect ==
  /\ wire = "dropped"
  /\ wire' = "up" /\ gen' = gen + 1
  /\ UNCHANGED <<qrFlowMutex, flow, session, chans, screen, deviceLinked, online, flags>> /\ Calm

(* events.LoggedOut, while online or while connecting: the store is emptied *)
(* and a flow of its own starts.                                           *)
LoggedOut(f) ==
  /\ deviceLinked /\ wire = "up"
  /\ logouts < MaxLogouts
  /\ logouts' = logouts + 1
  /\ flow[f] = IdleFlow
  /\ flow' = [flow EXCEPT ![f] = StartFlow]
  /\ deviceLinked' = FALSE /\ online' = FALSE
  /\ wire' \in {"up", "off"}
  /\ IsConnected' = FALSE /\ late' = FALSE
  /\ UNCHANGED <<qrFlowMutex, session, chans, LatestQRCode, gen, flags, restarts, codes, trouble>>

-----------------------------------------------------------------------------
FlowStep(f) ==
  \/ PressRefresh(f) \/ TakeFlow(f) \/ CheckLinked(f) \/ ClearStatus(f) \/ TearDown(f)
  \/ WaitSession(f) \/ OpenChannel(f) \/ ConnectQR(f) \/ LoggedOut(f)

PairingNext ==
  \/ \E f \in Flows : FlowStep(f)
  \/ \E n \in DOMAIN chans : ReadItem(n) \/ ReaderExits(n) \/ ChannelEnds(n)
  \/ NewCode \/ CodesRunOut \/ ScanCode \/ LoginCompletes \/ SocketDrops \/ Reconnect

PairingSpec == PairingInit /\ [][PairingNext]_pairingVars

-----------------------------------------------------------------------------
(* Properties.                                                             *)

Items == [event : {"code", "success", "timeout", "closed"}, gen : Nat]

PairingTypeOK ==
  /\ qrFlowMutex \in Flows \cup {NoFlow}
  /\ flow \in [Flows ->
       [pc : {"free", "lock", "check", "clear", "teardown", "wait", "channel", "connect"},
        op : {"none", "start", "restart"}]]
  /\ session \in Nat /\ session <= Len(chans)
  /\ chans \in Seq([gen : Nat, open : BOOLEAN, items : Seq(Items), reader : {"none", "reading", "gone"}])
  /\ LatestQRCode \in Nat
  /\ {IsConnected, late, deviceLinked, online, linkedUnder, bootFailed, timedOut} \subseteq BOOLEAN
  /\ wire \in {"off", "up", "dropped"}
  /\ {gen, restarts, codes, logouts, trouble} \subseteq Nat

Readers == {n \in DOMAIN chans : chans[n].reader = "reading"}

(* Its channel was told that the attempt is over.                          *)
WillClear(n) == \E i \in DOMAIN chans[n].items : chans[n].items[i].event # "code"

(* While no shutdown lasted longer than a flow waits, one reader publishes  *)
(* codes, and the code on the screen is one of the latest connection, be it *)
(* up or lost, unless the reader is about to take it away. And a code never *)
(* stays on the screen with no reader left. (startQRFlow, client.go 120-135) *)
ShownCodeIsLatest ==
  /\ LatestQRCode # 0 => Readers # {}
  /\ ~timedOut =>
       /\ \A m, n \in Readers : m = n
       /\ LatestQRCode # 0 => LatestQRCode = gen \/ \E n \in Readers : WillClear(n)

(* Whatever is pressed, a linked device is not left disconnected by the     *)
(* pairing code, unless the link completed under a flow that had already    *)
(* looked (or, started by a logout, never looks); and what the panel shows  *)
(* is the login as it is, with the same exception, and but for the time     *)
(* from a "success" that is read while no login is complete (before it, as  *)
(* in any pairing, or after it had gone) to the next event of the           *)
(* connection. (RestartQRFlow, client.go 101-118; eventHandler, 212-235)    *)
LinkedStaysOnline ==
  /\ deviceLinked /\ wire = "off" => linkedUnder \/ bootFailed
  /\ (IsConnected = online) \/ late \/ linkedUnder
=============================================================================
