------------------------------ MODULE MCInbox -------------------------------
(* Instances of Inbox for TLC: one workspace with two messages, so that     *)
(* order matters.                                                           *)
EXTENDS Inbox

CONSTANTS m1, m2, w1

OneHome == [m \in Messages |-> w1]

AllFaults == FaultPoints
=============================================================================
