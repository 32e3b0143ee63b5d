---------------------------- MODULE MCReminders ----------------------------
(* One timer and one appointment; two contacts, so that two saves overlap.  *)
EXTENDS Reminders

CONSTANTS t1, a1, c1, c2

AllFaults == {"send", "mark", "insert", "restore", "save"}
=============================================================================
