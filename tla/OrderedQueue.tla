---------------------------- MODULE OrderedQueue ----------------------------
(***************************************************************************)
(* What the finance inbox promises (backend/finance/inbox.go, the comments *)
(* on Ingestor and Accept): each workspace has a queue of accepted         *)
(* messages; only the message at the head of its queue may change the      *)
(* ledger, at most one run of it does, and a message leaves the queue only *)
(* from the head, once and for good.                                       *)
(*                                                                         *)
(* The module knows nothing of workers, retries, crashes or wake-ups;      *)
(* Inbox implements it.                                                    *)
(***************************************************************************)
EXTENDS Naturals

CONSTANTS Workspaces, Messages, Home, Runs

VARIABLES
  rank,     \* [Messages -> Nat]: arrival number, 0 while not accepted
  next,     \* the next arrival number
  place,    \* [Messages -> {"outside", "queued", "closed"}]
  applied   \* [Messages -> SUBSET Runs]: the run whose ledger changes are committed

vars == <<rank, next, place, applied>>

IsHead(m) ==
  /\ place[m] = "queued"
  /\ \A n \in Messages :
       Home[n] = Home[m] /\ place[n] = "queued" => rank[m] <= rank[n]

Init ==
  /\ rank = [m \in Messages |-> 0]
  /\ next = 1
  /\ place = [m \in Messages |-> "outside"]
  /\ applied = [m \in Messages |-> {}]

Enqueue(m) ==
  /\ place[m] = "outside"
  /\ place' = [place EXCEPT ![m] = "queued"]
  /\ rank' = [rank EXCEPT ![m] = next]
  /\ next' = next + 1
  /\ UNCHANGED applied

Apply(m) ==
  /\ IsHead(m)
  /\ applied[m] = {}
  /\ \E r \in Runs : applied' = [applied EXCEPT ![m] = {r}]
  /\ UNCHANGED <<rank, next, place>>

\* One SQL statement may close the heads of several queues at once.
Close(S) ==
  /\ \A m \in S : IsHead(m)
  /\ place' = [m \in Messages |-> IF m \in S THEN "closed" ELSE place[m]]
  /\ UNCHANGED <<rank, next, applied>>

Next ==
  \/ \E m \in Messages : Enqueue(m) \/ Apply(m)
  \/ \E S \in SUBSET Messages : Close(S)

Spec == Init /\ [][Next]_vars
=============================================================================
