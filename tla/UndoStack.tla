----------------------------- MODULE UndoStack ------------------------------
(***************************************************************************)
(* What the ledger promises about changes and their undoing                *)
(* (backend/finance/ledger.go, the comments on ErrUndoStale and            *)
(* revertEvent): the changes of an entry form a stack, what one sees is    *)
(* the result of the top one, and undoing takes the top one away.          *)
(*                                                                         *)
(* Undoing takes two steps. One looks at the stack and aims at its top     *)
(* change; later one takes that change away. Nothing keeps others from     *)
(* putting more on top in between. Then the change is pulled out from      *)
(* under them, the entry is torn, and what it shows from then on is not    *)
(* promised. An entry is torn in no other way.                             *)
(*                                                                         *)
(* A stack is the set of its changes, numbered in the order they were made.*)
(* The module knows nothing of events, locks or of how an undo is carried  *)
(* out; Ledger implements it.                                              *)
(***************************************************************************)
EXTENDS Naturals

CONSTANTS
  Txs,
  Contents,
  Nothing,   \* the content of an entry that is not there, a member of Contents
  Numbers    \* the numbers a change may get, naturals

VARIABLES
  changes,  \* [Txs -> SUBSET [at : Numbers, result : Contents]]: the changes in effect
  shown,    \* [Txs -> Contents]: the entry as everybody sees it
  looked,   \* SUBSET (Txs \X Numbers): the changes somebody is about to take away
  torn      \* SUBSET Txs

vars == <<changes, shown, looked, torn>>

IsTop(c, s) == c \in s /\ \A d \in s : d.at <= c.at

Seen(s) == IF s = {} THEN Nothing ELSE (CHOOSE c \in s : IsTop(c, s)).result

Init ==
  /\ changes = [t \in Txs |-> {}]
  /\ shown = [t \in Txs |-> Nothing]
  /\ looked = {}
  /\ torn = {}

\* A batch changes several entries at once.
Change(S) ==
  /\ shown' \in [Txs -> Contents]
  /\ \A t \in Txs \ S : shown'[t] = shown[t]
  /\ \E number \in [S -> Numbers] :
       /\ \A t \in S : \A c \in changes[t] : c.at < number[t]
       /\ changes' = [t \in Txs |-> IF t \in S
                                    THEN changes[t] \cup {[at |-> number[t], result |-> shown'[t]]}
                                    ELSE changes[t]]
  /\ UNCHANGED <<looked, torn>>

\* Only the top change is aimed at, by one at a time.
Look(t) ==
  /\ \E c \in changes[t] :
       /\ IsTop(c, changes[t])
       /\ <<t, c.at>> \notin looked
       /\ looked' = looked \cup {<<t, c.at>>}
  /\ UNCHANGED <<changes, shown, torn>>

GiveUp(t, n) ==
  /\ <<t, n>> \in looked
  /\ looked' = looked \ {<<t, n>>}
  /\ UNCHANGED <<changes, shown, torn>>

\* What is below comes to light again, as long as nothing was put on top.
Undo(t) ==
  \E c \in changes[t] :
    /\ <<t, c.at>> \in looked
    /\ looked' = looked \ {<<t, c.at>>}
    /\ changes' = [changes EXCEPT ![t] = @ \ {c}]
    /\ IF IsTop(c, changes[t]) /\ t \notin torn
       THEN /\ shown' = [shown EXCEPT ![t] = Seen(changes'[t])]
            /\ UNCHANGED torn
       ELSE /\ \E any \in Contents : shown' = [shown EXCEPT ![t] = any]
            /\ torn' = torn \cup {t}

Next ==
  \/ \E S \in SUBSET Txs : Change(S)
  \/ \E t \in Txs : Look(t) \/ Undo(t) \/ \E n \in Numbers : GiveUp(t, n)

Spec == Init /\ [][Next]_vars
=============================================================================
