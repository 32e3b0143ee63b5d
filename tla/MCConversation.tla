--------------------------- MODULE MCConversation ---------------------------
(* Instances of Conversation for TLC.                                      *)
EXTENDS Conversation, TLC

CONSTANTS t1, t2

(* Entries are interchangeable.                                             *)
AnyEntry == Permutations(Txs)

(* Entries with one doubt, with two, and without any.                      *)
SomeDoubts == {{}, {"category"}, {"amount", "category"}, {"date"}}
FewDoubts == {{"category"}, {"amount", "category"}}
OneDoubt == {{"category"}}
=============================================================================
