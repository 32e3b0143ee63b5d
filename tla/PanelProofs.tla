---------------------------- MODULE PanelProofs -----------------------------
(***************************************************************************)
(* Proofs about three parts of the panel, for any value of their constants:*)
(* the category tree (CategoryTree), linking the device (Pairing), logins  *)
(* and logouts (Sessions).                                                 *)
(*                                                                         *)
(* Categories: a write that is not outdated is checked against the tree it *)
(* changes, so the two levels need only know that a request works on a     *)
(* category that is there, or on a new one nobody else works on.           *)
(*                                                                         *)
(* Pairing: a code on the screen has a reader which will take it off.  A   *)
(* flow past its look works alone; and while no shutdown lasts too long it *)
(* finds the socket off and every reader gone when it connects, and a      *)
(* linked device without a session has no flow that would disconnect it.   *)
(*                                                                         *)
(* Logouts: the server keeps an id as long as its cookie may live.         *)
(*                                                                         *)
(* The limiter: its table has every failure that may still count, and,      *)
(* until it is swept, no other; a request past the question is one failure *)
(* the limit has already let in.  What the loop of prune computes is shown  *)
(* by induction on the number of times: a least, or a shortest,            *)
(* counterexample leads to a smaller one.                                  *)
(***************************************************************************)
EXTENDS CategoryTree, Pairing, Sessions,
        FiniteSetTheorems, SequenceTheorems, WellFoundedInduction, TLAPS

-----------------------------------------------------------------------------
(* Categories.                                                             *)

(* A request changes a category that is there, or creates one that is not  *)
(* and that nobody else works on.                                          *)
PatchInv ==
  \A r \in Patches : patch[r].pc # "free" =>
    /\ patch[r].cat \in Cats
    /\ patch[r].op = "update" => patch[r].cat \in there
    /\ patch[r].op = "create" =>
         patch[r].cat \notin there /\ patch[r].pc # "cascade"
         /\ \A q \in Patches \ {r} : patch[q].cat # patch[r].cat
    /\ patch[r].op # "none"
    /\ patch[r].pc = "cascade" => patch[r].kind # Keep

(* The categories whose new kind is being passed on.                       *)
PassedOn == {patch[q].cat : q \in {s \in Patches : patch[s].pc = "cascade"}}

(* A subcategory that differs from its parent is excused.                  *)
KindsAgree ==
  \A c \in there : parent[c] # Top /\ kind[c] # kind[parent[c]] => c \in odd \/ parent[c] \in PassedOn

CategoryInv ==
  /\ CategoryTypeOK
  /\ PatchInv
  /\ ~overtaken => TwoLevels /\ KindsAgree

LEMMA IdlePatchType == IdlePatch \in OpenPatches
  BY DEF IdlePatch, OpenPatches

(* The seeded tree.                                                        *)
LEMMA CategoryInitInv == CategoryInit => CategoryInv
<1> SUFFICES ASSUME CategoryInit PROVE CategoryInv
  OBVIOUS
<1> USE CategoryAssumption DEF CategoryInit, Seeded
<1>1. CategoryTypeOK
  BY IdlePatchType DEF CategoryTypeOK, Kinds
<1>2. PatchInv
  BY DEF PatchInv, IdlePatch
<1>3. ASSUME NEW c \in there, parent[c] # Top
      PROVE  parent[c] \in there /\ parent[parent[c]] = Top /\ kind[c] = kind[parent[c]]
  <2>1. c \in DOMAIN SeedParent /\ c \in Cats /\ parent[c] = SeedParent[c] /\ kind[c] = SeedKind[c]
    OBVIOUS
  <2>2. SeedParent[c] \in DOMAIN SeedParent /\ SeedParent[c] \in Cats
    BY <1>3, <2>1
  <2>3. parent[SeedParent[c]] = SeedParent[SeedParent[c]] /\ kind[SeedParent[c]] = SeedKind[SeedParent[c]]
    BY <2>2
  <2> QED
    BY <1>3, <2>1, <2>2, <2>3
<1> QED
  BY <1>1, <1>2, <1>3 DEF CategoryInv, TwoLevels, KindsAgree

-----------------------------------------------------------------------------
(* Steps that change no category: whatever a request does before it writes, *)
(* nobody stops passing a kind on.                                         *)
LEMMA RequestOnly ==
  ASSUME CategoryInv, NEW r \in Patches, NEW new \in OpenPatches,
         patch' = [patch EXCEPT ![r] = new], patch[r].pc # "cascade", new.pc # "cascade",
         UNCHANGED <<catVars, overtaken, odd, catErrors>>, patches' \in Nat, PatchInv'
  PROVE  CategoryInv'
<1>1. CategoryTypeOK'
  BY DEF CategoryInv, CategoryTypeOK, catVars
<1>2. \A c : c \in PassedOn' <=> c \in PassedOn
  BY DEF CategoryInv, CategoryTypeOK, PassedOn
<1>3. TwoLevels' = TwoLevels /\ (KindsAgree => KindsAgree')
  BY <1>2 DEF TwoLevels, KindsAgree, catVars
<1> QED
  BY <1>1, <1>3 DEF CategoryInv

LEMMA CreateInv ==
  ASSUME CategoryInv, NEW r \in Patches, NEW c \in Cats, NEW p \in Cats \cup {Keep},
         NEW k \in Kinds \cup {Keep}, CreateCategory(r, c, p, k)
  PROVE  CategoryInv'
<1> DEFINE new == [pc |-> FirstStep(p), op |-> "create", cat |-> c, parent |-> p, kind |-> k]
<1>1. new \in OpenPatches /\ new.pc \in {"write", "parent"}
  BY DEF OpenPatches, FirstStep
<1>2. /\ patch' = [patch EXCEPT ![r] = new] /\ patch[r].pc = "free" /\ patches' = patches + 1
      /\ UNCHANGED <<catVars, overtaken, odd, catErrors>>
  BY DEF CreateCategory, OpenPatch
<1>3. c \notin there /\ \A q \in Patches : patch[q].cat # c
  BY DEF CreateCategory
<1> HIDE DEF new
<1>4. new.cat = c /\ new.op = "create"
  BY DEF new
<1>5. PatchInv'
  BY <1>1, <1>2, <1>3, <1>4 DEF CategoryInv, PatchInv, CategoryTypeOK, catVars
<1>6. patches' \in Nat
  BY <1>2 DEF CategoryInv, CategoryTypeOK
<1> QED
  BY <1>1, <1>2, <1>5, <1>6, RequestOnly

LEMMA UpdateInv ==
  ASSUME CategoryInv, NEW r \in Patches, NEW c \in Cats, NEW p \in Cats \cup {Keep},
         NEW k \in Kinds \cup {Keep}, UpdateCategory(r, c, p, k)
  PROVE  CategoryInv'
<1> DEFINE new == [pc |-> FirstStep(p), op |-> "update", cat |-> c, parent |-> p, kind |-> k]
<1>1. new \in OpenPatches /\ new.pc \in {"write", "parent"}
  BY DEF OpenPatches, FirstStep
<1>2. /\ patch' = [patch EXCEPT ![r] = new] /\ patch[r].pc = "free" /\ patches' = patches + 1
      /\ UNCHANGED <<catVars, overtaken, odd, catErrors>>
  BY DEF UpdateCategory, OpenPatch
<1>3. c \in there
  BY DEF UpdateCategory
<1> HIDE DEF new
<1>4. new.cat = c /\ new.op = "update"
  BY DEF new
<1>5. PatchInv'
  BY <1>1, <1>2, <1>3, <1>4 DEF CategoryInv, PatchInv, CategoryTypeOK, catVars
<1>6. patches' \in Nat
  BY <1>2 DEF CategoryInv, CategoryTypeOK
<1> QED
  BY <1>1, <1>2, <1>5, <1>6, RequestOnly

(* A request that ends before its last statement.                          *)
LEMMA CloseInv ==
  ASSUME CategoryInv, NEW r \in Patches, Close(r), patch[r].pc # "cascade",
         UNCHANGED <<catVars, overtaken, odd, catErrors, patches>>
  PROVE  CategoryInv'
<1>1. patch' = [patch EXCEPT ![r] = IdlePatch] /\ IdlePatch.pc = "free" /\ IdlePatch.cat = Top
  BY DEF Close, IdlePatch
<1>2. PatchInv'
  BY <1>1, CategoryAssumption DEF CategoryInv, PatchInv, CategoryTypeOK, catVars
<1> QED
  BY <1>1, <1>2, IdlePatchType, RequestOnly DEF CategoryInv, CategoryTypeOK

LEMMA ReadParentInv ==
  ASSUME CategoryInv, NEW r \in Patches, ReadParent(r)
  PROVE  CategoryInv'
<1>1. patch[r].pc = "parent" /\ UNCHANGED <<catVars, overtaken, odd, patches, catErrors>>
  BY DEF ReadParent
<1>2. CASE MayHold(patch[r].parent, patch[r].cat)
  <2> DEFINE new == [patch[r] EXCEPT !.kind = kind[patch[r].parent],
                                     !.pc = IF patch[r].op = "update" THEN "children" ELSE "write"]
  <2>1. patch' = [patch EXCEPT ![r] = new]
    BY <1>2 DEF ReadParent, CategoryInv, CategoryTypeOK
  <2>2. kind[patch[r].parent] \in Kinds
    BY <1>2 DEF MayHold, CategoryInv, CategoryTypeOK
  <2>3. patch[r] \in OpenPatches
    BY DEF CategoryInv, CategoryTypeOK
  <2>4. new \in OpenPatches /\ new.pc \in {"children", "write"} /\ new.cat = patch[r].cat /\ new.op = patch[r].op
    BY <2>2, <2>3 DEF OpenPatches
  <2> HIDE DEF new
  <2>5. PatchInv'
    BY <1>1, <2>1, <2>4 DEF CategoryInv, PatchInv, CategoryTypeOK, catVars
  <2> QED
    BY <1>1, <2>1, <2>4, <2>5, RequestOnly DEF CategoryInv, CategoryTypeOK
<1>3. CASE ~MayHold(patch[r].parent, patch[r].cat)
  BY <1>1, <1>3, CloseInv DEF ReadParent
<1> QED
  BY <1>2, <1>3

LEMMA CountChildrenInv ==
  ASSUME CategoryInv, NEW r \in Patches, CountChildren(r)
  PROVE  CategoryInv'
<1>1. patch[r].pc = "children" /\ UNCHANGED <<catVars, overtaken, odd, patches, catErrors>>
  BY DEF CountChildren
<1>2. CASE MayBecomeChild(patch[r].cat)
  <2> DEFINE new == [patch[r] EXCEPT !.pc = "write"]
  <2>1. patch' = [patch EXCEPT ![r] = new]
    BY <1>2 DEF CountChildren, CategoryInv, CategoryTypeOK
  <2>2. patch[r] \in OpenPatches
    BY DEF CategoryInv, CategoryTypeOK
  <2>3. new \in OpenPatches /\ new.pc = "write" /\ new.cat = patch[r].cat /\ new.op = patch[r].op
    BY <2>2 DEF OpenPatches
  <2> HIDE DEF new
  <2>4. PatchInv'
    BY <1>1, <2>1, <2>3 DEF CategoryInv, PatchInv, CategoryTypeOK, catVars
  <2> QED
    BY <1>1, <2>1, <2>3, <2>4, RequestOnly DEF CategoryInv, CategoryTypeOK
<1>3. CASE ~MayBecomeChild(patch[r].cat)
  BY <1>1, <1>3, CloseInv DEF CountChildren
<1> QED
  BY <1>2, <1>3

-----------------------------------------------------------------------------
(* The statements.                                                         *)

LEMMA WriteInv ==
  ASSUME CategoryInv, NEW r \in Patches, WriteCategory(r)
  PROVE  CategoryInv'
<1> DEFINE c == patch[r].cat
           np == NewParent(r)
           nk == NewKind(r)
<1>1. /\ patch[r].pc = "write"
      /\ there' = there \cup {c}
      /\ parent' = [parent EXCEPT ![c] = np]
      /\ kind' = [kind EXCEPT ![c] = nk]
      /\ overtaken' = (overtaken \/ Outdated(r))
      /\ odd' = IF KindAlone(r) THEN odd \cup {c} ELSE IF patch[r].parent # Keep THEN odd \ {c} ELSE odd
      /\ UNCHANGED <<patches, catErrors>>
  BY DEF WriteCategory
<1>2. /\ c \in Cats /\ patch[r].op \in {"create", "update"}
      /\ patch[r].parent \in Cats \cup {Keep} /\ patch[r].kind \in Kinds \cup {Keep}
      /\ patch[r].op = "update" => c \in there
      /\ patch[r].op = "create" => c \notin there
  BY <1>1 DEF CategoryInv, PatchInv, CategoryTypeOK, OpenPatches
<1>3. np \in Cats \cup {Top} /\ nk \in Kinds
  BY <1>2 DEF NewParent, NewKind, CategoryInv, CategoryTypeOK, Kinds
<1>4. PICK new \in OpenPatches :
        /\ patch' = [patch EXCEPT ![r] = new]
        /\ \/ PassesOn(r) /\ new = [patch[r] EXCEPT !.pc = "cascade"]
           \/ ~PassesOn(r) /\ new = IdlePatch
  <2>1. CASE PassesOn(r)
    <3> DEFINE new == [patch[r] EXCEPT !.pc = "cascade"]
    <3>1. new \in OpenPatches
      BY DEF CategoryInv, CategoryTypeOK, OpenPatches
    <3>2. patch' = [patch EXCEPT ![r] = new]
      BY <2>1 DEF WriteCategory, CategoryInv, CategoryTypeOK
    <3> QED
      BY <2>1, <3>1, <3>2
  <2>2. CASE ~PassesOn(r)
    BY <2>2, IdlePatchType DEF WriteCategory, Close
  <2> QED
    BY <2>1, <2>2
<1>5. \A q \in Patches : q # r => patch'[q] = patch[q]
  BY <1>4 DEF CategoryInv, CategoryTypeOK
<1>6. patch'[r] = new
  BY <1>4 DEF CategoryInv, CategoryTypeOK
<1>7. CategoryTypeOK'
  BY <1>1, <1>2, <1>3, <1>4 DEF CategoryInv, CategoryTypeOK, Outdated
<1>8. PatchInv'
  <2>1. new.pc # "free" =>
          new.pc = "cascade" /\ new.cat = c /\ new.op = "update" /\ new.kind # Keep
    BY <1>4 DEF PassesOn, IdlePatch, CategoryInv, CategoryTypeOK, OpenPatches
  <2>2. new.cat \in {c, Top}
    BY <1>4 DEF IdlePatch, CategoryInv, CategoryTypeOK, OpenPatches
  <2>3. ASSUME NEW q \in Patches, q # r, patch[q].pc # "free", patch[q].op = "create"
        PROVE  patch[q].cat # c /\ patch[q].cat # Top
    BY <2>3, CategoryAssumption DEF CategoryInv, PatchInv
  <2>4. ASSUME NEW q \in Patches, q # r, patch'[q].pc # "free"
        PROVE  /\ patch'[q].cat \in Cats
               /\ patch'[q].op = "update" => patch'[q].cat \in there'
               /\ patch'[q].op = "create" =>
                    patch'[q].cat \notin there' /\ patch'[q].pc # "cascade"
                    /\ \A s \in Patches \ {q} : patch'[s].cat # patch'[q].cat
               /\ patch'[q].op # "none"
               /\ patch'[q].pc = "cascade" => patch'[q].kind # Keep
    BY <1>1, <1>5, <1>6, <2>2, <2>3, <2>4 DEF CategoryInv, PatchInv
  <2> QED
    BY <1>1, <1>2, <1>6, <2>1, <2>4 DEF PatchInv
<1>9. ASSUME ~overtaken'
      PROVE  TwoLevels' /\ KindsAgree'
  <2>1. ~overtaken /\ ~Outdated(r) /\ TwoLevels /\ KindsAgree
    BY <1>1, <1>9 DEF CategoryInv
  <2>2. /\ parent'[c] = np /\ kind'[c] = nk
        /\ \A x \in Cats : x # c => parent'[x] = parent[x] /\ kind'[x] = kind[x]
    BY <1>1, <1>2 DEF CategoryInv, CategoryTypeOK
  <2>3. there \subseteq Cats /\ Top \notin Cats /\ Keep \notin Cats /\ Keep \notin Kinds
    BY CategoryAssumption DEF CategoryInv, CategoryTypeOK
  <2>4. \A x : x \in PassedOn => x \in PassedOn'
    BY <1>1, <1>5 DEF PassedOn
  (* A subcategory of an existing one, or of a new parent.                 *)
  <2>5. CASE patch[r].parent # Keep
    <3>1. /\ np = patch[r].parent /\ np # c /\ np \in there /\ parent[np] = Top
          /\ kind[np] = patch[r].kind /\ Children(c) = {}
      BY <2>1, <2>5 DEF Outdated, MayHold, MayBecomeChild, NewParent
    <3>2. nk = patch[r].kind
      BY <3>1, <2>3 DEF NewKind, CategoryInv, CategoryTypeOK
    <3>3. \A x \in there : parent[x] # c
      BY <3>1 DEF Children
    <3>4. parent'[np] = Top /\ kind'[np] = nk
      BY <2>2, <2>3, <3>1, <3>2
    <3>5. TwoLevels'
      BY <1>1, <2>1, <2>2, <2>3, <3>1, <3>3, <3>4 DEF TwoLevels
    <3>6. \A x \in there : x # c => (x \in odd => x \in odd')
      BY <1>1
    <3>7. KindsAgree'
      BY <1>1, <2>1, <2>2, <2>3, <2>4, <3>1, <3>3, <3>4, <3>6 DEF KindsAgree, TwoLevels
    <3> QED
      BY <3>5, <3>7
  <2>6. CASE patch[r].parent = Keep /\ patch[r].op = "create"
    <3>1. np = Top /\ c \notin there
      BY <1>2, <2>6 DEF NewParent
    <3>2. \A x \in there : parent[x] # c
      BY <2>1, <2>3, <1>2, <3>1 DEF TwoLevels
    <3>3. odd \subseteq odd'
      BY <1>1, <2>6
    <3> QED
      BY <1>1, <2>1, <2>2, <2>3, <2>4, <3>1, <3>2, <3>3 DEF TwoLevels, KindsAgree
  <2>7. CASE patch[r].parent = Keep /\ patch[r].op = "update"
    <3>1. np = parent[c] /\ c \in there /\ odd \subseteq odd'
      BY <1>1, <1>2, <2>7 DEF NewParent
    <3>2. parent' = parent /\ there' = there
      BY <1>1, <1>2, <3>1 DEF CategoryInv, CategoryTypeOK
    <3>3. TwoLevels'
      BY <2>1, <3>2 DEF TwoLevels
    <3>4. CASE patch[r].kind = Keep
      <4>1. kind' = kind
        BY <1>1, <1>2, <2>7, <3>4 DEF NewKind, CategoryInv, CategoryTypeOK
      <4> QED
        BY <2>1, <2>4, <3>1, <3>2, <3>3, <4>1 DEF KindsAgree
    <3>5. CASE patch[r].kind # Keep /\ np = Top
      <4>1. c \in PassedOn'
        BY <1>4, <1>6, <2>7, <3>5 DEF PassesOn, PassedOn, CategoryInv, CategoryTypeOK, OpenPatches
      <4> QED
        BY <2>1, <2>2, <2>3, <2>4, <3>1, <3>2, <3>3, <3>5, <4>1 DEF KindsAgree, TwoLevels
    <3>6. CASE patch[r].kind # Keep /\ np # Top
      <4>1. c \in odd'
        BY <1>1, <2>7, <3>6 DEF KindAlone
      <4>2. \A x \in there : parent[x] # c
        BY <2>1, <2>3, <1>2, <3>1, <3>6 DEF TwoLevels
      <4> QED
        BY <2>1, <2>2, <2>3, <2>4, <3>1, <3>2, <3>3, <4>1, <4>2 DEF KindsAgree, TwoLevels
    <3> QED
      BY <3>4, <3>5, <3>6
  <2> QED
    BY <1>2, <2>5, <2>6, <2>7
<1> QED
  BY <1>7, <1>8, <1>9 DEF CategoryInv

(* The two ends of a cascade: the request that was passing a kind on is     *)
(* idle, the others are where they were.                                   *)
LEMMA CascadeOver ==
  ASSUME CategoryInv, NEW r \in Patches, Close(r)
  PROVE  /\ patch' \in [Patches -> OpenPatches]
         /\ there' = there => PatchInv'
         /\ \A x : x \in PassedOn /\ x # patch[r].cat => x \in PassedOn'
<1>1. patch' = [patch EXCEPT ![r] = IdlePatch] /\ IdlePatch.pc = "free" /\ IdlePatch.cat = Top
  BY DEF Close, IdlePatch
<1>2. patch' \in [Patches -> OpenPatches] /\ patch'[r] = IdlePatch
      /\ \A q \in Patches : q # r => patch'[q] = patch[q]
  BY <1>1, IdlePatchType DEF CategoryInv, CategoryTypeOK
<1>3. there' = there => PatchInv'
  BY <1>1, <1>2, CategoryAssumption DEF CategoryInv, PatchInv
<1>4. \A x : x \in PassedOn /\ x # patch[r].cat => x \in PassedOn'
  BY <1>2 DEF PassedOn
<1> QED
  BY <1>2, <1>3, <1>4

LEMMA PassKindOnInv ==
  ASSUME CategoryInv, NEW r \in Patches, PassKindOn(r)
  PROVE  CategoryInv'
<1> DEFINE c == patch[r].cat
<1>1. /\ patch[r].pc = "cascade" /\ Close(r)
      /\ kind' = [x \in Cats |-> IF x \in Children(c) THEN patch[r].kind ELSE kind[x]]
      /\ overtaken' = (overtaken \/ kind[c] # patch[r].kind)
      /\ odd' = odd \ Children(c)
      /\ UNCHANGED <<there, parent, patches, catErrors>>
  BY DEF PassKindOn
<1>2. c \in Cats /\ patch[r].kind \in Kinds
  BY <1>1 DEF CategoryInv, PatchInv, CategoryTypeOK, OpenPatches
<1>3. patch' \in [Patches -> OpenPatches] /\ PatchInv'
      /\ \A x : x \in PassedOn /\ x # c => x \in PassedOn'
  BY <1>1, CascadeOver
<1>4. CategoryTypeOK'
  BY <1>1, <1>2, <1>3 DEF CategoryInv, CategoryTypeOK
<1>5. ASSUME ~overtaken'
      PROVE  TwoLevels' /\ KindsAgree'
  <2>1. ~overtaken /\ kind[c] = patch[r].kind /\ TwoLevels /\ KindsAgree
    BY <1>1, <1>5 DEF CategoryInv
  <2>2. there \subseteq Cats /\ Top \notin Cats
    BY CategoryAssumption DEF CategoryInv, CategoryTypeOK
  <2>3. \A x \in there : parent[x] # Top => parent[x] \in Cats /\ parent[x] \notin Children(c)
    BY <1>2, <2>1, <2>2 DEF TwoLevels, Children
  <2>4. c \notin Children(c)
    BY <1>2, <2>1, <2>2 DEF TwoLevels, Children
  <2>5. ASSUME NEW x \in there, parent'[x] # Top, kind'[x] # kind'[parent'[x]]
        PROVE  x \in odd' \/ parent'[x] \in PassedOn'
    <3>1. kind'[parent[x]] = kind[parent[x]]
      BY <1>1, <2>3, <2>5
    <3>2. x \notin Children(c)
      BY <1>1, <1>2, <2>1, <2>2, <2>4, <2>5, <3>1 DEF Children
    <3>3. kind'[x] = kind[x] /\ parent[x] # c
      BY <1>1, <2>2, <3>2 DEF Children
    <3>4. x \in odd \/ parent[x] \in PassedOn
      BY <1>1, <2>1, <2>5, <3>1, <3>3 DEF KindsAgree
    <3> QED
      BY <1>1, <1>3, <3>2, <3>3, <3>4
  <2>6. TwoLevels'
    BY <1>1, <2>1 DEF TwoLevels
  <2> QED
    BY <1>1, <2>5, <2>6 DEF KindsAgree
<1> QED
  BY <1>3, <1>4, <1>5 DEF CategoryInv

LEMMA WriteFailsInv ==
  ASSUME CategoryInv, NEW r \in Patches, WriteFails(r)
  PROVE  CategoryInv'
<1> DEFINE c == patch[r].cat
<1>1. /\ patch[r].pc \in {"write", "cascade"} /\ Close(r) /\ catErrors' = catErrors + 1
      /\ odd' = IF patch[r].pc = "cascade" THEN odd \cup Children(c) ELSE odd
      /\ UNCHANGED <<catVars, overtaken, patches>>
  BY DEF WriteFails
<1>2. patch' \in [Patches -> OpenPatches] /\ PatchInv'
      /\ \A x : x \in PassedOn /\ x # c => x \in PassedOn'
  BY <1>1, CascadeOver DEF catVars
<1>3. CategoryTypeOK'
  BY <1>1, <1>2 DEF CategoryInv, CategoryTypeOK, catVars, Children
<1>4. ASSUME ~overtaken'
      PROVE  TwoLevels' /\ KindsAgree'
  <2>1. TwoLevels /\ KindsAgree
    BY <1>1, <1>4 DEF CategoryInv
  <2>2. TwoLevels'
    BY <1>1, <2>1 DEF TwoLevels, catVars
  <2>3. ASSUME NEW x \in there, parent[x] # Top, kind[x] # kind[parent[x]]
        PROVE  x \in odd' \/ parent[x] \in PassedOn'
    <3>1. x \in odd \/ parent[x] \in PassedOn
      BY <2>1, <2>3 DEF KindsAgree
    <3>2. CASE parent[x] = c /\ patch[r].pc = "cascade"
      BY <1>1, <3>2 DEF Children
    <3>3. CASE patch[r].pc = "write"
      <4>1. c \in PassedOn => c \in PassedOn'
        BY <1>1, <3>3 DEF PassedOn, Close, CategoryInv, CategoryTypeOK
      <4> QED
        BY <1>1, <1>2, <3>1, <4>1
    <3> QED
      BY <1>1, <1>2, <3>1, <3>2, <3>3
  <2> QED
    BY <1>1, <2>2, <2>3 DEF KindsAgree, catVars
<1> QED
  BY <1>2, <1>3, <1>4 DEF CategoryInv

-----------------------------------------------------------------------------
LEMMA CategoryNextInv == CategoryInv /\ [CategoryNext]_categoryVars => CategoryInv'
<1> SUFFICES ASSUME CategoryInv, [CategoryNext]_categoryVars PROVE CategoryInv'
  OBVIOUS
<1>1. CASE UNCHANGED categoryVars
  BY <1>1 DEF categoryVars, catVars, CategoryInv, CategoryTypeOK, PatchInv, TwoLevels, KindsAgree, PassedOn
<1>2. CASE CategoryNext
  <2>1. PICK r \in Patches :
          \/ \E c \in Cats, p \in Cats \cup {Keep}, k \in Kinds \cup {Keep} :
               CreateCategory(r, c, p, k) \/ UpdateCategory(r, c, p, k)
          \/ PatchStep(r)
    BY <1>2, Zenon DEF CategoryNext
  <2>2. CASE \E c \in Cats, p \in Cats \cup {Keep}, k \in Kinds \cup {Keep} :
               CreateCategory(r, c, p, k) \/ UpdateCategory(r, c, p, k)
    BY <2>2, CreateInv, UpdateInv
  <2>3. CASE PatchStep(r)
    BY <2>3, ReadParentInv, CountChildrenInv, WriteInv, PassKindOnInv, WriteFailsInv DEF PatchStep
  <2> QED
    BY <2>1, <2>2, <2>3
<1> QED
  BY <1>1, <1>2

(* Creating and changing categories keeps the types.                       *)
THEOREM CategoriesTyped == CategorySpec => []CategoryTypeOK
<1>1. CategoryInv => CategoryTypeOK
  BY DEF CategoryInv
<1> QED
  BY <1>1, CategoryInitInv, CategoryNextInv, PTL DEF CategorySpec

(* For any number of categories, requests and failed writes: while no       *)
(* request writes what its validation would now refuse, the tree has two    *)
(* levels and a subcategory has the kind of its parent, but for the two     *)
(* causes CategoriesAgree names. (validateCategory, UpdateCategory,         *)
(* categories.go 136-262)                                                  *)
THEOREM TreeAgrees == CategorySpec => []CategoriesAgree
<1>1. CategoryInv => CategoriesAgree
  BY DEF CategoryInv, KindsAgree, CategoriesAgree, PassedOn, BeingPassedOn
<1> QED
  BY <1>1, CategoryInitInv, CategoryNextInv, PTL DEF CategorySpec

-----------------------------------------------------------------------------
(* Pairing.                                                                *)

Pcs == {"free", "lock", "check", "clear", "teardown", "wait", "channel", "connect"}
Chan == [gen : Nat, open : BOOLEAN, items : Seq(Items), reader : {"none", "reading", "gone"}]

FlowTypes ==
  /\ qrFlowMutex \in Flows \cup {NoFlow}
  /\ flow \in [Flows -> [pc : Pcs, op : {"none", "start", "restart"}]]
ScreenTypes == LatestQRCode \in Nat /\ IsConnected \in BOOLEAN /\ late \in BOOLEAN
DeviceTypes == deviceLinked \in BOOLEAN /\ wire \in {"off", "up", "dropped"} /\ gen \in Nat /\ online \in BOOLEAN
FlagTypes == linkedUnder \in BOOLEAN /\ bootFailed \in BOOLEAN /\ timedOut \in BOOLEAN
CountTypes == restarts \in Nat /\ codes \in Nat /\ logouts \in Nat /\ trouble \in Nat
ChanTypes == session \in Nat /\ session <= Len(chans) /\ chans \in Seq(Chan)

PairingTypes == FlowTypes /\ ScreenTypes /\ DeviceTypes /\ FlagTypes /\ CountTypes /\ ChanTypes

LEMMA PairingTypesOK == PairingTypes <=> PairingTypeOK
  BY DEF PairingTypes, PairingTypeOK, FlowTypes, ScreenTypes, DeviceTypes, FlagTypes, CountTypes, ChanTypes, Chan, Pcs

-----------------------------------------------------------------------------
(* Channels.                                                               *)

Read(c) == [c EXCEPT !.items = Tail(@)]

(* The reader of a channel will take a code off the screen.                *)
Clears(c) == \E i \in DOMAIN c.items : c.items[i].event # "code"

(* The last item of a closed channel says so.                              *)
Closes(c) == ~c.open /\ c.items # <<>> => c.items[Len(c.items)].event # "code"

Current(c, g) == \A i \in DOMAIN c.items : c.items[i].gen = g

LEMMA TellItem ==
  ASSUME NEW c \in Chan, NEW item \in Items, NEW last \in BOOLEAN, last => item.event # "code", NEW g
  PROVE  /\ Tell(c, item, last) \in Chan
         /\ Tell(c, item, last).reader = c.reader
         /\ Tell(c, item, last).gen = c.gen
         /\ Tell(c, item, last).open = ~last
         /\ Closes(Tell(c, item, last))
         /\ Clears(c) \/ last => Clears(Tell(c, item, last))
         /\ Current(c, g) /\ item.gen = g => Current(Tell(c, item, last), g)
<1> DEFINE d == Tell(c, item, last)
<1>1. c.items \in Seq(Items)
  BY DEF Chan
<1>2. /\ d \in Chan /\ d.reader = c.reader /\ d.gen = c.gen /\ d.open = ~last
      /\ d.items = Append(c.items, item)
  <2>. Append(c.items, item) \in Seq(Items)
    BY <1>1
  <2>1. PICK s \in Seq(Items) : s = Append(c.items, item)
    BY Zenon
  <2>2. PICK b \in BOOLEAN : b = ~last
    OBVIOUS
  <2>3. d = [c EXCEPT !.items = s, !.open = b]
    BY <2>1, <2>2 DEF Tell
  <2>4. d \in Chan /\ d.reader = c.reader /\ d.gen = c.gen /\ d.open = b /\ d.items = s
    BY <2>3 DEF Chan
  <2>. QED
    BY <2>1, <2>2, <2>4
<1>3. /\ Len(d.items) = Len(c.items) + 1
      /\ DOMAIN d.items = 1..(Len(c.items) + 1) /\ DOMAIN c.items = 1..Len(c.items)
      /\ d.items[Len(c.items) + 1] = item
      /\ \A i \in 1..Len(c.items) : d.items[i] = c.items[i]
  BY <1>1, <1>2
<1>4. Len(c.items) \in Nat
  BY <1>1
<1> HIDE DEF d
<1>5. Closes(d)
  BY <1>2, <1>3, <1>4 DEF Closes
<1>6. Clears(c) \/ last => Clears(d)
  BY <1>3, <1>4 DEF Clears
<1>7. Current(c, g) /\ item.gen = g => Current(d, g)
  BY <1>3, <1>4 DEF Current
<1>. QED
  BY <1>2, <1>5, <1>6, <1>7 DEF d

LEMMA ReadOne ==
  ASSUME NEW c \in Chan, c.items # <<>>, NEW g
  PROVE  /\ Read(c) \in Chan
         /\ Read(c).reader = c.reader /\ Read(c).gen = c.gen /\ Read(c).open = c.open
         /\ Closes(c) => Closes(Read(c))
         /\ Current(c, g) => Current(Read(c), g)
         /\ Head(c.items).event = "code" /\ Clears(c) => Clears(Read(c))
         /\ Head(c.items).event = "code" /\ Closes(c) /\ ~c.open => Clears(Read(c))
         /\ Current(c, g) => Head(c.items).gen = g
         /\ Head(c.items).gen \in Nat
<1> DEFINE d == Read(c)
           n == Len(c.items)
<1>1. c.items \in Seq(Items) /\ n \in Nat /\ n > 0
  BY DEF Chan
<1>2. /\ d \in Chan /\ d.reader = c.reader /\ d.gen = c.gen /\ d.open = c.open
      /\ d.items = Tail(c.items)
  BY <1>1 DEF Read, Chan
<1>3. /\ Len(d.items) = n - 1
      /\ DOMAIN d.items = 1..(n - 1) /\ DOMAIN c.items = 1..n
      /\ \A i \in 1..(n - 1) : d.items[i] = c.items[i + 1]
      /\ Head(c.items) = c.items[1]
      /\ c.items[1] \in Items
      /\ d.items # <<>> => n - 1 > 0
  BY <1>1, <1>2
<1> HIDE DEF d
<1>4. Closes(c) => Closes(d)
  <2>1. SUFFICES ASSUME Closes(c), ~d.open, d.items # <<>>
                 PROVE  d.items[Len(d.items)].event # "code"
    BY DEF Closes
  <2>2. d.items[Len(d.items)] = c.items[n]
    BY <2>1, <1>1, <1>3
  <2>. QED
    BY <2>1, <2>2, <1>2 DEF Closes
<1>5. Current(c, g) => Current(d, g)
  <2>1. SUFFICES ASSUME Current(c, g), NEW i \in DOMAIN d.items PROVE d.items[i].gen = g
    BY DEF Current
  <2>2. i + 1 \in DOMAIN c.items /\ d.items[i] = c.items[i + 1]
    BY <1>1, <1>3
  <2>. QED
    BY <2>1, <2>2 DEF Current
<1>6. ASSUME Head(c.items).event = "code", Clears(c)
      PROVE  Clears(d)
  <2>1. PICK i \in 1..n : c.items[i].event # "code"
    BY <1>6, <1>3 DEF Clears
  <2>2. i # 1
    BY <1>6, <1>3, <2>1
  <2>3. i - 1 \in 1..(n - 1) /\ d.items[i - 1] = c.items[i]
    <3>1. i - 1 \in 1..(n - 1) /\ (i - 1) + 1 = i
      BY <2>2, <1>1
    <3>. QED
      BY <3>1, <1>3
  <2>. QED
    BY <2>1, <2>3, <1>3 DEF Clears
<1>7. Head(c.items).event = "code" /\ Closes(c) /\ ~c.open => Clears(d)
  <2>1. SUFFICES ASSUME Head(c.items).event = "code", Closes(c), ~c.open PROVE Clears(d)
    OBVIOUS
  <2>2. c.items[n].event # "code" /\ n \in DOMAIN c.items
    BY <2>1, <1>1, <1>3 DEF Closes
  <2>3. Clears(c)
    BY <2>2 DEF Clears
  <2>. QED
    BY <2>1, <2>3, <1>6
<1>8. (Current(c, g) => Head(c.items).gen = g) /\ Head(c.items).gen \in Nat
  BY <1>1, <1>3 DEF Current, Items
<1>. QED
  BY <1>2, <1>4, <1>5, <1>6, <1>7, <1>8 DEF d

-----------------------------------------------------------------------------
(* Tables of channels.                                                     *)

(* The channels that are told of something, and the others.                *)
Telling(cs, ds, item, last) ==
  /\ ds = [n \in DOMAIN cs |-> ds[n]]
  /\ \A n \in DOMAIN cs : ds[n] = cs[n] \/ (cs[n].open /\ ds[n] = Tell(cs[n], item, last))

Tells(cs, ds, item, last) == ds = [n \in DOMAIN cs |-> IF cs[n].open THEN Tell(cs[n], item, last) ELSE cs[n]]
Reads(cs, ds, k) == ds = [cs EXCEPT ![k] = Read(cs[k])]
Becomes(cs, ds, k, r) == ds = [cs EXCEPT ![k].reader = r]
Opens(cs, ds, g) == ds = Append(cs, [gen |-> g + 1, open |-> TRUE, items |-> <<>>, reader |-> "none"])

Ended(cs) == \A n \in DOMAIN cs : Closes(cs[n])

(* Every code that is shown has a reader that takes it away, or waits for   *)
(* what comes next.                                                        *)
Watched(cs, shown, g, slow) ==
  shown # 0 =>
    \E n \in DOMAIN cs :
      /\ cs[n].reader = "reading"
      /\ Clears(cs[n]) \/ (cs[n].open /\ (~slow => shown = g))

(* One reader, of session s, with codes of connection g.                   *)
Alone(cs, s, g) ==
  \A n \in DOMAIN cs : cs[n].reader = "reading" => n = s /\ (cs[n].open => Current(cs[n], g))

AllClosed(cs) == \A n \in DOMAIN cs : ~cs[n].open

(* The channel a flow has opened and nobody was told through.              *)
Waiting(cs, g) == LET c == cs[Len(cs)] IN c.gen = g + 1 /\ c.items = <<>>

Unread(cs) == cs # <<>> /\ cs[Len(cs)].reader = "none"

LEMMA TableOfChans ==
  ASSUME NEW cs \in Seq(Chan), NEW ds, ds = [n \in DOMAIN cs |-> ds[n]], \A n \in DOMAIN cs : ds[n] \in Chan
  PROVE  ds \in Seq(Chan) /\ Len(ds) = Len(cs) /\ DOMAIN ds = DOMAIN cs
<1>1. Len(cs) \in Nat /\ DOMAIN cs = 1..Len(cs)
  OBVIOUS
<1>2. ds \in [1..Len(cs) -> Chan]
  BY <1>1
<1>3. ds \in Seq(Chan)
  BY <1>1, <1>2, SeqDef
<1>. QED
  BY <1>1, <1>2, <1>3

LEMMA TellingKeeps ==
  ASSUME NEW cs \in Seq(Chan), NEW ds, NEW item \in Items, NEW last \in BOOLEAN, last => item.event # "code",
         Telling(cs, ds, item, last)
  PROVE  /\ ds \in Seq(Chan) /\ Len(ds) = Len(cs)
         /\ Ended(cs) => Ended(ds)
         /\ \A shown, g, slow : Watched(cs, shown, g, slow) => Watched(ds, shown, g, slow)
         /\ \A s : Alone(cs, s, item.gen) => Alone(ds, s, item.gen)
         /\ AllClosed(cs) => AllClosed(ds)
         /\ Unread(cs) => Unread(ds)
<1>1. \A n \in DOMAIN cs : cs[n] \in Chan
  OBVIOUS
<1>2. \A n \in DOMAIN cs :
        /\ ds[n] \in Chan /\ ds[n].reader = cs[n].reader /\ ds[n].gen = cs[n].gen
        /\ ds[n].open => cs[n].open
        /\ Closes(cs[n]) => Closes(ds[n])
        /\ Clears(cs[n]) => Clears(ds[n])
        /\ cs[n].open /\ ~ds[n].open => Clears(ds[n])
        /\ Current(cs[n], item.gen) => Current(ds[n], item.gen)
  <2>1. SUFFICES ASSUME NEW n \in DOMAIN cs
                 PROVE  /\ ds[n] \in Chan /\ ds[n].reader = cs[n].reader /\ ds[n].gen = cs[n].gen
                        /\ ds[n].open => cs[n].open
                        /\ Closes(cs[n]) => Closes(ds[n])
                        /\ Clears(cs[n]) => Clears(ds[n])
                        /\ cs[n].open /\ ~ds[n].open => Clears(ds[n])
                        /\ Current(cs[n], item.gen) => Current(ds[n], item.gen)
    OBVIOUS
  <2>2. CASE ds[n] = cs[n]
    BY <1>1, <2>2
  <2>3. CASE cs[n].open /\ ds[n] = Tell(cs[n], item, last)
    <3>1. PICK c \in Chan : c = cs[n]
      BY <1>1
    <3>2. PICK d : d = Tell(c, item, last)
      OBVIOUS
    <3>3. /\ d \in Chan /\ d.reader = c.reader /\ d.gen = c.gen /\ d.open = (~last) /\ Closes(d)
          /\ Clears(c) \/ last => Clears(d)
          /\ Current(c, item.gen) => Current(d, item.gen)
      BY <3>2, TellItem
    <3>4. ds[n] = d /\ cs[n] = c /\ c.open
      BY <3>1, <3>2, <2>3
    <3>. QED
      BY <3>3, <3>4
  <2>. QED
    BY <2>2, <2>3 DEF Telling
<1>3. ds \in Seq(Chan) /\ Len(ds) = Len(cs) /\ DOMAIN ds = DOMAIN cs
  BY <1>2, TableOfChans DEF Telling
<1>4. Ended(cs) => Ended(ds)
  BY <1>2, <1>3, Zenon DEF Ended
<1>5. ASSUME NEW shown, NEW g, NEW slow
      PROVE  Watched(cs, shown, g, slow) => Watched(ds, shown, g, slow)
  <2>1. SUFFICES ASSUME shown # 0, Watched(cs, shown, g, slow) PROVE Watched(ds, shown, g, slow)
    BY DEF Watched
  <2>2. PICK n \in DOMAIN cs : cs[n].reader = "reading" /\ (Clears(cs[n]) \/ (cs[n].open /\ (~slow => shown = g)))
    BY <2>1, Zenon DEF Watched
  <2>. QED
    BY <2>2, <1>2, <1>3, Zenon DEF Watched
<1>6. \A s : Alone(cs, s, item.gen) => Alone(ds, s, item.gen)
  BY <1>2, <1>3, Zenon DEF Alone
<1>7. AllClosed(cs) => AllClosed(ds)
  BY <1>2, <1>3, Zenon DEF AllClosed
<1>8. Unread(cs) => Unread(ds)
  <2>1. SUFFICES ASSUME Unread(cs) PROVE Unread(ds)
    OBVIOUS
  <2>2. Len(cs) \in DOMAIN cs
    BY <2>1 DEF Unread
  <2>3. ds[Len(cs)].reader = "none"
    BY <2>1, <2>2, <1>2 DEF Unread
  <2>. QED
    BY <2>1, <2>3, <1>3 DEF Unread
<1>. QED
  BY <1>3, <1>4, <1>5, <1>6, <1>7, <1>8
(* Every open channel is told; the last item closes it.                    *)
LEMMA TellsAll ==
  ASSUME NEW cs \in Seq(Chan), NEW item \in Items, NEW last \in BOOLEAN, last => item.event # "code",
         NEW ds, Tells(cs, ds, item, last)
  PROVE  Telling(cs, ds, item, last) /\ (last => AllClosed(ds))
<1>1. Telling(cs, ds, item, last)
  BY Zenon DEF Tells, Telling
<1>2. ASSUME last, NEW n \in DOMAIN cs
      PROVE  ~ds[n].open
  <2>1. cs[n] \in Chan
    OBVIOUS
  <2>2. CASE cs[n].open
    <3>1. ds[n] = Tell(cs[n], item, last)
      BY <2>2, Zenon DEF Tells
    <3>2. PICK c \in Chan : c = cs[n]
      BY <2>1
    <3>3. Tell(c, item, last).open = (~last)
      BY TellItem, Zenon
    <3>. QED
      BY <1>2, <3>1, <3>2, <3>3
  <2>3. CASE ~cs[n].open
    BY <2>3 DEF Tells
  <2>. QED
    BY <2>2, <2>3
<1>3. DOMAIN ds = DOMAIN cs
  BY DEF Tells
<1>. QED
  BY <1>1, <1>2, <1>3 DEF AllClosed

(* A reader took an item: a code of connection g goes to the screen,        *)
(* anything else clears it.                                                *)
LEMMA ReadingKeeps ==
  ASSUME NEW cs \in Seq(Chan), NEW k \in DOMAIN cs, NEW ds, Reads(cs, ds, k),
         cs[k].reader = "reading", cs[k].items # <<>>,
         NEW s, NEW g, NEW shown, NEW slow \in BOOLEAN, NEW then,
         then = IF Head(cs[k].items).event = "code" THEN Head(cs[k].items).gen ELSE 0
  PROVE  /\ ds \in Seq(Chan) /\ Len(ds) = Len(cs) /\ then \in Nat
         /\ Ended(cs) => Ended(ds)
         /\ Ended(cs) /\ (~slow => Alone(cs, s, g)) => Watched(ds, then, g, slow)
         /\ Alone(cs, s, g) => Alone(ds, s, g)
         /\ AllClosed(cs) => AllClosed(ds)
         /\ Unread(cs) => Unread(ds) /\ (Waiting(cs, g) => Waiting(ds, g))
<1>1. \A n \in DOMAIN cs : cs[n] \in Chan
  OBVIOUS
<1>2. ds = [n \in DOMAIN cs |-> ds[n]] /\ \A n \in DOMAIN cs : ds[n] = IF n = k THEN Read(cs[k]) ELSE cs[n]
  BY DEF Reads
<1>3. \A n \in DOMAIN cs :
        /\ ds[n] \in Chan /\ ds[n].reader = cs[n].reader /\ ds[n].gen = cs[n].gen
        /\ ds[n].open = cs[n].open
        /\ Closes(cs[n]) => Closes(ds[n])
        /\ Current(cs[n], g) => Current(ds[n], g)
  <2>1. SUFFICES ASSUME NEW n \in DOMAIN cs
                 PROVE  /\ ds[n] \in Chan /\ ds[n].reader = cs[n].reader /\ ds[n].gen = cs[n].gen
                        /\ ds[n].open = cs[n].open
                        /\ Closes(cs[n]) => Closes(ds[n])
                        /\ Current(cs[n], g) => Current(ds[n], g)
    OBVIOUS
  <2>2. CASE n = k
    BY <1>1, <1>2, <2>2, ReadOne
  <2>3. CASE n # k
    BY <1>1, <1>2, <2>3
  <2>. QED
    BY <2>2, <2>3
<1>4. ds \in Seq(Chan) /\ Len(ds) = Len(cs) /\ DOMAIN ds = DOMAIN cs
  BY <1>2, <1>3, TableOfChans
<1>5. Ended(cs) => Ended(ds)
  BY <1>3, <1>4, Zenon DEF Ended
<1>6. /\ Head(cs[k].items).event = "code" /\ Clears(cs[k]) => Clears(ds[k])
      /\ Head(cs[k].items).event = "code" /\ Closes(cs[k]) /\ ~cs[k].open => Clears(ds[k])
      /\ Current(cs[k], g) => Head(cs[k].items).gen = g
      /\ Head(cs[k].items).gen \in Nat
  BY <1>1, <1>2, ReadOne
<1>7. then \in Nat
  BY <1>6
<1>8. ASSUME Ended(cs), ~slow => Alone(cs, s, g), then # 0
      PROVE  Watched(ds, then, g, slow)
  <2>1. Head(cs[k].items).event = "code" /\ then = Head(cs[k].items).gen
    BY <1>8
  <2>2. ds[k].reader = "reading" /\ ds[k].open = cs[k].open
    BY <1>3
  <2>3. CASE ~cs[k].open
    BY <1>4, <1>6, <1>8, <2>1, <2>2, <2>3 DEF Ended, Watched
  <2>4. CASE cs[k].open
    <3>1. ~slow => then = g
      BY <1>6, <1>8, <2>1, <2>4 DEF Alone
    <3>. QED
      BY <1>4, <2>2, <2>4, <3>1 DEF Watched
  <2>. QED
    BY <2>3, <2>4
<1>9. Ended(cs) /\ (~slow => Alone(cs, s, g)) => Watched(ds, then, g, slow)
  BY <1>8 DEF Watched
<1>10. Alone(cs, s, g) => Alone(ds, s, g)
  BY <1>3, <1>4, Zenon DEF Alone
<1>11. AllClosed(cs) => AllClosed(ds)
  BY <1>3, <1>4, Zenon DEF AllClosed
<1>12. Unread(cs) => Unread(ds) /\ (Waiting(cs, g) => Waiting(ds, g))
  <2>1. SUFFICES ASSUME Unread(cs) PROVE Unread(ds) /\ (Waiting(cs, g) => Waiting(ds, g))
    OBVIOUS
  <2>2. Len(cs) \in DOMAIN cs /\ Len(cs) # k
    BY <2>1 DEF Unread
  <2>3. ds[Len(ds)] = cs[Len(cs)]
    BY <1>2, <1>4, <2>2
  <2>. QED
    BY <2>1, <2>2, <2>3, <1>4 DEF Unread, Waiting
<1>. QED
  BY <1>4, <1>5, <1>7, <1>9, <1>10, <1>11, <1>12
(* Another state of one reader.                                            *)
LEMMA OneReader ==
  ASSUME NEW cs \in Seq(Chan), NEW k \in DOMAIN cs, NEW r \in {"none", "reading", "gone"},
         NEW ds, Becomes(cs, ds, k, r)
  PROVE  /\ ds \in Seq(Chan) /\ Len(ds) = Len(cs) /\ DOMAIN ds = DOMAIN cs
         /\ \A n \in DOMAIN cs : n # k => ds[n] = cs[n]
         /\ ds[k].reader = r /\ ds[k].open = cs[k].open /\ ds[k].items = cs[k].items
<1>1. \A n \in DOMAIN cs : cs[n] \in Chan
  OBVIOUS
<1>2. /\ ds = [n \in DOMAIN cs |-> ds[n]]
      /\ \A n \in DOMAIN cs : n # k => ds[n] = cs[n]
  BY DEF Becomes
<1>3. ds[k] \in Chan /\ ds[k].reader = r /\ ds[k].open = cs[k].open /\ ds[k].items = cs[k].items
  <2>1. ds[k] = [cs[k] EXCEPT !.reader = r] /\ cs[k] \in Chan
    BY DEF Becomes
  <2>. QED
    BY <2>1 DEF Chan
<1>4. \A n \in DOMAIN cs : ds[n] \in Chan
  BY <1>1, <1>2, <1>3
<1>. QED
  BY <1>2, <1>3, <1>4, TableOfChans

(* The reader of a channel that has ended and is empty stops.              *)
LEMMA ExitKeeps ==
  ASSUME NEW cs \in Seq(Chan), NEW k \in DOMAIN cs, NEW ds, Becomes(cs, ds, k, "gone"),
         cs[k].reader = "reading", cs[k].items = <<>>, ~cs[k].open,
         NEW s, NEW g, NEW shown, NEW slow
  PROVE  /\ ds \in Seq(Chan) /\ Len(ds) = Len(cs)
         /\ Ended(cs) => Ended(ds)
         /\ Watched(cs, shown, g, slow) => Watched(ds, shown, g, slow)
         /\ Alone(cs, s, g) => Alone(ds, s, g)
         /\ AllClosed(cs) => AllClosed(ds)
         /\ Unread(cs) => Unread(ds) /\ (Waiting(cs, g) => Waiting(ds, g))
<1>1. /\ ds \in Seq(Chan) /\ Len(ds) = Len(cs) /\ DOMAIN ds = DOMAIN cs
      /\ \A n \in DOMAIN cs : n # k => ds[n] = cs[n]
      /\ ds[k].reader = "gone" /\ ds[k].open = cs[k].open /\ ds[k].items = cs[k].items
  BY OneReader
<1>2. Ended(cs) => Ended(ds)
  BY <1>1 DEF Ended, Closes
<1>3. ~Clears(cs[k])
  <2>1. DOMAIN cs[k].items = {}
    OBVIOUS
  <2>. QED
    BY <2>1 DEF Clears
<1>4. Watched(cs, shown, g, slow) => Watched(ds, shown, g, slow)
  <2>1. SUFFICES ASSUME shown # 0, Watched(cs, shown, g, slow) PROVE Watched(ds, shown, g, slow)
    BY DEF Watched
  <2>2. PICK n \in DOMAIN cs : cs[n].reader = "reading" /\ (Clears(cs[n]) \/ (cs[n].open /\ (~slow => shown = g)))
    BY <2>1, Zenon DEF Watched
  <2>3. n # k
    BY <2>2, <1>3
  <2>. QED
    BY <2>2, <2>3, <1>1, Zenon DEF Watched
<1>5. Alone(cs, s, g) => Alone(ds, s, g)
  BY <1>1 DEF Alone
<1>6. AllClosed(cs) => AllClosed(ds)
  BY <1>1 DEF AllClosed
<1>7. Unread(cs) => Unread(ds) /\ (Waiting(cs, g) => Waiting(ds, g))
  <2>1. SUFFICES ASSUME Unread(cs) PROVE Unread(ds) /\ (Waiting(cs, g) => Waiting(ds, g))
    OBVIOUS
  <2>2. Len(cs) \in DOMAIN cs /\ Len(cs) # k
    BY <2>1 DEF Unread
  <2>3. ds[Len(ds)] = cs[Len(cs)]
    BY <1>1, <2>2
  <2>. QED
    BY <2>1, <2>2, <2>3, <1>1 DEF Unread, Waiting
<1>. QED
  BY <1>1, <1>2, <1>4, <1>5, <1>6, <1>7

(* A flow opens a channel.                                                 *)
LEMMA OpenKeeps ==
  ASSUME NEW cs \in Seq(Chan), NEW g \in Nat, NEW ds,
         Opens(cs, ds, g),
         NEW s, NEW shown, NEW slow
  PROVE  /\ ds \in Seq(Chan) /\ Len(ds) = Len(cs) + 1
         /\ Ended(cs) => Ended(ds)
         /\ Watched(cs, shown, g, slow) => Watched(ds, shown, g, slow)
         /\ Alone(cs, s, g) => Alone(ds, s, g)
         /\ Unread(ds) /\ Waiting(ds, g)
<1> DEFINE new == [gen |-> g + 1, open |-> TRUE, items |-> <<>>, reader |-> "none"]
<1>1. new \in Chan
  BY DEF Chan
<1>2. PICK c \in Chan : c = new
  BY <1>1
<1>3. c.gen = g + 1 /\ c.open = TRUE /\ c.items = <<>> /\ c.reader = "none"
  BY <1>2
<1>4. /\ ds \in Seq(Chan) /\ Len(ds) = Len(cs) + 1 /\ Len(cs) \in Nat
      /\ DOMAIN ds = 1..(Len(cs) + 1) /\ DOMAIN cs = 1..Len(cs)
      /\ ds[Len(cs) + 1] = c
      /\ \A n \in DOMAIN cs : ds[n] = cs[n]
  BY <1>2 DEF Opens
<1>5. \A n \in DOMAIN ds : n \in DOMAIN cs \/ n = Len(cs) + 1
  BY <1>4
<1>6. DOMAIN cs \subseteq DOMAIN ds /\ Len(ds) \in DOMAIN ds /\ ds[Len(ds)] = c /\ ds # <<>>
  BY <1>4
<1>7. Ended(cs) => Ended(ds)
  BY <1>3, <1>4, <1>5 DEF Ended, Closes
<1>8. Watched(cs, shown, g, slow) => Watched(ds, shown, g, slow)
  BY <1>4, <1>6, Zenon DEF Watched
<1>9. Alone(cs, s, g) => Alone(ds, s, g)
  BY <1>3, <1>4, <1>5 DEF Alone
<1>10. Unread(ds) /\ Waiting(ds, g)
  BY <1>3, <1>6 DEF Unread, Waiting
<1>. QED
  BY <1>4, <1>7, <1>8, <1>9, <1>10

(* The flow's connection, number g + 1, and its reader; on time, there is   *)
(* no other reader left.                                                   *)
LEMMA ConnectKeeps ==
  ASSUME NEW cs \in Seq(Chan), NEW g \in Nat, NEW k \in DOMAIN cs, k = Len(cs),
         NEW ds, Becomes(cs, ds, k, "reading"), Unread(cs), NEW shown \in Nat, NEW slow \in BOOLEAN,
         ~slow => Alone(cs, 0, g) /\ Waiting(cs, g)
  PROVE  /\ ds \in Seq(Chan) /\ Len(ds) = Len(cs) /\ Len(cs) > 0
         /\ Ended(cs) => Ended(ds)
         /\ Watched(cs, shown, g, slow) => Watched(ds, shown, g + 1, slow)
         /\ ~slow => Alone(ds, Len(cs), g + 1)
         /\ AllClosed(cs) => AllClosed(ds)
<1>1. Len(cs) \in Nat /\ DOMAIN cs = 1..Len(cs) /\ Len(cs) > 0 /\ Len(cs) \in DOMAIN cs /\ cs[Len(cs)].reader = "none"
  BY DEF Unread
<1>2. k = Len(cs)
  OBVIOUS
<1>3. /\ ds \in Seq(Chan) /\ Len(ds) = Len(cs) /\ DOMAIN ds = DOMAIN cs
      /\ \A n \in DOMAIN cs : n # k => ds[n] = cs[n]
      /\ ds[k].reader = "reading" /\ ds[k].open = cs[k].open /\ ds[k].items = cs[k].items
  BY OneReader
<1>4. Ended(cs) => Ended(ds)
  BY <1>3 DEF Ended, Closes
<1>5. Watched(cs, shown, g, slow) => Watched(ds, shown, g + 1, slow)
  <2>1. SUFFICES ASSUME shown # 0, Watched(cs, shown, g, slow) PROVE Watched(ds, shown, g + 1, slow)
    BY DEF Watched
  <2>2. PICK n \in DOMAIN cs : cs[n].reader = "reading" /\ (Clears(cs[n]) \/ (cs[n].open /\ (~slow => shown = g)))
    BY <2>1, Zenon DEF Watched
  <2>3. n # k /\ n # 0
    BY <2>2, <1>1, <1>2
  <2>4. slow
    BY <2>2, <2>3 DEF Alone
  <2>. QED
    BY <2>2, <2>3, <2>4, <1>3 DEF Watched
<1>6. ASSUME ~slow
      PROVE  Alone(ds, Len(cs), g + 1)
  <2>1. \A n \in DOMAIN cs : cs[n].reader # "reading"
    BY <1>1, <1>6 DEF Alone
  <2>2. Current(ds[k], g + 1)
    <3>1. DOMAIN ds[k].items = {}
      BY <1>2, <1>3, <1>6 DEF Waiting
    <3>. QED
      BY <3>1 DEF Current
  <2>. QED
    BY <1>2, <1>3, <2>1, <2>2 DEF Alone
<1>7. AllClosed(cs) => AllClosed(ds)
  BY <1>3 DEF AllClosed
<1>. QED
  BY <1>1, <1>3, <1>4, <1>5, <1>6, <1>7
-----------------------------------------------------------------------------
(* The invariant.                                                          *)

(* Who tore down holds the mutex, and until it connects nothing else opens  *)
(* a channel or a socket.                                                  *)
Past == {"check", "clear", "teardown", "wait", "channel", "connect"}

FlowInv ==
  /\ \A f \in Flows : flow[f].pc \in Past <=> qrFlowMutex = f
  /\ \A f \in Flows : flow[f].pc # "free" => flow[f].op # "none"
  /\ \A f \in Flows : flow[f].pc \in {"channel", "connect"} => session = 0
  /\ \A f \in Flows : flow[f].pc = "connect" => Unread(chans)

(* A login needs a linked device with a socket; only a linked device's      *)
(* socket is waited for, and its QR channels are closed.                   *)
DeviceInv ==
  /\ online => deviceLinked /\ wire = "up"
  /\ wire = "dropped" => deviceLinked
  /\ wire = "up" => gen > 0
  /\ deviceLinked => AllClosed(chans)
  /\ ~deviceLinked /\ IsConnected => late

(* A flow that disconnects a linked device started, or looked, before.     *)
UnderInv == deviceLinked /\ (\E f \in Flows : Unstoppable(f)) => linkedUnder

ScreenInv == Ended(chans) /\ Watched(chans, LatestQRCode, gen, timedOut)

(* While no shutdown lasted too long there is one reader, of the session,   *)
(* with codes of the present connection; a flow that has torn down finds    *)
(* the socket off; and a linked device without a session has no flow that   *)
(* will disconnect it.                                                     *)
TimelyInv ==
  /\ Alone(chans, session, gen)
  /\ \A f \in Flows : flow[f].pc \in {"wait", "channel", "connect"} => wire = "off"
  /\ \A f \in Flows : flow[f].pc = "connect" => Waiting(chans, gen)
  /\ deviceLinked /\ session = 0 /\ wire # "off" =>
       \A f \in Flows : flow[f] = IdleFlow \/ (flow[f].op = "restart" /\ flow[f].pc \in {"lock", "check"})

ReaderInv == ~timedOut => TimelyInv

PairingInv ==
  PairingTypes /\ FlowInv /\ DeviceInv /\ UnderInv /\ ScreenInv /\ ReaderInv /\ LinkedStaysOnline

-----------------------------------------------------------------------------
(* Flows.                                                                  *)

LEMMA PressRefreshInv ==
  ASSUME PairingInv, NEW f \in Flows, PressRefresh(f)
  PROVE  PairingInv'
<1>1. PairingTypes'
  BY DEF PressRefresh, PairingInv, PairingTypes, FlowTypes, ScreenTypes, DeviceTypes, FlagTypes, CountTypes, ChanTypes,
         screen, device, flags, Pcs
<1>2. /\ flow' = [flow EXCEPT ![f] = [pc |-> "lock", op |-> "restart"]]
      /\ flow[f] = IdleFlow
      /\ UNCHANGED <<qrFlowMutex, session, chans, LatestQRCode, IsConnected, late,
                     deviceLinked, wire, gen, online, linkedUnder, bootFailed, timedOut>>
  BY DEF PressRefresh, screen, device, flags
<1>3. DOMAIN flow = Flows
  BY DEF PairingInv, PairingTypes, FlowTypes
<1>4. FlowInv'
  BY <1>2, <1>3 DEF PairingInv, FlowInv, Past, IdleFlow
<1>5. DeviceInv' /\ UnderInv' /\ LinkedStaysOnline' /\ ScreenInv'
  BY <1>2, <1>3 DEF PairingInv, DeviceInv, UnderInv, LinkedStaysOnline, ScreenInv, Unstoppable, StartFlow, IdleFlow
<1>6. ReaderInv'
  BY <1>2, <1>3 DEF PairingInv, ReaderInv, TimelyInv, IdleFlow
<1>. QED
  BY <1>1, <1>4, <1>5, <1>6 DEF PairingInv
LEMMA TakeFlowInv ==
  ASSUME PairingInv, NEW f \in Flows, TakeFlow(f)
  PROVE  PairingInv'
<1>1. PairingTypes'
  BY DEF TakeFlow, PairingInv, PairingTypes, FlowTypes, ScreenTypes, DeviceTypes, FlagTypes, CountTypes, ChanTypes,
         screen, device, flags, Calm, Pcs
<1>2. /\ flow[f].pc = "lock" /\ qrFlowMutex = NoFlow /\ qrFlowMutex' = f
      /\ flow' = [flow EXCEPT ![f].pc = IF flow[f].op = "restart" THEN "check" ELSE "teardown"]
      /\ UNCHANGED <<session, chans, LatestQRCode, IsConnected, late,
                     deviceLinked, wire, gen, online, linkedUnder, bootFailed, timedOut>>
  BY DEF TakeFlow, screen, device, flags
<1>3. flow \in [Flows -> [pc : Pcs, op : {"none", "start", "restart"}]] /\ f # NoFlow
  BY PairingAssumption DEF PairingInv, PairingTypes, FlowTypes
<1>4. /\ flow'[f].op = flow[f].op /\ flow'[f].pc = IF flow[f].op = "restart" THEN "check" ELSE "teardown"
      /\ \A g \in Flows : g # f => flow'[g] = flow[g]
      /\ flow[f].op # "none"
  BY <1>2, <1>3 DEF PairingInv, FlowInv, Pcs
<1>5. FlowInv'
  BY <1>2, <1>3, <1>4, PairingAssumption DEF PairingInv, FlowInv, Past
<1>6. flow[f].op # "restart" => flow[f] = StartFlow
  BY <1>2, <1>3, <1>4 DEF StartFlow
<1>7. UnderInv'
  BY <1>2, <1>3, <1>4, <1>6 DEF PairingInv, UnderInv, Unstoppable, StartFlow
<1>8. DeviceInv' /\ LinkedStaysOnline' /\ ScreenInv'
  BY <1>2 DEF PairingInv, DeviceInv, LinkedStaysOnline, ScreenInv
<1>9. ReaderInv'
  BY <1>2, <1>3, <1>4, <1>6 DEF PairingInv, ReaderInv, TimelyInv, IdleFlow
<1>. QED
  BY <1>1, <1>5, <1>7, <1>8, <1>9 DEF PairingInv

(* A flow that goes on, to pc, or is over; it holds the mutex.             *)
LEMMA HolderMoves ==
  ASSUME PairingInv, NEW f \in Flows, flow[f].pc \in Past, NEW pc \in Pcs, Goes(f, pc) \/ Leaves(f)
  PROVE  /\ FlowTypes'
         /\ (flow'[f].op = flow[f].op /\ flow'[f].pc = pc) \/ flow'[f] = IdleFlow
         /\ \A g \in Flows : g # f => flow'[g] = flow[g] /\ flow[g].pc \notin Past
         /\ Goes(f, pc) /\ pc \in Past => qrFlowMutex' = qrFlowMutex /\ flow'[f].pc = pc /\ flow'[f].op = flow[f].op
         /\ Leaves(f) => qrFlowMutex' = NoFlow /\ flow'[f] = IdleFlow
         /\ qrFlowMutex = f
<1>1. FlowTypes /\ DOMAIN flow = Flows /\ flow[f].op # "none"
  BY DEF PairingInv, PairingTypes, FlowTypes, FlowInv, Past
<1>2. qrFlowMutex = f /\ \A g \in Flows : g # f => flow[g].pc \notin Past
  BY DEF PairingInv, FlowInv
<1>3. CASE Goes(f, pc)
  BY <1>1, <1>2, <1>3, PairingAssumption DEF Goes, Leaves, FlowTypes, IdleFlow
<1>4. CASE Leaves(f)
  BY <1>1, <1>2, <1>4, PairingAssumption DEF Goes, Leaves, FlowTypes, IdleFlow, Pcs
<1>. QED
  BY <1>3, <1>4
LEMMA CheckLinkedInv ==
  ASSUME PairingInv, NEW f \in Flows, CheckLinked(f)
  PROVE  PairingInv'
<1>1. /\ flow[f].pc = "check"
      /\ (deviceLinked /\ Leaves(f)) \/ (~deviceLinked /\ Goes(f, "clear"))
      /\ UNCHANGED <<session, chans, LatestQRCode, IsConnected, late, deviceLinked, wire, gen, online,
                     linkedUnder, bootFailed, timedOut, restarts, codes, logouts, trouble>>
  BY DEF CheckLinked, MayRestart, screen, device, flags, Calm
<1>2. /\ FlowTypes' /\ qrFlowMutex = f
      /\ deviceLinked => qrFlowMutex' = NoFlow /\ flow'[f] = IdleFlow
      /\ ~deviceLinked => qrFlowMutex' = f /\ flow'[f].pc = "clear" /\ flow'[f].op = flow[f].op
      /\ \A g \in Flows : g # f => flow'[g] = flow[g] /\ flow[g].pc \notin Past
  BY <1>1, HolderMoves DEF Past, Pcs
<1>3. PairingTypes'
  BY <1>1, <1>2 DEF PairingInv, PairingTypes, ScreenTypes, DeviceTypes, FlagTypes, CountTypes, ChanTypes
<1>4. FlowInv'
  BY <1>1, <1>2, PairingAssumption DEF PairingInv, FlowInv, Past, IdleFlow
<1>5. DeviceInv' /\ LinkedStaysOnline' /\ ScreenInv'
  BY <1>1 DEF PairingInv, DeviceInv, LinkedStaysOnline, ScreenInv
<1>6. UnderInv'
  BY <1>1, <1>2 DEF PairingInv, UnderInv, Unstoppable, StartFlow, IdleFlow
<1>7. ReaderInv'
  BY <1>1, <1>2 DEF PairingInv, ReaderInv, TimelyInv, IdleFlow
<1>. QED
  BY <1>3, <1>4, <1>5, <1>6, <1>7 DEF PairingInv

LEMMA ClearStatusInv ==
  ASSUME PairingInv, NEW f \in Flows, ClearStatus(f)
  PROVE  PairingInv'
<1>1. /\ flow[f].pc = "clear" /\ Goes(f, "teardown")
      /\ LatestQRCode' = 0 /\ IsConnected' = FALSE /\ late' = FALSE
      /\ UNCHANGED <<session, chans, deviceLinked, wire, gen, online,
                     linkedUnder, bootFailed, timedOut, restarts, codes, logouts, trouble>>
  BY DEF ClearStatus, device, flags, Calm
<1>2. /\ FlowTypes' /\ qrFlowMutex = f
      /\ qrFlowMutex' = f /\ flow'[f].pc = "teardown" /\ flow'[f].op = flow[f].op
      /\ \A g \in Flows : g # f => flow'[g] = flow[g] /\ flow[g].pc \notin Past
  BY <1>1, HolderMoves DEF Past, Pcs
<1>3. PairingTypes'
  BY <1>1, <1>2 DEF PairingInv, PairingTypes, ScreenTypes, DeviceTypes, FlagTypes, CountTypes, ChanTypes
<1>4. FlowInv'
  BY <1>1, <1>2, PairingAssumption DEF PairingInv, FlowInv, Past, IdleFlow
<1>5. DeviceInv'
  BY <1>1 DEF PairingInv, DeviceInv
<1>6. ScreenInv'
  BY <1>1 DEF PairingInv, ScreenInv, Watched
<1>7. UnderInv'
  BY <1>1, <1>2 DEF PairingInv, UnderInv, Unstoppable, StartFlow
<1>8. LinkedStaysOnline'
  <2>1. deviceLinked => linkedUnder
    BY <1>1 DEF PairingInv, UnderInv, Unstoppable
  <2>. QED
    BY <1>1, <2>1 DEF PairingInv, PairingTypes, DeviceTypes, DeviceInv, LinkedStaysOnline
<1>9. ReaderInv'
  BY <1>1, <1>2 DEF PairingInv, ReaderInv, TimelyInv, IdleFlow
<1>. QED
  BY <1>3, <1>4, <1>5, <1>6, <1>7, <1>8, <1>9 DEF PairingInv

LEMMA TearDownInv ==
  ASSUME PairingInv, NEW f \in Flows, TearDown(f)
  PROVE  PairingInv'
<1>1. /\ flow[f].pc = "teardown" /\ Goes(f, "wait")
      /\ \/ (session # 0 \/ wire = "up") /\ wire' = "off" /\ online' = FALSE
         \/ session = 0 /\ wire # "up" /\ wire' = wire /\ online' = online
      /\ UNCHANGED <<session, chans, LatestQRCode, IsConnected, late, deviceLinked, gen,
                     linkedUnder, bootFailed, timedOut, restarts, codes, logouts, trouble>>
  BY DEF TearDown, screen, flags, Calm
<1>2. /\ FlowTypes' /\ qrFlowMutex = f
      /\ qrFlowMutex' = f /\ flow'[f].pc = "wait" /\ flow'[f].op = flow[f].op
      /\ \A g \in Flows : g # f => flow'[g] = flow[g] /\ flow[g].pc \notin Past
  BY <1>1, HolderMoves DEF Past, Pcs
<1>3. PairingTypes'
  BY <1>1, <1>2 DEF PairingInv, PairingTypes, ScreenTypes, DeviceTypes, FlagTypes, CountTypes, ChanTypes
<1>4. FlowInv'
  BY <1>1, <1>2, PairingAssumption DEF PairingInv, FlowInv, Past, IdleFlow
<1>5. DeviceInv' /\ ScreenInv'
  BY <1>1 DEF PairingInv, DeviceInv, ScreenInv
<1>6. UnderInv'
  BY <1>1, <1>2 DEF PairingInv, UnderInv, Unstoppable, StartFlow
<1>7. LinkedStaysOnline'
  <2>1. deviceLinked => linkedUnder
    BY <1>1 DEF PairingInv, UnderInv, Unstoppable
  <2>2. ~deviceLinked => online' = FALSE /\ (IsConnected => late)
    BY <1>1 DEF PairingInv, PairingTypes, DeviceTypes, DeviceInv
  <2>. QED
    BY <1>1, <2>1, <2>2 DEF PairingInv, PairingTypes, ScreenTypes, LinkedStaysOnline
<1>8. ReaderInv'
  <2>1. SUFFICES ASSUME ~timedOut, TimelyInv PROVE TimelyInv'
    BY <1>1 DEF PairingInv, ReaderInv
  <2>2. wire' = "off"
    <3>1. session = 0 /\ wire # "up" => wire = "off"
      <4>1. session = 0 /\ deviceLinked /\ wire # "off" => FALSE
        BY <1>1, <2>1 DEF TimelyInv, IdleFlow
      <4>. QED
        BY <4>1 DEF PairingInv, PairingTypes, DeviceTypes, DeviceInv
    <3>. QED
      BY <1>1, <3>1
  <2>. QED
    BY <1>1, <1>2, <2>1, <2>2 DEF TimelyInv
<1>. QED
  BY <1>3, <1>4, <1>5, <1>6, <1>7, <1>8 DEF PairingInv

LEMMA WaitSessionInv ==
  ASSUME PairingInv, NEW f \in Flows, WaitSession(f)
  PROVE  PairingInv'
<1>1. /\ flow[f].pc = "wait" /\ Goes(f, "channel") /\ session' = 0
      /\ \/ SessionOver /\ timedOut' = timedOut /\ trouble' = trouble
         \/ timedOut' = TRUE /\ trouble' = trouble + 1
      /\ UNCHANGED <<chans, LatestQRCode, IsConnected, late, deviceLinked, wire, gen, online,
                     linkedUnder, bootFailed, restarts, codes, logouts>>
  BY DEF WaitSession, Trouble, NoTrouble, screen, device
<1>2. /\ FlowTypes' /\ qrFlowMutex = f
      /\ qrFlowMutex' = f /\ flow'[f].pc = "channel" /\ flow'[f].op = flow[f].op
      /\ \A g \in Flows : g # f => flow'[g] = flow[g] /\ flow[g].pc \notin Past
  BY <1>1, HolderMoves DEF Past, Pcs
<1>3. ChanTypes'
  <2>1. chans' \in Seq(Chan) /\ Len(chans') \in Nat /\ session' = 0
    BY <1>1 DEF PairingInv, PairingTypes, ChanTypes
  <2>. QED
    BY <2>1 DEF ChanTypes
<1>4. PairingTypes'
  <2>1. FlagTypes' /\ CountTypes'
    <3>1. FlagTypes /\ CountTypes
      BY DEF PairingInv, PairingTypes
    <3>2. timedOut' \in BOOLEAN
      <4>1. timedOut' = timedOut \/ timedOut' = TRUE
        BY <1>1
      <4>. QED
        BY <3>1, <4>1 DEF FlagTypes
    <3>3. trouble' \in Nat
      <4>1. trouble' = trouble \/ trouble' = trouble + 1
        BY <1>1
      <4>. QED
        BY <3>1, <4>1 DEF CountTypes
    <3>. QED
      BY <1>1, <3>1, <3>2, <3>3 DEF FlagTypes, CountTypes
  <2>2. ScreenTypes' /\ DeviceTypes'
    BY <1>1 DEF PairingInv, PairingTypes, ScreenTypes, DeviceTypes
  <2>. QED
    BY <1>2, <1>3, <2>1, <2>2 DEF PairingTypes
<1>5. FlowInv'
  BY <1>1, <1>2, PairingAssumption DEF PairingInv, FlowInv, Past, IdleFlow
<1>6. DeviceInv' /\ LinkedStaysOnline'
  BY <1>1 DEF PairingInv, DeviceInv, LinkedStaysOnline
<1>7. ScreenInv'
  <2>1. timedOut => timedOut'
    BY <1>1
  <2>. QED
    BY <1>1, <2>1 DEF PairingInv, ScreenInv, Watched
<1>8. UnderInv'
  BY <1>1, <1>2 DEF PairingInv, UnderInv, Unstoppable, StartFlow
<1>9. ReaderInv'
  <2>1. SUFFICES ASSUME ~timedOut, TimelyInv, SessionOver PROVE TimelyInv'
    BY <1>1 DEF PairingInv, ReaderInv
  <2>2. wire = "off"
    BY <1>1, <2>1 DEF TimelyInv
  <2>3. \A n \in DOMAIN chans : chans[n].reader # "reading"
    <3>1. \A n \in DOMAIN chans : n # 0
      BY DEF PairingInv, PairingTypes, ChanTypes
    <3>. QED
      BY <2>1, <3>1 DEF TimelyInv, Alone, SessionOver
  <2>4. Alone(chans, session, gen)'
    BY <1>1, <2>3 DEF Alone
  <2>. QED
    BY <1>1, <1>2, <2>1, <2>2, <2>4 DEF TimelyInv
<1>. QED
  BY <1>4, <1>5, <1>6, <1>7, <1>8, <1>9 DEF PairingInv
LEMMA OpenChannelInv ==
  ASSUME PairingInv, NEW f \in Flows, OpenChannel(f)
  PROVE  PairingInv'
<1>1. /\ flow[f].pc = "channel"
      /\ UNCHANGED <<session, LatestQRCode, IsConnected, late, deviceLinked, wire, gen, online,
                     linkedUnder, bootFailed, timedOut, restarts, codes, logouts>>
      /\ trouble' = trouble \/ trouble' = trouble + 1
  BY DEF OpenChannel, Trouble, NoTrouble, screen, device, flags
<1>2. /\ ScreenTypes' /\ DeviceTypes' /\ FlagTypes' /\ CountTypes'
      /\ chans \in Seq(Chan) /\ session <= Len(chans) /\ session = 0 /\ gen \in Nat /\ timedOut \in BOOLEAN
  <2>1. FlagTypes' /\ CountTypes'
    BY <1>1 DEF PairingInv, PairingTypes, FlagTypes, CountTypes
  <2>2. ScreenTypes' /\ DeviceTypes'
    BY <1>1 DEF PairingInv, PairingTypes, ScreenTypes, DeviceTypes
  <2>. QED
    BY <1>1, <2>1, <2>2 DEF PairingInv, PairingTypes, ChanTypes, DeviceTypes, FlagTypes, FlowInv
<1>3. LinkedStaysOnline'
  BY <1>1 DEF PairingInv, LinkedStaysOnline
<1>4. CASE Leaves(f) /\ UNCHANGED chans
  <2>1. /\ FlowTypes'
        /\ qrFlowMutex' = NoFlow /\ flow'[f] = IdleFlow
        /\ \A g \in Flows : g # f => flow'[g] = flow[g] /\ flow[g].pc \notin Past
    BY <1>1, <1>4, HolderMoves DEF Past, Pcs
  <2>2. PairingTypes'
    BY <1>1, <1>2, <1>4, <2>1 DEF PairingInv, PairingTypes, ChanTypes
  <2>3. FlowInv'
    BY <1>1, <1>4, <2>1, PairingAssumption DEF PairingInv, FlowInv, Past, IdleFlow
  <2>4. DeviceInv' /\ ScreenInv'
    BY <1>1, <1>4 DEF PairingInv, DeviceInv, ScreenInv
  <2>5. UnderInv'
    BY <1>1, <2>1 DEF PairingInv, UnderInv, Unstoppable, StartFlow, IdleFlow
  <2>6. ReaderInv'
    BY <1>1, <1>4, <2>1 DEF PairingInv, ReaderInv, TimelyInv, IdleFlow
  <2>. QED
    BY <1>3, <2>2, <2>3, <2>4, <2>5, <2>6 DEF PairingInv
<1>5. CASE /\ ~deviceLinked /\ Goes(f, "connect")
           /\ chans' = Append(chans, [gen |-> gen + 1, open |-> TRUE, items |-> <<>>, reader |-> "none"])
  <2>1. /\ FlowTypes' /\ qrFlowMutex = f
        /\ qrFlowMutex' = f /\ flow'[f].pc = "connect" /\ flow'[f].op = flow[f].op
        /\ \A g \in Flows : g # f => flow'[g] = flow[g] /\ flow[g].pc \notin Past
    BY <1>1, <1>5, HolderMoves DEF Past, Pcs
  <2>2. PICK cs, ds, g, s, shown, slow :
          cs = chans /\ ds = chans' /\ g = gen /\ s = session /\ shown = LatestQRCode /\ slow = timedOut
    OBVIOUS
  <2>3. Opens(cs, ds, g) /\ cs \in Seq(Chan) /\ g \in Nat
    BY <1>2, <1>5, <2>2 DEF Opens
  <2>4. /\ ds \in Seq(Chan) /\ Len(ds) = Len(cs) + 1
        /\ Ended(cs) => Ended(ds)
        /\ Watched(cs, shown, g, slow) => Watched(ds, shown, g, slow)
        /\ Alone(cs, s, g) => Alone(ds, s, g)
        /\ Unread(ds) /\ Waiting(ds, g)
    BY <2>3, OpenKeeps
  <2>5. ChanTypes'
    <3>1. session' = 0 /\ chans' \in Seq(Chan) /\ Len(chans') \in Nat
      BY <1>1, <1>2, <2>2, <2>4
    <3>. QED
      BY <3>1 DEF ChanTypes
  <2>6. PairingTypes'
    BY <1>2, <2>1, <2>5 DEF PairingTypes
  <2>7. FlowInv'
    <3>1. Unread(chans') /\ session' = session
      BY <1>1, <2>2, <2>4
    <3>. QED
      BY <1>1, <2>1, <3>1, PairingAssumption DEF PairingInv, FlowInv, Past
  <2>8. DeviceInv'
    BY <1>1, <1>5 DEF PairingInv, DeviceInv
  <2>9. ScreenInv'
    <3>1. Ended(ds) /\ Watched(ds, shown, g, slow)
      BY <2>2, <2>4 DEF PairingInv, ScreenInv
    <3>. QED
      BY <1>1, <2>2, <3>1 DEF ScreenInv
  <2>10. UnderInv'
    BY <1>1, <1>5 DEF UnderInv
  <2>11. ReaderInv'
    <3>1. SUFFICES ASSUME ~timedOut, TimelyInv PROVE TimelyInv'
      BY <1>1 DEF PairingInv, ReaderInv
    <3>2. Alone(chans, session, gen)' /\ Waiting(chans, gen)'
      <4>1. Alone(ds, s, g) /\ Waiting(ds, g)
        BY <2>2, <2>4, <3>1 DEF TimelyInv
      <4>. QED
        BY <1>1, <2>2, <4>1
    <3>. QED
      BY <1>1, <1>5, <2>1, <3>1, <3>2 DEF TimelyInv
  <2>. QED
    BY <1>3, <2>6, <2>7, <2>8, <2>9, <2>10, <2>11 DEF PairingInv
<1>. QED
  BY <1>4, <1>5 DEF OpenChannel

LEMMA ConnectQRInv ==
  ASSUME PairingInv, NEW f \in Flows, ConnectQR(f)
  PROVE  PairingInv'
<1>1. /\ flow[f].pc = "connect" /\ Leaves(f)
      /\ UNCHANGED <<LatestQRCode, IsConnected, late, deviceLinked, online,
                     linkedUnder, bootFailed, timedOut, restarts, codes, logouts>>
      /\ \/ /\ trouble' = trouble /\ wire' = "up" /\ gen' = gen + 1 /\ session' = Len(chans)
            /\ chans' = [chans EXCEPT ![Len(chans)].reader = "reading"]
         \/ trouble' = trouble + 1 /\ UNCHANGED <<wire, gen, chans, session>>
  BY DEF ConnectQR, Trouble, NoTrouble, screen, flags
<1>2. /\ FlowTypes' /\ qrFlowMutex = f
      /\ qrFlowMutex' = NoFlow /\ flow'[f] = IdleFlow
      /\ \A g \in Flows : g # f => flow'[g] = flow[g] /\ flow[g].pc \notin Past
  BY <1>1, HolderMoves DEF Past, Pcs
<1>3. /\ chans \in Seq(Chan) /\ session <= Len(chans) /\ session = 0 /\ gen \in Nat /\ timedOut \in BOOLEAN
      /\ LatestQRCode \in Nat /\ trouble \in Nat /\ Unread(chans)
  BY <1>1 DEF PairingInv, PairingTypes, ChanTypes, DeviceTypes, FlagTypes, ScreenTypes, CountTypes, FlowInv
<1>4. ScreenTypes' /\ DeviceTypes' /\ FlagTypes' /\ CountTypes'
  <2>1. FlagTypes' /\ CountTypes'
    BY <1>1, <1>3 DEF PairingInv, PairingTypes, FlagTypes, CountTypes
  <2>2. ScreenTypes'
    BY <1>1 DEF PairingInv, PairingTypes, ScreenTypes
  <2>3. DeviceTypes'
    BY <1>1, <1>3 DEF PairingInv, PairingTypes, DeviceTypes
  <2>. QED
    BY <2>1, <2>2, <2>3
<1>5. UnderInv'
  BY <1>1, <1>2 DEF PairingInv, UnderInv, Unstoppable, StartFlow, IdleFlow
<1>6. CASE UNCHANGED <<wire, gen, chans, session>>
  <2>1. PairingTypes'
    BY <1>2, <1>4, <1>6 DEF PairingInv, PairingTypes, ChanTypes
  <2>2. FlowInv'
    BY <1>1, <1>2, <1>6, PairingAssumption DEF PairingInv, FlowInv, Past, IdleFlow
  <2>3. DeviceInv' /\ ScreenInv' /\ LinkedStaysOnline'
    BY <1>1, <1>6 DEF PairingInv, DeviceInv, ScreenInv, LinkedStaysOnline
  <2>4. ReaderInv'
    BY <1>1, <1>2, <1>6 DEF PairingInv, ReaderInv, TimelyInv, IdleFlow
  <2>. QED
    BY <1>5, <2>1, <2>2, <2>3, <2>4 DEF PairingInv
<1>7. CASE /\ wire' = "up" /\ gen' = gen + 1 /\ session' = Len(chans)
           /\ chans' = [chans EXCEPT ![Len(chans)].reader = "reading"]
  <2>1. PICK cs, ds, g, k, shown, slow :
          cs = chans /\ ds = chans' /\ g = gen /\ k = Len(chans) /\ shown = LatestQRCode /\ slow = timedOut
    OBVIOUS
  <2>2. cs \in Seq(Chan) /\ g \in Nat /\ shown \in Nat /\ slow \in BOOLEAN /\ Unread(cs) /\ k = Len(cs)
    BY <1>3, <2>1
  <2>3. Becomes(cs, ds, k, "reading")
    BY <1>7, <2>1 DEF Becomes
  <2>4. k \in DOMAIN cs
    BY <2>2 DEF Unread
  <2>5. ~slow => Alone(cs, 0, g) /\ Waiting(cs, g)
    BY <1>1, <1>3, <2>1 DEF PairingInv, ReaderInv, TimelyInv
  <2>6. /\ ds \in Seq(Chan) /\ Len(ds) = Len(cs) /\ Len(cs) > 0
        /\ Ended(cs) => Ended(ds)
        /\ Watched(cs, shown, g, slow) => Watched(ds, shown, g + 1, slow)
        /\ ~slow => Alone(ds, Len(cs), g + 1)
        /\ AllClosed(cs) => AllClosed(ds)
    BY <2>2, <2>3, <2>4, <2>5, ConnectKeeps
  <2>7. ChanTypes'
    <3>1. session' = Len(chans') /\ chans' \in Seq(Chan) /\ Len(chans') \in Nat
      BY <1>7, <2>1, <2>6
    <3>. QED
      BY <3>1 DEF ChanTypes
  <2>8. PairingTypes'
    BY <1>2, <1>4, <2>7 DEF PairingTypes
  <2>9. FlowInv'
    BY <1>2, PairingAssumption DEF PairingInv, FlowInv, Past, IdleFlow
  <2>10. DeviceInv'
    <3>1. AllClosed(chans) => AllClosed(chans')
      BY <2>1, <2>6
    <3>. QED
      BY <1>1, <1>3, <1>7, <3>1 DEF PairingInv, DeviceInv
  <2>11. ScreenInv'
    <3>1. Ended(ds) /\ Watched(ds, shown, g + 1, slow)
      BY <2>1, <2>6 DEF PairingInv, ScreenInv
    <3>. QED
      BY <1>1, <1>7, <2>1, <3>1 DEF ScreenInv
  <2>12. LinkedStaysOnline'
    BY <1>1, <1>7 DEF PairingInv, LinkedStaysOnline
  <2>13. ReaderInv'
    <3>1. SUFFICES ASSUME ~timedOut PROVE TimelyInv'
      BY <1>1 DEF ReaderInv
    <3>2. Alone(chans, session, gen)' /\ session' # 0
      <4>1. Alone(ds, Len(cs), g + 1)
        BY <2>1, <2>6, <3>1
      <4>. QED
        BY <1>7, <2>1, <2>6, <4>1
    <3>. QED
      BY <1>2, <3>2 DEF TimelyInv, Past, IdleFlow
  <2>. QED
    BY <1>5, <2>8, <2>9, <2>10, <2>11, <2>12, <2>13 DEF PairingInv
<1>. QED
  BY <1>1, <1>6, <1>7
-----------------------------------------------------------------------------
(* Channels and their readers.                                             *)

SameFlows == UNCHANGED <<qrFlowMutex, flow, session>>
SameSocket == UNCHANGED <<deviceLinked, wire, gen, online>>
SameFlags == UNCHANGED <<linkedUnder, bootFailed, timedOut>>

LEMMA ChansMove ==
  ASSUME PairingInv, SameFlows, SameSocket, SameFlags,
         chans' \in Seq(Chan), Len(chans') = Len(chans),
         AllClosed(chans) => AllClosed(chans'), Unread(chans) => Unread(chans'),
         Ended(chans'), Watched(chans', LatestQRCode', gen, timedOut),
         ~timedOut => Alone(chans', session, gen),
         \A f \in Flows : ~timedOut /\ flow[f].pc = "connect" => Waiting(chans', gen)
  PROVE  /\ FlowTypes' /\ DeviceTypes' /\ FlagTypes' /\ ChanTypes'
         /\ FlowInv' /\ UnderInv' /\ ScreenInv' /\ ReaderInv'
<1>1. FlowTypes' /\ DeviceTypes' /\ FlagTypes'
  BY DEF SameFlows, SameSocket, SameFlags, PairingInv, PairingTypes, FlowTypes, DeviceTypes, FlagTypes
<1>2. ChanTypes'
  BY DEF SameFlows, PairingInv, PairingTypes, ChanTypes
<1>3. FlowInv' /\ UnderInv'
  BY DEF SameFlows, SameSocket, SameFlags, PairingInv, FlowInv, UnderInv, Unstoppable
<1>4. ScreenInv'
  <2>1. gen' = gen /\ timedOut' = timedOut
    BY DEF SameSocket, SameFlags
  <2>. QED
    BY <2>1 DEF ScreenInv
<1>5. ReaderInv'
  <2>1. UNCHANGED <<gen, timedOut, session, flow, wire, deviceLinked>>
    BY DEF SameSocket, SameFlags, SameFlows
  <2>2. SUFFICES ASSUME ~timedOut, TimelyInv PROVE TimelyInv'
    BY <2>1 DEF PairingInv, ReaderInv
  <2>3. Alone(chans, session, gen)'
    BY <2>1, <2>2
  <2>4. \A f \in Flows : flow'[f].pc = "connect" => Waiting(chans', gen')
    BY <2>1, <2>2
  <2>. QED
    BY <2>1, <2>2, <2>3, <2>4 DEF TimelyInv
<1>. QED
  BY <1>1, <1>2, <1>3, <1>4, <1>5

LEMMA ReadItemInv ==
  ASSUME PairingInv, NEW n \in DOMAIN chans, ReadItem(n)
  PROVE  PairingInv'
<1>1. /\ chans[n].reader = "reading" /\ chans[n].items # <<>>
      /\ chans' = [chans EXCEPT ![n].items = Tail(@)]
      /\ LatestQRCode' = IF Head(chans[n].items).event = "code" THEN Head(chans[n].items).gen ELSE 0
      /\ \/ IsConnected' = TRUE /\ late' = ~online
         \/ UNCHANGED <<IsConnected, late>>
      /\ SameFlows /\ SameSocket /\ SameFlags /\ UNCHANGED <<restarts, codes, logouts, trouble>>
  BY DEF ReadItem, device, flags, Calm, SameFlows, SameSocket, SameFlags
<1>2. chans \in Seq(Chan) /\ session \in Nat /\ gen \in Nat /\ timedOut \in BOOLEAN /\ online \in BOOLEAN
  BY DEF PairingInv, PairingTypes, ChanTypes, DeviceTypes, FlagTypes
<1>3. PICK cs, ds, k, g, s, then, slow :
        cs = chans /\ ds = chans' /\ k = n /\ g = gen /\ s = session /\ then = LatestQRCode' /\ slow = timedOut
  OBVIOUS
<1>4. /\ cs \in Seq(Chan) /\ k \in DOMAIN cs /\ slow \in BOOLEAN
      /\ cs[k].reader = "reading" /\ cs[k].items # <<>>
      /\ then = IF Head(cs[k].items).event = "code" THEN Head(cs[k].items).gen ELSE 0
  BY <1>1, <1>2, <1>3
<1>5. Reads(cs, ds, k)
  BY <1>1, <1>3, Zenon DEF Reads, Read
<1>6. Ended(cs) /\ (~slow => Alone(cs, s, g))
  BY <1>3 DEF PairingInv, ScreenInv, ReaderInv, TimelyInv
<1>7. /\ ds \in Seq(Chan) /\ Len(ds) = Len(cs) /\ then \in Nat
      /\ Ended(cs) => Ended(ds)
      /\ Ended(cs) /\ (~slow => Alone(cs, s, g)) => Watched(ds, then, g, slow)
      /\ Alone(cs, s, g) => Alone(ds, s, g)
      /\ AllClosed(cs) => AllClosed(ds)
      /\ Unread(cs) => Unread(ds) /\ (Waiting(cs, g) => Waiting(ds, g))
  BY <1>4, <1>5, ReadingKeeps
<1>8. \A f \in Flows : ~timedOut /\ flow[f].pc = "connect" => Waiting(chans', gen)
  <2>1. \A f \in Flows : ~timedOut /\ flow[f].pc = "connect" => Unread(chans) /\ Waiting(chans, gen)
    BY DEF PairingInv, FlowInv, ReaderInv, TimelyInv
  <2>. QED
    BY <1>3, <1>7, <2>1
<1>9. /\ FlowTypes' /\ DeviceTypes' /\ FlagTypes' /\ ChanTypes'
      /\ FlowInv' /\ UnderInv' /\ ScreenInv' /\ ReaderInv'
  BY <1>1, <1>3, <1>6, <1>7, <1>8, ChansMove
<1>10. PairingTypes'
  <2>1. LatestQRCode' \in Nat
    BY <1>3, <1>7
  <2>2. IsConnected' \in BOOLEAN /\ late' \in BOOLEAN
    BY <1>1 DEF PairingInv, PairingTypes, ScreenTypes
  <2>3. CountTypes'
    BY <1>1 DEF PairingInv, PairingTypes, CountTypes
  <2>. QED
    BY <1>9, <2>1, <2>2, <2>3 DEF PairingTypes, ScreenTypes
<1>11. DeviceInv'
  <2>1. AllClosed(chans) => AllClosed(chans')
    BY <1>3, <1>7
  <2>2. UNCHANGED <<deviceLinked, wire, gen, online>> /\ DeviceInv
    BY <1>1 DEF SameSocket, PairingInv
  <2>3. ~deviceLinked /\ IsConnected' => late'
    <3>1. CASE IsConnected' = TRUE /\ late' = ~online
      BY <2>2, <3>1 DEF DeviceInv
    <3>2. CASE UNCHANGED <<IsConnected, late>>
      BY <2>2, <3>2 DEF DeviceInv
    <3>. QED
      BY <1>1, <3>1, <3>2
  <2>. QED
    BY <2>1, <2>2, <2>3 DEF DeviceInv
<1>12. LinkedStaysOnline'
  <2>1. UNCHANGED <<deviceLinked, wire, online, linkedUnder, bootFailed>>
    BY <1>1 DEF SameSocket, SameFlags
  <2>2. LinkedStaysOnline
    BY DEF PairingInv
  <2>3. CASE IsConnected' = TRUE /\ late' = ~online
    BY <1>2, <2>1, <2>2, <2>3 DEF LinkedStaysOnline
  <2>4. CASE UNCHANGED <<IsConnected, late>>
    BY <2>1, <2>2, <2>4 DEF LinkedStaysOnline
  <2>. QED
    BY <1>1, <2>3, <2>4
<1>. QED
  BY <1>9, <1>10, <1>11, <1>12 DEF PairingInv

LEMMA ReaderExitsInv ==
  ASSUME PairingInv, NEW n \in DOMAIN chans, ReaderExits(n)
  PROVE  PairingInv'
<1>1. /\ chans[n].reader = "reading" /\ chans[n].items = <<>> /\ ~chans[n].open
      /\ chans' = [chans EXCEPT ![n].reader = "gone"]
      /\ SameFlows /\ SameSocket /\ SameFlags
      /\ UNCHANGED <<LatestQRCode, IsConnected, late, restarts, codes, logouts, trouble>>
  BY DEF ReaderExits, screen, device, flags, Calm, SameFlows, SameSocket, SameFlags
<1>2. chans \in Seq(Chan)
  BY DEF PairingInv, PairingTypes, ChanTypes
<1>3. PICK cs, ds, k, g, s, shown, slow :
        cs = chans /\ ds = chans' /\ k = n /\ g = gen /\ s = session /\ shown = LatestQRCode /\ slow = timedOut
  OBVIOUS
<1>4. cs \in Seq(Chan) /\ k \in DOMAIN cs /\ cs[k].reader = "reading" /\ cs[k].items = <<>> /\ ~cs[k].open
  BY <1>1, <1>2, <1>3
<1>5. Becomes(cs, ds, k, "gone")
  BY <1>1, <1>3, Zenon DEF Becomes
<1>6. /\ ds \in Seq(Chan) /\ Len(ds) = Len(cs)
      /\ Ended(cs) => Ended(ds)
      /\ Watched(cs, shown, g, slow) => Watched(ds, shown, g, slow)
      /\ Alone(cs, s, g) => Alone(ds, s, g)
      /\ AllClosed(cs) => AllClosed(ds)
      /\ Unread(cs) => Unread(ds) /\ (Waiting(cs, g) => Waiting(ds, g))
  BY <1>4, <1>5, ExitKeeps
<1>7. Ended(cs) /\ Watched(cs, shown, g, slow) /\ (~slow => Alone(cs, s, g))
  BY <1>3 DEF PairingInv, ScreenInv, ReaderInv, TimelyInv
<1>8. \A f \in Flows : ~timedOut /\ flow[f].pc = "connect" => Waiting(chans', gen)
  <2>1. \A f \in Flows : ~timedOut /\ flow[f].pc = "connect" => Unread(chans) /\ Waiting(chans, gen)
    BY DEF PairingInv, FlowInv, ReaderInv, TimelyInv
  <2>. QED
    BY <1>3, <1>6, <2>1
<1>9. LatestQRCode' = LatestQRCode
  BY <1>1
<1>10. /\ FlowTypes' /\ DeviceTypes' /\ FlagTypes' /\ ChanTypes'
       /\ FlowInv' /\ UnderInv' /\ ScreenInv' /\ ReaderInv'
  BY <1>1, <1>3, <1>6, <1>7, <1>8, <1>9, ChansMove
<1>11. ScreenTypes' /\ CountTypes'
  BY <1>1 DEF PairingInv, PairingTypes, ScreenTypes, CountTypes
<1>12. DeviceInv' /\ LinkedStaysOnline'
  <2>1. AllClosed(chans) => AllClosed(chans')
    BY <1>3, <1>6
  <2>. QED
    BY <1>1, <2>1 DEF PairingInv, DeviceInv, LinkedStaysOnline, SameSocket, SameFlags
<1>. QED
  BY <1>10, <1>11, <1>12 DEF PairingInv, PairingTypes
(* Whoever is told, the table is as good as it was.                        *)
LEMMA ToldKeeps ==
  ASSUME PairingInv, NEW event \in {"code", "success", "timeout", "closed"}, NEW last \in BOOLEAN,
         last => event # "code", Telling(chans, chans', Item(event), last)
  PROVE  /\ chans' \in Seq(Chan) /\ Len(chans') = Len(chans)
         /\ AllClosed(chans) => AllClosed(chans')
         /\ Unread(chans) => Unread(chans')
         /\ Ended(chans') /\ Watched(chans', LatestQRCode, gen, timedOut)
         /\ ~timedOut => Alone(chans', session, gen)
<1>1. PICK cs, ds, g, s, shown, slow, item :
        /\ cs = chans /\ ds = chans' /\ g = gen /\ s = session /\ shown = LatestQRCode /\ slow = timedOut
        /\ item = Item(event)
  OBVIOUS
<1>2. item \in Items /\ item.gen = g /\ (last => item.event # "code")
  <2>1. gen \in Nat
    BY DEF PairingInv, PairingTypes, DeviceTypes
  <2>. QED
    BY <1>1, <2>1 DEF Item, Items
<1>3. cs \in Seq(Chan)
  BY <1>1 DEF PairingInv, PairingTypes, ChanTypes
<1>4. Telling(cs, ds, item, last)
  BY <1>1
<1>5. /\ ds \in Seq(Chan) /\ Len(ds) = Len(cs)
      /\ Ended(cs) => Ended(ds)
      /\ Watched(cs, shown, g, slow) => Watched(ds, shown, g, slow)
      /\ Alone(cs, s, item.gen) => Alone(ds, s, item.gen)
      /\ AllClosed(cs) => AllClosed(ds)
      /\ Unread(cs) => Unread(ds)
  BY <1>2, <1>3, <1>4, TellingKeeps
<1>6. Ended(cs) /\ Watched(cs, shown, g, slow) /\ (~slow => Alone(cs, s, g))
  BY <1>1 DEF PairingInv, ScreenInv, ReaderInv, TimelyInv
<1>. QED
  BY <1>1, <1>2, <1>5, <1>6

LEMMA ToldAll ==
  ASSUME PairingInv, NEW event \in {"code", "success", "timeout", "closed"}, NEW last \in BOOLEAN,
         last => event # "code", chans' = Told(event, last)
  PROVE  Telling(chans, chans', Item(event), last) /\ (last => AllClosed(chans'))
<1>1. PICK cs, ds, item : cs = chans /\ ds = chans' /\ item = Item(event)
  OBVIOUS
<1>2. item \in Items /\ item.event = event
  <2>1. gen \in Nat
    BY DEF PairingInv, PairingTypes, DeviceTypes
  <2>. QED
    BY <1>1, <2>1 DEF Item, Items
<1>3. cs \in Seq(Chan)
  BY <1>1 DEF PairingInv, PairingTypes, ChanTypes
<1>4. Tells(cs, ds, item, last)
  BY <1>1, Zenon DEF Tells, Told
<1>5. Telling(cs, ds, item, last) /\ (last => AllClosed(ds))
  BY <1>2, <1>3, <1>4, TellsAll
<1>. QED
  BY <1>1, <1>5

LEMMA ChannelEndsInv ==
  ASSUME PairingInv, NEW n \in DOMAIN chans, ChannelEnds(n)
  PROVE  PairingInv'
<1>1. /\ chans[n].open /\ (chans[n].gen < gen \/ chans[n].gen = gen)
      /\ chans' = [chans EXCEPT ![n] = Tell(chans[n], Item("closed"), TRUE)]
      /\ SameFlows /\ SameSocket /\ SameFlags
      /\ UNCHANGED <<LatestQRCode, IsConnected, late, restarts, codes, logouts, trouble>>
  BY DEF ChannelEnds, screen, device, flags, Calm, SameFlows, SameSocket, SameFlags
<1>2. chans \in Seq(Chan) /\ gen \in Nat
  BY DEF PairingInv, PairingTypes, ChanTypes, DeviceTypes
<1>3. Telling(chans, chans', Item("closed"), TRUE) /\ \A k \in DOMAIN chans : k # n => chans'[k] = chans[k]
  BY <1>1, Zenon DEF Telling
<1>4. /\ chans' \in Seq(Chan) /\ Len(chans') = Len(chans)
      /\ AllClosed(chans) => AllClosed(chans')
      /\ Unread(chans) => Unread(chans')
      /\ Ended(chans') /\ Watched(chans', LatestQRCode, gen, timedOut)
      /\ ~timedOut => Alone(chans', session, gen)
  BY <1>3, ToldKeeps
<1>5. \A f \in Flows : ~timedOut /\ flow[f].pc = "connect" => Waiting(chans', gen)
  <2>1. SUFFICES ASSUME ~timedOut, NEW f \in Flows, flow[f].pc = "connect" PROVE Waiting(chans', gen)
    OBVIOUS
  <2>2. Unread(chans) /\ Waiting(chans, gen)
    BY <2>1 DEF PairingInv, FlowInv, ReaderInv, TimelyInv
  <2>3. Len(chans) \in DOMAIN chans /\ chans[Len(chans)].gen = gen + 1
    BY <1>2, <2>2 DEF Unread, Waiting
  <2>4. Len(chans) # n
    BY <1>1, <1>2, <2>3
  <2>5. chans'[Len(chans')] = chans[Len(chans)]
    BY <1>3, <1>4, <2>3, <2>4
  <2>. QED
    BY <2>2, <2>5 DEF Waiting
<1>6. LatestQRCode' = LatestQRCode
  BY <1>1
<1>7. /\ FlowTypes' /\ DeviceTypes' /\ FlagTypes' /\ ChanTypes'
      /\ FlowInv' /\ UnderInv' /\ ScreenInv' /\ ReaderInv'
  BY <1>1, <1>4, <1>5, <1>6, ChansMove
<1>8. ScreenTypes' /\ CountTypes'
  BY <1>1 DEF PairingInv, PairingTypes, ScreenTypes, CountTypes
<1>9. DeviceInv' /\ LinkedStaysOnline'
  BY <1>1, <1>4 DEF PairingInv, DeviceInv, LinkedStaysOnline, SameSocket, SameFlags
<1>. QED
  BY <1>7, <1>8, <1>9 DEF PairingInv, PairingTypes

LEMMA NewCodeInv ==
  ASSUME PairingInv, NewCode
  PROVE  PairingInv'
<1>1. /\ wire = "up" /\ ~deviceLinked /\ codes' = codes + 1
      /\ chans' = Told("code", FALSE)
      /\ SameFlows /\ SameSocket /\ SameFlags
      /\ UNCHANGED <<LatestQRCode, IsConnected, late, restarts, logouts, trouble>>
  BY DEF NewCode, screen, device, flags, SameFlows, SameSocket, SameFlags
<1>2. Telling(chans, chans', Item("code"), FALSE)
  BY <1>1, ToldAll
<1>3. /\ chans' \in Seq(Chan) /\ Len(chans') = Len(chans)
      /\ AllClosed(chans) => AllClosed(chans')
      /\ Unread(chans) => Unread(chans')
      /\ Ended(chans') /\ Watched(chans', LatestQRCode, gen, timedOut)
      /\ ~timedOut => Alone(chans', session, gen)
  BY <1>2, ToldKeeps
<1>4. \A f \in Flows : ~timedOut /\ flow[f].pc = "connect" => Waiting(chans', gen)
  BY <1>1 DEF PairingInv, ReaderInv, TimelyInv
<1>5. LatestQRCode' = LatestQRCode
  BY <1>1
<1>6. /\ FlowTypes' /\ DeviceTypes' /\ FlagTypes' /\ ChanTypes'
      /\ FlowInv' /\ UnderInv' /\ ScreenInv' /\ ReaderInv'
  BY <1>1, <1>3, <1>4, <1>5, ChansMove
<1>7. ScreenTypes' /\ CountTypes'
  BY <1>1 DEF PairingInv, PairingTypes, ScreenTypes, CountTypes
<1>8. DeviceInv' /\ LinkedStaysOnline'
  BY <1>1, <1>3 DEF PairingInv, DeviceInv, LinkedStaysOnline, SameSocket, SameFlags
<1>. QED
  BY <1>6, <1>7, <1>8 DEF PairingInv, PairingTypes

-----------------------------------------------------------------------------
(* The socket and the phone.                                               *)

LEMMA CodesRunOutInv ==
  ASSUME PairingInv, CodesRunOut
  PROVE  PairingInv'
<1>1. /\ wire = "up" /\ ~deviceLinked /\ wire' = "off"
      /\ chans' = Told("timeout", TRUE)
      /\ UNCHANGED <<qrFlowMutex, flow, session, LatestQRCode, IsConnected, late, deviceLinked, gen, online,
                     linkedUnder, bootFailed, timedOut, restarts, codes, logouts, trouble>>
  BY DEF CodesRunOut, screen, flags, Calm
<1>2. Telling(chans, chans', Item("timeout"), TRUE) /\ AllClosed(chans')
  BY <1>1, ToldAll
<1>3. /\ chans' \in Seq(Chan) /\ Len(chans') = Len(chans)
      /\ Unread(chans) => Unread(chans')
      /\ Ended(chans') /\ Watched(chans', LatestQRCode, gen, timedOut)
      /\ ~timedOut => Alone(chans', session, gen)
  BY <1>2, ToldKeeps
<1>4. PairingTypes'
  <2>1. FlowTypes' /\ ScreenTypes' /\ DeviceTypes' /\ FlagTypes' /\ CountTypes'
    BY <1>1 DEF PairingInv, PairingTypes, FlowTypes, ScreenTypes, DeviceTypes, FlagTypes, CountTypes
  <2>2. ChanTypes'
    BY <1>1, <1>3 DEF PairingInv, PairingTypes, ChanTypes
  <2>. QED
    BY <2>1, <2>2 DEF PairingTypes
<1>5. FlowInv' /\ UnderInv'
  BY <1>1, <1>3 DEF PairingInv, FlowInv, UnderInv, Unstoppable
<1>6. DeviceInv' /\ LinkedStaysOnline'
  BY <1>1, <1>2 DEF PairingInv, DeviceInv, LinkedStaysOnline
<1>7. ScreenInv'
  BY <1>1, <1>3 DEF ScreenInv
<1>8. ReaderInv'
  <2>1. SUFFICES ASSUME ~timedOut, TimelyInv PROVE TimelyInv'
    BY <1>1 DEF PairingInv, ReaderInv
  <2>2. Alone(chans, session, gen)'
    BY <1>1, <1>3, <2>1
  <2>3. \A f \in Flows : flow[f].pc # "connect"
    BY <1>1, <2>1 DEF TimelyInv
  <2>. QED
    BY <1>1, <2>1, <2>2, <2>3 DEF TimelyInv
<1>. QED
  BY <1>4, <1>5, <1>6, <1>7, <1>8 DEF PairingInv

LEMMA ScanCodeInv ==
  ASSUME PairingInv, ScanCode
  PROVE  PairingInv'
<1>1. /\ wire = "up" /\ ~deviceLinked /\ deviceLinked' = TRUE /\ LatestQRCode = gen
      /\ chans' = Told("success", TRUE)
      /\ linkedUnder' = (\E f \in Flows : Unstoppable(f)) /\ bootFailed' = FALSE
      /\ UNCHANGED <<qrFlowMutex, flow, session, LatestQRCode, IsConnected, late, wire, gen, online, timedOut,
                     restarts, codes, logouts, trouble>>
  BY DEF ScanCode, screen, Calm
<1>2. Telling(chans, chans', Item("success"), TRUE) /\ AllClosed(chans')
  BY <1>1, ToldAll
<1>3. /\ chans' \in Seq(Chan) /\ Len(chans') = Len(chans)
      /\ Unread(chans) => Unread(chans')
      /\ Ended(chans') /\ Watched(chans', LatestQRCode, gen, timedOut)
      /\ ~timedOut => Alone(chans', session, gen)
  BY <1>2, ToldKeeps
<1>4. PairingTypes'
  <2>1. FlowTypes' /\ ScreenTypes' /\ DeviceTypes' /\ CountTypes'
    BY <1>1 DEF PairingInv, PairingTypes, FlowTypes, ScreenTypes, DeviceTypes, CountTypes
  <2>2. FlagTypes'
    <3>1. linkedUnder' \in BOOLEAN
      BY <1>1
    <3>. QED
      BY <1>1, <3>1 DEF PairingInv, PairingTypes, FlagTypes
  <2>3. ChanTypes'
    BY <1>1, <1>3 DEF PairingInv, PairingTypes, ChanTypes
  <2>. QED
    BY <2>1, <2>2, <2>3 DEF PairingTypes
<1>5. FlowInv'
  BY <1>1, <1>3 DEF PairingInv, FlowInv
<1>6. UnderInv'
  BY <1>1 DEF UnderInv, Unstoppable
<1>7. DeviceInv'
  BY <1>1, <1>2 DEF PairingInv, DeviceInv
<1>8. LinkedStaysOnline'
  <2>1. online = FALSE /\ (IsConnected => late)
    BY <1>1 DEF PairingInv, PairingTypes, DeviceTypes, DeviceInv
  <2>2. IsConnected \in BOOLEAN /\ late \in BOOLEAN
    BY DEF PairingInv, PairingTypes, ScreenTypes
  <2>. QED
    BY <1>1, <2>1, <2>2 DEF LinkedStaysOnline
<1>9. ScreenInv'
  BY <1>1, <1>3 DEF ScreenInv
<1>10. ReaderInv'
  <2>1. SUFFICES ASSUME ~timedOut, TimelyInv PROVE TimelyInv'
    BY <1>1 DEF PairingInv, ReaderInv
  <2>2. Alone(chans, session, gen)'
    BY <1>1, <1>3, <2>1
  <2>3. \A f \in Flows : flow[f].pc \notin {"wait", "channel", "connect"}
    BY <1>1, <2>1 DEF TimelyInv
  <2>4. session # 0
    <3>1. LatestQRCode # 0
      BY <1>1 DEF PairingInv, PairingTypes, DeviceTypes, DeviceInv
    <3>2. PICK n \in DOMAIN chans : chans[n].reader = "reading"
      BY <3>1 DEF PairingInv, ScreenInv, Watched
    <3>3. n = session
      BY <2>1, <3>2 DEF TimelyInv, Alone
    <3>. QED
      BY <3>2, <3>3 DEF PairingInv, PairingTypes, ChanTypes
  <2>. QED
    BY <1>1, <2>1, <2>2, <2>3, <2>4 DEF TimelyInv
<1>. QED
  BY <1>4, <1>5, <1>6, <1>7, <1>8, <1>9, <1>10 DEF PairingInv
LEMMA LoginCompletesInv ==
  ASSUME PairingInv, LoginCompletes
  PROVE  PairingInv'
<1>1. /\ deviceLinked /\ wire = "up" /\ online' = TRUE
      /\ IsConnected' = TRUE /\ LatestQRCode' = 0 /\ late' = FALSE
      /\ UNCHANGED <<qrFlowMutex, flow, session, chans, deviceLinked, wire, gen,
                     linkedUnder, bootFailed, timedOut, restarts, codes, logouts, trouble>>
  BY DEF LoginCompletes, flags, Calm
<1>2. PairingTypes'
  BY <1>1 DEF PairingInv, PairingTypes, FlowTypes, ScreenTypes, DeviceTypes, FlagTypes, CountTypes, ChanTypes
<1>3. FlowInv' /\ UnderInv' /\ DeviceInv' /\ LinkedStaysOnline'
  BY <1>1 DEF PairingInv, FlowInv, UnderInv, Unstoppable, DeviceInv, LinkedStaysOnline
<1>4. ScreenInv'
  BY <1>1 DEF PairingInv, ScreenInv, Watched
<1>5. ReaderInv'
  BY <1>1 DEF PairingInv, ReaderInv, TimelyInv
<1>. QED
  BY <1>2, <1>3, <1>4, <1>5 DEF PairingInv

LEMMA SocketDropsInv ==
  ASSUME PairingInv, SocketDrops
  PROVE  PairingInv'
<1>1. /\ wire = "up" /\ trouble' = trouble + 1
      /\ wire' = (IF deviceLinked THEN "dropped" ELSE "off") /\ online' = FALSE
      /\ IsConnected' = FALSE /\ late' = FALSE
      /\ UNCHANGED <<qrFlowMutex, flow, session, chans, LatestQRCode, deviceLinked, gen,
                     linkedUnder, bootFailed, timedOut, restarts, codes, logouts>>
  BY DEF SocketDrops, Trouble, flags
<1>2. PairingTypes'
  <2>1. wire' \in {"off", "dropped"} /\ trouble' \in Nat
    BY <1>1 DEF PairingInv, PairingTypes, CountTypes
  <2>2. ScreenTypes' /\ DeviceTypes'
    BY <1>1, <2>1 DEF PairingInv, PairingTypes, ScreenTypes, DeviceTypes
  <2>3. FlowTypes' /\ FlagTypes' /\ CountTypes' /\ ChanTypes'
    BY <1>1, <2>1 DEF PairingInv, PairingTypes, FlowTypes, FlagTypes, CountTypes, ChanTypes
  <2>. QED
    BY <2>2, <2>3 DEF PairingTypes
<1>3. FlowInv' /\ UnderInv' /\ DeviceInv' /\ LinkedStaysOnline'
  BY <1>1 DEF PairingInv, FlowInv, UnderInv, Unstoppable, DeviceInv, LinkedStaysOnline
<1>4. ScreenInv'
  BY <1>1 DEF PairingInv, ScreenInv
<1>5. ReaderInv'
  BY <1>1 DEF PairingInv, ReaderInv, TimelyInv
<1>. QED
  BY <1>2, <1>3, <1>4, <1>5 DEF PairingInv

LEMMA ReconnectInv ==
  ASSUME PairingInv, Reconnect
  PROVE  PairingInv'
<1>1. /\ wire = "dropped" /\ wire' = "up" /\ gen' = gen + 1
      /\ UNCHANGED <<qrFlowMutex, flow, session, chans, LatestQRCode, IsConnected, late, deviceLinked, online,
                     linkedUnder, bootFailed, timedOut, restarts, codes, logouts, trouble>>
  BY DEF Reconnect, screen, flags, Calm
<1>2. deviceLinked /\ AllClosed(chans) /\ gen \in Nat
  BY <1>1 DEF PairingInv, DeviceInv, PairingTypes, DeviceTypes
<1>3. PairingTypes'
  BY <1>1 DEF PairingInv, PairingTypes, FlowTypes, ScreenTypes, DeviceTypes, FlagTypes, CountTypes, ChanTypes
<1>4. FlowInv' /\ UnderInv' /\ DeviceInv' /\ LinkedStaysOnline'
  BY <1>1, <1>2 DEF PairingInv, FlowInv, UnderInv, Unstoppable, DeviceInv, LinkedStaysOnline
<1>5. ScreenInv'
  <2>1. Watched(chans, LatestQRCode, gen, timedOut) => Watched(chans, LatestQRCode, gen + 1, timedOut)
    BY <1>2 DEF Watched, AllClosed
  <2>. QED
    BY <1>1, <2>1 DEF PairingInv, ScreenInv
<1>6. ReaderInv'
  <2>1. SUFFICES ASSUME ~timedOut, TimelyInv PROVE TimelyInv'
    BY <1>1 DEF PairingInv, ReaderInv
  <2>2. Alone(chans, session, gen + 1)
    BY <1>2, <2>1 DEF TimelyInv, Alone, AllClosed
  <2>3. Alone(chans, session, gen)'
    BY <1>1, <2>2
  <2>4. \A f \in Flows : flow[f].pc \notin {"wait", "channel", "connect"}
    BY <1>1, <2>1 DEF TimelyInv
  <2>. QED
    BY <1>1, <2>1, <2>3, <2>4 DEF TimelyInv
<1>. QED
  BY <1>3, <1>4, <1>5, <1>6 DEF PairingInv

LEMMA LoggedOutInv ==
  ASSUME PairingInv, NEW f \in Flows, LoggedOut(f)
  PROVE  PairingInv'
<1>1. /\ deviceLinked /\ wire = "up" /\ logouts' = logouts + 1
      /\ flow[f] = IdleFlow /\ flow' = [flow EXCEPT ![f] = StartFlow]
      /\ deviceLinked' = FALSE /\ online' = FALSE /\ wire' \in {"up", "off"}
      /\ IsConnected' = FALSE /\ late' = FALSE
      /\ UNCHANGED <<qrFlowMutex, session, chans, LatestQRCode, gen,
                     linkedUnder, bootFailed, timedOut, restarts, codes, trouble>>
  BY DEF LoggedOut, flags
<1>2. FlowTypes' /\ DOMAIN flow = Flows
  BY <1>1 DEF PairingInv, PairingTypes, FlowTypes, StartFlow, Pcs
<1>3. flow'[f] = StartFlow /\ \A g \in Flows : g # f => flow'[g] = flow[g]
  BY <1>1, <1>2
<1>4. PairingTypes'
  <2>1. ScreenTypes' /\ DeviceTypes'
    BY <1>1 DEF PairingInv, PairingTypes, ScreenTypes, DeviceTypes
  <2>2. FlagTypes' /\ CountTypes' /\ ChanTypes'
    BY <1>1 DEF PairingInv, PairingTypes, FlagTypes, CountTypes, ChanTypes
  <2>. QED
    BY <1>2, <2>1, <2>2 DEF PairingTypes
<1>5. FlowInv'
  BY <1>1, <1>3 DEF PairingInv, FlowInv, Past, IdleFlow, StartFlow
<1>6. UnderInv' /\ DeviceInv' /\ LinkedStaysOnline' /\ ScreenInv'
  BY <1>1 DEF PairingInv, UnderInv, DeviceInv, LinkedStaysOnline, ScreenInv
<1>7. ReaderInv'
  <2>1. SUFFICES ASSUME ~timedOut, TimelyInv PROVE TimelyInv'
    BY <1>1 DEF PairingInv, ReaderInv
  <2>2. \A g \in Flows : flow[g].pc \notin {"wait", "channel", "connect"}
    BY <1>1, <2>1 DEF TimelyInv
  <2>3. \A g \in Flows : flow'[g].pc \notin {"wait", "channel", "connect"}
    BY <1>3, <2>2 DEF StartFlow
  <2>. QED
    BY <1>1, <2>1, <2>3 DEF TimelyInv
<1>. QED
  BY <1>4, <1>5, <1>6, <1>7 DEF PairingInv

-----------------------------------------------------------------------------
(* The theorems.                                                           *)

LEMMA PairingInitInv == PairingInit => PairingInv
<1>1. SUFFICES ASSUME PairingInit PROVE PairingInv
  OBVIOUS
<1>2. /\ qrFlowMutex = NoFlow /\ session = 0 /\ chans = <<>> /\ LatestQRCode = 0
      /\ IsConnected = FALSE /\ late = FALSE /\ online = FALSE /\ linkedUnder = FALSE /\ timedOut = FALSE
      /\ restarts = 0 /\ codes = 0 /\ logouts = 0 /\ trouble = 0
  BY <1>1 DEF PairingInit
<1>3. DOMAIN chans = {} /\ chans \in Seq(Chan) /\ Len(chans) = 0
  BY <1>2
<1>4. \/ /\ deviceLinked = FALSE /\ wire = "off" /\ gen = 0 /\ bootFailed = FALSE
         /\ \E f \in Flows : flow = [g \in Flows |-> IF g = f THEN StartFlow ELSE IdleFlow]
      \/ /\ deviceLinked = TRUE /\ wire \in {"off", "up"} /\ gen = 1
         /\ bootFailed = (wire = "off")
         /\ flow = [f \in Flows |-> IdleFlow]
  BY <1>1 DEF PairingInit
<1>5. flow \in [Flows -> {StartFlow, IdleFlow}] /\ (deviceLinked => \A f \in Flows : flow[f] = IdleFlow)
  BY <1>4
<1>6. PairingTypes
  <2>1. FlowTypes
    BY <1>2, <1>5 DEF FlowTypes, StartFlow, IdleFlow, Pcs
  <2>2. bootFailed \in BOOLEAN
    BY <1>4
  <2>3. wire \in {"off", "up", "dropped"} /\ gen \in Nat
    BY <1>4
  <2>. deviceLinked \in BOOLEAN
    BY <1>4
  <2>4. DeviceTypes /\ ScreenTypes /\ FlagTypes
    BY <1>2, <2>2, <2>3 DEF DeviceTypes, ScreenTypes, FlagTypes
  <2>5. CountTypes /\ ChanTypes
    BY <1>2, <1>3 DEF CountTypes, ChanTypes
  <2>. QED
    BY <2>1, <2>4, <2>5 DEF PairingTypes
<1>7. FlowInv
  BY <1>2, <1>5, PairingAssumption DEF FlowInv, Past, StartFlow, IdleFlow
<1>8. DeviceInv
  BY <1>2, <1>3, <1>4 DEF DeviceInv, AllClosed
<1>9. UnderInv
  BY <1>5 DEF UnderInv, Unstoppable, StartFlow, IdleFlow
<1>10. LinkedStaysOnline
  BY <1>2, <1>4 DEF LinkedStaysOnline
<1>11. ScreenInv
  BY <1>2, <1>3 DEF ScreenInv, Watched, Ended
<1>12. ReaderInv
  BY <1>2, <1>3, <1>5 DEF ReaderInv, TimelyInv, Alone, StartFlow, IdleFlow
<1>. QED
  BY <1>6, <1>7, <1>8, <1>9, <1>10, <1>11, <1>12 DEF PairingInv

LEMMA PairingNextInv == PairingInv /\ [PairingNext]_pairingVars => PairingInv'
<1>1. SUFFICES ASSUME PairingInv, [PairingNext]_pairingVars PROVE PairingInv'
  OBVIOUS
<1>2. CASE \E f \in Flows : FlowStep(f)
  <2>1. PICK f \in Flows : FlowStep(f)
    BY <1>2
  <2>. QED
    BY <1>1, <2>1, PressRefreshInv, TakeFlowInv, CheckLinkedInv, ClearStatusInv, TearDownInv, WaitSessionInv,
       OpenChannelInv, ConnectQRInv, LoggedOutInv, Zenon DEF FlowStep
<1>3. CASE \E n \in DOMAIN chans : ReadItem(n) \/ ReaderExits(n) \/ ChannelEnds(n)
  BY <1>1, <1>3, ReadItemInv, ReaderExitsInv, ChannelEndsInv, Zenon
<1>4. CASE NewCode \/ CodesRunOut \/ ScanCode \/ LoginCompletes \/ SocketDrops \/ Reconnect
  BY <1>1, <1>4, NewCodeInv, CodesRunOutInv, ScanCodeInv, LoginCompletesInv, SocketDropsInv, ReconnectInv, Zenon
<1>5. CASE UNCHANGED pairingVars
  <2>1. UNCHANGED <<qrFlowMutex, flow, session, chans, LatestQRCode, IsConnected, late, deviceLinked, wire, gen, online,
                    linkedUnder, bootFailed, timedOut, restarts, codes, logouts, trouble>>
    BY <1>5 DEF pairingVars, screen, device, flags, pairingBounds
  <2>2. PairingTypes'
    BY <1>1, <2>1 DEF PairingInv, PairingTypes, FlowTypes, ScreenTypes, DeviceTypes, FlagTypes, CountTypes, ChanTypes
  <2>3. FlowInv' /\ DeviceInv' /\ UnderInv' /\ LinkedStaysOnline'
    BY <1>1, <2>1 DEF PairingInv, FlowInv, DeviceInv, UnderInv, Unstoppable, LinkedStaysOnline
  <2>4. ScreenInv' /\ ReaderInv'
    BY <1>1, <2>1 DEF PairingInv, ScreenInv, ReaderInv, TimelyInv
  <2>. QED
    BY <2>2, <2>3, <2>4 DEF PairingInv
<1>. QED
  BY <1>1, <1>2, <1>3, <1>4, <1>5, Zenon DEF PairingNext

LEMMA PairingInvariance == PairingSpec => []PairingInv
<1>1. PairingInit => PairingInv
  BY PairingInitInv
<1>2. PairingInv /\ [PairingNext]_pairingVars => PairingInv'
  BY PairingNextInv
<1>. QED
  BY <1>1, <1>2, PTL DEF PairingSpec

(* The variables of pairing keep their types, however flows, readers and    *)
(* the phone interleave. (whatsapp/client.go 39-199)                        *)
THEOREM PairingTyped == PairingSpec => []PairingTypeOK
<1>1. PairingInv => PairingTypeOK
  BY PairingTypesOK DEF PairingInv
<1>. QED
  BY <1>1, PairingInvariance, PTL

(* For any number of flows, presses, codes, logouts and failures no code is  *)
(* on the screen without a reader that will take it off; and as long as no   *)
(* shutdown lasted longer than a flow waits there is one reader, and the     *)
(* code is of the latest connection, up or lost, or about to go.            *)
(* (startQRFlow and consumeQRChannel, client.go 120-199)                    *)
THEOREM CodeShownIsLatest == PairingSpec => []ShownCodeIsLatest
<1>1. PairingInv => ShownCodeIsLatest
  <2>1. SUFFICES ASSUME PairingInv PROVE ShownCodeIsLatest
    OBVIOUS
  <2>2. ASSUME LatestQRCode # 0
        PROVE  \E n \in Readers : WillClear(n) \/ (~timedOut => LatestQRCode = gen)
    <3>1. PICK n \in DOMAIN chans :
            chans[n].reader = "reading" /\ (Clears(chans[n]) \/ (chans[n].open /\ (~timedOut => LatestQRCode = gen)))
      BY <2>1, <2>2, Zenon DEF PairingInv, ScreenInv, Watched
    <3>. QED
      BY <3>1, Zenon DEF Readers, WillClear, Clears
  <2>3. ASSUME ~timedOut, NEW m \in Readers, NEW n \in Readers
        PROVE  m = n
    BY <2>1, <2>3 DEF PairingInv, ReaderInv, TimelyInv, Alone, Readers
  <2>. QED
    BY <2>2, <2>3 DEF ShownCodeIsLatest
<1>. QED
  BY <1>1, PairingInvariance, PTL

(* For any number of flows, presses, logouts and failures the pairing code   *)
(* leaves a linked device connected, and the panel shows its login as it is, *)
(* unless the link completed under a flow past its look; and but for the     *)
(* time from a "success" read while no login is complete (in any pairing the *)
(* usual order) to the next event of the connection.                        *)
(* (RestartQRFlow, client.go 101-118; eventHandler, 212-235)                 *)
THEOREM LinkStaysUp == PairingSpec => []LinkedStaysOnline
<1>1. PairingInv => LinkedStaysOnline
  BY DEF PairingInv
<1>. QED
  BY <1>1, PairingInvariance, PTL

-----------------------------------------------------------------------------
(* Logins and logouts.                                                     *)

Cookies == [exp : Nat, key : [password : Nat, life : Nat]]

CookieTypes ==
  /\ now \in Nat /\ secret \in BOOLEAN /\ password \in Nat /\ life \in Nat
  /\ cookies \in Seq(Cookies) /\ Len(cookies) <= MaxCookies
  /\ revoked \in [1..MaxCookies -> Nat]

(* What has logged out in this life is kept until it has expired; without  *)
(* the secret the key of a cookie is not of a later life than its logout.  *)
RevokedInv ==
  /\ loggedOut \subseteq [id : DOMAIN cookies, life : Nat]
  /\ \A id \in DOMAIN cookies : cookies[id].exp <= now + SessionTTL
  /\ \A out \in loggedOut :
       /\ out.life <= life
       /\ ~secret => cookies[out.id].key.life <= out.life
       /\ out.life = life => revoked[out.id] >= cookies[out.id].exp \/ now >= cookies[out.id].exp

CookieInv == CookieTypes /\ RevokedInv

LEMMA SessionsInitInv == SessionsInit => CookieInv
  BY SessionsAssumption DEF SessionsInit, CookieInv, CookieTypes, RevokedInv

LEMMA LogoutInv ==
  ASSUME CookieInv, NEW id \in DOMAIN cookies, Logout(id)
  PROVE  CookieInv'
<1>1. /\ revoked' = Revoked(id) /\ loggedOut' = loggedOut \cup {[id |-> id, life |-> life]}
      /\ UNCHANGED <<now, secret, password, life, cookies>>
  BY DEF Logout, configVars
<1>2. id \in 1..MaxCookies /\ now \in Nat /\ SessionTTL \in Nat /\ DOMAIN cookies \subseteq 1..MaxCookies
  <2>1. SessionTTL \in Nat /\ MaxCookies \in Nat
    BY SessionsAssumption
  <2>2. cookies \in Seq(Cookies) /\ Len(cookies) <= MaxCookies /\ now \in Nat
    BY DEF CookieInv, CookieTypes
  <2>3. DOMAIN cookies = 1..Len(cookies) /\ Len(cookies) \in Nat
    BY <2>2
  <2>. QED
    BY <2>1, <2>2, <2>3
<1>3. revoked' \in [1..MaxCookies -> Nat]
  BY <1>1, <1>2 DEF Revoked, CookieInv, CookieTypes
<1>4. revoked'[id] = now + SessionTTL /\ \A k \in 1..MaxCookies : k # id =>
        revoked'[k] = revoked[k] \/ (now > revoked[k] /\ revoked'[k] = 0)
  BY <1>1, <1>2 DEF Revoked, CookieInv, CookieTypes
<1>5. CookieTypes'
  BY <1>1, <1>3 DEF CookieInv, CookieTypes
<1>6. RevokedInv'
  <2>1. PICK gone : gone = [id |-> id, life |-> life]
    OBVIOUS
  <2>2. gone.id = id /\ gone.life = life /\ gone \in [id : DOMAIN cookies, life : Nat]
    BY <2>1 DEF CookieInv, CookieTypes
  <2>3. /\ loggedOut' \subseteq [id : DOMAIN cookies', life : Nat]
        /\ \A k \in DOMAIN cookies' : cookies'[k].exp <= now' + SessionTTL
    BY <1>1, <2>1, <2>2 DEF CookieInv, RevokedInv
  <2>4. ~secret => cookies[id].key.life = life
    BY DEF Logout, Accepted, SigningKey
  <2>5. ASSUME NEW out \in loggedOut'
        PROVE  /\ out.life <= life
               /\ ~secret => cookies[out.id].key.life <= out.life
               /\ out.life = life => revoked'[out.id] >= cookies[out.id].exp \/ now >= cookies[out.id].exp
    <3>1. PICK k : k = out.id
      OBVIOUS
    <3>2. k \in DOMAIN cookies /\ cookies[k] \in Cookies /\ life \in Nat /\ revoked[k] \in Nat
      BY <1>1, <1>2, <2>3, <3>1 DEF CookieInv, CookieTypes
    <3>3. k \in 1..MaxCookies /\ cookies[k].exp \in Nat /\ cookies[k].exp <= now + SessionTTL
      BY <1>2, <3>2 DEF CookieInv, RevokedInv, Cookies
    <3>4. CASE out = gone
      BY <1>2, <1>4, <2>2, <2>4, <3>1, <3>2, <3>3, <3>4
    <3>5. CASE out # gone
      <4>1. out \in loggedOut
        BY <1>1, <2>1, <3>5
      <4>2. /\ out.life <= life
            /\ ~secret => cookies[k].key.life <= out.life
            /\ out.life = life => revoked[k] >= cookies[k].exp \/ now >= cookies[k].exp
        BY <3>1, <4>1 DEF CookieInv, RevokedInv
      <4>. QED
        BY <1>2, <1>4, <3>1, <3>2, <3>3, <4>2
    <3>. QED
      BY <3>4, <3>5
  <2>. QED
    BY <1>1, <2>3, <2>5 DEF RevokedInv
<1>. QED
  BY <1>5, <1>6 DEF CookieInv

LEMMA PassLoginInv ==
  ASSUME CookieInv, NEW l \in Logins, PassLogin(l)
  PROVE  CookieInv'
<1>1. /\ Len(cookies) < MaxCookies
      /\ cookies' = Append(cookies, [exp |-> now + SessionTTL, key |-> SigningKey])
      /\ UNCHANGED <<now, secret, password, life, revoked, loggedOut>>
  BY DEF PassLogin, IssueCookie, configVars
<1>2. /\ now \in Nat /\ SessionTTL \in Nat /\ MaxCookies \in Nat /\ cookies \in Seq(Cookies)
      /\ SigningKey \in [password : Nat, life : Nat]
  BY SessionsAssumption DEF CookieInv, CookieTypes, SigningKey
<1>3. PICK c \in Cookies : c = [exp |-> now + SessionTTL, key |-> SigningKey]
  <2>1. now + SessionTTL \in Nat
    BY <1>2
  <2>2. [exp |-> now + SessionTTL, key |-> SigningKey] \in Cookies
    BY <1>2, <2>1, Zenon DEF Cookies
  <2>. QED
    BY <2>2, Zenon
<1>4. c.exp = now + SessionTTL
  BY <1>3, Zenon
<1>5. /\ cookies' \in Seq(Cookies) /\ Len(cookies') = Len(cookies) + 1 /\ Len(cookies) \in Nat
      /\ DOMAIN cookies = 1..Len(cookies) /\ DOMAIN cookies' = 1..(Len(cookies) + 1)
      /\ cookies'[Len(cookies) + 1] = c
      /\ \A id \in DOMAIN cookies : cookies'[id] = cookies[id]
  BY <1>1, <1>2, <1>3
<1>6. CookieTypes'
  BY <1>1, <1>2, <1>5 DEF CookieInv, CookieTypes
<1>7. RevokedInv'
  BY <1>1, <1>2, <1>4, <1>5 DEF CookieInv, RevokedInv
<1>. QED
  BY <1>6, <1>7 DEF CookieInv

LEMMA OtherSessionsInv ==
  ASSUME CookieInv, Tick \/ RestartServer \/ UNCHANGED <<now, configVars, cookieVars>>
  PROVE  CookieInv'
<1>1. \/ now' = now + 1 /\ UNCHANGED <<secret, password, life, cookies, revoked, loggedOut>>
      \/ /\ now' = now /\ secret' = secret /\ life' = life + 1 /\ password' \in {password, password + 1}
         /\ cookies' = cookies /\ loggedOut' = loggedOut /\ revoked' = [id \in DOMAIN revoked |-> 0]
      \/ UNCHANGED <<now, secret, password, life, cookies, revoked, loggedOut>>
  BY DEF Tick, RestartServer, configVars, cookieVars
<1>2. CookieTypes'
  BY <1>1 DEF CookieInv, CookieTypes
<1>3. RevokedInv'
  <2>1. \A id \in DOMAIN cookies : cookies[id].exp \in Nat
    <3>1. \A id \in DOMAIN cookies : cookies[id] \in Cookies
      BY DEF CookieInv, CookieTypes
    <3>. QED
      BY <3>1 DEF Cookies
  <2>2. now \in Nat /\ SessionTTL \in Nat /\ RevokedInv /\ DOMAIN cookies \subseteq 1..MaxCookies
    BY SessionsAssumption DEF CookieInv, CookieTypes
  <2>3. CASE now' = now + 1 /\ UNCHANGED <<secret, life, cookies, revoked, loggedOut>>
    BY <2>1, <2>2, <2>3 DEF RevokedInv
  <2>4. CASE UNCHANGED <<now, secret, cookies, loggedOut>> /\ life' = life + 1
    <3>1. \A out \in loggedOut : out.life \in Nat /\ out.life <= life /\ out.life # life'
      BY <2>2, <2>4 DEF RevokedInv, CookieInv, CookieTypes
    <3>. QED
      BY <2>2, <2>4, <3>1 DEF RevokedInv, CookieInv, CookieTypes
  <2>5. CASE UNCHANGED <<now, secret, life, cookies, revoked, loggedOut>>
    BY <2>2, <2>5 DEF RevokedInv
  <2>. QED
    BY <1>1, <2>3, <2>4, <2>5
<1>. QED
  BY <1>2, <1>3 DEF CookieInv

LEMMA SessionsNextInv == CookieInv /\ [SessionsNext]_sessionsVars => CookieInv'
<1>1. SUFFICES ASSUME CookieInv, [SessionsNext]_sessionsVars PROVE CookieInv'
  OBVIOUS
<1>2. CASE \E id \in DOMAIN cookies : Logout(id)
  BY <1>1, <1>2, LogoutInv, Zenon
<1>3. CASE \E l \in Logins : PassLogin(l)
  BY <1>1, <1>3, PassLoginInv, Zenon
<1>4. CASE Tick \/ RestartServer
  BY <1>1, <1>4, OtherSessionsInv, Zenon
<1>5. CASE \E l \in Logins : FailLogin(l) \/ \E ip \in Addresses : OpenLogin(l, ip)
  <2>1. UNCHANGED <<now, configVars, cookieVars>>
    BY <1>5, Zenon DEF FailLogin, OpenLogin, configVars, cookieVars
  <2>. QED
    BY <1>1, <2>1, OtherSessionsInv, Zenon
<1>6. CASE UNCHANGED sessionsVars
  <2>1. UNCHANGED <<now, configVars, cookieVars>>
    BY <1>6, Zenon DEF sessionsVars
  <2>. QED
    BY <1>1, <2>1, OtherSessionsInv, Zenon
<1>. QED
  BY <1>1, <1>2, <1>3, <1>4, <1>5, <1>6, Zenon DEF SessionsNext

(* However many cookies are issued and log out, and however often the       *)
(* process restarts, with another password or not, a cookie that logged out *)
(* is not accepted in the same life, and without SESSION_SECRET never.      *)
(* (revoke, auth.go 140-149; NewAuthenticator, 49-78)                       *)
THEOREM LogoutIsFinal == SessionsSpec => []SessionsEnd
<1>1. SessionsInit => CookieInv
  BY SessionsInitInv
<1>2. CookieInv /\ [SessionsNext]_sessionsVars => CookieInv'
  BY SessionsNextInv
<1>3. CookieInv => SessionsEnd
  <2>1. SUFFICES ASSUME CookieInv, NEW out \in loggedOut, Accepted(out.id)
                 PROVE  secret /\ out.life < life
    BY DEF SessionsEnd
  <2>2. PICK id : id = out.id
    OBVIOUS
  <2>3. cookies[id].key = SigningKey /\ now < cookies[id].exp /\ revoked[id] = 0
    BY <2>1, <2>2 DEF Accepted
  <2>4. id \in DOMAIN cookies /\ out.life \in Nat /\ life \in Nat /\ now \in Nat
    BY <2>1, <2>2 DEF CookieInv, CookieTypes, RevokedInv
  <2>5. cookies[id].exp \in Nat
    <3>1. cookies[id] \in Cookies
      BY <2>1, <2>4 DEF CookieInv, CookieTypes
    <3>. QED
      BY <3>1 DEF Cookies
  <2>6. /\ out.life <= life /\ (~secret => cookies[id].key.life <= out.life)
        /\ out.life = life => revoked[id] >= cookies[id].exp \/ now >= cookies[id].exp
    BY <2>1, <2>2 DEF CookieInv, RevokedInv
  <2>7. out.life < life
    BY <2>3, <2>4, <2>5, <2>6
  <2>8. ~secret => cookies[id].key.life = life
    BY <2>3 DEF SigningKey
  <2>. QED
    BY <2>4, <2>6, <2>7, <2>8
<1>. QED
  BY <1>1, <1>2, <1>3, PTL DEF SessionsSpec

-----------------------------------------------------------------------------
(* The limiter: numbers and sequences first.                               *)

LEMMA LeastNumber ==
  ASSUME NEW T, T \subseteq Nat, T # {}
  PROVE  \E n \in T : \A m \in T : n <= m
<1>1. PICK x \in T : \A y \in T : ~ (<<y, x>> \in OpToRel(<,Nat))
  BY NatLessThanWellFounded, WFMin
<1>2. \A y \in T : ~(y < x)
  BY <1>1 DEF OpToRel
<1>. QED
  BY <1>2

LEMMA Shortest ==
  ASSUME NEW F, F \subseteq Seq(Nat), F # {}
  PROVE  \E s \in F : \A t \in F : Len(s) <= Len(t)
<1> DEFINE T == {Len(s) : s \in F}
<1>1. T \subseteq Nat /\ T # {}
  <2>1. \A s \in F : Len(s) \in Nat
    <3>. TAKE s \in F
    <3>1. s \in Seq(Nat)
      OBVIOUS
    <3>. QED
      BY <3>1
  <2>. QED
    BY <2>1
<1>2. PICK n \in T : \A m \in T : n <= m
  <2>. HIDE DEF T
  <2>. QED
    BY <1>1, LeastNumber
<1>3. PICK s \in F : n = Len(s)
  OBVIOUS
<1>. QED
  BY <1>2, <1>3

(* What a sequence is before its last element.                             *)
LEMMA LastApart ==
  ASSUME NEW s \in Seq(Nat), s # <<>>
  PROVE  \E f \in Seq(Nat), x \in Nat : s = Append(f, x) /\ Len(f) < Len(s)
<1>1. PICK n \in Nat : Len(s) = n + 1
  <2>1. Len(s) \in Nat /\ Len(s) # 0
    BY EmptySeq
  <2>2. Len(s) - 1 \in Nat /\ Len(s) = (Len(s) - 1) + 1
    BY <2>1
  <2>. QED
    BY <2>2
<1>2. PICK f : f = [i \in 1..n |-> s[i]]
  OBVIOUS
<1>3. \A i \in 1..(n + 1) : s[i] \in Nat
  BY <1>1
<1>4. f \in Seq(Nat) /\ Len(f) = n
  BY <1>2, <1>3
<1>5. s[n + 1] \in Nat /\ Append(f, s[n + 1]) \in Seq(Nat) /\ Len(Append(f, s[n + 1])) = n + 1
  BY <1>3, <1>4
<1>6. \A i \in 1..(n + 1) : Append(f, s[n + 1])[i] = s[i]
  BY <1>2, <1>4
<1>7. s = Append(f, s[n + 1])
  BY <1>1, <1>5, <1>6, SeqEqual
<1>. QED
  BY <1>1, <1>4, <1>5, <1>7

-----------------------------------------------------------------------------
(* The loop of prune.                                                      *)
Loop(g, ts, b, n) ==
  g = [i \in 0..n |-> IF i = 0 THEN <<>> ELSE IF ts[i] > b THEN Append(g[i - 1], ts[i]) ELSE g[i - 1]]

LEMMA PruneIs ==
  ASSUME NEW ts, NEW b
  PROVE  Prune(ts, b) = (CHOOSE g : Loop(g, ts, b, Len(ts)))[Len(ts)]
BY DEF Prune, Loop

LEMMA LoopExists ==
  ASSUME NEW ts \in Seq(Nat), NEW b \in Int, NEW n \in 0..Len(ts)
  PROVE  \E g \in [0..n -> Seq(Nat)] : Loop(g, ts, b, n)
<1> DEFINE T == {m \in Nat : m <= Len(ts) /\ ~ \E g \in [0..m -> Seq(Nat)] : Loop(g, ts, b, m)}
<1>1. SUFFICES ASSUME T # {} PROVE FALSE
  OBVIOUS
<1>2. PICK m \in T : \A k \in T : m <= k
  <2>1. T \subseteq Nat
    OBVIOUS
  <2>. HIDE DEF T
  <2>. QED
    BY <1>1, <2>1, LeastNumber
<1>3. m # 0
  <2>1. ASSUME m = 0 PROVE FALSE
    <3>1. PICK g : g = [i \in 0..0 |-> <<>>]
      OBVIOUS
    <3>2. g \in [0..0 -> Seq(Nat)] /\ Loop(g, ts, b, 0)
      BY <3>1 DEF Loop
    <3>. QED
      BY <2>1, <3>2
  <2>. QED
    BY <2>1
<1>4. PICK k \in Nat : m = k + 1 /\ k + 1 <= Len(ts) /\ k \notin T
  <2>1. m - 1 \in Nat /\ m = (m - 1) + 1 /\ m - 1 \notin T /\ m <= Len(ts)
    <3>1. m - 1 \in Nat /\ m = (m - 1) + 1 /\ m <= Len(ts)
      BY <1>3
    <3>2. m - 1 \notin T
      <4>1. ~ m <= m - 1
        BY <3>1
      <4>. HIDE DEF T
      <4>. QED
        BY <1>2, <4>1
    <3>. QED
      BY <3>1, <3>2
  <2>. QED
    BY <2>1
<1>5. PICK h \in [0..k -> Seq(Nat)] : Loop(h, ts, b, k)
  BY <1>4
<1>6. ts[k + 1] \in Nat
  BY <1>4
<1>7. PICK z \in Seq(Nat) : z = IF ts[k + 1] > b THEN Append(h[k], ts[k + 1]) ELSE h[k]
  <2>1. h[k] \in Seq(Nat)
    BY <1>5
  <2>2. Append(h[k], ts[k + 1]) \in Seq(Nat)
    BY <1>6, <2>1
  <2>. QED
    BY <2>1, <2>2
<1>8. PICK g : g = [i \in 0..(k + 1) |-> IF i = k + 1 THEN z ELSE h[i]]
  OBVIOUS
<1>9. g \in [0..(k + 1) -> Seq(Nat)] /\ g[k + 1] = z /\ \A i \in 0..k : g[i] = h[i]
  BY <1>8
<1>10. \A i \in 0..k : h[i] = IF i = 0 THEN <<>> ELSE IF ts[i] > b THEN Append(h[i - 1], ts[i]) ELSE h[i - 1]
  BY <1>5 DEF Loop
<1>11. ASSUME NEW i \in 0..(k + 1)
       PROVE  g[i] = IF i = 0 THEN <<>> ELSE IF ts[i] > b THEN Append(g[i - 1], ts[i]) ELSE g[i - 1]
  <2>1. CASE i = k + 1
    <3>1. g[i - 1] = h[k] /\ i # 0
      BY <1>9, <2>1
    <3>. QED
      BY <1>7, <1>9, <2>1, <3>1
  <2>2. CASE i # k + 1
    <3>1. i \in 0..k /\ (i # 0 => i - 1 \in 0..k)
      BY <2>2
    <3>2. g[i] = h[i] /\ (i # 0 => g[i - 1] = h[i - 1])
      BY <1>9, <3>1
    <3>. QED
      BY <1>10, <3>1, <3>2
  <2>. QED
    BY <2>1, <2>2
<1>12. Loop(g, ts, b, k + 1)
  BY <1>9, <1>11 DEF Loop
<1>. QED
  BY <1>2, <1>4, <1>9, <1>12

Alike(s, t, n) == \A i \in 1..n : s[i] = t[i]

LEMMA LoopAgrees ==
  ASSUME NEW b, NEW n \in Nat, NEW m \in Nat, n <= m,
         NEW s, NEW t, Alike(s, t, n),
         NEW g, Loop(g, s, b, n), NEW h, Loop(h, t, b, m)
  PROVE  g[n] = h[n]
<1> DEFINE T == {i \in 0..n : g[i] # h[i]}
<1>1. SUFFICES ASSUME T # {} PROVE FALSE
  OBVIOUS
<1>2. PICK i \in T : \A k \in T : i <= k
  <2>1. T \subseteq Nat
    OBVIOUS
  <2>. HIDE DEF T
  <2>. QED
    BY <1>1, <2>1, LeastNumber
<1>3. /\ g[i] = IF i = 0 THEN <<>> ELSE IF s[i] > b THEN Append(g[i - 1], s[i]) ELSE g[i - 1]
      /\ h[i] = IF i = 0 THEN <<>> ELSE IF t[i] > b THEN Append(h[i - 1], t[i]) ELSE h[i - 1]
  <2>1. i \in 0..n /\ i \in 0..m
    OBVIOUS
  <2>. QED
    BY <2>1 DEF Loop
<1>4. i # 0
  BY <1>3
<1>5. i - 1 \in 0..n /\ i - 1 \notin T
  BY <1>2, <1>4
<1>6. g[i - 1] = h[i - 1] /\ s[i] = t[i]
  BY <1>4, <1>5 DEF Alike
<1>. QED
  BY <1>3, <1>4, <1>6

LEMMA PruneLoop ==
  ASSUME NEW ts \in Seq(Nat), NEW b \in Int
  PROVE  \E g \in [0..Len(ts) -> Seq(Nat)] : Loop(g, ts, b, Len(ts)) /\ Prune(ts, b) = g[Len(ts)]
<1>1. PICK n \in Nat : n = Len(ts)
  OBVIOUS
<1>2. PICK g \in [0..n -> Seq(Nat)] : Loop(g, ts, b, n)
  <2>1. n \in 0..Len(ts)
    BY <1>1
  <2>. QED
    BY <2>1, LoopExists
<1>3. PICK h : h = (CHOOSE f : Loop(f, ts, b, n))
  OBVIOUS
<1>4. Loop(h, ts, b, n)
  BY <1>2, <1>3
<1>5. h[n] = g[n]
  BY <1>2, <1>4, LoopAgrees DEF Alike
<1>6. Prune(ts, b) = h[n]
  BY <1>1, <1>3, PruneIs
<1>. QED
  BY <1>1, <1>2, <1>5, <1>6

LEMMA PruneTyped ==
  ASSUME NEW ts \in Seq(Nat), NEW b \in Int
  PROVE  Prune(ts, b) \in Seq(Nat)
<1>1. PICK g \in [0..Len(ts) -> Seq(Nat)] : Loop(g, ts, b, Len(ts)) /\ Prune(ts, b) = g[Len(ts)]
  BY PruneLoop
<1>2. Len(ts) \in 0..Len(ts)
  OBVIOUS
<1>. QED
  BY <1>1, <1>2

LEMMA PruneNone ==
  ASSUME NEW b \in Int
  PROVE  Prune(<<>>, b) = <<>>
<1>1. PICK ts \in Seq(Nat) : ts = <<>> /\ Len(ts) = 0
  BY EmptySeq
<1>2. PICK g \in [0..Len(ts) -> Seq(Nat)] : Loop(g, ts, b, Len(ts)) /\ Prune(ts, b) = g[Len(ts)]
  BY PruneLoop
<1>3. g[0] = <<>>
  BY <1>1, <1>2 DEF Loop
<1>. QED
  BY <1>1, <1>2, <1>3

LEMMA PruneAppend ==
  ASSUME NEW f \in Seq(Nat), NEW x \in Nat, NEW b \in Int
  PROVE  Prune(Append(f, x), b) = IF x > b THEN Append(Prune(f, b), x) ELSE Prune(f, b)
<1>1. PICK n \in Nat : n = Len(f)
  OBVIOUS
<1>2. PICK ts \in Seq(Nat) : ts = Append(f, x) /\ Len(ts) = n + 1 /\ ts[n + 1] = x /\ \A i \in 1..n : f[i] = ts[i]
  <2>1. Append(f, x) \in Seq(Nat) /\ Len(Append(f, x)) = n + 1 /\ Append(f, x)[n + 1] = x
    BY <1>1
  <2>2. \A i \in 1..n : f[i] = Append(f, x)[i]
    BY <1>1
  <2>. QED
    BY <2>1, <2>2
<1>3. PICK g : Loop(g, ts, b, n + 1) /\ Prune(ts, b) = g[n + 1]
  BY <1>2, PruneLoop
<1>4. PICK h : Loop(h, f, b, n) /\ Prune(f, b) = h[n]
  BY <1>1, PruneLoop
<1>5. h[n] = g[n]
  <2>1. PICK m \in Nat : m = n + 1 /\ n <= m
    OBVIOUS
  <2>2. Loop(g, ts, b, m)
    BY <1>3, <2>1
  <2>3. Loop(h, f, b, n) /\ Alike(f, ts, n)
    BY <1>2, <1>4 DEF Alike
  <2>. QED
    BY <2>1, <2>2, <2>3, LoopAgrees
<1>6. g[n + 1] = IF x > b THEN Append(g[n], x) ELSE g[n]
  <2>1. n + 1 \in 0..(n + 1) /\ n + 1 # 0 /\ (n + 1) - 1 = n
    OBVIOUS
  <2>2. g[n + 1] = IF n + 1 = 0 THEN <<>> ELSE IF ts[n + 1] > b THEN Append(g[(n + 1) - 1], ts[n + 1]) ELSE g[(n + 1) - 1]
    BY <1>3, <2>1 DEF Loop
  <2>. QED
    BY <1>2, <2>1, <2>2
<1>. QED
  BY <1>2, <1>3, <1>4, <1>5, <1>6
-----------------------------------------------------------------------------
(* How many times are after b.                                             *)
After(ts, b) == Len(Prune(ts, b))

LEMMA AfterAppend ==
  ASSUME NEW f \in Seq(Nat), NEW x \in Nat, NEW b \in Int
  PROVE  After(f, b) \in Nat /\ After(Append(f, x), b) = IF x > b THEN After(f, b) + 1 ELSE After(f, b)
<1>1. PICK p \in Seq(Nat) : p = Prune(f, b)
  BY PruneTyped
<1>2. Len(Append(p, x)) = Len(p) + 1 /\ Len(p) \in Nat
  BY <1>1
<1>3. Prune(Append(f, x), b) = IF x > b THEN Append(p, x) ELSE p
  BY <1>1, PruneAppend
<1>. QED
  BY <1>1, <1>2, <1>3 DEF After

LEMMA AfterNone ==
  ASSUME NEW b \in Int
  PROVE  After(<<>>, b) = 0
BY PruneNone DEF After

(* Pruning once more, with a later bound.                                  *)
LEMMA PruneTwice ==
  ASSUME NEW ts \in Seq(Nat), NEW a \in Int, NEW b \in Int, a <= b
  PROVE  Prune(Prune(ts, a), b) = Prune(ts, b)
<1> DEFINE F == {s \in Seq(Nat) : Prune(Prune(s, a), b) # Prune(s, b)}
<1>1. SUFFICES ASSUME F # {} PROVE FALSE
  OBVIOUS
<1>2. F \subseteq Seq(Nat)
  OBVIOUS
<1>3. PICK s \in F : \A r \in F : Len(s) <= Len(r)
  <2>. HIDE DEF F
  <2>. QED
    BY <1>1, <1>2, Shortest
<1>4. s \in Seq(Nat) /\ Prune(Prune(s, a), b) # Prune(s, b)
  OBVIOUS
<1>5. s # <<>>
  BY <1>4, PruneNone
<1>6. PICK f \in Seq(Nat), x \in Nat : s = Append(f, x) /\ Len(f) < Len(s)
  BY <1>4, <1>5, LastApart
<1>7. f \notin F
  <2>1. Len(f) \in Nat /\ Len(s) \in Nat
    BY <1>4
  <2>2. ~ Len(s) <= Len(f)
    BY <1>6, <2>1
  <2>. HIDE DEF F
  <2>. QED
    BY <1>3, <2>2
<1>8. Prune(Prune(f, a), b) = Prune(f, b)
  BY <1>7
<1>9. PICK p \in Seq(Nat) : p = Prune(f, a)
  BY PruneTyped
<1>10. CASE x > a
  <2>1. Prune(s, a) = Append(p, x)
    BY <1>6, <1>9, <1>10, PruneAppend
  <2>2. Prune(Append(p, x), b) = IF x > b THEN Append(Prune(p, b), x) ELSE Prune(p, b)
    BY PruneAppend
  <2>3. Prune(s, b) = IF x > b THEN Append(Prune(f, b), x) ELSE Prune(f, b)
    BY <1>6, PruneAppend
  <2>. QED
    BY <1>4, <1>8, <1>9, <2>1, <2>2, <2>3
<1>11. CASE ~(x > a)
  <2>1. Prune(s, a) = p
    BY <1>6, <1>9, <1>11, PruneAppend
  <2>2. Prune(s, b) = Prune(f, b)
    <3>1. ~(x > b)
      BY <1>11
    <3>. QED
      BY <1>6, <3>1, PruneAppend
  <2>. QED
    BY <1>4, <1>8, <1>9, <2>1, <2>2
<1>. QED
  BY <1>10, <1>11

LEMMA AfterLater ==
  ASSUME NEW ts \in Seq(Nat), NEW a \in Int, NEW b \in Int, a <= b
  PROVE  After(ts, b) <= After(ts, a) /\ After(ts, a) \in Nat /\ After(ts, b) \in Nat
<1> DEFINE F == {s \in Seq(Nat) : ~ After(s, b) <= After(s, a)}
<1>0. After(ts, a) \in Nat /\ After(ts, b) \in Nat
  BY AfterAppend
<1>1. SUFFICES ASSUME F # {} PROVE FALSE
  BY <1>0
<1>2. F \subseteq Seq(Nat)
  OBVIOUS
<1>3. PICK s \in F : \A r \in F : Len(s) <= Len(r)
  <2>. HIDE DEF F
  <2>. QED
    BY <1>1, <1>2, Shortest
<1>4. s \in Seq(Nat) /\ ~ After(s, b) <= After(s, a)
  OBVIOUS
<1>5. s # <<>>
  BY <1>4, AfterNone
<1>6. PICK f \in Seq(Nat), x \in Nat : s = Append(f, x) /\ Len(f) < Len(s)
  BY <1>4, <1>5, LastApart
<1>7. f \notin F
  <2>1. Len(f) \in Nat /\ Len(s) \in Nat
    BY <1>4
  <2>2. ~ Len(s) <= Len(f)
    BY <1>6, <2>1
  <2>. HIDE DEF F
  <2>. QED
    BY <1>3, <2>2
<1>8. After(f, b) <= After(f, a)
  BY <1>7
<1>9. /\ After(s, a) = IF x > a THEN After(f, a) + 1 ELSE After(f, a)
      /\ After(s, b) = IF x > b THEN After(f, b) + 1 ELSE After(f, b)
      /\ After(f, a) \in Nat /\ After(f, b) \in Nat
  BY <1>6, AfterAppend
<1>. QED
  BY <1>4, <1>8, <1>9

LEMMA ConcatOne ==
  ASSUME NEW s \in Seq(Nat), NEW f \in Seq(Nat), NEW x \in Nat
  PROVE  s \o Append(f, x) = Append(s \o f, x)
<1>1. <<x>> \in Seq(Nat) /\ s \o f \in Seq(Nat)
  OBVIOUS
<1>2. Append(f, x) = f \o <<x>>
  BY AppendIsConcat
<1>3. Append(s \o f, x) = (s \o f) \o <<x>>
  BY <1>1, AppendIsConcat
<1>4. (s \o f) \o <<x>> = s \o (f \o <<x>>)
  BY <1>1, ConcatAssociative
<1>. QED
  BY <1>2, <1>3, <1>4

LEMMA AfterConcat ==
  ASSUME NEW s \in Seq(Nat), NEW t \in Seq(Nat), NEW b \in Int
  PROVE  After(s, b) <= After(s \o t, b)
<1> DEFINE F == {r \in Seq(Nat) : ~ After(s, b) <= After(s \o r, b)}
<1>1. SUFFICES ASSUME F # {} PROVE FALSE
  OBVIOUS
<1>2. F \subseteq Seq(Nat)
  OBVIOUS
<1>3. PICK r \in F : \A q \in F : Len(r) <= Len(q)
  <2>. HIDE DEF F
  <2>. QED
    BY <1>1, <1>2, Shortest
<1>4. r \in Seq(Nat) /\ ~ After(s, b) <= After(s \o r, b)
  OBVIOUS
<1>5. After(s, b) \in Nat
  BY AfterAppend
<1>6. r # <<>>
  <2>1. s \o <<>> = s
    BY ConcatEmptySeq
  <2>2. ASSUME r = <<>> PROVE FALSE
    <3>1. s \o r = s
      BY <2>1, <2>2
    <3>. QED
      BY <1>4, <1>5, <3>1
  <2>. QED
    BY <2>2
<1>7. PICK f \in Seq(Nat), x \in Nat : r = Append(f, x) /\ Len(f) < Len(r)
  BY <1>4, <1>6, LastApart
<1>8. f \notin F
  <2>1. Len(f) \in Nat /\ Len(r) \in Nat
    BY <1>4
  <2>2. ~ Len(r) <= Len(f)
    BY <1>7, <2>1
  <2>. HIDE DEF F
  <2>. QED
    BY <1>3, <2>2
<1>9. After(s, b) <= After(s \o f, b)
  BY <1>8
<1>10. PICK u \in Seq(Nat) : u = s \o f /\ s \o r = Append(u, x)
  <2>1. s \o f \in Seq(Nat)
    OBVIOUS
  <2>2. s \o Append(f, x) = Append(s \o f, x)
    BY ConcatOne
  <2>. QED
    BY <1>7, <2>1, <2>2
<1>11. After(u, b) \in Nat /\ After(Append(u, x), b) = IF x > b THEN After(u, b) + 1 ELSE After(u, b)
  BY AfterAppend
<1>. QED
  BY <1>4, <1>5, <1>9, <1>10, <1>11

(* The array a pruned slice shares still has the times it had.             *)
LEMMA InPlace ==
  ASSUME NEW ts \in Seq(Nat), NEW a \in Int, NEW b \in Int, a <= b
  PROVE  PrunedInPlace(ts, a) \in Seq(Nat) /\ After(ts, b) <= After(PrunedInPlace(ts, a), b)
<1>1. PICK p \in Seq(Nat) : p = Prune(ts, a) /\ Prune(p, b) = Prune(ts, b)
  BY PruneTyped, PruneTwice
<1>2. PICK r : r = SubSeq(ts, Len(p) + 1, Len(ts))
  OBVIOUS
<1>3. r \in Seq(Nat)
  <2>1. PICK m \in Int, n \in Int : m = Len(p) + 1 /\ n = Len(ts)
    OBVIOUS
  <2>2. \A i \in m..n : ts[i] \in Nat
    <3>1. \A i \in 1..Len(ts) : ts[i] \in Nat
      OBVIOUS
    <3>2. Len(p) \in Nat
      OBVIOUS
    <3>. QED
      BY <2>1, <3>1, <3>2
  <2>3. SubSeq(ts, m, n) \in Seq(Nat)
    BY <2>2, SubSeqProperties
  <2>. QED
    BY <1>2, <2>1, <2>3
<1>4. After(p, b) <= After(p \o r, b)
  BY <1>3, AfterConcat
<1>5. p \o r \in Seq(Nat)
  BY <1>3
<1>6. PrunedInPlace(ts, a) = p \o r
  BY <1>1, <1>2 DEF PrunedInPlace
<1>. QED
  BY <1>1, <1>4, <1>5, <1>6 DEF After

(* The table's times c have all of the failures f after b or later, and no *)
(* more than those if it is exact.                                         *)
Covers(c, f, b, exact) ==
  \A t \in Int : t >= b => After(f, t) <= After(c, t) /\ (exact => After(f, t) = After(c, t))

LEMMA CoversLater ==
  ASSUME NEW c, NEW f, NEW a \in Int, NEW b \in Int, a <= b, NEW exact \in BOOLEAN, Covers(c, f, a, exact)
  PROVE  Covers(c, f, b, exact)
BY DEF Covers

LEMMA CoversAnyway ==
  ASSUME NEW c, NEW f, NEW b \in Int, NEW exact \in BOOLEAN, Covers(c, f, b, exact)
  PROVE  Covers(c, f, b, FALSE)
BY DEF Covers

LEMMA CoversNone ==
  ASSUME NEW b \in Int, NEW exact \in BOOLEAN
  PROVE  Covers(<<>>, <<>>, b, exact)
BY AfterNone DEF Covers

LEMMA CoversPruned ==
  ASSUME NEW c \in Seq(Nat), NEW f, NEW b \in Int, NEW exact \in BOOLEAN, Covers(c, f, b, exact)
  PROVE  Covers(Prune(c, b), f, b, exact)
<1>1. \A t \in Int : t >= b => After(Prune(c, b), t) = After(c, t)
  BY PruneTwice DEF After
<1>. QED
  BY <1>1 DEF Covers

LEMMA CoversOneMore ==
  ASSUME NEW c \in Seq(Nat), NEW f \in Seq(Nat), NEW x \in Nat, NEW b \in Int, NEW exact \in BOOLEAN,
         Covers(c, f, b, exact)
  PROVE  Covers(Append(c, x), Append(f, x), b, exact)
<1>1. SUFFICES ASSUME NEW t \in Int, t >= b
               PROVE  /\ After(Append(f, x), t) <= After(Append(c, x), t)
                      /\ exact => After(Append(f, x), t) = After(Append(c, x), t)
  BY DEF Covers
<1>2. After(f, t) <= After(c, t) /\ (exact => After(f, t) = After(c, t))
  BY <1>1 DEF Covers
<1>3. After(f, t) \in Nat /\ After(Append(f, x), t) = IF x > t THEN After(f, t) + 1 ELSE After(f, t)
  BY AfterAppend
<1>4. After(c, t) \in Nat /\ After(Append(c, x), t) = IF x > t THEN After(c, t) + 1 ELSE After(c, t)
  BY AfterAppend
<1>. QED
  BY <1>2, <1>3, <1>4

(* The sweep keeps at least what it looks at, and drops only what is old.   *)
LEMMA CoversSwept ==
  ASSUME NEW c \in Seq(Nat), NEW f \in Seq(Nat), NEW b \in Int, Covers(c, f, b, FALSE)
  PROVE  Covers(IF Prune(c, b) # <<>> THEN PrunedInPlace(c, b) ELSE <<>>, f, b, FALSE)
<1>1. SUFFICES ASSUME NEW t \in Int, t >= b
               PROVE  After(f, t) <= After(IF Prune(c, b) # <<>> THEN PrunedInPlace(c, b) ELSE <<>>, t)
  BY DEF Covers
<1>2. After(f, t) <= After(c, t)
  BY <1>1 DEF Covers
<1>3. After(f, t) \in Nat /\ After(c, t) \in Nat
  BY AfterAppend
<1>4. CASE Prune(c, b) # <<>>
  <2>1. PICK p \in Seq(Nat) : p = PrunedInPlace(c, b) /\ After(c, t) <= After(p, t)
    BY <1>1, InPlace
  <2>2. After(p, t) \in Nat
    BY AfterAppend
  <2>. QED
    BY <1>2, <1>3, <1>4, <2>1, <2>2
<1>5. CASE Prune(c, b) = <<>>
  <2>1. After(c, b) = 0
    BY <1>5, EmptySeq DEF After
  <2>2. After(c, t) <= After(c, b)
    BY <1>1, AfterLater
  <2>3. After(<<>>, t) = 0
    BY AfterNone
  <2>. QED
    BY <1>2, <1>3, <1>5, <2>1, <2>2, <2>3
<1>. QED
  BY <1>4, <1>5

-----------------------------------------------------------------------------
(* The table.                                                              *)
FailedIn(table, ip) == IF ip \in DOMAIN table THEN table[ip] ELSE <<>>

TableTyped(table) ==
  /\ DOMAIN table \subseteq Addresses
  /\ \A ip \in DOMAIN table : table[ip] \in Seq(Nat)

LEMMA FailedTyped ==
  ASSUME NEW table, TableTyped(table), NEW ip
  PROVE  FailedIn(table, ip) \in Seq(Nat)
BY EmptySeq DEF FailedIn, TableTyped

LEMMA StoredIs ==
  ASSUME TableTyped(perIP), NEW ip \in Addresses, NEW ts \in Seq(Nat)
  PROVE  /\ TableTyped(Stored(ip, ts))
         /\ FailedIn(Stored(ip, ts), ip) = ts
         /\ \A a \in Addresses \ {ip} : FailedIn(Stored(ip, ts), a) = FailedAt(a)
BY DEF TableTyped, Stored, FailedIn, FailedAt

LEMMA SweptIs ==
  ASSUME NEW table, TableTyped(table), Since \in Int
  PROVE  /\ TableTyped(Swept(table))
         /\ \A a \in Addresses : FailedIn(Swept(table), a) =
              IF Prune(FailedIn(table, a), Since) # <<>> THEN PrunedInPlace(FailedIn(table, a), Since) ELSE <<>>
<1>1. \A a \in DOMAIN table : PrunedInPlace(table[a], Since) \in Seq(Nat)
  <2>. TAKE a \in DOMAIN table
  <2>1. table[a] \in Seq(Nat)
    BY DEF TableTyped
  <2>. QED
    BY <2>1, InPlace
<1>2. Prune(<<>>, Since) = <<>>
  BY PruneNone
<1>. QED
  BY <1>1, <1>2 DEF TableTyped, Swept, FailedIn

-----------------------------------------------------------------------------
(* The invariant.                                                          *)
Checking(ip) == {l \in Logins : login[l].pc = "check" /\ login[l].ip = ip}

LoginStates == [pc : {"free", "check"}, ip : Addresses \cup {"none"}, right : BOOLEAN]

LimiterTypes ==
  /\ now \in Nat /\ blockedGlobal \in Nat /\ tries \in Nat /\ swept \in BOOLEAN
  /\ global \in Seq(Nat)
  /\ TableTyped(perIP)
  /\ failures \in [Addresses -> Seq(Nat)]
  /\ login \in [Logins -> LoginStates]
  /\ \A l \in Logins : login[l].pc = "check" => login[l].ip \in Addresses

Bound == MaxPerIP - 1 + Cardinality(Logins)

LimiterInv ==
  /\ LimiterTypes
  /\ \A ip \in Addresses :
       /\ Covers(FailedAt(ip), failures[ip], Since, ~swept)
       /\ After(failures[ip], Since) + Cardinality(Checking(ip)) <= Bound

LEMMA Window ==
  ASSUME now \in Nat
  PROVE  Since \in Int /\ Since < now /\ LoginWindow \in Nat
BY SessionsAssumption DEF Since

LEMMA CheckingFew ==
  ASSUME NEW S, S \subseteq Logins
  PROVE  /\ Cardinality(S) \in Nat /\ Cardinality(Logins) \in Nat
         /\ Cardinality(S) <= Cardinality(Logins)
         /\ IsFiniteSet(S)
BY SessionsAssumption, FS_Subset, FS_CardinalityType

LEMMA IdleLoginType == IdleLogin \in LoginStates /\ IdleLogin.pc = "free"
BY DEF IdleLogin, LoginStates

(* Nobody has failed, nobody is being checked.                             *)
Unused ==
  /\ now \in Nat /\ tries \in Nat
  /\ perIP = <<>> /\ global = <<>> /\ blockedGlobal = 0 /\ swept = FALSE
  /\ failures = [ip \in Addresses |-> <<>>]
  /\ login = [l \in Logins |-> IdleLogin]

LEMMA UnusedInv == Unused => LimiterInv
<1> SUFFICES ASSUME Unused PROVE LimiterInv
  OBVIOUS
<1> USE DEF Unused
<1>1. TableTyped(perIP) /\ \A ip \in Addresses : FailedAt(ip) = <<>>
  BY EmptySeq DEF TableTyped, FailedAt
<1>2. LimiterTypes
  BY <1>1, EmptySeq, IdleLoginType DEF LimiterTypes
<1>3. SUFFICES ASSUME NEW ip \in Addresses
               PROVE  /\ Covers(FailedAt(ip), failures[ip], Since, ~swept)
                      /\ After(failures[ip], Since) + Cardinality(Checking(ip)) <= Bound
  BY <1>2 DEF LimiterInv
<1>4. Covers(<<>>, <<>>, Since, ~swept)
  BY CoversNone, Window
<1>5. Checking(ip) = {} /\ Cardinality({}) = 0
  BY IdleLoginType, FS_EmptySet DEF Checking
<1>6. After(<<>>, Since) = 0
  BY AfterNone, Window
<1>7. MaxPerIP - 1 \in Nat /\ Cardinality(Logins) \in Nat
  BY SessionsAssumption, FS_CardinalityType
<1>. QED
  BY <1>1, <1>4, <1>5, <1>6, <1>7 DEF Bound

LEMMA LimiterInitInv == SessionsInit => LimiterInv
<1>1. SessionsInit => Unused
  BY DEF SessionsInit, Unused
<1>. QED
  BY <1>1, UnusedInv

LEMMA LimiterRestartInv ==
  ASSUME LimiterInv, RestartServer
  PROVE  LimiterInv'
<1>1. now' \in Nat /\ tries' \in Nat
  BY DEF RestartServer, LimiterInv, LimiterTypes
<1>2. Unused'
  BY <1>1 DEF RestartServer, FreshLimiter, Unused
<1>. QED
  BY <1>2, UnusedInv, PTL

(* Time passes: fewer failures are recent.                                 *)
LEMMA LimiterTickInv ==
  ASSUME LimiterInv, Tick
  PROVE  LimiterInv'
<1>1. now' = now + 1 /\ UNCHANGED <<limiterVars, login, tries>>
  BY DEF Tick
<1>2. UNCHANGED <<perIP, global, blockedGlobal, failures, swept, login, tries>>
  BY <1>1 DEF limiterVars
<1>3. now \in Nat /\ LimiterTypes
  BY DEF LimiterInv, LimiterTypes
<1>4. LimiterTypes'
  BY <1>1, <1>2, <1>3 DEF LimiterTypes, TableTyped
<1>5. PICK a \in Int, b \in Int : a = Since /\ b = Since' /\ a <= b
  BY <1>1, <1>3, Window DEF Since
<1>6. SUFFICES ASSUME NEW ip \in Addresses
               PROVE  /\ Covers(FailedAt(ip)', failures'[ip], Since', ~swept')
                      /\ After(failures'[ip], Since') + Cardinality(Checking(ip)') <= Bound
  BY <1>4 DEF LimiterInv, Bound, Covers, After
<1>7. Covers(FailedAt(ip), failures[ip], a, ~swept) /\ After(failures[ip], a) + Cardinality(Checking(ip)) <= Bound
  BY <1>5 DEF LimiterInv
<1>8. FailedAt(ip)' = FailedAt(ip) /\ Checking(ip)' = Checking(ip)
  BY <1>2 DEF FailedAt, Checking
<1>9. Covers(FailedAt(ip), failures[ip], b, ~swept)
  BY <1>5, <1>7, CoversLater
<1>10. failures[ip] \in Seq(Nat)
  BY <1>3 DEF LimiterTypes
<1>11. After(failures[ip], b) <= After(failures[ip], a) /\ After(failures[ip], b) \in Nat /\ After(failures[ip], a) \in Nat
  BY <1>5, <1>10, AfterLater
<1>12. Cardinality(Checking(ip)) \in Nat /\ Bound \in Int
  <2>1. Checking(ip) \subseteq Logins
    BY DEF Checking
  <2>. QED
    BY <2>1, CheckingFew, SessionsAssumption DEF Bound
<1>. QED
  BY <1>2, <1>5, <1>7, <1>8, <1>9, <1>11, <1>12

(* What is left to show of a step once the types are known.                *)
LEMMA LimiterNow ==
  ASSUME LimiterTypes', UNCHANGED now,
         \A ip \in Addresses :
           /\ Covers(FailedIn(perIP', ip), failures'[ip], Since, ~swept')
           /\ After(failures'[ip], Since) + Cardinality(Checking(ip)') <= Bound
  PROVE  LimiterInv'
<1>1. Since' = Since
  BY DEF Since
<1>. QED
  BY <1>1 DEF LimiterInv, Bound, Covers, After, FailedAt, FailedIn

LEMMA CheckingTyped ==
  ASSUME NEW ip
  PROVE  /\ Cardinality(Checking(ip)) \in Nat /\ IsFiniteSet(Checking(ip))
         /\ Cardinality(Checking(ip)) <= Cardinality(Logins) /\ Cardinality(Logins) \in Nat
         /\ Bound \in Int /\ MaxPerIP - 1 \in Nat
<1>1. Checking(ip) \subseteq Logins
  BY DEF Checking
<1>2. MaxPerIP - 1 \in Nat
  BY SessionsAssumption
<1>. QED
  BY <1>1, <1>2, CheckingFew DEF Bound

LEMMA LimiterOpenInv ==
  ASSUME LimiterInv, NEW l \in Logins, NEW ip \in Addresses, OpenLogin(l, ip)
  PROVE  LimiterInv'
<1>1. /\ login[l].pc = "free" /\ tries' = tries + 1
      /\ UNCHANGED <<now, global, blockedGlobal, failures, swept>>
      /\ perIP' = IF now < blockedGlobal THEN perIP ELSE Stored(ip, Prune(FailedAt(ip), Since))
      /\ \/ UNCHANGED login
         \/ /\ ~Blocked(ip)
            /\ \E right \in BOOLEAN : login' = [login EXCEPT ![l] = [pc |-> "check", ip |-> ip, right |-> right]]
  BY DEF OpenLogin
<1>2. LimiterTypes /\ now \in Nat /\ Since \in Int /\ swept \in BOOLEAN /\ TableTyped(perIP)
  BY Window DEF LimiterInv, LimiterTypes
<1>3. PICK c \in Seq(Nat) : c = FailedAt(ip)
  BY <1>2, FailedTyped DEF FailedAt, FailedIn
<1>4. PICK p \in Seq(Nat) : p = Prune(c, Since)
  BY <1>2, PruneTyped
<1>5. TableTyped(Stored(ip, p)) /\ FailedIn(Stored(ip, p), ip) = p
      /\ \A a \in Addresses \ {ip} : FailedIn(Stored(ip, p), a) = FailedAt(a)
  BY <1>2, StoredIs
<1>6. TableTyped(perIP') /\ \A a \in Addresses \ {ip} : FailedIn(perIP', a) = FailedAt(a)
  BY <1>1, <1>2, <1>3, <1>4, <1>5 DEF FailedAt, FailedIn
<1>7. FailedIn(perIP', ip) = c \/ FailedIn(perIP', ip) = p
  BY <1>1, <1>3, <1>4, <1>5 DEF FailedAt, FailedIn
<1>8. /\ login' \in [Logins -> LoginStates]
      /\ \A k \in Logins : login'[k].pc = "check" => login'[k].ip \in Addresses
      /\ \A k \in Logins \ {l} : login'[k] = login[k]
      /\ login'[l] = login[l] \/ (login'[l].ip = ip /\ ~Blocked(ip))
  <2>1. login \in [Logins -> LoginStates] /\ \A k \in Logins : login[k].pc = "check" => login[k].ip \in Addresses
    BY DEF LimiterInv, LimiterTypes
  <2>2. CASE UNCHANGED login
    BY <2>1, <2>2
  <2>3. ASSUME NEW right \in BOOLEAN, ~Blocked(ip),
               login' = [login EXCEPT ![l] = [pc |-> "check", ip |-> ip, right |-> right]]
        PROVE  /\ login' \in [Logins -> LoginStates]
               /\ \A k \in Logins : login'[k].pc = "check" => login'[k].ip \in Addresses
               /\ \A k \in Logins \ {l} : login'[k] = login[k]
               /\ login'[l].ip = ip /\ ~Blocked(ip)
    <3>1. [pc |-> "check", ip |-> ip, right |-> right] \in LoginStates
      BY DEF LoginStates
    <3>. QED
      BY <2>1, <2>3, <3>1
  <2>. QED
    BY <1>1, <2>2, <2>3
<1>9. LimiterTypes'
  <2>1. tries \in Nat
    BY DEF LimiterInv, LimiterTypes
  <2>. QED
    BY <1>1, <1>6, <1>8, <2>1 DEF LimiterInv, LimiterTypes, TableTyped
<1>10. \A a \in Addresses : Covers(FailedAt(a), failures[a], Since, ~swept)
                         /\ After(failures[a], Since) + Cardinality(Checking(a)) <= Bound
  BY DEF LimiterInv
<1>11. ASSUME NEW a \in Addresses
       PROVE  Covers(FailedIn(perIP', a), failures[a], Since, ~swept)
  <2>1. CASE a # ip
    BY <1>6, <1>10, <2>1
  <2>2. CASE a = ip
    <3>1. Covers(c, failures[ip], Since, ~swept)
      BY <1>3, <1>10
    <3>2. Covers(p, failures[ip], Since, ~swept)
      BY <1>2, <1>4, <3>1, CoversPruned
    <3>. QED
      BY <1>7, <2>2, <3>1, <3>2
  <2>. QED
    BY <2>1, <2>2
<1>12. ASSUME NEW a \in Addresses
       PROVE  After(failures[a], Since) + Cardinality(Checking(a)') <= Bound
  <2>1. CASE a # ip \/ login'[l] = login[l]
    <3>1. Checking(a)' = Checking(a)
      BY <1>1, <1>8, <2>1 DEF Checking
    <3>. QED
      BY <1>10, <3>1
  <2>2. CASE a = ip /\ login'[l] # login[l]
    <3>1. After(c, Since) < MaxPerIP
      <4>1. ~Blocked(ip)
        BY <1>8, <2>2
      <4>2. After(c, Since) \in Nat
        BY <1>2, AfterAppend
      <4>. QED
        BY <1>3, <4>1, <4>2, SessionsAssumption DEF Blocked, After
    <3>2. failures[ip] \in Seq(Nat)
      BY <1>2 DEF LimiterTypes
    <3>3. After(failures[ip], Since) <= After(c, Since)
      BY <1>2, <1>3, <1>10 DEF Covers
    <3>4. After(failures[ip], Since) \in Nat /\ After(c, Since) \in Nat
      BY <1>2, <3>2, AfterAppend
    <3>5. Checking(ip)' \subseteq Logins
      BY DEF Checking
    <3>6. Cardinality(Checking(ip)') \in Nat /\ Cardinality(Checking(ip)') <= Cardinality(Logins)
          /\ Cardinality(Logins) \in Nat
      BY <3>5, CheckingFew
    <3>7. MaxPerIP \in Nat
      BY SessionsAssumption
    <3>. QED
      BY <2>2, <3>1, <3>3, <3>4, <3>6, <3>7 DEF Bound
  <2>. QED
    BY <2>1, <2>2
<1>. QED
  BY <1>1, <1>9, <1>11, <1>12, LimiterNow

LEMMA LimiterFailInv ==
  ASSUME LimiterInv, NEW l \in Logins, FailLogin(l)
  PROVE  LimiterInv'
<1>0. LimiterTypes /\ now \in Nat /\ Since \in Int /\ Since < now /\ swept \in BOOLEAN /\ TableTyped(perIP)
      /\ failures \in [Addresses -> Seq(Nat)] /\ global \in Seq(Nat) /\ blockedGlobal \in Nat
  BY Window DEF LimiterInv, LimiterTypes
<1>1. PICK ip \in Addresses : login[l].pc = "check" /\ login[l].ip = ip
  BY DEF FailLogin, LimiterInv, LimiterTypes
<1>2. PICK c \in Seq(Nat) : c = FailedAt(ip)
  BY <1>0, FailedTyped DEF FailedAt, FailedIn
<1>3. PICK p \in Seq(Nat) : p = Prune(c, Since)
  BY <1>0, PruneTyped
<1>4. PICK q \in Seq(Nat) : q = Append(p, now)
  <2>1. Append(p, now) \in Seq(Nat)
    BY <1>0
  <2>. QED
    BY <2>1
<1>5. PICK table : table = Stored(ip, q)
  OBVIOUS
<1>6. TableTyped(table) /\ FailedIn(table, ip) = q
      /\ \A a \in Addresses \ {ip} : FailedIn(table, a) = FailedAt(a)
  BY <1>0, <1>5, StoredIs
<1>7. PICK many \in BOOLEAN :
         /\ perIP' = IF many THEN Swept(table) ELSE table
         /\ swept' = (swept \/ many)
  BY <1>1, <1>2, <1>3, <1>4, <1>5 DEF FailLogin
<1>8. /\ failures' = [failures EXCEPT ![ip] = Append(@, now)]
      /\ login' = [login EXCEPT ![l] = IdleLogin]
      /\ UNCHANGED <<now, tries>>
  BY <1>1 DEF FailLogin
<1>9. global' \in Seq(Nat) /\ blockedGlobal' \in Nat
  <2>1. PICK all \in Seq(Nat) : all = Append(Prune(global, Since), now)
    <3>1. Prune(global, Since) \in Seq(Nat)
      BY <1>0, PruneTyped
    <3>2. Append(Prune(global, Since), now) \in Seq(Nat)
      BY <1>0, <3>1
    <3>. QED
      BY <3>2
  <2>2. \/ global' = <<>> /\ blockedGlobal' = now + Cooldown
        \/ global' = all /\ blockedGlobal' = blockedGlobal
    BY <2>1 DEF FailLogin
  <2>3. now + Cooldown \in Nat
    <3>1. Cooldown \in Nat
      BY SessionsAssumption
    <3>. QED
      BY <1>0, <3>1
  <2>4. <<>> \in Seq(Nat)
    BY EmptySeq
  <2>. QED
    BY <1>0, <2>1, <2>2, <2>3, <2>4
<1>10. TableTyped(Swept(table)) /\ \A a \in Addresses : FailedIn(Swept(table), a) =
              IF Prune(FailedIn(table, a), Since) # <<>> THEN PrunedInPlace(FailedIn(table, a), Since) ELSE <<>>
  BY <1>0, <1>6, SweptIs
<1>11. /\ login' \in [Logins -> LoginStates] /\ login'[l].pc = "free"
       /\ \A k \in Logins \ {l} : login'[k] = login[k]
       /\ \A k \in Logins : login'[k].pc = "check" => login'[k].ip \in Addresses
  BY <1>8, IdleLoginType DEF LimiterInv, LimiterTypes
<1>12. failures' \in [Addresses -> Seq(Nat)] /\ failures'[ip] = Append(failures[ip], now)
       /\ \A a \in Addresses \ {ip} : failures'[a] = failures[a]
  <2>1. Append(failures[ip], now) \in Seq(Nat)
    BY <1>0
  <2>. QED
    BY <1>0, <1>8, <2>1
<1>13. LimiterTypes'
  <2>1. TableTyped(perIP')
    BY <1>6, <1>7, <1>10
  <2>2. swept' \in BOOLEAN /\ now' \in Nat /\ tries' \in Nat
    BY <1>0, <1>7, <1>8 DEF LimiterTypes
  <2>. QED
    BY <1>9, <1>11, <1>12, <2>1, <2>2 DEF LimiterTypes, TableTyped
<1>14. \A a \in Addresses : Covers(FailedAt(a), failures[a], Since, ~swept)
                         /\ After(failures[a], Since) + Cardinality(Checking(a)) <= Bound
  BY DEF LimiterInv
<1>15. ASSUME NEW a \in Addresses
       PROVE  Covers(FailedIn(table, a), failures'[a], Since, ~swept)
  <2>1. CASE a # ip
    BY <1>6, <1>12, <1>14, <2>1
  <2>2. CASE a = ip
    <3>1. Covers(c, failures[ip], Since, ~swept)
      BY <1>2, <1>14
    <3>2. Covers(p, failures[ip], Since, ~swept)
      BY <1>0, <1>3, <3>1, CoversPruned
    <3>3. Covers(q, Append(failures[ip], now), Since, ~swept)
      BY <1>0, <1>4, <3>2, CoversOneMore
    <3>. QED
      BY <1>6, <1>12, <2>2, <3>3
  <2>. QED
    BY <2>1, <2>2
<1>16. ASSUME NEW a \in Addresses
       PROVE  Covers(FailedIn(perIP', a), failures'[a], Since, ~swept')
  <2>1. CASE ~many
    BY <1>0, <1>7, <1>15, <2>1
  <2>2. CASE many
    <3>1. PICK d \in Seq(Nat), f \in Seq(Nat) : d = FailedIn(table, a) /\ f = failures'[a]
      BY <1>6, <1>12, FailedTyped
    <3>2. Covers(d, f, Since, ~swept) /\ (~swept) \in BOOLEAN
      BY <1>0, <1>15, <3>1
    <3>3. Covers(d, f, Since, FALSE)
      BY <1>0, <3>2, CoversAnyway
    <3>4. Covers(IF Prune(d, Since) # <<>> THEN PrunedInPlace(d, Since) ELSE <<>>, f, Since, FALSE)
      BY <1>0, <3>3, CoversSwept
    <3>5. FailedIn(perIP', a) = IF Prune(d, Since) # <<>> THEN PrunedInPlace(d, Since) ELSE <<>>
      BY <1>7, <1>10, <2>2, <3>1
    <3>6. (~swept') = FALSE
      BY <1>0, <1>7, <2>2
    <3>. QED
      BY <3>1, <3>4, <3>5, <3>6
  <2>. QED
    BY <2>1, <2>2
<1>17. ASSUME NEW a \in Addresses
       PROVE  After(failures'[a], Since) + Cardinality(Checking(a)') <= Bound
  <2>1. CASE a # ip
    <3>1. Checking(a)' = Checking(a)
      BY <1>1, <1>11, <2>1 DEF Checking
    <3>. QED
      BY <1>12, <1>14, <2>1, <3>1
  <2>2. CASE a = ip
    <3>1. Checking(ip)' = Checking(ip) \ {l} /\ l \in Checking(ip)
      BY <1>1, <1>11 DEF Checking
    <3>2. Cardinality(Checking(ip)) \in Nat /\ IsFiniteSet(Checking(ip))
      BY CheckingTyped
    <3>3. Cardinality(Checking(ip)') = Cardinality(Checking(ip)) - 1
      BY <3>1, <3>2, FS_RemoveElement
    <3>4. failures[ip] \in Seq(Nat)
      BY <1>0
    <3>5. After(failures[ip], Since) \in Nat /\ After(failures'[ip], Since) = After(failures[ip], Since) + 1
      BY <1>0, <1>12, <3>4, AfterAppend
    <3>6. After(failures[ip], Since) + Cardinality(Checking(ip)) <= Bound /\ Bound \in Int
      BY <1>14, CheckingTyped
    <3>. QED
      BY <2>2, <3>2, <3>3, <3>5, <3>6
  <2>. QED
    BY <2>1, <2>2
<1>. QED
  BY <1>8, <1>13, <1>16, <1>17, LimiterNow

LEMMA LimiterPassInv ==
  ASSUME LimiterInv, NEW l \in Logins, PassLogin(l)
  PROVE  LimiterInv'
<1>0. LimiterTypes /\ now \in Nat /\ Since \in Int /\ swept \in BOOLEAN /\ TableTyped(perIP)
      /\ failures \in [Addresses -> Seq(Nat)]
  BY Window DEF LimiterInv, LimiterTypes
<1>1. PICK ip \in Addresses : login[l].pc = "check" /\ login[l].ip = ip
  BY DEF PassLogin, LimiterInv, LimiterTypes
<1>2. /\ perIP' = [a \in DOMAIN perIP \ {ip} |-> perIP[a]]
      /\ failures' = [failures EXCEPT ![ip] = <<>>]
      /\ login' = [login EXCEPT ![l] = IdleLogin]
      /\ UNCHANGED <<now, global, blockedGlobal, swept, tries>>
  BY <1>1 DEF PassLogin
<1>3. TableTyped(perIP') /\ FailedIn(perIP', ip) = <<>>
      /\ \A a \in Addresses \ {ip} : FailedIn(perIP', a) = FailedAt(a)
  BY <1>0, <1>2 DEF TableTyped, FailedIn, FailedAt
<1>4. failures' \in [Addresses -> Seq(Nat)] /\ failures'[ip] = <<>>
      /\ \A a \in Addresses \ {ip} : failures'[a] = failures[a]
  BY <1>0, <1>2, EmptySeq
<1>5. /\ login' \in [Logins -> LoginStates] /\ login'[l].pc = "free"
      /\ \A k \in Logins \ {l} : login'[k] = login[k]
      /\ \A k \in Logins : login'[k].pc = "check" => login'[k].ip \in Addresses
  BY <1>2, IdleLoginType DEF LimiterInv, LimiterTypes
<1>6. LimiterTypes'
  BY <1>0, <1>2, <1>3, <1>4, <1>5 DEF LimiterTypes, TableTyped
<1>7. \A a \in Addresses : Covers(FailedAt(a), failures[a], Since, ~swept)
                         /\ After(failures[a], Since) + Cardinality(Checking(a)) <= Bound
  BY DEF LimiterInv
<1>8. ASSUME NEW a \in Addresses
      PROVE  Covers(FailedIn(perIP', a), failures'[a], Since, ~swept')
  <2>1. Covers(<<>>, <<>>, Since, ~swept)
    BY <1>0, CoversNone
  <2>. QED
    BY <1>2, <1>3, <1>4, <1>7, <2>1
<1>9. ASSUME NEW a \in Addresses
      PROVE  After(failures'[a], Since) + Cardinality(Checking(a)') <= Bound
  <2>1. CASE a # ip
    <3>1. Checking(a)' = Checking(a)
      BY <1>1, <1>5, <2>1 DEF Checking
    <3>. QED
      BY <1>4, <1>7, <2>1, <3>1
  <2>2. CASE a = ip
    <3>1. After(failures'[ip], Since) = 0
      BY <1>0, <1>4, AfterNone
    <3>2. Checking(ip)' \subseteq Logins
      BY DEF Checking
    <3>3. Cardinality(Checking(ip)') \in Nat /\ Cardinality(Checking(ip)') <= Cardinality(Logins)
          /\ Cardinality(Logins) \in Nat
      BY <3>2, CheckingFew
    <3>4. MaxPerIP - 1 \in Nat
      BY SessionsAssumption
    <3>. QED
      BY <2>2, <3>1, <3>3, <3>4 DEF Bound
  <2>. QED
    BY <2>1, <2>2
<1>. QED
  BY <1>2, <1>6, <1>8, <1>9, LimiterNow

LEMMA LimiterNextInv == LimiterInv /\ [SessionsNext]_sessionsVars => LimiterInv'
<1>1. SUFFICES ASSUME LimiterInv, [SessionsNext]_sessionsVars PROVE LimiterInv'
  OBVIOUS
<1>2. CASE Tick
  BY <1>1, <1>2, LimiterTickInv, Zenon
<1>3. CASE RestartServer
  BY <1>1, <1>3, LimiterRestartInv, Zenon
<1>4. CASE \E l \in Logins : FailLogin(l)
  BY <1>1, <1>4, LimiterFailInv, Zenon
<1>5. CASE \E l \in Logins : PassLogin(l)
  BY <1>1, <1>5, LimiterPassInv, Zenon
<1>6. CASE \E l \in Logins : \E ip \in Addresses : OpenLogin(l, ip)
  BY <1>1, <1>6, LimiterOpenInv, Zenon
<1>7. ASSUME UNCHANGED <<now, limiterVars, login, tries>> PROVE LimiterInv'
  <2>1. UNCHANGED <<now, perIP, global, blockedGlobal, failures, swept, login, tries>>
    BY <1>7 DEF limiterVars
  <2>2. LimiterTypes'
    BY <1>1, <2>1 DEF LimiterInv, LimiterTypes, TableTyped
  <2>3. \A ip \in Addresses :
           /\ Covers(FailedIn(perIP', ip), failures'[ip], Since, ~swept')
           /\ After(failures'[ip], Since) + Cardinality(Checking(ip)') <= Bound
    <3>1. \A ip \in Addresses : Checking(ip)' = Checking(ip)
      BY <2>1 DEF Checking
    <3>. QED
      BY <1>1, <2>1, <3>1 DEF LimiterInv, FailedIn, FailedAt
  <2>. QED
    BY <2>1, <2>2, <2>3, LimiterNow
<1>8. CASE \E id \in DOMAIN cookies : Logout(id)
  <2>1. UNCHANGED <<now, limiterVars, login, tries>>
    BY <1>8, Zenon DEF Logout
  <2>. QED
    BY <1>7, <2>1
<1>9. CASE UNCHANGED sessionsVars
  <2>1. UNCHANGED <<now, limiterVars, login, tries>>
    BY <1>9, Zenon DEF sessionsVars
  <2>. QED
    BY <1>7, <2>1
<1>. QED
  BY <1>1, <1>2, <1>3, <1>4, <1>5, <1>6, <1>8, <1>9, Zenon DEF SessionsNext

(* However requests overlap and failures age, are pruned, swept and         *)
(* forgiven, an address is refused for its own failures exactly when it has *)
(* the limit in the window, as long as nothing was swept; and what it fails *)
(* in a window stays under the limit and the requests past the question.    *)
(* (loginLimiter, auth.go 340-396)                                         *)
THEOREM LimiterNeverMiscounts == SessionsSpec => []LimiterCounts
<1>1. SessionsInit => LimiterInv
  BY LimiterInitInv
<1>2. LimiterInv /\ [SessionsNext]_sessionsVars => LimiterInv'
  BY LimiterNextInv
<1>3. LimiterInv => LimiterCounts
  <2>1. SUFFICES ASSUME LimiterInv, NEW ip \in Addresses
                 PROVE  /\ ~swept => Len(Prune(FailedAt(ip), Since)) = Recent(ip)
                        /\ Recent(ip) <= MaxPerIP - 1 + Cardinality(Logins)
    BY DEF LimiterCounts
  <2>2. Since \in Int /\ swept \in BOOLEAN /\ failures[ip] \in Seq(Nat)
    BY <2>1, Window DEF LimiterInv, LimiterTypes
  <2>3. ~swept => After(failures[ip], Since) = After(FailedAt(ip), Since)
    BY <2>1, <2>2 DEF LimiterInv, Covers
  <2>4. After(failures[ip], Since) + Cardinality(Checking(ip)) <= Bound
    BY <2>1 DEF LimiterInv
  <2>5. After(failures[ip], Since) \in Nat /\ Cardinality(Checking(ip)) \in Nat /\ Bound \in Int
    BY <2>2, AfterAppend, CheckingTyped
  <2>6. After(failures[ip], Since) <= Bound
    BY <2>4, <2>5
  <2>. QED
    BY <2>3, <2>6 DEF After, Recent, Bound
<1>. QED
  BY <1>1, <1>2, <1>3, PTL DEF SessionsSpec

(* The state of the panel's logins has its types.                          *)
THEOREM SessionsTyped == SessionsSpec => []SessionsTypeOK
<1>1. SessionsInit => CookieInv /\ LimiterInv
  BY SessionsInitInv, LimiterInitInv
<1>2. CookieInv /\ LimiterInv /\ [SessionsNext]_sessionsVars => CookieInv' /\ LimiterInv'
  BY SessionsNextInv, LimiterNextInv
<1>3. CookieInv /\ LimiterInv => SessionsTypeOK
  BY DEF CookieInv, CookieTypes, RevokedInv, LimiterInv, LimiterTypes, TableTyped, LoginStates, Cookies, SessionsTypeOK
<1>. QED
  BY <1>1, <1>2, <1>3, PTL DEF SessionsSpec

=============================================================================
