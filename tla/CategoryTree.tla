---------------------------- MODULE CategoryTree ----------------------------
(***************************************************************************)
(* The category tree: backend/finance/categories.go.                       *)
(*                                                                         *)
(* The panel creates and changes categories.  A request validates what it  *)
(* was given with reads (the parent, then the children), writes the row,   *)
(* and with a third statement passes a new kind on to the subcategories;   *)
(* no transaction holds these statements together, and requests interleave. *)
(* Names, icons, budgets and archiving do not shape the tree: the unique   *)
(* index on names is one more reason for which a write may fail.           *)
(***************************************************************************)
EXTENDS Naturals, FiniteSets

CONSTANTS
  Cats,
  Top,           \* parent_id IS NULL
  Keep,          \* a field the request does not give
  SeedParent,    \* the tree SeedDefaultCategories made: category -> parent
  SeedKind,
  Patches,       \* request goroutines of the panel
  MaxPatches,    \* bound: requests
  MaxCatErrors   \* bound: writes that fail

Kinds == {"EXPENSE", "INCOME"}
Seeded == DOMAIN SeedParent

ASSUME CategoryAssumption ==
  /\ Top \notin Cats /\ Keep \notin Cats \cup Kinds
  /\ Seeded \subseteq Cats
  /\ SeedParent \in [Seeded -> Seeded \cup {Top}]
  /\ SeedKind \in [Seeded -> Kinds]
  /\ \A c \in Seeded : SeedParent[c] # Top =>
       SeedParent[SeedParent[c]] = Top /\ SeedKind[c] = SeedKind[SeedParent[c]]
  /\ MaxPatches \in Nat /\ MaxCatErrors \in Nat

VARIABLES
  there,        \* categories with a row; rows are never deleted
  parent,
  kind,
  patch,        \* request -> what it is about to do
  overtaken,    \* a request wrote what its validation no longer allowed
  odd,          \* subcategories whose kind was set alone, or not passed on
  patches, catErrors

catVars == <<there, parent, kind>>
categoryVars == <<catVars, patch, overtaken, odd, patches, catErrors>>

IdlePatch == [pc |-> "free", op |-> "none", cat |-> Top, parent |-> Keep, kind |-> Keep]

CategoryInit ==
  /\ there = Seeded
  /\ parent = [c \in Cats |-> IF c \in Seeded THEN SeedParent[c] ELSE Top]
  /\ kind = [c \in Cats |-> IF c \in Seeded THEN SeedKind[c] ELSE "EXPENSE"]
  /\ patch = [r \in Patches |-> IdlePatch]
  /\ overtaken = FALSE
  /\ odd = {}
  /\ patches = 0 /\ catErrors = 0

Children(c) == {x \in there : parent[x] = c}

Close(r) == patch' = [patch EXCEPT ![r] = IdlePatch]

(* The parent is looked up first when the request gives one.               *)
FirstStep(p) == IF p = Keep THEN "write" ELSE "parent"

OpenPatch(r, op, c, p, k) ==
  /\ patch[r].pc = "free"
  /\ patches < MaxPatches
  /\ patches' = patches + 1
  /\ patch' = [patch EXCEPT ![r] = [pc |-> FirstStep(p), op |-> op, cat |-> c, parent |-> p, kind |-> k]]
  /\ UNCHANGED <<catVars, overtaken, odd, catErrors>>

(* CreateCategory: a row of its own, so nobody else works on it.           *)
CreateCategory(r, c, p, k) ==
  /\ c \notin there
  /\ \A q \in Patches : patch[q].cat # c
  /\ OpenPatch(r, "create", c, p, k)

(* UpdateCategory: the first GetCategory finds the row.                    *)
UpdateCategory(r, c, p, k) ==
  /\ c \in there
  /\ OpenPatch(r, "update", c, p, k)

-----------------------------------------------------------------------------
(* validateCategory: not its own parent, and the parent is a top-level one. *)
MayHold(p, c) == p # c /\ p \in there /\ parent[p] = Top

(* A subcategory takes its parent's kind.                                  *)
ReadParent(r) ==
  /\ patch[r].pc = "parent"
  /\ IF MayHold(patch[r].parent, patch[r].cat)
     THEN patch' = [patch EXCEPT ![r].kind = kind[patch[r].parent],
                                 ![r].pc = IF patch[r].op = "update" THEN "children" ELSE "write"]
     ELSE Close(r)
  /\ UNCHANGED <<catVars, overtaken, odd, patches, catErrors>>

(* Mutant: a category with subcategories may become one.                   *)
MayBecomeChildAnyway(c) == TRUE

MayBecomeChild(c) == Children(c) = {}

CountChildren(r) ==
  /\ patch[r].pc = "children"
  /\ IF MayBecomeChild(patch[r].cat) THEN patch' = [patch EXCEPT ![r].pc = "write"] ELSE Close(r)
  /\ UNCHANGED <<catVars, overtaken, odd, patches, catErrors>>

NewParent(r) ==
  IF patch[r].parent # Keep THEN patch[r].parent
  ELSE IF patch[r].op = "create" THEN Top ELSE parent[patch[r].cat]

NewKind(r) ==
  IF patch[r].kind # Keep THEN patch[r].kind
  ELSE IF patch[r].op = "create" THEN "EXPENSE" ELSE kind[patch[r].cat]

(* A new kind of a top-level category is passed on by a statement of its    *)
(* own.                                                                    *)
PassesOn(r) == patch[r].op = "update" /\ patch[r].kind # Keep /\ NewParent(r) = Top

(* A PATCH of the kind alone, on a subcategory.                            *)
KindAlone(r) == patch[r].parent = Keep /\ NewParent(r) # Top /\ patch[r].kind # Keep

(* What validateCategory found no longer holds.                            *)
Outdated(r) ==
  /\ patch[r].parent # Keep
  /\ \/ ~MayHold(patch[r].parent, patch[r].cat)
     \/ kind[patch[r].parent] # patch[r].kind
     \/ ~MayBecomeChild(patch[r].cat)

(* The INSERT or the UPDATE.                                               *)
WriteCategory(r) ==
  /\ patch[r].pc = "write"
  /\ there' = there \cup {patch[r].cat}
  /\ parent' = [parent EXCEPT ![patch[r].cat] = NewParent(r)]
  /\ kind' = [kind EXCEPT ![patch[r].cat] = NewKind(r)]
  /\ overtaken' = (overtaken \/ Outdated(r))
  /\ odd' = IF KindAlone(r) THEN odd \cup {patch[r].cat}
            ELSE IF patch[r].parent # Keep THEN odd \ {patch[r].cat} ELSE odd
  /\ IF PassesOn(r)
     THEN patch' = [patch EXCEPT ![r].pc = "cascade"]
     ELSE Close(r)
  /\ UNCHANGED <<patches, catErrors>>

PassKindOn(r) ==
  /\ patch[r].pc = "cascade"
  /\ kind' = [c \in Cats |-> IF c \in Children(patch[r].cat) THEN patch[r].kind ELSE kind[c]]
  /\ overtaken' = (overtaken \/ kind[patch[r].cat] # patch[r].kind)
  /\ odd' = odd \ Children(patch[r].cat)
  /\ Close(r)
  /\ UNCHANGED <<there, parent, patches, catErrors>>

(* The statement fails; the row written before it stays.                   *)
WriteFails(r) ==
  /\ patch[r].pc \in {"write", "cascade"}
  /\ catErrors < MaxCatErrors
  /\ catErrors' = catErrors + 1
  /\ odd' = IF patch[r].pc = "cascade" THEN odd \cup Children(patch[r].cat) ELSE odd
  /\ Close(r)
  /\ UNCHANGED <<catVars, overtaken, patches>>

PatchStep(r) ==
  \/ ReadParent(r) \/ CountChildren(r) \/ WriteCategory(r) \/ PassKindOn(r) \/ WriteFails(r)

CategoryNext ==
  \E r \in Patches :
    \/ \E c \in Cats, p \in Cats \cup {Keep}, k \in Kinds \cup {Keep} :
         CreateCategory(r, c, p, k) \/ UpdateCategory(r, c, p, k)
    \/ PatchStep(r)

CategorySpec == CategoryInit /\ [][CategoryNext]_categoryVars

-----------------------------------------------------------------------------
(* Properties.                                                             *)

OpenPatches ==
  [pc : {"free", "parent", "children", "write", "cascade"}, op : {"none", "create", "update"},
   cat : Cats \cup {Top}, parent : Cats \cup {Keep}, kind : Kinds \cup {Keep}]

CategoryTypeOK ==
  /\ there \in SUBSET Cats
  /\ parent \in [Cats -> Cats \cup {Top}]
  /\ kind \in [Cats -> Kinds]
  /\ patch \in [Patches -> OpenPatches]
  /\ patches \in Nat /\ catErrors \in Nat
  /\ overtaken \in BOOLEAN
  /\ odd \in SUBSET Cats

TwoLevels == \A c \in there : parent[c] # Top => parent[c] \in there /\ parent[parent[c]] = Top

(* A request has written the kind of c and not yet passed it on.           *)
BeingPassedOn(c) == \E r \in Patches : patch[r].pc = "cascade" /\ patch[r].cat = c

(* The tree has two levels and a subcategory has the kind of its parent    *)
(* ("A subcategory always has the kind of its parent", categories.go 180),  *)
(* as long as no request writes what its validation would now refuse;      *)
(* apart from subcategories whose kind was patched alone, or was not passed *)
(* on because the last statement failed.                                   *)
CategoriesAgree ==
  ~overtaken =>
    /\ TwoLevels
    /\ \A c \in there : parent[c] # Top /\ kind[c] # kind[parent[c]] =>
         c \in odd \/ BeingPassedOn(parent[c])

=============================================================================
