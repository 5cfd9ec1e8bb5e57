----------------------------- MODULE FileIndex -----------------------------
(***************************************************************************)
(* CFileIndex, the tree of files and directories of the example            *)
(* application: blocks in one buffer that grows, linked by offsets, with a *)
(* chain of removed blocks that are used again, and in every directory the *)
(* size of all that is below it.                                           *)
(*                                                                         *)
(* A block is a number: its offset divided by the size of SBlockItem.      *)
(* Names and flags are left out.  The whole state of an index is one       *)
(* record, so that the recursive functions of the code are functions from  *)
(* one state to the next.                                                  *)
(***************************************************************************)
EXTENDS Integers

CONSTANTS
  MaxBlocks, \* BOUND: blocks that are ever taken from the buffer
  Sizes,     \* sizes of files
  Room0      \* size of the buffer at first, in units of 16 bytes

ASSUME BlocksAssumption == MaxBlocks \in Nat \ {0, 1}
ASSUME SizesAssumption  == Sizes \subseteq Nat

\* sizeof(SBlockItem) in units of 16 bytes.
Item == 3

ASSUME RoomAssumption == Room0 \in Nat /\ Room0 > 2 * Item

Null   == 0
Root   == 1
Blocks == 0 .. MaxBlocks - 1

VARIABLES
  idx,     \* the index: its links, sizes, m_deleted, m_block_offset and room
  own,     \* the size each block in the tree was added with
  emptied  \* RemoveChildren() was called on its own, on more than one level

blockVars == <<idx, own, emptied>>

Zero == [b \in Blocks |-> 0]

Indexes == [parent : [Blocks -> Blocks], next : [Blocks -> Blocks],
            child : [Blocks -> Blocks], size : [Blocks -> Int],
            deleted : Blocks, offset : Nat, room : Nat]

\* Init(): the null block and the root block are taken.
NewIndex ==
  [parent |-> Zero, next |-> Zero, child |-> Zero, size |-> Zero,
   deleted |-> Null, offset |-> 2, room |-> Room0]

-----------------------------------------------------------------------------
(* Reading the structure.                                                  *)

\* getItem() returns a pointer.
IsItem(s, b) == Item * b + Item < s.room

\* All that a walk from b on meets.  BOUND: no walk is longer than there are
\* blocks.
Reach(links, b) ==
  LET walk[n \in Nat] ==
        [met \in SUBSET Blocks |->
           LET more == met \cup UNION {links[c] : c \in met}
           IN  IF n = 0 \/ more = met THEN met ELSE walk[n - 1][more]]
  IN  walk[MaxBlocks][{b}]

Along(link) == [b \in Blocks |-> {link[b]}]

\* A list of blocks, from its head on.
List(s, b) == Reach(Along(s.next), b) \ {Null}

\* The entries of a directory.
Children(s, b) == List(s, s.child[b])

\* Its parent, the parent of that, and so on.
Ancestors(s, b) == Reach(Along(s.parent), s.parent[b]) \ {Null}

\* A block and all that is below it.
Subtree(s, b) ==
  {b} \cup (Reach([c \in Blocks |-> {s.child[c], s.next[c]}], s.child[b]) \ {Null})

-----------------------------------------------------------------------------
(* The operations, each a function of the state.                           *)

\* NewBlock(): a removed block, or the next of the buffer, which grows when it
\* has no room.
Reuses(s) == s.deleted # Null /\ IsItem(s, s.deleted)

NewBlock(s) == IF Reuses(s) THEN s.deleted ELSE s.offset

Taken(s) ==
  IF Reuses(s) THEN [s EXCEPT !.deleted = s.next[@]]
  ELSE [s EXCEPT !.deleted = Null, !.offset = @ + 1,
                 !.room = IF Item * s.offset + Item > @ THEN 2 * @ ELSE @]

AddSize(s, bs, z) ==
  [s EXCEPT !.size = [b \in Blocks |-> IF b \in bs THEN @[b] + z ELSE @[b]]]

\* MUTANT: the entries that the directory has already are not linked again.
BugNewList(s, d, n, z) ==
  AddSize([s EXCEPT !.next[n] = Null, !.child = [@ EXCEPT ![d] = n, ![n] = Null],
                    !.parent[n] = d, !.size[n] = z],
          {d} \cup Ancestors(s, d), z)

\* The block n goes to the head of the list of the directory d.
Linked(s, d, n, z) ==
  AddSize([s EXCEPT !.next[n] = s.child[d], !.child = [@ EXCEPT ![d] = n, ![n] = Null],
                    !.parent[n] = d, !.size[n] = z],
          {d} \cup Ancestors(s, d), z)

\* RemoveCount(): what b weighs is taken from all above it.
RemoveCount(s, b) == AddSize(s, Ancestors(s, b), -s.size[b])

\* The entries of d become, as they are linked, the head of the chain of
\* removed blocks.
Emptied(s, d) ==
  LET last == CHOOSE b \in Children(s, d) : s.next[b] = Null
  IN  [s EXCEPT !.next[last] = s.deleted, !.deleted = s.child[d],
                !.child[d] = Null]

\* The loop of RemoveChildren() from the entry b of a list on, each with the
\* recursion for its own entries.  BOUND: at most n entries deep and long.
RemoveList[n \in Nat] ==
  [s \in Indexes |-> [b \in Blocks |->
     IF n = 0 THEN s
     ELSE LET t == RemoveCount(s, b)
              u == IF t.child[b] = Null THEN t
                   ELSE Emptied(RemoveList[n - 1][t][t.child[b]], b)
          IN  IF u.next[b] = Null THEN u ELSE RemoveList[n - 1][u][u.next[b]]]]

\* RemoveChildren()
RemoveChildren(s, d) ==
  IF s.child[d] = Null THEN s
  ELSE Emptied(RemoveList[MaxBlocks][s][s.child[d]], d)

\* The block is taken out of the list of its parent.
Unlinked(s, b) ==
  LET d == s.parent[b]
  IN  IF s.child[d] = b THEN [s EXCEPT !.child[d] = s.next[b]]
      ELSE [s EXCEPT !.next = [x \in Blocks |->
              IF x \in Children(s, d) /\ @[x] = b THEN s.next[b] ELSE @[x]]]

\* The block becomes the head of the chain of removed blocks.
Pushed(s, b) == [s EXCEPT !.next[b] = s.deleted, !.deleted = b]

\* MUTANT: what the block weighs is taken off before its children are removed.
BugCountFirst(s, b) == Pushed(Unlinked(RemoveChildren(RemoveCount(s, b), b), b), b)

\* MUTANT: the block becomes the whole chain.
BugNewChain(s, b) ==
  LET t == RemoveCount(Unlinked(RemoveChildren(s, b), b), b)
  IN  [t EXCEPT !.next[b] = Null, !.deleted = b]

\* RemoveBlock()
RemoveBlock(s, b) == Pushed(RemoveCount(Unlinked(RemoveChildren(s, b), b), b), b)

-----------------------------------------------------------------------------
\* The blocks in the tree: callers have handles of these only.
Live == Subtree(idx, Root)

BlocksInit == idx = NewIndex /\ own = Zero /\ emptied = FALSE

\* AddChild(): Index() calls it for every entry it finds.
AddChild(d, z) ==
  LET n == NewBlock(idx)
  IN  /\ n \in Blocks
      /\ idx' = IF IsItem(Taken(idx), n) THEN Linked(Taken(idx), d, n, z)
                ELSE Taken(idx)
      /\ own' = IF IsItem(Taken(idx), n) THEN [own EXCEPT ![n] = z] ELSE own
      /\ UNCHANGED emptied

\* AddSibling(): the same for the directory that b is in, and refused for the
\* root.
AddSibling(b, z) == b # Root /\ AddChild(idx.parent[b], z)

RemoveOne(b) ==
  /\ b # Root
  /\ idx' = RemoveBlock(idx, b)
  /\ own' = [c \in Blocks |-> IF c \in Subtree(idx, b) THEN 0 ELSE own[c]]
  /\ UNCHANGED emptied

\* BOUND: once the sizes may be wrong, not again.
RemoveBelow(b) ==
  /\ ~emptied
  /\ idx' = RemoveChildren(idx, b)
  /\ emptied' = \E c \in Children(idx, b) : idx.child[c] # Null
  /\ own' = [c \in Blocks |->
               IF c \in Subtree(idx, b) \ {b} THEN 0 ELSE own[c]]

Clear == idx' = NewIndex /\ own' = Zero /\ emptied' = FALSE

BlocksNext ==
  \/ \E b \in Live :
       \/ \E z \in Sizes : AddChild(b, z) \/ AddSibling(b, z)
       \/ RemoveOne(b) \/ RemoveBelow(b)
  \/ Clear

BlocksSpec == BlocksInit /\ [][BlocksNext]_blockVars

-----------------------------------------------------------------------------
(* The state of the index has its type. *)
BlocksTypeOK ==
  /\ idx \in Indexes /\ idx.offset \in 2 .. MaxBlocks
  /\ own \in [Blocks -> Sizes \cup {0}]
  /\ emptied \in BOOLEAN

\* The sum of the values of f for the blocks in bs.
Weight(f, bs) ==
  LET sum[n \in Nat] ==
        IF n = 0 THEN 0
        ELSE sum[n - 1] + (IF n - 1 \in bs THEN f[n - 1] ELSE 0)
  IN  sum[MaxBlocks]

(* A directory weighs what the files below it weigh together, after any     *)
(* sequence of additions and removals at any depth, although a removal      *)
(* takes the size of every level off the same ancestors (file_index.cpp:139 *)
(* and :146-163): what it takes too much from the removed block is put back *)
(* when that is taken off itself.  Only RemoveChildren() called by itself   *)
(* on a branch of several levels has nothing to put it back.                *)
SizesAreSums ==
  ~emptied => \A b \in Live : idx.size[b] = Weight(own, Subtree(idx, b))

(* No block of the buffer is lost, and none is in two places: each one that *)
(* was taken is either in the tree or in the chain of removed blocks, where *)
(* NewBlock() finds it again, and that chain ends, so that no block is in   *)
(* it twice (file_index.cpp:95-104, :166-168).                              *)
BlocksAccounted ==
  LET chain == Reach(Along(idx.next), idx.deleted)
  IN  /\ Null \in chain
      /\ chain \cap Live = {}
      /\ (chain \ {Null}) \cup Live = 1 .. idx.offset - 1

\* For every block of the tree, the blocks that it hangs below.
Ways == [b \in Live |-> {a \in Live : b \in Subtree(idx, a)}]

Tree == INSTANCE DirTree WITH Handle <- Blocks, above <- Ways

(* The blocks and their links implement the tree that users count on: one   *)
(* new handle comes in at a time, under the directory it was asked for, a   *)
(* removal takes one branch and nothing else, and no handle changes its     *)
(* entry meanwhile.                                                         *)
ImplementsTree == Tree!Spec
=============================================================================
