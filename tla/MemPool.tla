------------------------------ MODULE MemPool ------------------------------
(***************************************************************************)
(* Common::MemPool<T> (src/unnamed/part_001): num_elems ObjectBlocks, each *)
(* a T and an is_free_ flag, and a cursor next_free_index_ that allocate() *)
(* hands out and then moves forward, circularly, to the next free block.   *)
(*                                                                         *)
(* The pool is used by one thread, so each call is one atomic step.  The   *)
(* callers are a set of Holders, each holding at most one handle (the      *)
(* T* allocate() returned) at a time.  A failed ASSERT ends the process:   *)
(* `status` records which one, and no step follows.                       *)
(***************************************************************************)
EXTENDS Naturals

CONSTANTS
  PoolSize,   \* num_elems given to MemPool(size_t num_elems)
  Holder,     \* the callers of allocate() and deallocate()
  NoSlot,     \* a holder's handle when it holds none
  Foreign     \* a T* that does not point into store_

ASSUME PoolSizeAssumption == PoolSize \in Nat \ {0}

Slot == 0 .. PoolSize - 1

ASSUME HandleAssumption == NoSlot \notin Slot /\ Foreign \notin Slot

VARIABLES
  isFree,     \* is_free_ of each ObjectBlock in store_
  nextFree,   \* next_free_index_
  held,       \* the handle each holder holds, or NoSlot
  status      \* "running", or the ASSERT that ended the process

vars == <<isFree, nextFree, held, status>>

\* The fatal ASSERTs of MemPool.
Fatal == {"OutOfSpace", "Foreign", "DoubleFree"}

\* MemPool(num_elems): store_(num_elems, {T(), true}), next_free_index_ = 0.
Init ==
  /\ isFree = [i \in Slot |-> TRUE]
  /\ nextFree = 0
  /\ held = [h \in Holder |-> NoSlot]
  /\ status = "running"

\* Bug variant of FreeOffsets: the cursor steps forward once without looking
\* at is_free_.
FreeOffsetsNoScan(f, i) == {1}

(***************************************************************************)
(* updateNextFreeIndex(), started at block i over the flags f: the loop    *)
(* steps the cursor forward (wrapping at store_.size()) while the block    *)
(* under it is used, and fails the "out of space" ASSERT when it comes     *)
(* back to i.  FreeOffsets is the set of distances k in 1..size()-1 at     *)
(* which the loop would stop; the loop stops at the least one, and fails   *)
(* when there is none.                                                     *)
(***************************************************************************)
FreeOffsets(f, i) == {k \in 1 .. PoolSize - 1 : f[(i + k) % PoolSize]}

\* The distance the loop of updateNextFreeIndex() walks.
LeastOffset(S) == CHOOSE k \in S : \A j \in S : k <= j

\* Bug variant of Allocate: the block is handed out without
\* obj_block->is_free_ = false.
AllocateNoMark(h) ==
  LET offsets == FreeOffsets(isFree, nextFree)
  IN /\ status = "running"
     /\ held[h] = NoSlot
     /\ isFree[nextFree]
     /\ offsets # {}
     /\ nextFree' = (nextFree + LeastOffset(offsets)) % PoolSize
     /\ held' = [held EXCEPT ![h] = nextFree]
     /\ UNCHANGED <<isFree, status>>

\* Bug variant of Allocate: the cursor is not wrapped at store_.size().
AllocateNoWrap(h) ==
  LET used == [isFree EXCEPT ![nextFree] = FALSE]
      offsets == FreeOffsets(used, nextFree)
  IN /\ status = "running"
     /\ held[h] = NoSlot
     /\ isFree[nextFree]
     /\ offsets # {}
     /\ isFree' = used
     /\ nextFree' = nextFree + LeastOffset(offsets)
     /\ held' = [held EXCEPT ![h] = nextFree]
     /\ UNCHANGED status

(***************************************************************************)
(* allocate(args...): ASSERT the block at next_free_index_ is free,        *)
(* construct T in it, mark it used, updateNextFreeIndex(), return it.      *)
(* The ASSERT is a guard: NextFreeIsFree shows it never fails.             *)
(***************************************************************************)
Allocate(h) ==
  LET used == [isFree EXCEPT ![nextFree] = FALSE]
      offsets == FreeOffsets(used, nextFree)
  IN /\ status = "running"
     /\ held[h] = NoSlot
     /\ isFree[nextFree]
     /\ offsets # {}
     /\ isFree' = used
     /\ nextFree' = (nextFree + LeastOffset(offsets)) % PoolSize
     /\ held' = [held EXCEPT ![h] = nextFree]
     /\ UNCHANGED status

\* allocate() of the last free block: the block is marked used, then the
\* loop of updateNextFreeIndex() finds no other free block and the
\* "Memory Pool out of space." ASSERT ends the process before allocate()
\* returns.
AllocateOutOfSpace(h) ==
  LET used == [isFree EXCEPT ![nextFree] = FALSE]
  IN /\ status = "running"
     /\ held[h] = NoSlot
     /\ isFree[nextFree]
     /\ FreeOffsets(used, nextFree) = {}
     /\ isFree' = used
     /\ status' = "OutOfSpace"
     /\ UNCHANGED <<nextFree, held>>

\* deallocate(elem) by the holder of elem: the index computed from the
\* address is in range and the block is in use, so it is marked free.
\* next_free_index_ is left where it is.
Deallocate(h) ==
  /\ status = "running"
  /\ held[h] # NoSlot
  /\ isFree' = [isFree EXCEPT ![held[h]] = TRUE]
  /\ held' = [held EXCEPT ![h] = NoSlot]
  /\ UNCHANGED <<nextFree, status>>

\* deallocate(p) of a pointer that is not a live handle of this pool: one
\* outside store_ fails the range ASSERT, one to a free block (a double
\* free) the in-use ASSERT.
DeallocateInvalid(p) ==
  /\ status = "running"
  /\ p # Foreign => isFree[p]
  /\ status' = IF p = Foreign THEN "Foreign" ELSE "DoubleFree"
  /\ UNCHANGED <<isFree, nextFree, held>>

Next ==
  \/ \E h \in Holder : Allocate(h) \/ AllocateOutOfSpace(h) \/ Deallocate(h)
  \/ \E p \in Slot \cup {Foreign} : DeallocateInvalid(p)

Spec == Init /\ [][Next]_vars

-----------------------------------------------------------------------------

TypeOK ==
  /\ isFree \in [Slot -> BOOLEAN]
  /\ nextFree \in Slot
  /\ held \in [Holder -> Slot \cup {NoSlot}]
  /\ status \in {"running"} \cup Fatal

(***************************************************************************)
(* The ASSERT at the top of allocate() ("Expected free ObjectBlock") never *)
(* fails: while the process runs, next_free_index_ points at a free block, *)
(* although deallocate() never moves it and frees blocks behind it.        *)
(***************************************************************************)
NextFreeIsFree == status = "running" => isFree[nextFree]

(***************************************************************************)
(* Spec 3: a block is owned by at most one live handle, and a block that   *)
(* backs a live handle is marked used, whatever the order of allocate()    *)
(* and deallocate() calls of the holders.                                  *)
(***************************************************************************)
ExclusiveOwnership ==
  /\ \A h \in Holder : held[h] # NoSlot => ~isFree[held[h]]
  /\ \A h1, h2 \in Holder : h1 # h2 /\ held[h1] # NoSlot => held[h1] # held[h2]

(***************************************************************************)
(* Spec 4.1: "if no free slot exists, aborts" -- an allocate() that ends   *)
(* the process for lack of space is one made when every block was in use. *)
(***************************************************************************)
AllocateFailsOnlyWhenFull ==
  [][status' = "OutOfSpace" => \A i \in Slot : ~isFree[i]]_vars

=============================================================================
