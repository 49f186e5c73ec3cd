--------------------------- MODULE MemPoolProofs ---------------------------
(***************************************************************************)
(* Proofs about MemPool, for every pool size and every set of holders.     *)
(*                                                                         *)
(* None of the three invariants is inductive alone: the cursor can only be *)
(* moved onto a free block if the blocks handed out are marked used, and   *)
(* allocate() keeps blocks exclusive only because the cursor rests on a    *)
(* free block, which no holder holds.  IInv is their conjunction.          *)
(***************************************************************************)
EXTENDS MemPool, WellFoundedInduction, TLAPS

IInv == TypeOK /\ NextFreeIsFree /\ ExclusiveOwnership

-----------------------------------------------------------------------------
(***************************************************************************)
(* The scan of updateNextFreeIndex().                                      *)
(***************************************************************************)

\* A non-empty set of naturals has a least element, which LeastOffset picks.
LEMMA LeastOffsetIn ==
  ASSUME NEW S \in SUBSET Nat, S # {}
  PROVE  LeastOffset(S) \in S
<1>1. \E x \in S : \A y \in S : ~(<<y, x>> \in OpToRel(<, Nat))
  BY NatLessThanWellFounded, WFMin
<1>2. \E k \in S : \A j \in S : k <= j
  <2>1. PICK x \in S : \A y \in S : ~(<<y, x>> \in OpToRel(<, Nat))
    BY <1>1
  <2>2. \A y \in S : x <= y
    <3>. SUFFICES ASSUME NEW y \in S PROVE x <= y
      OBVIOUS
    <3>1. ~(y < x)
      BY <2>1 DEF OpToRel
    <3>. QED  BY <3>1, SMT
  <2>. QED  BY <2>2
<1>. QED  BY <1>2 DEF LeastOffset

\* The block the scan stops at is free, and lies in the pool.
LEMMA ScanStopsAtFree ==
  ASSUME NEW f \in [Slot -> BOOLEAN], NEW i \in Slot, FreeOffsets(f, i) # {}
  PROVE  LET j == (i + LeastOffset(FreeOffsets(f, i))) % PoolSize
         IN  j \in Slot /\ f[j]
<1>1. FreeOffsets(f, i) \in SUBSET Nat
  BY PoolSizeAssumption DEF FreeOffsets
<1>2. LeastOffset(FreeOffsets(f, i)) \in FreeOffsets(f, i)
  BY <1>1, LeastOffsetIn
<1>. DEFINE k == LeastOffset(FreeOffsets(f, i))
<1>3. k \in 1 .. PoolSize - 1 /\ f[(i + k) % PoolSize]
  BY <1>2 DEF FreeOffsets
<1>4. (i + k) % PoolSize \in Slot
  BY <1>3, PoolSizeAssumption DEF Slot
<1>. QED  BY <1>3, <1>4

-----------------------------------------------------------------------------
(***************************************************************************)
(* IInv is inductive: one lemma per action.                                *)
(***************************************************************************)

LEMMA InitIInv == Init => IInv
BY PoolSizeAssumption, HandleAssumption
DEF Init, IInv, TypeOK, NextFreeIsFree, ExclusiveOwnership, Slot, Fatal

LEMMA AllocateIInv ==
  ASSUME IInv, NEW h \in Holder, Allocate(h)
  PROVE  IInv'
<1>. DEFINE used == [isFree EXCEPT ![nextFree] = FALSE]
            j == (nextFree + LeastOffset(FreeOffsets(used, nextFree))) % PoolSize
<1>1. /\ isFree \in [Slot -> BOOLEAN]
      /\ nextFree \in Slot
      /\ held \in [Holder -> Slot \cup {NoSlot}]
      /\ isFree[nextFree]
      /\ held[h] = NoSlot
  BY DEF IInv, TypeOK, Allocate
<1>2. /\ isFree' = used
      /\ nextFree' = j
      /\ held' = [held EXCEPT ![h] = nextFree]
      /\ status' = status
      /\ status = "running"
  BY DEF Allocate
<1>3. j \in Slot /\ used[j]
  <2>1. used \in [Slot -> BOOLEAN]
    BY <1>1
  <2>2. FreeOffsets(used, nextFree) # {}
    BY DEF Allocate
  <2>. QED  BY <1>1, <2>1, <2>2, ScanStopsAtFree
<1>4. TypeOK'
  BY <1>1, <1>2, <1>3, HandleAssumption DEF IInv, TypeOK
<1>5. NextFreeIsFree'
  BY <1>2, <1>3 DEF NextFreeIsFree
<1>6. \A g \in Holder : held'[g] # NoSlot => ~isFree'[held'[g]]
  <2>. SUFFICES ASSUME NEW g \in Holder, held'[g] # NoSlot
                PROVE  ~isFree'[held'[g]]
    OBVIOUS
  <2>1. CASE g = h
    BY <2>1, <1>1, <1>2
  <2>2. CASE g # h
    <3>1. held[g] # NoSlot /\ held'[g] = held[g]
      BY <2>2, <1>1, <1>2
    <3>2. ~isFree[held[g]] /\ held[g] \in Slot
      BY <3>1, <1>1 DEF IInv, ExclusiveOwnership
    <3>. QED  BY <3>1, <3>2, <1>1, <1>2
  <2>. QED  BY <2>1, <2>2
<1>7. \A g1, g2 \in Holder : g1 # g2 /\ held'[g1] # NoSlot => held'[g1] # held'[g2]
  <2>. SUFFICES ASSUME NEW g1 \in Holder, NEW g2 \in Holder, g1 # g2,
                       held'[g1] # NoSlot
                PROVE  held'[g1] # held'[g2]
    OBVIOUS
  <2>1. \A g \in Holder : g # h /\ held[g] # NoSlot => held[g] # nextFree
    BY <1>1 DEF IInv, ExclusiveOwnership
  <2>. QED  BY <1>1, <1>2, <2>1, HandleAssumption DEF IInv, ExclusiveOwnership
<1>. QED  BY <1>4, <1>5, <1>6, <1>7 DEF IInv, ExclusiveOwnership

LEMMA AllocateOutOfSpaceIInv ==
  ASSUME IInv, NEW h \in Holder, AllocateOutOfSpace(h)
  PROVE  IInv'
<1>1. /\ isFree' = [isFree EXCEPT ![nextFree] = FALSE]
      /\ status' = "OutOfSpace"
      /\ UNCHANGED <<nextFree, held>>
  BY DEF AllocateOutOfSpace
<1>2. TypeOK'
  BY <1>1 DEF IInv, TypeOK, Fatal
<1>3. NextFreeIsFree'
  BY <1>1 DEF NextFreeIsFree
<1>4. ExclusiveOwnership'
  BY <1>1 DEF IInv, TypeOK, ExclusiveOwnership
<1>. QED  BY <1>2, <1>3, <1>4 DEF IInv

LEMMA DeallocateIInv ==
  ASSUME IInv, NEW h \in Holder, Deallocate(h)
  PROVE  IInv'
<1>1. /\ held[h] # NoSlot
      /\ isFree' = [isFree EXCEPT ![held[h]] = TRUE]
      /\ held' = [held EXCEPT ![h] = NoSlot]
      /\ UNCHANGED <<nextFree, status>>
  BY DEF Deallocate
<1>2. held[h] \in Slot
  BY <1>1 DEF IInv, TypeOK
<1>3. TypeOK'
  BY <1>1, <1>2 DEF IInv, TypeOK
<1>4. NextFreeIsFree'
  BY <1>1, <1>2 DEF IInv, TypeOK, NextFreeIsFree
<1>5. ExclusiveOwnership'
  BY <1>1, <1>2 DEF IInv, TypeOK, ExclusiveOwnership
<1>. QED  BY <1>3, <1>4, <1>5 DEF IInv

LEMMA DeallocateInvalidIInv ==
  ASSUME IInv, NEW p \in Slot \cup {Foreign}, DeallocateInvalid(p)
  PROVE  IInv'
<1>1. /\ status' \in Fatal
      /\ UNCHANGED <<isFree, nextFree, held>>
  BY DEF DeallocateInvalid, Fatal
<1>2. status' # "running"
  BY <1>1 DEF Fatal
<1>. QED  BY <1>1, <1>2 DEF IInv, TypeOK, NextFreeIsFree, ExclusiveOwnership

LEMMA NextIInv == IInv /\ [Next]_vars => IInv'
<1>. SUFFICES ASSUME IInv, [Next]_vars PROVE IInv'
  OBVIOUS
<1>1. CASE \E h \in Holder : Allocate(h)
  BY <1>1, AllocateIInv
<1>2. CASE \E h \in Holder : AllocateOutOfSpace(h)
  BY <1>2, AllocateOutOfSpaceIInv
<1>3. CASE \E h \in Holder : Deallocate(h)
  BY <1>3, DeallocateIInv
<1>4. CASE \E p \in Slot \cup {Foreign} : DeallocateInvalid(p)
  BY <1>4, DeallocateInvalidIInv
<1>5. CASE UNCHANGED vars
  BY <1>5 DEF vars, IInv, TypeOK, NextFreeIsFree, ExclusiveOwnership
<1>. QED  BY <1>1, <1>2, <1>3, <1>4, <1>5 DEF Next

LEMMA IInvSpec == Spec => []IInv
BY InitIInv, NextIInv, PTL DEF Spec

-----------------------------------------------------------------------------

(***************************************************************************)
(* allocate() and deallocate() keep the pool well formed: the flags cover  *)
(* store_, next_free_index_ stays inside store_ (its wrap-around at        *)
(* store_.size() included), and every handle is a block or none.           *)
(***************************************************************************)
THEOREM PoolTypeCorrect == Spec => []TypeOK
BY IInvSpec, PTL DEF IInv

(***************************************************************************)
(* For every pool size: the ASSERT at the top of allocate() never fails,   *)
(* because next_free_index_ always rests on a free block, although         *)
(* deallocate() never moves it.                                            *)
(***************************************************************************)
THEOREM CursorOnFreeBlock == Spec => []NextFreeIsFree
BY IInvSpec, PTL DEF IInv

(***************************************************************************)
(* For every pool size and set of callers: no block is handed to two       *)
(* holders at once, and a held block is marked used, whatever the order of *)
(* allocate() and deallocate() calls.                                      *)
(***************************************************************************)
THEOREM OwnershipExclusive == Spec => []ExclusiveOwnership
BY IInvSpec, PTL DEF IInv

=============================================================================
