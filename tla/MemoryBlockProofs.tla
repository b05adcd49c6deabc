------------------------- MODULE MemoryBlockProofs --------------------------
(***************************************************************************)
(* Proofs about the block allocator, for every size of the pool, of a      *)
(* block and of the set of clients.  IInv is the inductive invariant: the  *)
(* free stack holds no address twice, so the block Get pops leaves the     *)
(* stack for good, and live and stack split the carved blocks.             *)
(***************************************************************************)
EXTENDS MemoryBlock, FiniteSetTheorems, TLAPS

IInv ==
  /\ TypeOK
  /\ ExclusiveOwnership
  /\ NoBlockLost
  /\ NoDuplicates
  /\ Isolation

-----------------------------------------------------------------------------
(* Blocks lie at distinct addresses, one after the other.                  *)
LEMMA BlockAddrFacts ==
  /\ \A i \in Nat : BlockAddr(i) \in Nat
  /\ \A i, j \in Nat : i < j => BlockAddr(i) < BlockAddr(j)
  /\ \A i, j \in Nat : BlockAddr(i) = BlockAddr(j) => i = j
<1>1. \A i \in Nat : BlockAddr(i) \in Nat
  BY BlockInitAssumption DEF BlockAddr
<1>2. ASSUME NEW i \in Nat, NEW j \in Nat, i < j PROVE BlockAddr(i) < BlockAddr(j)
  <2>1. BlockAddr(j) = BlockAddr(i) + (j - i) * zTypeSize
    BY BlockInitAssumption DEF BlockAddr
  <2>2. j - i \in Nat \ {0}
    BY <1>2
  <2>3. \A a, b \in Nat \ {0} : a * b > 0
    OBVIOUS
  <2>4. (j - i) * zTypeSize > 0
    BY <2>2, <2>3, BlockInitAssumption
  <2>5. QED BY <2>1, <2>4, <1>1, BlockInitAssumption
<1>3. ASSUME NEW i \in Nat, NEW j \in Nat, BlockAddr(i) = BlockAddr(j) PROVE i = j
  <2>1. CASE i < j BY <2>1, <1>1, <1>2, <1>3
  <2>2. CASE j < i BY <2>2, <1>1, <1>2, <1>3
  <2>3. QED BY <2>1, <2>2
<1>4. QED BY <1>1, <1>2, <1>3

(* Carving one more block.                                                 *)
LEMMA BelowNext ==
  ASSUME NEW n \in Nat
  PROVE  /\ Below(n + 1) = Below(n) \cup {BlockAddr(n)}
         /\ BlockAddr(n) \notin Below(n)
  BY BlockAddrFacts DEF Below

(* The first m blocks are among the first n when m <= n.                   *)
LEMMA BelowMonotonic ==
  ASSUME NEW m \in Nat, NEW n \in Nat, m <= n
  PROVE  Below(m) \subseteq Below(n)
  BY DEF Below

(* No block lies at the null address.                                      *)
LEMMA BlockNotNull == NULL \notin Blocks
  BY BlockAddrFacts, ValueAssumption, BlockInitAssumption DEF Blocks, Below

-----------------------------------------------------------------------------
(* The block Get takes, and the stack it leaves.                           *)
LEMMA GetTakesFreeBlock ==
  ASSUME IInv, NEW n, GetCheck(n) = "SUCCESS"
  PROVE  /\ Top \in 0..(zLength - 1)
         /\ Carved \in [0..(zLength - 1) -> Blocks \cup {NULL}]
         /\ Carved[Top] \in Blocks
         /\ Carved[Top] \notin live
         /\ zFreed = 0 =>
              /\ zUsed + 1 \in 0..zLength
              /\ FreeStack = {}
              /\ Carved[Top] = BlockAddr(zUsed)
         /\ zFreed # 0 =>
              /\ Carved = ptMetadata
              /\ Carved[Top] \in FreeStack
<1> USE DEF IInv, TypeOK, Carved, Top
<1>1. CASE zFreed = 0
  <2>1. zUsed < zLength
    BY <1>1 DEF GetCheck
  <2>2. BlockAddr(zUsed) \in Blocks
    BY <2>1, BlockInitAssumption DEF Blocks, Below
  <2>3. FreeStack = {}
    BY <1>1 DEF FreeStack
  <2>4. BlockAddr(zUsed) \notin live
    BY BelowNext DEF NoBlockLost
  <2>5. Top = 0 /\ Carved[Top] = BlockAddr(zUsed)
    BY <1>1, BlockInitAssumption
  <2>6. QED BY <1>1, <2>1, <2>2, <2>3, <2>4, <2>5, BlockInitAssumption
<1>2. CASE zFreed # 0
  <2>1. Top \in 0..(zFreed - 1) /\ Top \in 0..(zLength - 1)
    BY <1>2, BlockInitAssumption
  <2>2. ptMetadata[Top] \in FreeStack
    BY <2>1 DEF FreeStack
  <2>3. FreeStack \subseteq Below(zUsed) /\ FreeStack \cap live = {}
    BY DEF NoBlockLost
  <2>4. Below(zUsed) \subseteq Blocks
    BY BelowMonotonic, BlockInitAssumption DEF Blocks
  <2>5. QED BY <1>2, <2>1, <2>2, <2>3, <2>4
<1>3. QED BY <1>1, <1>2

(* JunoMemory_BlockInit establishes the inductive invariant.               *)
LEMMA InitIInv == Init => IInv
<1> SUFFICES ASSUME Init PROVE IInv
  OBVIOUS
<1> USE DEF Init
<1>1. TypeOK
  BY BlockInitAssumption DEF TypeOK, NoPointer
<1>2. ExclusiveOwnership /\ Isolation
  BY DEF ExclusiveOwnership, Isolation, NoPointer
<1>3. FreeStack = {} /\ Below(zUsed) = {}
  BY DEF FreeStack, Below
<1>4. NoBlockLost /\ NoDuplicates
  BY <1>3 DEF NoBlockLost, NoDuplicates, NoPointer
<1>5. QED BY <1>1, <1>2, <1>4 DEF IInv

(* A Get that hands out a block preserves the inductive invariant.         *)
LEMMA GetBlockStep ==
  ASSUME IInv, NEW h \in Holders, NEW n, GetBlock(h, n)
  PROVE  IInv'
<1> DEFINE a == Carved[Top]
<1> USE DEF IInv
<1>1. GetCheck(n) = "SUCCESS"
  BY DEF GetBlock
<1>2. /\ Top \in 0..(zLength - 1)
      /\ Carved \in [0..(zLength - 1) -> Blocks \cup {NULL}]
      /\ a \in Blocks
      /\ a \notin live
      /\ a # NULL
  BY <1>1, GetTakesFreeBlock, BlockNotNull
<1>3. /\ desc' = [desc EXCEPT ![h] = [pvAddr |-> a, zSize |-> zTypeSize]]
      /\ desc[h].pvAddr = NULL
      /\ mem' = [mem EXCEPT ![a] = Zero]
      /\ live' = live \cup {a}
      /\ zFreed' = Top
      /\ ptMetadata' = [Carved EXCEPT ![Top] = NULL]
  BY DEF GetBlock
<1>4. zUsed' \in 0..zLength
  BY <1>1, GetTakesFreeBlock DEF GetBlock, TypeOK
<1>5. TypeOK'
  BY <1>2, <1>3, <1>4, BlockInitAssumption DEF TypeOK
<1>6. \A g \in Holders : g # h => desc'[g] = desc[g] /\ desc[g].pvAddr # a
  BY <1>2, <1>3 DEF TypeOK, NoBlockLost
<1>7. desc'[h].pvAddr = a
  BY <1>3 DEF TypeOK
<1>8. ExclusiveOwnership'
  BY <1>6, <1>7 DEF ExclusiveOwnership
<1>9. Isolation'
  BY <1>2, <1>3, <1>6, <1>7 DEF Isolation, TypeOK
<1>10. live' = { desc'[g].pvAddr : g \in Holders } \ {NULL}
  BY <1>2, <1>3, <1>6, <1>7 DEF NoBlockLost
<1>11. NoDuplicates' /\ FreeStack' = FreeStack \ {a} /\ a \in FreeStack' \cup live'
  <2>1. CASE zFreed = 0
    <3>1. zFreed' = 0 /\ FreeStack = {}
      BY <1>1, <1>3, <2>1, GetTakesFreeBlock DEF Top
    <3>2. QED BY <1>3, <3>1 DEF NoDuplicates, FreeStack
  <2>2. CASE zFreed # 0
    <3>1. Top = zFreed - 1 /\ Carved = ptMetadata /\ zFreed \in 0..zLength
      BY <1>1, <2>2, GetTakesFreeBlock DEF Top, TypeOK
    <3>2. \A i \in 0..(zFreed' - 1) : ptMetadata'[i] = ptMetadata[i] /\ i \in 0..(zFreed - 1)
      BY <1>3, <3>1 DEF TypeOK
    <3>3. \A i \in 0..(zFreed - 1) : i \in 0..(zFreed' - 1) \/ ptMetadata[i] = a
      BY <1>3, <3>1
    <3>4. \A i \in 0..(zFreed' - 1) : ptMetadata[i] # a
      BY <1>3, <3>1, <3>2 DEF NoDuplicates
    <3>5. NoDuplicates'
      BY <3>2 DEF NoDuplicates
    <3>6. FreeStack' = FreeStack \ {a}
      <4>1. ASSUME NEW x \in FreeStack' PROVE x \in FreeStack \ {a}
        <5>1. PICK i \in 0..(zFreed' - 1) : x = ptMetadata'[i]
          BY <4>1 DEF FreeStack
        <5>2. i \in 0..(zFreed - 1) /\ x = ptMetadata[i] /\ x # a
          BY <3>2, <3>4, <5>1
        <5>3. QED BY <5>2 DEF FreeStack
      <4>2. ASSUME NEW x \in FreeStack, x # a PROVE x \in FreeStack'
        <5>1. PICK i \in 0..(zFreed - 1) : x = ptMetadata[i]
          BY <4>2 DEF FreeStack
        <5>2. i \in 0..(zFreed' - 1) /\ x = ptMetadata'[i]
          BY <3>2, <3>3, <4>2, <5>1
        <5>3. QED BY <5>2 DEF FreeStack
      <4>3. QED BY <4>1, <4>2
    <3>7. QED BY <1>3, <3>5, <3>6
  <2>3. QED BY <2>1, <2>2
<1>12. live' \cup FreeStack' = Below(zUsed')
  <2>1. CASE zFreed = 0
    <3>1. zUsed' = zUsed + 1 /\ FreeStack = {} /\ a = BlockAddr(zUsed)
      BY <1>1, <2>1, GetTakesFreeBlock DEF GetBlock
    <3>2. Below(zUsed + 1) = Below(zUsed) \cup {a}
      BY <3>1, BelowNext DEF TypeOK
    <3>3. live = Below(zUsed)
      BY <3>1 DEF NoBlockLost
    <3>4. FreeStack' = {} /\ live' = live \cup {a}
      BY <1>3, <1>11, <3>1
    <3>5. QED BY <3>1, <3>2, <3>3, <3>4
  <2>2. CASE zFreed # 0
    <3>1. zUsed' = zUsed /\ a \in FreeStack
      BY <1>1, <2>2, GetTakesFreeBlock DEF GetBlock
    <3>2. live \cup FreeStack = Below(zUsed)
      BY DEF NoBlockLost
    <3>3. QED BY <1>3, <1>11, <3>1, <3>2
  <2>3. QED BY <2>1, <2>2
<1>13. live' \cap FreeStack' = {}
  BY <1>3, <1>11 DEF NoBlockLost
<1>14. NoBlockLost'
  BY <1>10, <1>12, <1>13 DEF NoBlockLost
<1>15. QED BY <1>5, <1>8, <1>9, <1>11, <1>14

(* A Get whose Reset fails leaves every block where it was, or on the      *)
(* stack if it has just been carved.                                       *)
LEMMA GetRollbackStep ==
  ASSUME IInv, NEW n, GetRollback(n)
  PROVE  IInv'
<1> USE DEF IInv
<1>1. GetCheck(n) = "SUCCESS" /\ UNCHANGED <<desc, mem, live>>
  BY DEF GetRollback
<1>2. ExclusiveOwnership' /\ Isolation'
  BY <1>1 DEF ExclusiveOwnership, Isolation
<1>3. live' = { desc'[h].pvAddr : h \in Holders } \ {NULL}
  BY <1>1 DEF NoBlockLost
<1>4. CASE zFreed = 0
  <2>1. /\ zUsed' = zUsed + 1
        /\ zUsed' \in 0..zLength
        /\ zFreed' = 1
        /\ ptMetadata' = Carved
        /\ Carved[0] = BlockAddr(zUsed)
        /\ Carved \in [0..(zLength - 1) -> Blocks \cup {NULL}]
        /\ FreeStack = {}
    BY <1>1, <1>4, GetTakesFreeBlock DEF GetRollback, Top
  <2>2. TypeOK'
    BY <1>1, <2>1, BlockInitAssumption DEF TypeOK
  <2>3. FreeStack' = {BlockAddr(zUsed)} /\ NoDuplicates'
    BY <2>1 DEF FreeStack, NoDuplicates
  <2>4. Below(zUsed') = Below(zUsed) \cup {BlockAddr(zUsed)} /\ BlockAddr(zUsed) \notin Below(zUsed)
    BY <2>1, BelowNext DEF TypeOK
  <2>5. NoBlockLost'
    BY <1>1, <1>3, <2>1, <2>3, <2>4 DEF NoBlockLost
  <2>6. QED BY <1>2, <2>2, <2>3, <2>5
<1>5. CASE zFreed # 0
  <2>1. UNCHANGED <<zUsed, zFreed, ptMetadata>>
    BY <1>5 DEF GetRollback, Carved, Top, TypeOK
  <2>2. TypeOK' /\ NoDuplicates' /\ FreeStack' = FreeStack
    BY <1>1, <2>1 DEF TypeOK, NoDuplicates, FreeStack, Blocks, Below
  <2>3. NoBlockLost'
    BY <1>1, <1>3, <2>1, <2>2 DEF NoBlockLost, Below
  <2>4. QED BY <1>2, <2>2, <2>3
<1>6. QED BY <1>4, <1>5

(* A Put that takes a block back preserves it, either way it does.         *)
LEMMA PutBlockStep ==
  ASSUME IInv, NEW h \in Holders, PutBlock(h)
  PROVE  IInv'
<1> DEFINE a == desc[h].pvAddr
<1> USE DEF IInv
<1>1. /\ PutCheck(desc[h]) = "SUCCESS"
      /\ mem' = [mem EXCEPT ![a] = Zero]
  BY DEF PutBlock
<1>2. a # NULL /\ a \in live /\ a \in Blocks /\ a \notin FreeStack
  <2>1. a # NULL /\ a \notin FreeStack
    BY <1>1 DEF PutCheck
  <2>2. QED BY <2>1 DEF NoBlockLost, TypeOK
<1>3. \A g \in Holders : g # h => desc[g].pvAddr # a
  BY <1>2 DEF ExclusiveOwnership
<1>4. CASE Overflow(a)
  <2>1. UNCHANGED <<zUsed, zFreed, ptMetadata, desc, live>>
    BY <1>4 DEF PutBlock, pool
  <2>2. TypeOK' /\ NoDuplicates' /\ FreeStack' = FreeStack
    BY <1>1, <1>2, <2>1 DEF TypeOK, NoDuplicates, FreeStack, Blocks, Below
  <2>3. Isolation' /\ ExclusiveOwnership'
    BY <1>1, <1>2, <2>1 DEF Isolation, ExclusiveOwnership, TypeOK
  <2>4. NoBlockLost'
    BY <2>1, <2>2 DEF NoBlockLost, Below
  <2>5. QED BY <2>2, <2>3, <2>4
<1>5. CASE ~Overflow(a)
  <2>1. /\ desc' = [desc EXCEPT ![h] = NoPointer]
        /\ live' = live \ {a}
        /\ Retire(a)
    BY <1>5 DEF PutBlock
  <2>2. /\ desc'[h].pvAddr = NULL
        /\ \A g \in Holders : g # h => desc'[g] = desc[g]
    BY <2>1 DEF NoPointer, TypeOK
  <2>3. ExclusiveOwnership' /\ Isolation'
    BY <1>1, <1>2, <1>3, <2>2 DEF ExclusiveOwnership, Isolation, TypeOK
  <2>4. live' = { desc'[g].pvAddr : g \in Holders } \ {NULL}
    BY <1>2, <1>3, <2>1, <2>2 DEF NoBlockLost
  <2>5. desc' \in [Holders -> [pvAddr : Blocks \cup {NULL}, zSize : 0..zTypeSize]]
    BY <2>1, BlockInitAssumption DEF NoPointer, TypeOK
  <2>6. mem' \in [Blocks -> Holders \cup {Zero, Junk}] /\ live' \subseteq Blocks
    BY <1>1, <1>2, <2>1 DEF TypeOK
  <2>7. CASE a = BlockAddr(zUsed - 1)
    <3>1. zUsed' = zUsed - 1 /\ zFreed' = zFreed /\ ptMetadata' = ptMetadata
      BY <2>1, <2>7 DEF Retire
    <3>2. zUsed # 0
      BY <1>1 DEF PutCheck
    <3>3. zUsed' \in Nat /\ zUsed = zUsed' + 1
      BY <3>1, <3>2 DEF TypeOK
    <3>4. TypeOK'
      BY <2>5, <2>6, <3>1, <3>2, BlockInitAssumption DEF TypeOK
    <3>5. FreeStack' = FreeStack /\ NoDuplicates'
      BY <3>1 DEF FreeStack, NoDuplicates
    <3>6. Below(zUsed) = Below(zUsed') \cup {a} /\ a \notin Below(zUsed')
      BY <2>7, <3>3, BelowNext
    <3>7. NoBlockLost'
      BY <1>2, <2>1, <2>4, <3>5, <3>6 DEF NoBlockLost
    <3>8. QED BY <2>3, <3>4, <3>5, <3>7
  <2>8. CASE a # BlockAddr(zUsed - 1)
    <3>1. /\ zFreed < zLength
          /\ zUsed' = zUsed
          /\ zFreed' = zFreed + 1
          /\ ptMetadata' = [ptMetadata EXCEPT ![zFreed] = a]
      BY <1>5, <2>1, <2>8, BlockInitAssumption DEF Retire, Overflow, TypeOK
    <3>2. TypeOK'
      BY <1>2, <2>5, <2>6, <3>1, BlockInitAssumption DEF TypeOK
    <3>3. /\ ptMetadata'[zFreed] = a
          /\ \A i \in 0..(zFreed - 1) : ptMetadata'[i] = ptMetadata[i]
      BY <3>1, BlockInitAssumption DEF TypeOK
    <3>4. \A i \in 0..(zFreed - 1) : ptMetadata[i] # a
      BY <1>2 DEF FreeStack
    <3>5. 0..(zFreed' - 1) = 0..(zFreed - 1) \cup {zFreed} /\ zFreed \notin 0..(zFreed - 1)
      BY <3>1 DEF TypeOK
    <3>6. NoDuplicates'
      BY <3>3, <3>4, <3>5 DEF NoDuplicates
    <3>7. FreeStack' = FreeStack \cup {a}
      <4>1. ASSUME NEW x \in FreeStack' PROVE x \in FreeStack \cup {a}
        <5>1. PICK i \in 0..(zFreed' - 1) : x = ptMetadata'[i]
          BY <4>1 DEF FreeStack
        <5>2. i \in 0..(zFreed - 1) => x = ptMetadata[i]
          BY <3>3, <5>1
        <5>3. i = zFreed => x = a
          BY <3>3, <5>1
        <5>4. QED BY <3>5, <5>1, <5>2, <5>3 DEF FreeStack
      <4>2. ASSUME NEW x \in FreeStack PROVE x \in FreeStack'
        <5>1. PICK i \in 0..(zFreed - 1) : x = ptMetadata[i]
          BY <4>2 DEF FreeStack
        <5>2. i \in 0..(zFreed' - 1) /\ x = ptMetadata'[i]
          BY <3>3, <3>5, <5>1
        <5>3. QED BY <5>2 DEF FreeStack
      <4>3. a \in FreeStack'
        <5>1. zFreed \in 0..(zFreed' - 1)
          BY <3>5
        <5>2. QED BY <3>3, <5>1 DEF FreeStack
      <4>4. QED BY <4>1, <4>2, <4>3
    <3>8. NoBlockLost'
      BY <1>2, <2>1, <2>4, <3>1, <3>7 DEF NoBlockLost, Below
    <3>9. QED BY <2>3, <3>2, <3>6, <3>8
  <2>9. QED BY <2>7, <2>8
<1>6. QED BY <1>4, <1>5

(* Calls that change no block's whereabouts.                               *)
LEMMA QuietStep ==
  ASSUME IInv,
         UNCHANGED <<zUsed, zFreed, ptMetadata, live>>,
         \A h \in Holders : desc'[h].pvAddr = desc[h].pvAddr,
         TypeOK',
         Isolation'
  PROVE  IInv'
<1> USE DEF IInv
<1>1. ExclusiveOwnership' /\ NoDuplicates'
  BY DEF ExclusiveOwnership, NoDuplicates
<1>2. FreeStack' = FreeStack /\ Below(zUsed') = Below(zUsed)
  BY DEF FreeStack, Below
<1>3. { desc'[h].pvAddr : h \in Holders } = { desc[h].pvAddr : h \in Holders }
  OBVIOUS
<1>4. NoBlockLost'
  BY <1>2, <1>3 DEF NoBlockLost
<1>5. QED BY <1>1, <1>4

(* Every step of pool and clients preserves the inductive invariant.       *)
LEMMA NextIInv == IInv /\ [Next]_vars => IInv'
<1> SUFFICES ASSUME IInv, [Next]_vars PROVE IInv'
  OBVIOUS
<1>1. ASSUME NEW h \in Holders, NEW n \in 0..(zTypeSize + 1), GetBlock(h, n) PROVE IInv'
  BY <1>1, GetBlockStep
<1>2. ASSUME NEW n \in 0..(zTypeSize + 1), GetRollback(n) PROVE IInv'
  BY <1>2, GetRollbackStep
<1>3. ASSUME NEW h \in Holders, PutBlock(h) PROVE IInv'
  BY <1>3, PutBlockStep
<1>4. ASSUME NEW h \in Holders, NEW n \in 0..(zTypeSize + 1), Update(h, n) PROVE IInv'
  <2>1. UNCHANGED <<zUsed, zFreed, ptMetadata, mem, live>>
    BY <1>4 DEF Update, pool
  <2>2. desc' \in [Holders -> [pvAddr : Blocks \cup {NULL}, zSize : 0..zTypeSize]]
    <3>1. CASE n > zTypeSize
      BY <1>4, <3>1 DEF Update, IInv, TypeOK
    <3>2. CASE ~(n > zTypeSize)
      <4>1. n \in 0..zTypeSize
        BY <3>2, BlockInitAssumption
      <4>2. desc' = [desc EXCEPT ![h].zSize = n]
        BY <1>4, <3>2 DEF Update
      <4>3. QED BY <4>1, <4>2 DEF IInv, TypeOK
    <3>3. QED BY <3>1, <3>2
  <2>3. \A g \in Holders : desc'[g].pvAddr = desc[g].pvAddr
    BY <1>4 DEF Update, IInv, TypeOK
  <2>4. TypeOK' /\ Isolation'
    BY <2>1, <2>2, <2>3 DEF IInv, TypeOK, Isolation, Blocks, Below
  <2>5. QED BY <2>1, <2>3, <2>4, QuietStep
<1>5. ASSUME NEW h \in Holders, Write(h) PROVE IInv'
  <2>1. UNCHANGED <<zUsed, zFreed, ptMetadata, desc, live>> /\ mem' = [mem EXCEPT ![desc[h].pvAddr] = h]
    BY <1>5 DEF Write, pool
  <2>2. TypeOK'
    BY <2>1 DEF IInv, TypeOK, Blocks, Below
  <2>3. Isolation'
    BY <2>1 DEF IInv, TypeOK, Isolation, ExclusiveOwnership
  <2>4. QED BY <2>1, <2>2, <2>3, QuietStep
<1>6. ASSUME UNCHANGED <<zUsed, zFreed, ptMetadata, desc, mem, live>> PROVE IInv'
  <2>1. TypeOK' /\ Isolation'
    BY <1>6 DEF IInv, TypeOK, Isolation, Blocks, Below
  <2>2. QED BY <1>6, <2>1, QuietStep
<1>7. ASSUME NEW n \in 0..(zTypeSize + 1), GetRefused(n) PROVE IInv'
  BY <1>6, <1>7 DEF GetRefused, pool
<1>8. ASSUME NEW h \in Holders, PutRefused(h) \/ PutResetFails(h) PROVE IInv'
  BY <1>6, <1>8 DEF PutRefused, PutResetFails, pool
<1>9. CASE UNCHANGED vars
  BY <1>6, <1>9 DEF vars
<1>10. QED
  BY <1>1, <1>2, <1>3, <1>4, <1>5, <1>7, <1>8, <1>9 DEF Next

(* The strengthening that all the safety theorems below follow from.       *)
THEOREM Invariance == Spec => []IInv
  BY InitIInv, NextIInv, PTL DEF Spec

-----------------------------------------------------------------------------
(* Every field of the pool and every descriptor keeps its type: counters   *)
(* within the pool's length, addresses on block boundaries inside it.      *)
THEOREM TypeCorrect == Spec => []TypeOK
  BY Invariance, PTL DEF IInv

(* Get never hands out a block some other descriptor still refers to.      *)
THEOREM NoSharedBlock == Spec => []ExclusiveOwnership
  BY Invariance, PTL DEF IInv

(* Get, its rollback and both branches of Put keep the carved blocks       *)
(* divided between the clients and the free stack.                         *)
THEOREM BlocksAccounted == Spec => []NoBlockLost
  BY Invariance, PTL DEF IInv

(* No client ever sees through its descriptor what another one wrote.      *)
THEOREM ContentIsolated == Spec => []Isolation
  BY Invariance, PTL DEF IInv

-----------------------------------------------------------------------------
(* Block addresses are aligned when the size of a block is.                *)
LEMMA MultipleOfStride ==
  ASSUME NEW i \in Nat, NEW s \in Nat \ {0}, NEW a \in Nat \ {0}, s % a = 0
  PROVE  (i * s) % a = 0
<1>1. PICK k \in Nat : s = k * a
  <2>1. PICK q \in Nat : q = s \div a
    OBVIOUS
  <2>2. s = q * a
    BY <2>1
  <2>3. QED BY <2>2
<1>2. i * s = (i * k) * a /\ i * k \in Nat
  BY <1>1
<1>3. \A m \in Nat : (m * a) % a = 0
  OBVIOUS
<1>4. QED BY <1>2, <1>3

(* The free stack has room for every block that is out: it holds no        *)
(* address twice, and at most the zLength - 1 other blocks.                *)
LEMMA RoomOnStack ==
  ASSUME IInv, NEW a \in live
  PROVE  zFreed < zLength
<1> SUFFICES ASSUME zFreed = zLength PROVE FALSE
  BY BlockInitAssumption DEF IInv, TypeOK
<1> DEFINE D == 0..(zLength - 1)
           b == [i \in D |-> BlockAddr(i)]
           Others == Blocks \ {a}
<1>1. IsFiniteSet(D) /\ Cardinality(D) = zLength
  BY FS_Interval, BlockInitAssumption
<1>2. b \in Surjection(D, Blocks)
  BY DEF Surjection, Blocks, Below
<1>3. IsFiniteSet(Blocks) /\ Cardinality(Blocks) <= zLength
  <2> HIDE DEF D, b
  <2>1. QED BY <1>1, <1>2, FS_Surjection
<1>4. a \in Blocks
  BY DEF IInv, TypeOK
<1>5. IsFiniteSet(Others) /\ Cardinality(Others) < zLength
  <2>1. Cardinality(Blocks) \in Nat
    BY <1>3, FS_CardinalityType
  <2>2. IsFiniteSet(Others) /\ Cardinality(Others) = Cardinality(Blocks) - 1
    BY <1>3, <1>4, FS_RemoveElement
  <2>3. QED BY <1>3, <2>1, <2>2, BlockInitAssumption
<1>6. \A i \in D : ptMetadata[i] \in FreeStack
  BY DEF FreeStack
<1>7. FreeStack \subseteq Others
  <2>1. FreeStack \subseteq Below(zUsed) /\ a \notin FreeStack
    BY DEF IInv, NoBlockLost
  <2>2. Below(zUsed) \subseteq Blocks
    BY BelowMonotonic, BlockInitAssumption DEF IInv, TypeOK, Blocks
  <2>3. QED BY <2>1, <2>2
<1>8. ptMetadata \in [D -> Others]
  BY <1>6, <1>7 DEF IInv, TypeOK
<1>9. \E i, j \in D : i # j /\ ptMetadata[i] = ptMetadata[j]
  <2> HIDE DEF D, Others
  <2>1. QED BY <1>1, <1>5, <1>8, FS_PigeonHole
<1>10. QED BY <1>9 DEF IInv, NoDuplicates

(* Put refuses a descriptor of a block that is out for its size only.      *)
LEMMA LiveBlockPassesPut ==
  ASSUME IInv, StrideAligned, NEW h \in Holders, desc[h].pvAddr # NULL
  PROVE  /\ desc[h].zSize # 0 => PutCheck(desc[h]) = "SUCCESS"
         /\ ~Overflow(desc[h].pvAddr)
<1> DEFINE a == desc[h].pvAddr
<1> USE DEF IInv
<1>1. a \in live /\ a \notin FreeStack /\ a \in Below(zUsed)
  BY DEF NoBlockLost
<1>2. PICK i \in 0..(zUsed - 1) : a = BlockAddr(i)
  BY <1>1 DEF Below
<1>3. zUsed # 0 /\ i \in Nat /\ i < zLength
  BY <1>2, BlockInitAssumption DEF TypeOK
<1>4. a % zAlignment = 0
  BY <1>2, <1>3, MultipleOfStride, BlockInitAssumption DEF StrideAligned, BlockAddr
<1>5. a >= 0 /\ a < zTypeSize * zLength
  <2>1. BlockAddr(zLength) = zTypeSize * zLength
    BY BlockInitAssumption DEF BlockAddr
  <2>2. BlockAddr(i) < BlockAddr(zLength) /\ BlockAddr(i) \in Nat
    BY <1>3, BlockAddrFacts, BlockInitAssumption
  <2>3. QED BY <1>2, <2>1, <2>2
<1>6. ~(a < 0 \/ zTypeSize * zLength <= a \/ zUsed = 0)
  <2>1. a \in Int /\ zTypeSize * zLength \in Int
    BY <1>2, <1>3, BlockAddrFacts, BlockInitAssumption
  <2>2. QED BY <1>3, <1>5, <2>1
<1>7. zFreed < zLength
  BY <1>1, RoomOnStack
<1>8. desc[h].zSize # 0 => PutCheck(desc[h]) = "SUCCESS"
  BY <1>1, <1>4, <1>6 DEF PutCheck
<1>9. ~Overflow(a)
  BY <1>7, BlockInitAssumption DEF Overflow, TypeOK
<1>10. QED BY <1>8, <1>9

(* With blocks of a C type, no check of Put ever stops a client returning  *)
(* a block it holds: the free stack cannot overflow.                       *)
THEOREM PutNeverRefusesBlock ==
  ASSUME StrideAligned
  PROVE  Spec => []PutAccepted
<1>1. IInv => PutAccepted
  BY LiveBlockPassesPut, BlockInitAssumption DEF PutAccepted, Resettable
<1>2. QED BY <1>1, Invariance, PTL

-----------------------------------------------------------------------------
(* The refinement: what the abstract allocator calls in use is live.       *)
LEMMA InUseIsLive ==
  ASSUME IInv
  PROVE  Alloc!InUse = live
  BY DEF IInv, NoBlockLost, Alloc!InUse

(* An initialised pool is an allocator with nothing handed out.            *)
LEMMA InitRefines == Init => Alloc!Init
  BY DEF Init, NoPointer, Call, Alloc!Init, Alloc!Call

(* Get may say that memory is out only when it is.                         *)
LEMMA GetCheckSound ==
  ASSUME IInv, NEW n \in 0..(zTypeSize + 1)
  PROVE  /\ GetCheck(n) = "SUCCESS" => n \in 1..zTypeSize /\ live # Blocks
         /\ GetCheck(n) # "SUCCESS" =>
              \/ n = 0 /\ GetCheck(n) = "INVALID_SIZE"
              \/ (n > zTypeSize \/ live = Blocks) /\ GetCheck(n) = "MEMALLOC"
<1> USE DEF IInv
<1>1. zUsed \in 0..zLength /\ zFreed \in 0..zLength
  BY DEF TypeOK
<1>2. ASSUME ~(zUsed < zLength \/ zFreed > 0) PROVE live = Blocks
  <2>1. zUsed = zLength /\ zFreed = 0
    BY <1>1, <1>2, BlockInitAssumption
  <2>2. FreeStack = {}
    BY <2>1 DEF FreeStack
  <2>3. QED BY <2>1, <2>2 DEF NoBlockLost, Blocks
<1>3. ASSUME GetCheck(n) = "SUCCESS" PROVE n \in 1..zTypeSize /\ live # Blocks
  <2>1. n \in 1..zTypeSize
    BY <1>3, BlockInitAssumption DEF GetCheck
  <2>2. live # Blocks
    BY <1>3, GetTakesFreeBlock
  <2>3. QED BY <2>1, <2>2
<1>4. ASSUME GetCheck(n) # "SUCCESS"
      PROVE  \/ n = 0 /\ GetCheck(n) = "INVALID_SIZE"
             \/ (n > zTypeSize \/ live = Blocks) /\ GetCheck(n) = "MEMALLOC"
  <2>1. ~(zUsed > zLength \/ zFreed > zLength)
    BY <1>1, BlockInitAssumption
  <2>2. QED BY <1>2, <1>4, <2>1 DEF GetCheck
<1>5. QED BY <1>3, <1>4

(* Every step of the pool is a step of the allocator or a stutter.         *)
LEMMA StepRefines ==
  ASSUME StrideAligned, IInv, [Next]_vars
  PROVE  [Alloc!Next]_(Alloc!vars)
<1> USE InUseIsLive DEF Call, Alloc!Call
<1>1. ASSUME NEW h \in Holders, NEW n \in 0..(zTypeSize + 1), GetBlock(h, n)
      PROVE  Alloc!Next
  <2> DEFINE a == Carved[Top]
  <2>1. GetCheck(n) = "SUCCESS" /\ desc[h].pvAddr = NULL
    BY <1>1 DEF GetBlock
  <2>2. a \in Blocks /\ a \notin live /\ n \in 1..zTypeSize
    BY <2>1, GetTakesFreeBlock, GetCheckSound
  <2>3. [g \in Holders |-> desc'[g].pvAddr] = [[g \in Holders |-> desc[g].pvAddr] EXCEPT ![h] = a]
    BY <1>1 DEF GetBlock, IInv, TypeOK
  <2>4. Alloc!Get(h, n)
    BY <1>1, <2>1, <2>2, <2>3 DEF GetBlock, Alloc!Get
  <2>5. QED BY <2>2, <2>4 DEF Alloc!Next
<1>2. ASSUME NEW n \in 0..(zTypeSize + 1), GetRollback(n) PROVE Alloc!Next
  <2>1. GetCheck(n) = "SUCCESS" /\ live # Blocks
    BY <1>2, GetCheckSound DEF GetRollback
  <2>2. Alloc!GetRefused(n)
    BY <1>2, <2>1 DEF GetRollback, Alloc!GetRefused
  <2>3. QED BY <2>2 DEF Alloc!Next
<1>3. ASSUME NEW n \in 0..(zTypeSize + 1), GetRefused(n) PROVE Alloc!Next
  <2>1. Alloc!GetRefused(n)
    BY <1>3, GetCheckSound DEF GetRefused, Alloc!GetRefused
  <2>2. QED BY <2>1 DEF Alloc!Next
<1>4. ASSUME NEW h \in Holders, NEW n \in 0..(zTypeSize + 1), Update(h, n) PROVE Alloc!Next
  <2>1. [g \in Holders |-> desc'[g].pvAddr] = [g \in Holders |-> desc[g].pvAddr]
    BY <1>4 DEF Update, IInv, TypeOK
  <2>2. Alloc!Update(n)
    BY <1>4, <2>1 DEF Update, Alloc!Update
  <2>3. QED BY <2>2 DEF Alloc!Next
<1>5. ASSUME NEW h \in Holders, PutBlock(h) PROVE Alloc!Next
  <2>1. PutCheck(desc[h]) = "SUCCESS" /\ desc[h].pvAddr # NULL
    BY <1>5 DEF PutBlock, PutCheck
  <2>2. ~Overflow(desc[h].pvAddr)
    BY <2>1, LiveBlockPassesPut
  <2>3. /\ desc' = [desc EXCEPT ![h] = NoPointer]
        /\ mem' = [mem EXCEPT ![desc[h].pvAddr] = Zero]
        /\ last' = Call("Put", 0, "SUCCESS")
    BY <1>5, <2>2 DEF PutBlock
  <2>4. [g \in Holders |-> desc'[g].pvAddr] = [[g \in Holders |-> desc[g].pvAddr] EXCEPT ![h] = NULL]
    BY <2>3 DEF NoPointer, IInv, TypeOK
  <2>5. Alloc!Put(h)
    BY <2>1, <2>3, <2>4 DEF Alloc!Put
  <2>6. QED BY <2>5 DEF Alloc!Next
<1>6. ASSUME NEW h \in Holders, PutRefused(h) \/ PutResetFails(h) PROVE Alloc!Next
  <2>1. PutCheck(desc[h]) # "SUCCESS" => PutCheck(desc[h]) = "NULLPTR"
    <3>1. CASE desc[h].pvAddr = NULL \/ desc[h].zSize = 0
      BY <3>1 DEF PutCheck
    <3>2. CASE desc[h].pvAddr # NULL /\ desc[h].zSize # 0
      BY <3>2, LiveBlockPassesPut
    <3>3. QED BY <3>1, <3>2
  <2>2. Alloc!PutRefused
    BY <1>6, <2>1 DEF PutRefused, PutResetFails, Alloc!PutRefused
  <2>3. QED BY <2>2 DEF Alloc!Next
<1>7. ASSUME NEW h \in Holders, Write(h) PROVE Alloc!Next
  <2>1. desc[h].pvAddr # NULL
    BY <1>7, BlockNotNull DEF Write
  <2>2. Alloc!Write(h)
    BY <1>7, <2>1 DEF Write, Alloc!Write
  <2>3. QED BY <2>2 DEF Alloc!Next
<1>8. CASE UNCHANGED vars
  BY <1>8 DEF vars, Alloc!vars
<1>9. QED
  BY <1>1, <1>2, <1>3, <1>4, <1>5, <1>6, <1>7, <1>8 DEF Next

(* Free list, high-water mark and rollback implement the allocator of      *)
(* AllocSpec: blocks are unshared and clean, and refused for cause only.   *)
THEOREM Refinement ==
  ASSUME StrideAligned
  PROVE  Spec => ImplementsAlloc
<1>1. IInv /\ [Next]_vars => [Alloc!Next]_(Alloc!vars)
  BY StepRefines
<1>2. QED BY <1>1, InitRefines, Invariance, PTL DEF Spec, ImplementsAlloc, Alloc!Spec
-----------------------------------------------------------------------------
(* Clients that keep copies of descriptors and make up addresses: only the *)
(* pool's own books are left to rely on.                                   *)
CarelessInv ==
  /\ ptMetadata \in [0..(zLength - 1) -> Int \cup {NULL}]
  /\ desc \in [Holders -> [pvAddr : Int \cup {NULL}, zSize : Nat]]
  /\ PoolIntact

(* A block yet to be carved lies within the pool's memory.                 *)
LEMMA CarvedInPool ==
  ASSUME NEW i \in 0..(zLength - 1)
  PROVE  BlockAddr(i) \in 0..(zTypeSize * zLength - 1)
<1>1. i \in Nat /\ i < zLength
  BY BlockInitAssumption
<1>2. BlockAddr(i) \in Nat /\ BlockAddr(i) < BlockAddr(zLength)
  BY <1>1, BlockAddrFacts, BlockInitAssumption
<1>3. BlockAddr(zLength) = zTypeSize * zLength /\ zTypeSize * zLength \in Nat
  BY BlockInitAssumption DEF BlockAddr
<1>4. QED BY <1>2, <1>3

(* A pool that starts empty is intact.                                     *)
LEMMA InitCareless == Init => CarelessInv
<1> SUFFICES ASSUME Init PROVE CarelessInv
  OBVIOUS
<1>1. FreeStack = {} /\ NoDuplicates
  BY DEF Init, FreeStack, NoDuplicates
<1>2. QED BY <1>1, BlockInitAssumption DEF Init, CarelessInv, PoolIntact, NoPointer

(* Get and its rollback take from an intact pool and leave one.            *)
LEMMA GetCareless ==
  ASSUME CarelessInv, NEW n, GetCheck(n) = "SUCCESS",
         zUsed' = (IF zFreed = 0 THEN zUsed + 1 ELSE zUsed),
         \/ zFreed' = Top /\ ptMetadata' = [Carved EXCEPT ![Top] = NULL]
         \/ zFreed' = Top + 1 /\ ptMetadata' = Carved
  PROVE  /\ ptMetadata' \in [0..(zLength - 1) -> Int \cup {NULL}]
         /\ PoolIntact'
         /\ Carved[Top] \in Int \cup {NULL}
<1> USE DEF CarelessInv, PoolIntact
<1>1. CASE zFreed = 0
  <2>1. zUsed < zLength /\ zUsed' = zUsed + 1 /\ Top = 0
    BY <1>1 DEF GetCheck, Top
  <2>2. /\ Carved = [ptMetadata EXCEPT ![0] = BlockAddr(zUsed)]
        /\ BlockAddr(zUsed) \in 0..(zTypeSize * zLength - 1)
    BY <1>1, <2>1, CarvedInPool, BlockInitAssumption DEF Carved
  <2>3. /\ Carved \in [0..(zLength - 1) -> Int \cup {NULL}]
        /\ Carved[0] = BlockAddr(zUsed)
    BY <2>2, BlockInitAssumption
  <2>4. ptMetadata' \in [0..(zLength - 1) -> Int \cup {NULL}] /\ Carved[Top] \in Int
    BY <2>1, <2>2, <2>3
  <2>5. zUsed' \in 0..zLength /\ zFreed' \in 0..1 /\ zFreed' \in 0..zLength
    BY <2>1, BlockInitAssumption
  <2>6. FreeStack' \subseteq {BlockAddr(zUsed)} /\ NoDuplicates'
    <3>1. CASE zFreed' = 0
      BY <3>1 DEF FreeStack, NoDuplicates
    <3>2. CASE zFreed' = 1
      BY <2>1, <2>3, <3>2 DEF FreeStack, NoDuplicates
    <3>3. QED BY <2>5, <3>1, <3>2
  <2>7. QED BY <2>2, <2>4, <2>5, <2>6
<1>2. CASE zFreed # 0
  <2>1. /\ Top = zFreed - 1 /\ Top \in 0..(zLength - 1)
        /\ Carved = ptMetadata
        /\ zUsed' = zUsed
    BY <1>2, BlockInitAssumption DEF Top, Carved
  <2>2. ptMetadata' \in [0..(zLength - 1) -> Int \cup {NULL}] /\ Carved[Top] \in Int \cup {NULL}
    BY <2>1
  <2>3. zFreed' \in {zFreed - 1, zFreed} /\ zFreed' \in 0..zLength
    BY <1>2, <2>1, BlockInitAssumption
  <2>4. \A i \in 0..(zFreed' - 1) : i \in 0..(zFreed - 1) /\ ptMetadata'[i] = ptMetadata[i]
    <3>1. CASE zFreed' = zFreed - 1 /\ ptMetadata' = [ptMetadata EXCEPT ![Top] = NULL]
      BY <1>2, <2>1, <3>1, BlockInitAssumption
    <3>2. CASE zFreed' = zFreed /\ ptMetadata' = ptMetadata
      BY <3>2
    <3>3. QED BY <2>1, <3>1, <3>2, BlockInitAssumption
  <2>5. FreeStack' \subseteq FreeStack /\ NoDuplicates'
    BY <2>4 DEF FreeStack, NoDuplicates
  <2>6. QED BY <2>1, <2>2, <2>3, <2>5
<1>3. QED BY <1>1, <1>2

(* Put of whatever descriptor leaves an intact pool: what it pushes passed *)
(* the bounds check and was not on the stack.                              *)
LEMMA PutCareless ==
  ASSUME CarelessInv, NEW h \in Holders, PutBlock(h)
  PROVE  CarelessInv'
<1> DEFINE a == desc[h].pvAddr
<1> USE DEF CarelessInv, PoolIntact
<1>1. PutCheck(desc[h]) = "SUCCESS"
  BY DEF PutBlock
<1>2. a # NULL /\ a \notin FreeStack /\ zUsed # 0 /\ a \in Int
  BY <1>1 DEF PutCheck
<1>3. a \in 0..(zTypeSize * zLength - 1)
  <2>1. ~(a < 0) /\ ~(zTypeSize * zLength <= a)
    BY <1>1 DEF PutCheck
  <2>2. zTypeSize * zLength \in Int
    BY BlockInitAssumption
  <2>3. QED BY <1>2, <2>1, <2>2
<1>4. CASE Overflow(a)
  <2>1. UNCHANGED <<zUsed, zFreed, ptMetadata, desc>>
    BY <1>4 DEF PutBlock, pool
  <2>2. QED BY <2>1 DEF FreeStack, NoDuplicates
<1>5. CASE ~Overflow(a)
  <2>1. desc' = [desc EXCEPT ![h] = NoPointer] /\ Retire(a)
    BY <1>5 DEF PutBlock
  <2>2. desc' \in [Holders -> [pvAddr : Int \cup {NULL}, zSize : Nat]]
    BY <2>1 DEF NoPointer
  <2>3. CASE a = BlockAddr(zUsed - 1)
    <3>1. zUsed' = zUsed - 1 /\ zFreed' = zFreed /\ ptMetadata' = ptMetadata
      BY <2>1, <2>3 DEF Retire
    <3>2. FreeStack' = FreeStack /\ NoDuplicates'
      BY <3>1 DEF FreeStack, NoDuplicates
    <3>3. zUsed' \in 0..zLength
      BY <1>2, <3>1, BlockInitAssumption
    <3>4. QED BY <2>2, <3>1, <3>2, <3>3
  <2>4. CASE a # BlockAddr(zUsed - 1)
    <3>1. /\ zFreed < zLength
          /\ zUsed' = zUsed
          /\ zFreed' = zFreed + 1
          /\ ptMetadata' = [ptMetadata EXCEPT ![zFreed] = a]
      BY <1>5, <2>1, <2>4, BlockInitAssumption DEF Retire, Overflow
    <3>2. ptMetadata' \in [0..(zLength - 1) -> Int \cup {NULL}]
      BY <1>2, <3>1
    <3>3. /\ ptMetadata'[zFreed] = a
          /\ \A i \in 0..(zFreed - 1) : ptMetadata'[i] = ptMetadata[i]
      BY <3>1, BlockInitAssumption
    <3>4. \A i \in 0..(zFreed - 1) : ptMetadata[i] # a
      BY <1>2 DEF FreeStack
    <3>5. 0..(zFreed' - 1) = 0..(zFreed - 1) \cup {zFreed} /\ zFreed \notin 0..(zFreed - 1)
      BY <3>1
    <3>6. NoDuplicates'
      BY <3>3, <3>4, <3>5 DEF NoDuplicates
    <3>7. FreeStack' = FreeStack \cup {a}
      <4>1. ASSUME NEW x \in FreeStack' PROVE x \in FreeStack \cup {a}
        <5>1. PICK i \in 0..(zFreed' - 1) : x = ptMetadata'[i]
          BY <4>1 DEF FreeStack
        <5>2. i \in 0..(zFreed - 1) => x = ptMetadata[i]
          BY <3>3, <5>1
        <5>3. i = zFreed => x = a
          BY <3>3, <5>1
        <5>4. QED BY <3>5, <5>1, <5>2, <5>3 DEF FreeStack
      <4>2. ASSUME NEW x \in FreeStack PROVE x \in FreeStack'
        <5>1. PICK i \in 0..(zFreed - 1) : x = ptMetadata[i]
          BY <4>2 DEF FreeStack
        <5>2. i \in 0..(zFreed' - 1) /\ x = ptMetadata'[i]
          BY <3>3, <3>5, <5>1
        <5>3. QED BY <5>2 DEF FreeStack
      <4>3. a \in FreeStack'
        <5>1. zFreed \in 0..(zFreed' - 1)
          BY <3>5
        <5>2. QED BY <3>3, <5>1 DEF FreeStack
      <4>4. QED BY <4>1, <4>2, <4>3
    <3>8. zFreed' \in 0..zLength
      BY <3>1, BlockInitAssumption
    <3>9. QED BY <1>3, <2>2, <3>1, <3>2, <3>6, <3>7, <3>8
  <2>5. QED BY <2>3, <2>4
<1>6. QED BY <1>4, <1>5

(* Every step of careless clients leaves an intact pool.                   *)
LEMMA NextCareless == CarelessInv /\ [CarelessNext]_vars => CarelessInv'
<1> SUFFICES ASSUME CarelessInv, [CarelessNext]_vars PROVE CarelessInv'
  OBVIOUS
<1>1. ASSUME NEW h \in Holders, NEW n \in 0..(zTypeSize + 1), GetBlock(h, n) PROVE CarelessInv'
  <2>1. /\ ptMetadata' \in [0..(zLength - 1) -> Int \cup {NULL}]
        /\ PoolIntact'
        /\ Carved[Top] \in Int \cup {NULL}
    BY <1>1, GetCareless DEF GetBlock
  <2>2. desc' = [desc EXCEPT ![h] = [pvAddr |-> Carved[Top], zSize |-> zTypeSize]]
    BY <1>1 DEF GetBlock
  <2>3. desc' \in [Holders -> [pvAddr : Int \cup {NULL}, zSize : Nat]]
    BY <2>1, <2>2, BlockInitAssumption DEF CarelessInv
  <2>4. QED BY <2>1, <2>3 DEF CarelessInv
<1>2. ASSUME NEW n \in 0..(zTypeSize + 1), GetRollback(n) PROVE CarelessInv'
  <2>1. ptMetadata' \in [0..(zLength - 1) -> Int \cup {NULL}] /\ PoolIntact'
    BY <1>2, GetCareless DEF GetRollback
  <2>2. QED BY <1>2, <2>1 DEF GetRollback, CarelessInv
<1>3. ASSUME NEW h \in Holders, PutBlock(h) PROVE CarelessInv'
  BY <1>3, PutCareless
<1>4. ASSUME UNCHANGED pool, desc' \in [Holders -> [pvAddr : Int \cup {NULL}, zSize : Nat]]
      PROVE  CarelessInv'
  BY <1>4 DEF pool, CarelessInv, PoolIntact, FreeStack, NoDuplicates
<1>5. ASSUME NEW h \in Holders, NEW n \in 0..(zTypeSize + 1), Update(h, n) PROVE CarelessInv'
  <2>1. desc' \in {desc, [desc EXCEPT ![h].zSize = n]} /\ UNCHANGED pool
    BY <1>5 DEF Update
  <2>2. n \in Nat
    BY BlockInitAssumption
  <2>3. desc' \in [Holders -> [pvAddr : Int \cup {NULL}, zSize : Nat]]
    BY <2>1, <2>2 DEF CarelessInv
  <2>4. QED BY <1>4, <2>1, <2>3
<1>6. ASSUME NEW h \in Holders, NEW g \in Holders, CopyDescriptor(h, g) PROVE CarelessInv'
  <2>1. desc' \in [Holders -> [pvAddr : Int \cup {NULL}, zSize : Nat]]
    BY <1>6 DEF CopyDescriptor, CarelessInv
  <2>2. QED BY <1>4, <1>6, <2>1 DEF CopyDescriptor
<1>7. ASSUME NEW h \in Holders, NEW a \in Foreign, PointElsewhere(h, a) PROVE CarelessInv'
  <2>1. desc' \in [Holders -> [pvAddr : Int \cup {NULL}, zSize : Nat]]
    BY <1>7, ValueAssumption, BlockInitAssumption DEF PointElsewhere, CarelessInv
  <2>2. QED BY <1>4, <1>7, <2>1 DEF PointElsewhere
<1>8. ASSUME UNCHANGED <<pool, desc>> PROVE CarelessInv'
  BY <1>4, <1>8 DEF CarelessInv
<1>9. ASSUME NEW h \in Holders, PutRefused(h) \/ PutResetFails(h) \/ Write(h) PROVE CarelessInv'
  BY <1>8, <1>9 DEF PutRefused, PutResetFails, Write
<1>10. ASSUME NEW n \in 0..(zTypeSize + 1), GetRefused(n) PROVE CarelessInv'
  BY <1>8, <1>10 DEF GetRefused
<1>11. CASE UNCHANGED vars
  BY <1>8, <1>11 DEF vars, pool
<1>12. QED
  BY <1>1, <1>2, <1>3, <1>5, <1>6, <1>7, <1>9, <1>10, <1>11 DEF CarelessNext, Next

(* Whatever clients do with descriptors (double frees through copies,      *)
(* foreign and misaligned addresses), zUsed and zFreed stay in bounds, the *)
(* free stack holds addresses of the pool's memory only, and none twice.   *)
THEOREM BooksIntact == CarelessSpec => []PoolIntact
<1>1. CarelessInv => PoolIntact
  BY DEF CarelessInv
<1>2. QED BY <1>1, InitCareless, NextCareless, PTL DEF CarelessSpec
=============================================================================
