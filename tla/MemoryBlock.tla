---------------------------- MODULE MemoryBlock -----------------------------
(***************************************************************************)
(* The block allocator of juno_memory_block.c and its clients.             *)
(*                                                                         *)
(* An address is an offset in bytes from pvMemory, whose alignment         *)
(* BlockInit checks.  The pool keeps a high-water mark zUsed and a stack   *)
(* of freed addresses in ptMetadata[0 .. zFreed-1]; which blocks are out   *)
(* is known to the clients only.  A client holds descriptors               *)
(* (JUNO_POINTER_T), writes through them, and calls Get, Update and Put.   *)
(***************************************************************************)
EXTENDS Integers

CONSTANTS
  Holders,     \* the clients' descriptor variables
  zTypeSize,   \* bytes per block
  zAlignment,  \* alignment of a block, in bytes
  zLength,     \* number of blocks of the pool
  Foreign,     \* addresses a confused client may pass to Put
  NULL, Zero, Junk

(* The parameters JunoMemory_BlockInit accepts.                            *)
ASSUME BlockInitAssumption ==
  /\ zTypeSize \in Nat \ {0}
  /\ zAlignment \in Nat \ {0}
  /\ zLength \in Nat \ {0}

ASSUME ValueAssumption ==
  /\ NULL \notin Int
  /\ Foreign \subseteq Int
  /\ Zero \notin Holders /\ Junk \notin Holders /\ Zero # Junk

VARIABLES
  zUsed,       \* blocks carved from the pool
  zFreed,      \* entries on the free stack
  ptMetadata,  \* the free stack, NULL above zFreed
  desc,        \* desc[h]: address and size of descriptor variable h
  mem,         \* mem[a]: who wrote the block at a last, or Zero, or Junk
  live,        \* history: addresses handed out and not yet put back
  last         \* history: the last call and its status

pool == <<zUsed, zFreed, ptMetadata>>
vars == <<zUsed, zFreed, ptMetadata, desc, mem, live, last>>

BlockAddr(i) == i * zTypeSize
Below(n) == { BlockAddr(i) : i \in 0..(n - 1) }      \* the first n blocks
Blocks == Below(zLength)
NoPointer == [pvAddr |-> NULL, zSize |-> 0]
Call(op, n, status) == [op |-> op, zSize |-> n, tStatus |-> status]

FreeStack == { ptMetadata[i] : i \in 0..(zFreed - 1) }

Init ==
  /\ zUsed = 0
  /\ zFreed = 0
  /\ ptMetadata = [i \in 0..(zLength - 1) |-> NULL]
  /\ desc = [h \in Holders |-> NoPointer]
  /\ mem = [a \in Blocks |-> Junk]
  /\ live = {}
  /\ last = Call("Init", 0, "SUCCESS")

(***************************************************************************)
(* Get                                                                     *)
(***************************************************************************)
(* Mutant: the test for a full pool is gone.                               *)
GetCheckNeverFull(n) ==
  IF n = 0 THEN "INVALID_SIZE" ELSE IF n > zTypeSize THEN "MEMALLOC" ELSE "SUCCESS"

(* Mutant: a pool whose blocks are all carved counts as full.              *)
GetCheckIgnoresFreed(n) ==
  IF n = 0 THEN "INVALID_SIZE"
  ELSE IF n > zTypeSize \/ zUsed >= zLength THEN "MEMALLOC" ELSE "SUCCESS"

GetCheck(n) ==
  IF n = 0 THEN "INVALID_SIZE"
  ELSE IF n > zTypeSize THEN "MEMALLOC"
  ELSE IF ~(zUsed < zLength \/ zFreed > 0) THEN "MEMALLOC"
  ELSE IF zUsed > zLength \/ zFreed > zLength THEN "ERR"
  ELSE "SUCCESS"

(* The free stack Get pops from: when it is empty, the next block of the   *)
(* pool is carved and pushed first.                                        *)
Carved == IF zFreed = 0 THEN [ptMetadata EXCEPT ![0] = BlockAddr(zUsed)] ELSE ptMetadata
Top    == IF zFreed = 0 THEN 0 ELSE zFreed - 1

(* Mutant: the block is handed out without a Reset.                        *)
GetBlockUnclean(h, n) ==
  /\ desc[h].pvAddr = NULL
  /\ GetCheck(n) = "SUCCESS"
  /\ zUsed' = IF zFreed = 0 THEN zUsed + 1 ELSE zUsed
  /\ zFreed' = Top
  /\ ptMetadata' = [Carved EXCEPT ![Top] = NULL]
  /\ desc' = [desc EXCEPT ![h] = [pvAddr |-> Carved[Top], zSize |-> zTypeSize]]
  /\ live' = live \cup {Carved[Top]}
  /\ last' = Call("Get", n, "SUCCESS")
  /\ UNCHANGED mem

GetBlock(h, n) ==
  /\ desc[h].pvAddr = NULL
  /\ GetCheck(n) = "SUCCESS"
  /\ zUsed' = IF zFreed = 0 THEN zUsed + 1 ELSE zUsed
  /\ zFreed' = Top
  /\ ptMetadata' = [Carved EXCEPT ![Top] = NULL]
  /\ desc' = [desc EXCEPT ![h] = [pvAddr |-> Carved[Top], zSize |-> zTypeSize]]
  /\ mem' = [mem EXCEPT ![Carved[Top]] = Zero]
  /\ live' = live \cup {Carved[Top]}
  /\ last' = Call("Get", n, "SUCCESS")

(* Mutant: the popped block is not pushed back.                            *)
GetRollbackForgets(n) ==
  /\ GetCheck(n) = "SUCCESS"
  /\ zUsed' = IF zFreed = 0 THEN zUsed + 1 ELSE zUsed
  /\ zFreed' = Top
  /\ ptMetadata' = [Carved EXCEPT ![Top] = NULL]
  /\ last' = Call("Get", n, "ERR")
  /\ UNCHANGED <<desc, mem, live>>

(* Reset fails: the block goes back on the stack, a carved one too.        *)
GetRollback(n) ==
  /\ GetCheck(n) = "SUCCESS"
  /\ zUsed' = IF zFreed = 0 THEN zUsed + 1 ELSE zUsed
  /\ zFreed' = Top + 1
  /\ ptMetadata' = Carved
  /\ last' = Call("Get", n, "ERR")
  /\ UNCHANGED <<desc, mem, live>>

GetRefused(n) ==
  /\ GetCheck(n) # "SUCCESS"
  /\ last' = Call("Get", n, GetCheck(n))
  /\ UNCHANGED <<pool, desc, mem, live>>

(***************************************************************************)
(* Update: only the size in the descriptor                                 *)
(***************************************************************************)
Update(h, n) ==
  /\ IF n > zTypeSize
       THEN UNCHANGED desc /\ last' = Call("Update", n, "MEMALLOC")
       ELSE /\ desc' = [desc EXCEPT ![h].zSize = n]
            /\ last' = Call("Update", n, "SUCCESS")
  /\ UNCHANGED <<pool, mem, live>>

(***************************************************************************)
(* Put                                                                     *)
(***************************************************************************)
(* Mutant: the upper bound of the pool is one block too low.               *)
PutCheckShortPool(d) ==
  IF d.pvAddr = NULL \/ d.zSize = 0 THEN "NULLPTR"
  ELSE IF d.pvAddr % zAlignment # 0 \/ d.pvAddr \notin 0..(zTypeSize * (zLength - 1) - 1)
            \/ zUsed = 0 \/ d.pvAddr \in FreeStack THEN "MEMFREE"
  ELSE "SUCCESS"

PutCheck(d) ==
  IF d.pvAddr = NULL \/ d.zSize = 0 THEN "NULLPTR"
  ELSE IF d.pvAddr % zAlignment # 0 THEN "MEMFREE"
  ELSE IF d.pvAddr < 0 \/ zTypeSize * zLength <= d.pvAddr \/ zUsed = 0 THEN "MEMFREE"
  ELSE IF d.pvAddr \in FreeStack THEN "MEMFREE"
  ELSE "SUCCESS"

(* The typed pointer API resets a descriptor of exactly the type's size.   *)
Resettable(d) == d.zSize = zTypeSize

(* Mutant: every block goes back by lowering zUsed.                        *)
RetireLowersAlways(a) == zUsed' = zUsed - 1 /\ UNCHANGED <<zFreed, ptMetadata>>

(* The last carved block goes back by lowering zUsed, any other one is     *)
(* pushed on the free stack.                                               *)
Retire(a) ==
  IF a = BlockAddr(zUsed - 1)
    THEN zUsed' = zUsed - 1 /\ UNCHANGED <<zFreed, ptMetadata>>
    ELSE /\ ptMetadata' = [ptMetadata EXCEPT ![zFreed] = a]
         /\ zFreed' = zFreed + 1
         /\ UNCHANGED zUsed

Overflow(a) == a # BlockAddr(zUsed - 1) /\ zFreed >= zLength

PutBlock(h) ==
  LET a == desc[h].pvAddr IN
  /\ PutCheck(desc[h]) = "SUCCESS"
  /\ Resettable(desc[h])
  /\ mem' = [mem EXCEPT ![a] = Zero]
  /\ IF Overflow(a)
       THEN UNCHANGED <<pool, desc, live>> /\ last' = Call("Put", 0, "MEMFREE")
       ELSE /\ Retire(a)
            /\ desc' = [desc EXCEPT ![h] = NoPointer]
            /\ live' = live \ {a}
            /\ last' = Call("Put", 0, "SUCCESS")

(* The descriptor is given back to the caller as it was.                   *)
PutRefused(h) ==
  /\ last' = Call("Put", 0, PutCheck(desc[h]))
  /\ PutCheck(desc[h]) # "SUCCESS"
  /\ UNCHANGED <<pool, desc, mem, live>>

PutResetFails(h) ==
  /\ PutCheck(desc[h]) = "SUCCESS"
  /\ last' = Call("Put", 0, "ERR")
  /\ UNCHANGED <<pool, desc, mem, live>>

(***************************************************************************)
(* The clients                                                             *)
(***************************************************************************)
Write(h) ==
  /\ desc[h].pvAddr \in Blocks
  /\ mem' = [mem EXCEPT ![desc[h].pvAddr] = h]
  /\ UNCHANGED <<pool, desc, live, last>>

(* JUNO_POINTER_T is passed and assigned by value: a client may keep a     *)
(* second copy of a descriptor, or fill one with an address of its own.    *)
CopyDescriptor(h, g) ==
  /\ desc[h].pvAddr # NULL
  /\ desc[g].pvAddr = NULL
  /\ desc' = [desc EXCEPT ![g] = desc[h]]
  /\ UNCHANGED <<pool, mem, live, last>>

PointElsewhere(h, a) ==
  /\ desc[h].pvAddr = NULL
  /\ desc' = [desc EXCEPT ![h] = [pvAddr |-> a, zSize |-> zTypeSize]]
  /\ UNCHANGED <<pool, mem, live, last>>

Next ==
  \/ \E n \in 0..(zTypeSize + 1) :
       \/ \E h \in Holders : GetBlock(h, n) \/ Update(h, n)
       \/ GetRollback(n)
       \/ GetRefused(n)
  \/ \E h \in Holders : PutBlock(h) \/ PutRefused(h) \/ PutResetFails(h) \/ Write(h)

(* Clients that use every descriptor the allocator's way.                  *)
Spec == Init /\ [][Next]_vars

CarelessNext ==
  \/ Next
  \/ \E h, g \in Holders : CopyDescriptor(h, g)
  \/ \E h \in Holders, a \in Foreign : PointElsewhere(h, a)

(* Clients that also keep copies and pass foreign addresses.               *)
CarelessSpec == Init /\ [][CarelessNext]_vars

-----------------------------------------------------------------------------
(* Types of the pool's fields and of the clients' descriptors.             *)
TypeOK ==
  /\ zUsed \in 0..zLength
  /\ zFreed \in 0..zLength
  /\ ptMetadata \in [0..(zLength - 1) -> Blocks \cup {NULL}]
  /\ desc \in [Holders -> [pvAddr : Blocks \cup {NULL}, zSize : 0..zTypeSize]]
  /\ mem \in [Blocks -> Holders \cup {Zero, Junk}]
  /\ live \subseteq Blocks

(* No two descriptors ever refer to the same block, whatever the order in  *)
(* which blocks are carved, freed, rolled back and reused: Get hands out   *)
(* no block that is still out (memory_block.h, "Get").                     *)
ExclusiveOwnership ==
  \A h, g \in Holders :
    desc[h].pvAddr # NULL /\ desc[h].pvAddr = desc[g].pvAddr => h = g

(* The pool forgets no block: each block below the high-water mark is      *)
(* either with a client or on the free stack, and never both.  The two     *)
(* ways Put has of taking a block back (lowering zUsed, pushing) and the   *)
(* rollback of Get must agree on this.                                     *)
NoBlockLost ==
  /\ live = { desc[h].pvAddr : h \in Holders } \ {NULL}
  /\ live \cup FreeStack = Below(zUsed)
  /\ live \cap FreeStack = {}

(* A client reads back what it wrote, or zeros: never what another client  *)
(* wrote into the block, before or after it was handed out.                *)
Isolation ==
  \A h \in Holders : desc[h].pvAddr # NULL => mem[desc[h].pvAddr] \in {Zero, h}

(* What C gives every type: its size is a multiple of its alignment.       *)
StrideAligned == zTypeSize % zAlignment = 0

(* A block that is out can always be put back through its descriptor, if   *)
(* the descriptor still has the block's size: no check of Put, the scan of *)
(* the free stack and its overflow test included, ever stops it.           *)
PutAccepted ==
  \A h \in Holders :
    desc[h].pvAddr # NULL /\ Resettable(desc[h]) =>
      PutCheck(desc[h]) = "SUCCESS" /\ ~Overflow(desc[h].pvAddr)

(* The pool is an allocator: AllocSpec, with the addresses of descriptors. *)
Alloc == INSTANCE AllocSpec WITH
           held <- [h \in Holders |-> desc[h].pvAddr],
           content <- mem,
           MaxSize <- zTypeSize

(* Every step of pool and clients is a step of the abstract allocator: in  *)
(* particular MEMALLOC for a legal size is answered only when every block  *)
(* is out, and no block that is out is refused by Put as MEMFREE.          *)
ImplementsAlloc == Alloc!Spec

NoDuplicates ==
  \A i, j \in 0..(zFreed - 1) : ptMetadata[i] = ptMetadata[j] => i = j

(* Even with double frees and foreign addresses the pool's own books stay  *)
(* in bounds, and no address is on the free stack twice.                   *)
PoolIntact ==
  /\ zUsed \in 0..zLength /\ zFreed \in 0..zLength
  /\ FreeStack \subseteq 0..(zTypeSize * zLength - 1)
  /\ NoDuplicates

(* "Double frees are rejected" (memory_block.h:40-41): Put takes back no   *)
(* address that is not out.                                                *)
DoubleFreeRejected ==
  [][\A h \in Holders :
       desc[h].pvAddr # NULL /\ desc'[h].pvAddr = NULL => desc[h].pvAddr \in live]_vars
=============================================================================
