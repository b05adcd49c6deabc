----------------------------- MODULE AllocSpec ------------------------------
(***************************************************************************)
(* What the allocator interface JUNO_MEMORY_ALLOC_API_T (memory_api.h)     *)
(* promises its clients, with no word of free lists or counters: a pool of *)
(* blocks, each held by at most one descriptor, handed out clean, and      *)
(* refused only for a reason the caller can see.                           *)
(***************************************************************************)
EXTENDS Integers

CONSTANTS
  Holders,    \* descriptor variables (JUNO_POINTER_T) of the clients
  Blocks,     \* the blocks of the pool
  MaxSize,    \* the size of a block
  NULL,       \* the null address
  Zero,       \* the content of a block after Reset
  Junk        \* the content of memory nobody has reset yet

VARIABLES
  held,       \* held[h]: the block descriptor h refers to, or NULL
  content,    \* content[b]: who wrote block b last, or Zero, or Junk
  last        \* the last call: its name, the size it asked for, its status

vars == <<held, content, last>>

Call(op, n, status) == [op |-> op, zSize |-> n, tStatus |-> status]

InUse == { held[h] : h \in Holders } \ {NULL}

Init ==
  /\ held = [h \in Holders |-> NULL]
  /\ content = [b \in Blocks |-> Junk]
  /\ last = Call("Init", 0, "SUCCESS")

(* A block nobody holds, clean.                                            *)
Get(h, n) ==
  /\ held[h] = NULL
  /\ n \in 1..MaxSize
  /\ \E b \in Blocks \ InUse :
       /\ held' = [held EXCEPT ![h] = b]
       /\ content' = [content EXCEPT ![b] = Zero]
  /\ last' = Call("Get", n, "SUCCESS")

(* "Out of memory" means the request is too big or every block is in use;  *)
(* ERR means the pointer API failed to reset the block.                    *)
GetRefused(n) ==
  /\ \/ n = 0 /\ last' = Call("Get", n, "INVALID_SIZE")
     \/ (n > MaxSize \/ InUse = Blocks) /\ last' = Call("Get", n, "MEMALLOC")
     \/ InUse # Blocks /\ last' = Call("Get", n, "ERR")
  /\ UNCHANGED <<held, content>>

Put(h) ==
  /\ held[h] # NULL
  /\ held' = [held EXCEPT ![h] = NULL]
  /\ content' = [content EXCEPT ![held[h]] = Zero]
  /\ last' = Call("Put", 0, "SUCCESS")

(* A Put is refused for the descriptor it is given or because the pointer  *)
(* API fails, never because the pool thinks the block is not in use.       *)
PutRefused ==
  /\ last' \in { Call("Put", 0, s) : s \in {"NULLPTR", "ERR"} }
  /\ UNCHANGED <<held, content>>

(* Update edits a descriptor; it never moves memory.                       *)
Update(n) ==
  /\ last' = Call("Update", n, IF n > MaxSize THEN "MEMALLOC" ELSE "SUCCESS")
  /\ UNCHANGED <<held, content>>

Write(h) ==
  /\ held[h] # NULL
  /\ content' = [content EXCEPT ![held[h]] = h]
  /\ UNCHANGED <<held, last>>

Next ==
  \/ \E h \in Holders, n \in 1..MaxSize : Get(h, n)
  \/ \E n \in 0..(MaxSize + 1) : GetRefused(n) \/ Update(n)
  \/ \E h \in Holders : Put(h) \/ Write(h)
  \/ PutRefused

Spec == Init /\ [][Next]_vars
=============================================================================
