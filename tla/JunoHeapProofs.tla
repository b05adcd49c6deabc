--------------------------- MODULE JunoHeapProofs ---------------------------
(***************************************************************************)
(* Proofs about the binary heap, for every capacity and every set of       *)
(* priorities.  A loop that moves an element is a sequence of steps, so    *)
(* what it does is shown by an invariant that holds in the middle of it:   *)
(* every parent but one holds its children, and the children of that one   *)
(* are held by its parent.  That a swap loses nothing is a bijection of    *)
(* the positions of each priority.                                         *)
(***************************************************************************)
EXTENDS JunoHeap, FiniteSetTheorems, TLAPS

(* Every node but the root is the left or the right child of its parent.   *)
LEMMA ChildOfParent ==
  ASSUME NEW i \in Nat \ {0}
  PROVE  /\ Parent(i) \in 0..(i - 1)
         /\ i = 2 * Parent(i) + 1 \/ i = 2 * Parent(i) + 2
<1>1. i - 1 \in Nat OBVIOUS
<1>2. (i - 1) \div 2 \in Nat /\ i - 1 = 2 * ((i - 1) \div 2) + ((i - 1) % 2) /\ (i - 1) % 2 \in 0..1
  BY <1>1
<1>3. QED BY <1>2 DEF Parent

LEMMA ParentOfChild ==
  ASSUME NEW p \in Nat
  PROVE  Parent(2 * p + 1) = p /\ Parent(2 * p + 2) = p
<1>1. /\ 2 * p + 1 \in Nat \ {0} /\ 2 * p + 2 \in Nat \ {0}
      /\ Parent(2 * p + 1) \in Nat /\ Parent(2 * p + 2) \in Nat
  BY ChildOfParent
<1>2. QED BY <1>1, ChildOfParent

-----------------------------------------------------------------------------
(* Counting.                                                               *)

(* Arrays that agree below n hold the same there.                          *)
LEMMA CountAgrees ==
  ASSUME NEW g, NEW h, NEW n \in Nat, \A i \in 0..(n - 1) : g[i] = h[i]
  PROVE  /\ \A x : Count(g, n, x) = Count(h, n, x)
         /\ Contents(g, n) = Contents(h, n)
<1>1. \A x : Positions(g, n, x) = Positions(h, n, x)
  BY DEF Positions
<1>2. { g[i] : i \in 0..(n - 1) } = { h[i] : i \in 0..(n - 1) }
  OBVIOUS
<1>3. \A x : Count(g, n, x) = Count(h, n, x)
  BY <1>1 DEF Count
<1>4. QED BY <1>2, <1>3 DEF Contents

LEMMA CountIs ==
  ASSUME NEW h, NEW n \in Nat, NEW x
  PROVE  /\ IsFiniteSet(Positions(h, n, x))
         /\ Count(h, n, x) \in Nat
         /\ Count(h, n, x) = 0 <=> \A i \in 0..(n - 1) : h[i] # x
<1> DEFINE S == Positions(h, n, x)
<1>1. IsFiniteSet(0..(n - 1)) /\ S \in SUBSET (0..(n - 1))
  BY FS_Interval DEF Positions
<1>2. IsFiniteSet(S)
  BY <1>1, FS_Subset
<1>3. Cardinality(S) \in Nat /\ (Cardinality(S) = 0 <=> S = {})
  BY <1>2, FS_CardinalityType, FS_EmptySet
<1>4. QED BY <1>2, <1>3 DEF Count, Positions

LEMMA CountNone ==
  ASSUME NEW h, NEW x
  PROVE  Count(h, 0, x) = 0
<1>1. 0 \in Nat /\ \A i \in 0..(0 - 1) : FALSE
  OBVIOUS
<1>2. QED BY <1>1, CountIs

(* The element at n counts when there is one more.                         *)
LEMMA CountOneMore ==
  ASSUME NEW h, NEW n \in Nat, NEW x
  PROVE  Count(h, n + 1, x) = Count(h, n, x) + IF h[n] = x THEN 1 ELSE 0
<1> DEFINE S == Positions(h, n, x)
           T == Positions(h, n + 1, x)
<1>1. IsFiniteSet(S) /\ Cardinality(S) \in Nat
  BY CountIs DEF Count
<1>2. CASE h[n] = x
  <2>1. T = S \cup {n} /\ n \notin S
    BY <1>2 DEF Positions
  <2>2. Cardinality(T) = Cardinality(S) + 1
    BY <1>1, <2>1, FS_AddElement
  <2>3. QED BY <1>2, <2>2 DEF Count
<1>3. CASE h[n] # x
  <2>1. T = S
    BY <1>3 DEF Positions
  <2>2. QED BY <1>1, <1>3, <2>1 DEF Count
<1>4. QED BY <1>2, <1>3

(* Swapping two elements leaves the bag as it is.                          *)
LEMMA SwapCounts ==
  ASSUME NEW n \in Nat, NEW h, Slots = DOMAIN h, 0..(n - 1) \subseteq Slots,
         h = [i \in Slots |-> h[i]],
         NEW a \in 0..(n - 1), NEW b \in 0..(n - 1)
  PROVE  /\ \A x : Count(Swapped(h, a, b), n, x) = Count(h, n, x)
         /\ Contents(Swapped(h, a, b), n) = Contents(h, n)
<1> DEFINE g == Swapped(h, a, b)
           other(i) == IF i = a THEN b ELSE IF i = b THEN a ELSE i
<1>1. \A i \in 0..(n - 1) : other(i) \in 0..(n - 1) /\ g[i] = h[other(i)] /\ other(other(i)) = i
  BY DEF Swapped
<1>2. ASSUME NEW x PROVE Count(g, n, x) = Count(h, n, x)
  <2> DEFINE S == Positions(h, n, x)
             T == Positions(g, n, x)
             f == [i \in S |-> other(i)]
  <2>1. \A i \in S : other(i) \in T /\ other(other(i)) = i
    BY <1>1 DEF Positions
  <2>2. \A i \in T : other(i) \in S /\ other(other(i)) = i
    BY <1>1 DEF Positions
  <2> HIDE DEF other, S, T, g
  <2>3. f \in [S -> T] /\ (\A i, j \in S : f[i] = f[j] => i = j) /\ \A t \in T : \E s \in S : f[s] = t
    BY <2>1, <2>2
  <2>4. f \in Bijection(S, T)
    BY <2>3 DEF Bijection, Injection, IsInjective, Surjection
  <2>5. ExistsBijection(S, T)
    BY <2>4 DEF ExistsBijection
  <2>6. IsFiniteSet(S)
    BY CountIs DEF S
  <2>7. Cardinality(T) = Cardinality(S)
    BY <2>5, <2>6, FS_Bijection
  <2>8. QED BY <2>7 DEF Count, S, T
<1>3. { g[i] : i \in 0..(n - 1) } = { h[i] : i \in 0..(n - 1) }
  <2>1. \A i \in 0..(n - 1) : \E j \in 0..(n - 1) : g[i] = h[j]
    BY <1>1
  <2>2. \A i \in 0..(n - 1) : \E j \in 0..(n - 1) : h[i] = g[j]
    BY <1>1
  <2> HIDE DEF g
  <2>3. \A v : (\E i \in 0..(n - 1) : g[i] = v) <=> (\E i \in 0..(n - 1) : h[i] = v)
    BY <2>1, <2>2
  <2>4. \A v : v \in { g[i] : i \in 0..(n - 1) } <=> v \in { h[i] : i \in 0..(n - 1) }
    BY <2>3
  <2>5. QED BY <2>4
<1>4. Contents(g, n) = Contents(h, n)
  <2> HIDE DEF g
  <2>1. QED BY <1>2, <1>3 DEF Contents
<1>5. QED BY <1>2, <1>4

-----------------------------------------------------------------------------
(* Bags, by the number of copies of each element.                          *)
Copies(bag, x) == IF x \in DOMAIN bag THEN bag[x] ELSE 0

LEMMA ContentsBag ==
  ASSUME NEW h, NEW n \in Nat
  PROVE  /\ IsABag(Contents(h, n))
         /\ \A x : Copies(Contents(h, n), x) = Count(h, n, x)
<1> DEFINE D == { h[i] : i \in 0..(n - 1) }
<1>1. DOMAIN Contents(h, n) = D /\ \A x \in D : Contents(h, n)[x] = Count(h, n, x)
  BY DEF Contents
<1>2. \A x : x \in D <=> \E i \in 0..(n - 1) : h[i] = x
  OBVIOUS
<1>3. \A x : Count(h, n, x) \in Nat /\ (Count(h, n, x) = 0 <=> x \notin D)
  BY <1>2, CountIs
<1> HIDE DEF D
<1>4. \A x : Copies(Contents(h, n), x) = Count(h, n, x)
  BY <1>1, <1>3 DEF Copies
<1>5. Contents(h, n) = [x \in D |-> Count(h, n, x)]
  BY DEF Contents, D
<1>6. Contents(h, n) \in [D -> {k \in Nat : k > 0}]
  BY <1>3, <1>5
<1>7. QED BY <1>1, <1>4, <1>6 DEF IsABag

LEMMA CopiesBag ==
  ASSUME NEW bag, IsABag(bag), NEW x
  PROVE  Copies(bag, x) \in Nat /\ (x \in DOMAIN bag <=> Copies(bag, x) > 0)
BY DEF IsABag, Copies

LEMMA SubBagByCopies ==
  ASSUME NEW b1, IsABag(b1), NEW b2, IsABag(b2)
  PROVE  b1 \sqsubseteq b2 <=> \A x : Copies(b1, x) <= Copies(b2, x)
<1>1. \A x : /\ Copies(b1, x) \in Nat /\ (x \in DOMAIN b1 <=> Copies(b1, x) > 0)
             /\ Copies(b2, x) \in Nat /\ (x \in DOMAIN b2 <=> Copies(b2, x) > 0)
  BY CopiesBag
<1>2. ASSUME b1 \sqsubseteq b2, NEW x PROVE Copies(b1, x) <= Copies(b2, x)
  BY <1>1, <1>2 DEF \sqsubseteq, Copies
<1>3. ASSUME \A x : Copies(b1, x) <= Copies(b2, x) PROVE b1 \sqsubseteq b2
  <2>1. ASSUME NEW x \in DOMAIN b1 PROVE x \in DOMAIN b2 /\ b1[x] <= b2[x]
    <3>1. Copies(b1, x) = b1[x] /\ Copies(b1, x) > 0 /\ Copies(b1, x) <= Copies(b2, x)
      BY <1>1, <1>3, <2>1 DEF Copies
    <3>2. Copies(b2, x) > 0
      BY <1>1, <3>1
    <3>3. x \in DOMAIN b2
      BY <1>1, <3>2
    <3>4. QED BY <3>1, <3>3 DEF Copies
  <2>2. QED BY <2>1 DEF \sqsubseteq
<1>4. QED BY <1>2, <1>3

LEMMA SameBagByCopies ==
  ASSUME NEW b1, IsABag(b1), NEW b2, IsABag(b2), \A x : Copies(b1, x) = Copies(b2, x)
  PROVE  b1 = b2
<1>1. DOMAIN b1 = DOMAIN b2
  BY CopiesBag
<1>2. \A x \in DOMAIN b1 : b1[x] = b2[x]
  BY <1>1 DEF Copies
<1>3. b1 = [x \in DOMAIN b1 |-> b1[x]] /\ b2 = [x \in DOMAIN b2 |-> b2[x]]
  BY DEF IsABag
<1>4. QED BY <1>1, <1>2, <1>3

LEMMA BagAddOne ==
  ASSUME NEW bag, IsABag(bag), NEW e
  PROVE  /\ IsABag(bag (+) SetToBag({e}))
         /\ \A x : Copies(bag (+) SetToBag({e}), x) = Copies(bag, x) + IF e = x THEN 1 ELSE 0
<1> DEFINE more == bag (+) SetToBag({e})
<1>1. more = [x \in DOMAIN bag \cup {e} |-> Copies(bag, x) + IF e = x THEN 1 ELSE 0]
  BY DEF (+), SetToBag, Copies
<1>2. \A x : Copies(bag, x) \in Nat /\ (x \in DOMAIN bag <=> Copies(bag, x) > 0)
  BY CopiesBag
<1> HIDE DEF more
<1>3. more \in [DOMAIN bag \cup {e} -> {n \in Nat : n > 0}]
  BY <1>1, <1>2
<1>4. \A x : Copies(more, x) = Copies(bag, x) + IF e = x THEN 1 ELSE 0
  BY <1>1, <1>2 DEF Copies
<1>5. QED BY <1>3, <1>4 DEF IsABag, more

LEMMA BagTakeOne ==
  ASSUME NEW bag, IsABag(bag), NEW e
  PROVE  /\ IsABag(bag (-) SetToBag({e}))
         /\ \A x : Copies(bag (-) SetToBag({e}), x)
                   = IF e = x /\ Copies(bag, x) > 0 THEN Copies(bag, x) - 1 ELSE Copies(bag, x)
<1> DEFINE fewer == bag (-) SetToBag({e})
           left == [x \in DOMAIN bag |-> IF x = e THEN bag[x] - 1 ELSE bag[x]]
           D == {x \in DOMAIN bag : left[x] > 0}
<1>1. fewer = [x \in D |-> left[x]]
  BY DEF (-), SetToBag
<1>2. \A x \in DOMAIN bag : bag[x] \in Nat /\ bag[x] > 0 /\ left[x] \in Nat
  BY DEF IsABag
<1>3. fewer \in [D -> {n \in Nat : n > 0}]
  BY <1>1, <1>2
<1>4. \A x : Copies(fewer, x)
             = IF e = x /\ Copies(bag, x) > 0 THEN Copies(bag, x) - 1 ELSE Copies(bag, x)
  <2> TAKE x
  <2>1. x \in D <=> x \in DOMAIN bag /\ left[x] > 0
    OBVIOUS
  <2>2. Copies(fewer, x) = IF x \in D THEN left[x] ELSE 0
    BY <1>1 DEF Copies
  <2>3. x \in DOMAIN bag => left[x] = IF x = e THEN bag[x] - 1 ELSE bag[x]
    OBVIOUS
  <2> HIDE DEF fewer, left, D
  <2>4. QED BY <1>2, <2>1, <2>2, <2>3 DEF Copies
<1>5. QED BY <1>3, <1>4 DEF IsABag

-----------------------------------------------------------------------------
(* Below the first n elements of an array: node p holds its children, and  *)
(* node q holds the children of p.                                         *)
HoldsChildren(h, n, q, p) == \A j \in 1..(n - 1) : Parent(j) = p => Holds(h, q, j)

HeapTypeOK ==
  /\ zLength \in 0..zCapacity
  /\ heap \in [Slots -> Priorities \cup {Cleared}]
  /\ tReturn \in Priorities \cup {Cleared}
  /\ IsABag(due) /\ DOMAIN due \subseteq Priorities
  /\ failed \in BOOLEAN

(* A loop is within the elements; one that sifts down is below the node it *)
(* began at.                                                               *)
SiftOK ==
  /\ sift \in [call : {"None", "Insert", "Pop", "Heapify"}, at : Nat, start : Nat]
  /\ sift.call = "None" => sift = Idle
  /\ sift.call # "None" => sift.at < zLength
  /\ sift.call \in {"Pop", "Heapify"} /\ sift.at # sift.start =>
       sift.at > 0 /\ Parent(sift.at) >= sift.start
  /\ sift.call = "Pop" => sift.start = 0

(* The element on its way up may be greater than its parent; all others    *)
(* are held, its own children by its parent too.                           *)
Rising ==
  /\ \A j \in 1..(zLength - 1) : j # sift.at => Holds(heap, Parent(j), j)
  /\ sift.at > 0 => HoldsChildren(heap, zLength, Parent(sift.at), sift.at)

(* From the node where the loop began, the children of the element on its  *)
(* way down may be greater than it; all others are held, and those         *)
(* children by its parent.                                                 *)
Sinking ==
  /\ \A p \in Nat : p >= sift.start /\ p # sift.at => HoldsChildren(heap, zLength, p, p)
  /\ sift.at # sift.start => HoldsChildren(heap, zLength, Parent(sift.at), sift.at)

OrderInv ==
  /\ zLength = 0 => ~failed
  /\ ~failed => CASE sift.call = "None"   -> \A p \in Nat : HoldsChildren(heap, zLength, p, p)
                  [] sift.call = "Insert" -> Rising
                  [] OTHER                -> Sinking

HeapInv == HeapTypeOK /\ SiftOK /\ OrderInv /\ NothingLost

LEMMA LostByCopies ==
  ASSUME NEW bag, IsABag(bag), NEW h, NEW n \in Nat
  PROVE  /\ bag \sqsubseteq Contents(h, n) <=> \A x : Copies(bag, x) <= Count(h, n, x)
         /\ bag = Contents(h, n) <=> \A x : Copies(bag, x) = Count(h, n, x)
BY ContentsBag, SubBagByCopies, SameBagByCopies

-----------------------------------------------------------------------------
(* One round of a loop, on arrays of natural numbers.                      *)

(* An element that is greater than its parent changes places with it.      *)
LEMMA RiseStep ==
  ASSUME NEW n \in 0..zCapacity, NEW h \in [Slots -> Nat], NEW at \in 1..(n - 1),
         NEW p, p = Parent(at), ~Holds(h, p, at),
         \A j \in 1..(n - 1) : j # at => Holds(h, Parent(j), j),
         HoldsChildren(h, n, p, at),
         NEW g, g = Swapped(h, at, p)
  PROVE  /\ \A j \in 1..(n - 1) : j # p => Holds(g, Parent(j), j)
         /\ p > 0 => HoldsChildren(g, n, Parent(p), p)
<1>1. /\ zCapacity \in Nat /\ n \in Nat /\ at \in Nat \ {0} /\ at \in Slots
      /\ p \in 0..(at - 1) /\ p \in Slots
      /\ \A j \in 1..(n - 1) : j \in Slots /\ Parent(j) \in 0..(j - 1) /\ Parent(j) \in Slots
  BY HeapAssumption, ChildOfParent DEF Slots
<1>2. /\ g[at] = h[p] /\ g[p] = h[at] /\ h[p] < h[at]
      /\ \A j \in Slots : j # at /\ j # p => g[j] = h[j]
      /\ \A j \in Slots : h[j] \in Nat
  BY <1>1 DEF Swapped, Holds
<1>3. /\ \A j \in 1..(n - 1) : j # at => h[Parent(j)] >= h[j]
      /\ \A j \in 1..(n - 1) : Parent(j) = at => h[p] >= h[j]
  BY DEF Holds, HoldsChildren
<1>4. ASSUME NEW j \in 1..(n - 1), j # p PROVE g[Parent(j)] >= g[j]
  <2>1. CASE j = at
    BY <1>1, <1>2, <2>1
  <2>2. CASE j # at /\ Parent(j) = at
    BY <1>1, <1>2, <1>3, <1>4, <2>2
  <2>3. CASE j # at /\ Parent(j) = p
    BY <1>1, <1>2, <1>3, <1>4, <2>3
  <2>4. CASE j # at /\ Parent(j) # at /\ Parent(j) # p
    BY <1>1, <1>2, <1>3, <1>4, <2>4
  <2>5. QED BY <2>1, <2>2, <2>3, <2>4
<1>5. ASSUME p > 0, NEW j \in 1..(n - 1), Parent(j) = p PROVE g[Parent(p)] >= g[j]
  <2>1. /\ p \in 1..(n - 1) /\ Parent(p) # p /\ Parent(p) # at /\ Parent(p) \in Slots
        /\ g[Parent(p)] = h[Parent(p)] /\ h[Parent(p)] >= h[p] /\ j # p
    BY <1>1, <1>2, <1>3, <1>5
  <2>2. CASE j = at
    BY <1>1, <1>2, <2>1, <2>2
  <2>3. CASE j # at
    BY <1>1, <1>2, <1>3, <1>5, <2>1, <2>3
  <2>4. QED BY <2>2, <2>3
<1>6. QED BY <1>4, <1>5 DEF Holds, HoldsChildren

(* A parent that holds the element holds what is below the element.        *)
LEMMA RisePast ==
  ASSUME NEW n \in 0..zCapacity, NEW h \in [Slots -> Nat], NEW at \in 1..(n - 1),
         NEW p, p = Parent(at), Holds(h, p, at),
         \A j \in 1..(n - 1) : j # at => Holds(h, Parent(j), j)
  PROVE  /\ \A j \in 1..(n - 1) : Holds(h, Parent(j), j)
         /\ p > 0 => HoldsChildren(h, n, Parent(p), p)
<1>1. /\ zCapacity \in Nat /\ n \in Nat /\ at \in Nat \ {0} /\ p \in 0..(at - 1)
      /\ \A j \in 1..(n - 1) : j \in Slots /\ Parent(j) \in 0..(j - 1) /\ Parent(j) \in Slots
  BY HeapAssumption, ChildOfParent DEF Slots
<1>2. \A j \in 1..(n - 1) : h[Parent(j)] >= h[j] /\ h[Parent(j)] \in Nat /\ h[j] \in Nat
  BY <1>1 DEF Holds
<1>3. ASSUME p > 0, NEW j \in 1..(n - 1), Parent(j) = p PROVE h[Parent(p)] >= h[j]
  <2>1. p \in 1..(n - 1)
    BY <1>1, <1>3
  <2>2. h[Parent(p)] >= h[p] /\ h[p] >= h[j] /\ h[Parent(p)] \in Nat /\ h[p] \in Nat /\ h[j] \in Nat
    BY <1>2, <1>3, <2>1
  <2>3. QED BY <2>2
<1>4. QED BY <1>2, <1>3 DEF Holds, HoldsChildren

(* An element changes places with the child that holds all it is to hold.  *)
LEMMA SinkStep ==
  ASSUME NEW n \in 0..zCapacity, NEW h \in [Slots -> Nat], NEW start \in Nat,
         NEW at \in start..(n - 1), NEW b \in 1..(n - 1),
         Parent(b) = at, ~Holds(h, at, b), HoldsChildren(h, n, b, at),
         \A p \in Nat : p >= start /\ p # at => HoldsChildren(h, n, p, p),
         at # start => Parent(at) >= start /\ HoldsChildren(h, n, Parent(at), at),
         NEW g, g = Swapped(h, at, b)
  PROVE  /\ \A p \in Nat : p >= start /\ p # b => HoldsChildren(g, n, p, p)
         /\ HoldsChildren(g, n, at, b)
<1>1. /\ zCapacity \in Nat /\ n \in Nat /\ at \in Slots /\ b \in Slots /\ b \in Nat \ {0} /\ at < b
      /\ at \in Nat /\ at >= start
      /\ \A j \in 1..(n - 1) : j \in Slots /\ j \in Nat /\ Parent(j) \in 0..(j - 1) /\ Parent(j) \in Slots
  <2>1. zCapacity \in Nat /\ n \in Nat /\ n <= zCapacity
    BY HeapAssumption
  <2>2. \A j \in 1..(n - 1) : j \in Nat \ {0} /\ Parent(j) \in 0..(j - 1)
    BY <2>1, ChildOfParent
  <2>3. \A j \in 1..(n - 1) : j \in Slots /\ Parent(j) \in Slots
    BY <2>1, <2>2 DEF Slots
  <2>4. b \in Nat \ {0} /\ at < b
    BY <2>1, <2>2
  <2>5. at \in Nat /\ at >= start /\ at \in Slots /\ b \in Slots
    BY <2>1, <2>2, <2>3
  <2>6. QED BY <2>1, <2>2, <2>3, <2>4, <2>5
<1>2. /\ g[at] = h[b] /\ g[b] = h[at] /\ h[at] < h[b]
      /\ \A j \in Slots : j # at /\ j # b => g[j] = h[j]
      /\ \A j \in Slots : h[j] \in Nat
  BY <1>1 DEF Swapped, Holds
<1>3. /\ \A j \in 1..(n - 1) : Parent(j) >= start /\ Parent(j) # at => h[Parent(j)] >= h[j]
      /\ \A j \in 1..(n - 1) : Parent(j) = at => h[b] >= h[j]
      /\ at # start => \A j \in 1..(n - 1) : Parent(j) = at => h[Parent(at)] >= h[j]
  BY <1>1 DEF Holds, HoldsChildren
<1>4. ASSUME NEW p \in Nat, p >= start, p # b, NEW j \in 1..(n - 1), Parent(j) = p PROVE g[p] >= g[j]
  <2>1. CASE j = b
    BY <1>1, <1>2, <1>4, <2>1
  <2>2. CASE p = at /\ j # b
    BY <1>1, <1>2, <1>3, <1>4, <2>2
  <2>3. CASE j = at
    <3>1. at # start /\ p # at /\ p \in Slots
      BY <1>1, <1>4, <2>3
    <3>2. h[p] >= h[b]
      BY <1>3, <1>4, <2>3, <3>1
    <3>3. QED BY <1>2, <1>4, <2>3, <3>1, <3>2
  <2>4. CASE p # at /\ j # at /\ j # b
    BY <1>1, <1>2, <1>3, <1>4, <2>4
  <2>5. QED BY <2>1, <2>2, <2>3, <2>4
<1>5. ASSUME NEW j \in 1..(n - 1), Parent(j) = b PROVE g[at] >= g[j]
  <2>1. j # at /\ j # b /\ j \in Slots
    BY <1>1, <1>5
  <2>2. h[b] >= h[j]
    BY <1>1, <1>3, <1>5
  <2>3. QED BY <1>2, <2>1, <2>2
<1>6. QED BY <1>4, <1>5 DEF Holds, HoldsChildren

(* Best is the node itself when it holds its children, otherwise a child   *)
(* that is greater and holds them.                                         *)
LEMMA BestIs ==
  ASSUME zLength \in 0..zCapacity, heap \in [Slots -> Nat], NEW at \in 0..(zLength - 1),
         NEW b, b = Best(at)
  PROVE  \/ b = at /\ HoldsChildren(heap, zLength, at, at)
         \/ /\ b # at /\ b \in 1..(zLength - 1) /\ Parent(b) = at
            /\ ~Holds(heap, at, b) /\ HoldsChildren(heap, zLength, b, at)
<1>1. /\ zCapacity \in Nat /\ zLength \in Nat /\ at \in Nat /\ at \in Slots
      /\ 2 * at + 1 < zLength => 2 * at + 1 \in Slots
      /\ 2 * at + 2 < zLength => 2 * at + 2 \in Slots
      /\ \A j \in Slots : heap[j] \in Nat
  BY HeapAssumption DEF Slots
<1>2. \A j \in 1..(zLength - 1) : Parent(j) = at => j = 2 * at + 1 \/ j = 2 * at + 2
  BY <1>1, ChildOfParent
<1>3. Parent(2 * at + 1) = at /\ Parent(2 * at + 2) = at
  BY <1>1, ParentOfChild
<1> DEFINE left == IF 2 * at + 1 < zLength /\ ~(heap[at] >= heap[2 * at + 1]) THEN 2 * at + 1 ELSE at
<1>4. b = IF 2 * at + 2 < zLength /\ ~(heap[left] >= heap[2 * at + 2]) THEN 2 * at + 2 ELSE left
  BY DEF Best, Holds
<1>5. /\ left \in {at, 2 * at + 1} /\ left < zLength /\ left \in Slots
      /\ left # at => heap[left] > heap[at]
      /\ heap[left] >= heap[at]
      /\ 2 * at + 1 < zLength => heap[left] >= heap[2 * at + 1]
  BY <1>1
<1> HIDE DEF left
<1>6. /\ b \in {at, 2 * at + 1, 2 * at + 2} /\ b < zLength
      /\ b # at => heap[b] > heap[at]
      /\ 2 * at + 1 < zLength => heap[b] >= heap[2 * at + 1]
      /\ 2 * at + 2 < zLength => heap[b] >= heap[2 * at + 2]
  BY <1>1, <1>4, <1>5
<1>7. HoldsChildren(heap, zLength, b, at)
  BY <1>1, <1>2, <1>6 DEF HoldsChildren, Holds
<1>8. CASE b = at
  BY <1>7, <1>8
<1>9. CASE b # at
  <2>1. b \in 1..(zLength - 1) /\ Parent(b) = at /\ ~(heap[at] >= heap[b])
    BY <1>1, <1>3, <1>6, <1>9
  <2>2. QED BY <1>7, <1>9, <2>1 DEF Holds
<1>10. QED BY <1>8, <1>9

-----------------------------------------------------------------------------
(* The invariant, action by action.                                        *)
LEMMA HeapConstants ==
  /\ zCapacity \in Nat \ {0} /\ Priorities \subseteq Nat /\ 0 \notin Priorities
  /\ \A f : f \in [Slots -> Priorities \cup {Cleared}] => f \in [Slots -> Nat]
<1>1. Priorities \cup {Cleared} \subseteq Nat
  BY HeapAssumption DEF Cleared
<1>2. QED BY <1>1, HeapAssumption

(* What HeapInv says of the counts.                                        *)
LEMMA LostInv ==
  ASSUME HeapTypeOK
  PROVE  NothingLost <=> /\ \A x : Copies(due, x) <= Count(heap, zLength, x)
                         /\ failed \/ \A x : Copies(due, x) = Count(heap, zLength, x)
<1>1. IsABag(due) /\ zLength \in Nat
  BY HeapConstants DEF HeapTypeOK
<1>2. QED BY <1>1, LostByCopies DEF NothingLost

LEMMA HeapInitially == HeapInit => HeapInv
<1> SUFFICES ASSUME HeapInit PROVE HeapInv
  OBVIOUS
<1> USE DEF HeapInit
<1>1. IsABag(due) /\ DOMAIN due = {} /\ \A x : Copies(due, x) = 0
  BY DEF EmptyBag, SetToBag, IsABag, Copies
<1>2. HeapTypeOK
  <2>1. zLength \in 0..zCapacity /\ heap \in [Slots -> Priorities \cup {Cleared}]
    BY HeapConstants
  <2>2. QED BY <1>1, <2>1 DEF HeapTypeOK
<1>3. SiftOK
  BY DEF SiftOK, Idle, Sifting
<1>4. OrderInv
  BY DEF OrderInv, Idle, Sifting, HoldsChildren
<1>5. \A x : Count(heap, zLength, x) = 0
  BY CountNone
<1>6. NothingLost
  BY <1>1, <1>2, <1>5, LostInv
<1>7. QED BY <1>2, <1>3, <1>4, <1>6 DEF HeapInv

LEMMA BubbleUpStep == HeapInv /\ BubbleUp => HeapInv'
<1> SUFFICES ASSUME HeapInv, BubbleUp PROVE HeapInv'
  OBVIOUS
<1> DEFINE at == sift.at
           p  == Parent(at)
<1>1. /\ sift.call = "Insert" /\ at \in 1..(zLength - 1)
      /\ zLength' = zLength /\ tReturn' = tReturn /\ due' = due /\ failed' = failed
      /\ sift' = [sift EXCEPT !.at = p]
      /\ heap' = IF Holds(heap, p, at) THEN heap ELSE Swapped(heap, at, p)
  BY DEF BubbleUp, HeapInv, SiftOK, HeapTypeOK
<1>2. /\ zLength \in 0..zCapacity /\ zLength \in Nat /\ heap \in [Slots -> Priorities \cup {Cleared}]
      /\ heap \in [Slots -> Nat] /\ at \in Nat \ {0} /\ 0..(zLength - 1) \subseteq Slots
  BY <1>1, HeapConstants DEF HeapInv, HeapTypeOK, Slots
<1>3. p \in 0..(at - 1) /\ at \in 0..(zLength - 1) /\ p \in 0..(zLength - 1)
  BY <1>1, <1>2, ChildOfParent
<1>4. HeapTypeOK'
  <2>1. heap' \in [Slots -> Priorities \cup {Cleared}]
    BY <1>1, <1>2, <1>3 DEF Swapped
  <2>2. QED BY <1>1, <2>1 DEF HeapInv, HeapTypeOK
<1>5. sift'.call = "Insert" /\ sift'.at = p /\ sift'.start = sift.start /\ SiftOK'
  <2>1. sift \in [call : {"None", "Insert", "Pop", "Heapify"}, at : Nat, start : Nat]
    BY DEF HeapInv, SiftOK
  <2>2. sift'.call = "Insert" /\ sift'.at = p /\ sift'.start = sift.start
    BY <1>1, <2>1
  <2>3. sift' \in [call : {"None", "Insert", "Pop", "Heapify"}, at : Nat, start : Nat]
    BY <1>1, <1>3, <2>1
  <2>4. p < zLength'
    BY <1>1, <1>2, <1>3
  <2>5. QED BY <2>2, <2>3, <2>4 DEF SiftOK
<1>6. OrderInv'
  <2>1. zLength > 0
    BY <1>1, <1>2
  <2>2. ASSUME ~failed PROVE Rising'
    <3>1. Rising
      BY <1>1, <2>2 DEF HeapInv, OrderInv
    <3>2. \A j \in 1..(zLength - 1) : j # at => Holds(heap, Parent(j), j)
      BY <3>1 DEF Rising
    <3>3. CASE Holds(heap, p, at)
      <4>1. /\ \A j \in 1..(zLength - 1) : Holds(heap, Parent(j), j)
            /\ p > 0 => HoldsChildren(heap, zLength, Parent(p), p)
        BY <1>1, <1>2, <3>2, <3>3, RisePast
      <4>2. heap' = heap
        BY <1>1, <3>3
      <4>3. QED BY <1>1, <1>5, <4>1, <4>2 DEF Rising
    <3>4. CASE ~Holds(heap, p, at)
      <4>1. HoldsChildren(heap, zLength, p, at)
        BY <1>1, <3>1 DEF Rising
      <4>2. heap' = Swapped(heap, at, p)
        BY <1>1, <3>4
      <4>3. /\ \A j \in 1..(zLength - 1) : j # p => Holds(heap', Parent(j), j)
            /\ p > 0 => HoldsChildren(heap', zLength, Parent(p), p)
        BY <1>1, <1>2, <3>2, <3>4, <4>1, <4>2, RiseStep
      <4>4. QED BY <1>1, <1>5, <4>3 DEF Rising
    <3>5. QED BY <3>3, <3>4
  <2>3. QED BY <1>1, <1>5, <2>1, <2>2 DEF HeapInv, OrderInv
<1>7. \A x : Count(heap', zLength, x) = Count(heap, zLength, x)
  <2>1. /\ Slots = DOMAIN heap /\ heap = [i \in Slots |-> heap[i]]
    BY <1>2
  <2>2. \A x : Count(Swapped(heap, at, p), zLength, x) = Count(heap, zLength, x)
    BY <1>2, <1>3, <2>1, SwapCounts
  <2>3. QED BY <1>1, <2>2
<1>8. NothingLost'
  <2>1. HeapTypeOK /\ NothingLost
    BY DEF HeapInv
  <2>2. (HeapTypeOK =>
          (NothingLost <=> /\ \A x : Copies(due, x) <= Count(heap, zLength, x)
                           /\ failed \/ \A x : Copies(due, x) = Count(heap, zLength, x)))'
    BY LostInv, PTL
  <2>3. QED BY <1>1, <1>4, <1>7, <2>1, <2>2, LostInv
<1>9. QED BY <1>4, <1>5, <1>6, <1>8 DEF HeapInv

LEMMA LostThen ==
  ASSUME HeapTypeOK',
         \A x : Copies(due', x) <= Count(heap', zLength', x),
         failed' \/ \A x : Copies(due', x) = Count(heap', zLength', x)
  PROVE  NothingLost'
<1>1. (HeapTypeOK =>
        (NothingLost <=> /\ \A x : Copies(due, x) <= Count(heap, zLength, x)
                         /\ failed \/ \A x : Copies(due, x) = Count(heap, zLength, x)))'
  BY LostInv, PTL
<1>2. QED BY <1>1

(* Elements and counts as they were.                                       *)
LEMMA SameElements ==
  ASSUME HeapInv, UNCHANGED <<zLength, heap, due>>, tReturn' \in Priorities \cup {Cleared},
         failed' \in {failed, TRUE}
  PROVE  HeapTypeOK' /\ NothingLost'
<1>1. HeapTypeOK' /\ HeapTypeOK /\ NothingLost
  BY DEF HeapInv, HeapTypeOK
<1>2. /\ \A x : Copies(due', x) <= Count(heap', zLength', x)
      /\ failed \/ \A x : Copies(due', x) = Count(heap', zLength', x)
  BY <1>1, LostInv
<1>3. failed => failed'
  OBVIOUS
<1>4. QED BY <1>1, <1>2, <1>3, LostThen

(* A call that returns at once, and a step of something else.              *)
LEMMA ReturnsStep ==
  ASSUME HeapInv, UNCHANGED <<zLength, heap, tReturn, sift, due, failed>>
  PROVE  HeapInv'
<1>1. HeapTypeOK' /\ NothingLost'
  BY SameElements DEF HeapInv, HeapTypeOK
<1>2. SiftOK' /\ OrderInv'
  BY DEF HeapInv, SiftOK, OrderInv, Rising, Sinking
<1>3. QED BY <1>1, <1>2 DEF HeapInv

LEMMA AtRootStep == HeapInv /\ AtRoot => HeapInv'
<1> SUFFICES ASSUME HeapInv, AtRoot PROVE HeapInv'
  OBVIOUS
<1>1. /\ sift.call = "Insert" /\ sift.at = 0 /\ sift' = Idle
      /\ UNCHANGED <<zLength, heap, tReturn, due, failed>>
  BY DEF AtRoot, Returns
<1>2. HeapTypeOK' /\ NothingLost'
  BY <1>1, SameElements DEF HeapInv, HeapTypeOK
<1>3. SiftOK'
  BY <1>1 DEF SiftOK, Idle, Sifting
<1>4. ASSUME ~failed PROVE \A p \in Nat : HoldsChildren(heap, zLength, p, p)
  <2>1. \A j \in 1..(zLength - 1) : Holds(heap, Parent(j), j)
    BY <1>1, <1>4 DEF HeapInv, OrderInv, Rising
  <2>2. QED BY <2>1 DEF HoldsChildren
<1>5. OrderInv'
  BY <1>1, <1>4 DEF HeapInv, OrderInv, Idle, Sifting
<1>6. QED BY <1>2, <1>3, <1>5 DEF HeapInv

LEMMA BubbleUpFailsStep == HeapInv /\ BubbleUpFails => HeapInv'
<1> SUFFICES ASSUME HeapInv, BubbleUpFails PROVE HeapInv'
  OBVIOUS
<1>1. /\ sift.call = "Insert" /\ sift' = Idle /\ failed' = TRUE
      /\ UNCHANGED <<zLength, heap, tReturn, due>>
  BY DEF BubbleUpFails, Returns
<1>2. HeapTypeOK' /\ NothingLost'
  BY <1>1, SameElements DEF HeapInv, HeapTypeOK
<1>3. SiftOK'
  BY <1>1 DEF SiftOK, Idle, Sifting
<1>4. zLength # 0
  BY <1>1 DEF HeapInv, SiftOK
<1>5. OrderInv'
  BY <1>1, <1>4 DEF OrderInv
<1>6. QED BY <1>2, <1>3, <1>5 DEF HeapInv

(* A loop that sifts down ends at a node that holds its children, unless   *)
(* something failed.  Heapify's next loop begins at the node before.       *)
LEMMA SiftReturnsStep ==
  ASSUME HeapInv, sift.call \in {"Pop", "Heapify"}, NEW status, SiftReturns(status),
         UNCHANGED <<zLength, heap, tReturn, due>>, failed' \in {failed, TRUE},
         ~failed' => HoldsChildren(heap, zLength, sift.at, sift.at)
  PROVE  HeapInv'
<1>1. HeapTypeOK' /\ NothingLost'
  BY SameElements DEF HeapInv, HeapTypeOK
<1>2. /\ sift.at \in Nat /\ sift.start \in Nat /\ sift.at < zLength /\ sift.at >= sift.start
      /\ zLength \in Nat
  <2>1. /\ sift.at \in Nat /\ sift.start \in Nat /\ sift.at < zLength /\ zLength \in Nat
        /\ sift.at # sift.start => sift.at > 0 /\ Parent(sift.at) >= sift.start
    BY HeapConstants DEF HeapInv, SiftOK, HeapTypeOK
  <2>2. CASE sift.at # sift.start
    BY <2>1, <2>2, ChildOfParent
  <2>3. QED BY <2>1, <2>2
<1>3. ASSUME ~failed', NEW p \in Nat, p >= sift.start PROVE HoldsChildren(heap, zLength, p, p)
  <2>1. ~failed /\ Sinking
    BY <1>3 DEF HeapInv, OrderInv, HeapTypeOK
  <2>2. QED BY <1>3, <2>1 DEF Sinking
<1>4. zLength # 0
  BY <1>2
<1>5. CASE sift.call = "Heapify" /\ sift.start > 0
  <2> DEFINE next == sift.start - 1
  <2>1. /\ sift' = [call |-> "Heapify", at |-> next, start |-> next]
        /\ next \in Nat /\ next < zLength
    BY <1>2, <1>5 DEF SiftReturns, Sifting
  <2>2. SiftOK'
    BY <2>1 DEF SiftOK
  <2>3. ASSUME ~failed' PROVE Sinking'
    <3>1. \A p \in Nat : p >= next /\ p # next => p >= sift.start
      BY <1>2
    <3>2. \A p \in Nat : p >= next /\ p # next => HoldsChildren(heap, zLength, p, p)
      BY <1>3, <2>3, <3>1
    <3>3. QED BY <2>1, <3>2 DEF Sinking
  <2>4. OrderInv'
    BY <1>4, <2>1, <2>3 DEF OrderInv
  <2>5. QED BY <1>1, <2>2, <2>4 DEF HeapInv
<1>6. CASE ~(sift.call = "Heapify" /\ sift.start > 0)
  <2>1. sift' = [call |-> "None", at |-> 0, start |-> 0] /\ sift.start = 0
    BY <1>2, <1>6 DEF SiftReturns, Returns, Idle, Sifting, HeapInv, SiftOK
  <2>2. SiftOK'
    BY <2>1 DEF SiftOK, Idle, Sifting
  <2>3. OrderInv'
    BY <1>3, <1>4, <2>1 DEF OrderInv
  <2>4. QED BY <1>1, <2>2, <2>3 DEF HeapInv
<1>7. QED BY <1>5, <1>6

LEMMA SiftDownStep == HeapInv /\ SiftDown => HeapInv'
<1> SUFFICES ASSUME HeapInv, SiftDown PROVE HeapInv'
  OBVIOUS
<1> DEFINE at == sift.at
           b  == Best(at)
<1>1. /\ sift.call \in {"Pop", "Heapify"} /\ sift.start \in Nat /\ at \in Nat /\ at < zLength
      /\ at # sift.start => at > 0 /\ Parent(at) >= sift.start
      /\ sift.call = "Pop" => sift.start = 0
      /\ sift \in [call : {"None", "Insert", "Pop", "Heapify"}, at : Nat, start : Nat]
  BY DEF SiftDown, HeapInv, SiftOK
<1>2. /\ zLength \in 0..zCapacity /\ zLength \in Nat /\ heap \in [Slots -> Priorities \cup {Cleared}]
      /\ heap \in [Slots -> Nat] /\ 0..(zLength - 1) \subseteq Slots /\ at \in 0..(zLength - 1)
  BY <1>1, HeapConstants DEF HeapInv, HeapTypeOK, Slots
<1>3. UNCHANGED <<zLength, tReturn, due, failed>>
  BY DEF SiftDown
<1>4. \/ b = at /\ HoldsChildren(heap, zLength, at, at)
      \/ /\ b # at /\ b \in 1..(zLength - 1) /\ Parent(b) = at
         /\ ~Holds(heap, at, b) /\ HoldsChildren(heap, zLength, b, at)
  BY <1>2, BestIs
<1>5. CASE b = at
  <2>1. SiftReturns("SUCCESS") /\ UNCHANGED heap
    BY <1>5 DEF SiftDown
  <2>2. HoldsChildren(heap, zLength, at, at)
    BY <1>4, <1>5
  <2>3. QED BY <1>1, <1>3, <2>1, <2>2, SiftReturnsStep
<1>6. CASE b # at
  <2>1. heap' = Swapped(heap, at, b) /\ sift' = [sift EXCEPT !.at = b]
    BY <1>6 DEF SiftDown
  <2>2. /\ b \in 1..(zLength - 1) /\ Parent(b) = at
        /\ ~Holds(heap, at, b) /\ HoldsChildren(heap, zLength, b, at)
    BY <1>4, <1>6
  <2> HIDE DEF b
  <2>3. b \in Nat /\ b \in 0..(zLength - 1) /\ b > 0 /\ b < zLength
    BY <1>2, <2>2
  <2>4. at >= sift.start
    <3>1. at # sift.start => at > Parent(at) /\ Parent(at) \in Nat
      BY <1>1, ChildOfParent
    <3>2. QED BY <1>1, <3>1
  <2>5. HeapTypeOK'
    <3>1. heap' \in [Slots -> Priorities \cup {Cleared}]
      BY <1>2, <2>1, <2>3 DEF Swapped
    <3>2. QED BY <1>3, <3>1 DEF HeapInv, HeapTypeOK
  <2>6. /\ sift'.call = sift.call /\ sift'.at = b /\ sift'.start = sift.start
        /\ sift' \in [call : {"None", "Insert", "Pop", "Heapify"}, at : Nat, start : Nat]
    BY <1>1, <2>1, <2>3
  <2>7. SiftOK'
    BY <1>1, <1>3, <2>2, <2>3, <2>4, <2>6 DEF SiftOK
  <2>8. ASSUME ~failed PROVE Sinking'
    <3>1. Sinking
      BY <1>1, <2>8 DEF HeapInv, OrderInv
    <3>2. /\ \A p \in Nat : p >= sift.start /\ p # at => HoldsChildren(heap, zLength, p, p)
          /\ at # sift.start => Parent(at) >= sift.start
                                /\ HoldsChildren(heap, zLength, Parent(at), at)
      BY <1>1, <3>1 DEF Sinking
    <3>3. at \in sift.start..(zLength - 1)
      BY <1>1, <1>2, <2>4
    <3>4. /\ \A p \in Nat : p >= sift.start /\ p # b => HoldsChildren(heap', zLength, p, p)
          /\ HoldsChildren(heap', zLength, at, b)
      BY <1>1, <1>2, <2>1, <2>2, <3>2, <3>3, SinkStep
    <3>5. QED BY <1>3, <2>2, <2>6, <3>4 DEF Sinking
  <2>9. OrderInv'
    BY <1>1, <1>3, <2>6, <2>8 DEF HeapInv, OrderInv
  <2>10. \A x : Count(heap', zLength, x) = Count(heap, zLength, x)
    <3>1. Slots = DOMAIN heap /\ heap = [i \in Slots |-> heap[i]]
      BY <1>2
    <3>2. QED BY <1>2, <2>1, <2>3, <3>1, SwapCounts
  <2>11. NothingLost'
    <3>1. HeapTypeOK /\ NothingLost
      BY DEF HeapInv
    <3>2. QED BY <1>3, <2>5, <2>10, <3>1, LostInv, LostThen
  <2>12. QED BY <2>5, <2>7, <2>9, <2>11 DEF HeapInv
<1>7. QED BY <1>5, <1>6

(* A node without a place for a child holds all its children.              *)
LEMMA SiftOutOfBoundsStep == HeapInv /\ SiftOutOfBounds => HeapInv'
<1> SUFFICES ASSUME HeapInv, SiftOutOfBounds PROVE HeapInv'
  OBVIOUS
<1>1. /\ sift.call \in {"Pop", "Heapify"} /\ 2 * sift.at + 2 > zCapacity /\ SiftReturns("OOB")
      /\ UNCHANGED <<zLength, heap, tReturn, due, failed>>
  BY DEF SiftOutOfBounds
<1>2. /\ zLength \in Nat /\ zCapacity \in Nat /\ zLength <= zCapacity
      /\ sift.at \in Nat /\ failed \in BOOLEAN
  BY HeapConstants DEF HeapInv, HeapTypeOK, SiftOK
<1>3. \A j \in 1..(zLength - 1) : Parent(j) # sift.at
  <2>1. ASSUME NEW j \in 1..(zLength - 1), Parent(j) = sift.at PROVE FALSE
    <3>1. j \in Nat \ {0} /\ j < zLength
      BY <1>2
    <3>2. j = 2 * sift.at + 1 \/ j = 2 * sift.at + 2
      BY <2>1, <3>1, ChildOfParent
    <3>3. QED BY <1>1, <1>2, <3>1, <3>2
  <2>2. QED BY <2>1
<1>4. HoldsChildren(heap, zLength, sift.at, sift.at)
  BY <1>3 DEF HoldsChildren
<1>5. QED BY <1>1, <1>4, SiftReturnsStep

LEMMA SiftDownFailsStep == HeapInv /\ SiftDownFails => HeapInv'
BY SiftReturnsStep DEF SiftDownFails

LEMMA InsertStep ==
  ASSUME HeapInv, NEW x \in Priorities, Insert(x)
  PROVE  HeapInv'
<1>1. /\ sift = Idle /\ zLength < zCapacity
      /\ heap' = [heap EXCEPT ![zLength] = x] /\ zLength' = zLength + 1
      /\ sift' = [call |-> "Insert", at |-> zLength, start |-> zLength]
      /\ due' = due (+) SetToBag({x})
      /\ UNCHANGED <<tReturn, failed>>
  BY DEF Insert, Sifting
<1>2. /\ zLength \in Nat /\ zCapacity \in Nat /\ zLength \in Slots
      /\ heap \in [Slots -> Priorities \cup {Cleared}]
      /\ HeapTypeOK /\ NothingLost /\ OrderInv /\ IsABag(due)
  BY <1>1, HeapConstants DEF HeapInv, HeapTypeOK, Slots
<1>3. IsABag(due') /\ \A y : Copies(due', y) = Copies(due, y) + IF x = y THEN 1 ELSE 0
  BY <1>1, <1>2, BagAddOne
<1>4. HeapTypeOK'
  <2>1. heap' \in [Slots -> Priorities \cup {Cleared}] /\ zLength' \in 0..zCapacity
    BY <1>1, <1>2
  <2>2. DOMAIN due' \subseteq Priorities
    <3>1. \A y \in DOMAIN due' : y \in DOMAIN due \/ y = x
      BY <1>2, <1>3, CopiesBag
    <3>2. QED BY <1>2, <3>1, CopiesBag DEF HeapTypeOK
  <2>3. QED BY <1>1, <1>3, <2>1, <2>2 DEF HeapInv, HeapTypeOK
<1>5. SiftOK'
  BY <1>1, <1>2 DEF SiftOK
<1>6. /\ heap'[zLength] = x
      /\ \A i \in 0..(zLength - 1) : heap'[i] = heap[i]
  BY <1>1, <1>2 DEF Slots
<1>7. ASSUME ~failed PROVE Rising'
  <2>1. \A p \in Nat : HoldsChildren(heap, zLength, p, p)
    BY <1>1, <1>2, <1>7 DEF OrderInv, Idle, Sifting
  <2>2. ASSUME NEW j \in 1..(zLength' - 1), j # zLength PROVE Holds(heap', Parent(j), j)
    <3>1. /\ j \in 1..(zLength - 1) /\ j \in Nat \ {0}
      BY <1>1, <1>2, <2>2
    <3>2. Parent(j) \in 0..(zLength - 1) /\ Parent(j) \in Nat /\ j \in 0..(zLength - 1)
      BY <1>2, <3>1, ChildOfParent
    <3>3. heap[Parent(j)] >= heap[j]
      BY <2>1, <3>1, <3>2 DEF HoldsChildren, Holds
    <3>4. QED BY <1>6, <3>2, <3>3 DEF Holds
  <2>3. ASSUME NEW j \in 1..(zLength' - 1), Parent(j) = zLength PROVE FALSE
    <3>1. j \in Nat \ {0} /\ j <= zLength
      BY <1>1, <1>2
    <3>2. QED BY <1>2, <2>3, <3>1, ChildOfParent
  <2>4. HoldsChildren(heap', zLength', Parent(zLength), zLength)
    BY <2>3 DEF HoldsChildren
  <2>5. QED BY <1>1, <2>2, <2>4 DEF Rising
<1>8. OrderInv'
  BY <1>1, <1>2, <1>7 DEF OrderInv
<1>9. \A y : Count(heap', zLength', y) = Count(heap, zLength, y) + IF x = y THEN 1 ELSE 0
  <2>1. \A y : Count(heap', zLength + 1, y) = Count(heap', zLength, y) + IF x = y THEN 1 ELSE 0
    BY <1>2, <1>6, CountOneMore
  <2>2. \A y : Count(heap', zLength, y) = Count(heap, zLength, y)
    BY <1>2, <1>6, CountAgrees
  <2>3. QED BY <1>1, <2>1, <2>2
<1>10. NothingLost'
  <2>1. \A y : Copies(due, y) \in Nat /\ Count(heap, zLength, y) \in Nat
    BY <1>2, CopiesBag, CountIs
  <2>2. /\ \A y : Copies(due, y) <= Count(heap, zLength, y)
        /\ failed \/ \A y : Copies(due, y) = Count(heap, zLength, y)
    BY <1>2, LostInv
  <2>3. \A y : Copies(due', y) <= Count(heap', zLength', y)
    BY <1>3, <1>9, <2>1, <2>2
  <2>4. failed \/ \A y : Copies(due', y) = Count(heap', zLength', y)
    BY <1>3, <1>9, <2>2
  <2>5. QED BY <1>1, <1>4, <2>3, <2>4, LostThen
<1>11. QED BY <1>4, <1>5, <1>8, <1>10 DEF HeapInv

LEMMA InsertSetAtFailsStep == HeapInv /\ InsertSetAtFails => HeapInv'
<1> SUFFICES ASSUME HeapInv, InsertSetAtFails PROVE HeapInv'
  OBVIOUS
<1>1. /\ sift = Idle /\ zLength < zCapacity /\ zLength' = zLength + 1 /\ failed' = TRUE
      /\ sift' = [call |-> "Insert", at |-> zLength, start |-> zLength]
      /\ UNCHANGED <<heap, tReturn, due>>
  BY DEF InsertSetAtFails, Sifting
<1>2. zLength \in Nat /\ zCapacity \in Nat /\ HeapTypeOK /\ NothingLost /\ IsABag(due)
  BY HeapConstants DEF HeapInv, HeapTypeOK
<1>3. HeapTypeOK' /\ SiftOK'
  BY <1>1, <1>2 DEF HeapTypeOK, SiftOK
<1>4. OrderInv'
  BY <1>1, <1>2 DEF OrderInv
<1>5. \A y : Copies(due', y) <= Count(heap', zLength', y)
  <2>1. \A y : Copies(due, y) \in Nat /\ Count(heap, zLength, y) \in Nat
    BY <1>2, CopiesBag, CountIs
  <2>2. \A y : Count(heap, zLength + 1, y) >= Count(heap, zLength, y)
    BY <1>2, <2>1, CountOneMore
  <2>3. \A y : Copies(due, y) <= Count(heap, zLength, y)
    BY <1>2, LostInv
  <2>4. \A y : Count(heap, zLength + 1, y) \in Nat
    BY <1>2, CountIs
  <2>5. QED BY <1>1, <2>1, <2>2, <2>3, <2>4
<1>6. QED BY <1>1, <1>3, <1>4, <1>5, LostThen DEF HeapInv

(* The elements the application filled in are in no order: only the nodes  *)
(* without children hold them.                                             *)
LEMMA HeapifyStep ==
  ASSUME HeapInv, NEW n \in 1..zCapacity, NEW s \in [0..(n - 1) -> Priorities], Heapify(n, s)
  PROVE  HeapInv'
<1>1. /\ sift = Idle /\ zLength = 0 /\ zLength' = n
      /\ heap' = [i \in Slots |-> IF i < n THEN s[i] ELSE heap[i]]
      /\ sift' = [call |-> "Heapify", at |-> Parent(n), start |-> Parent(n)]
      /\ due' = Contents(s, n)
      /\ UNCHANGED <<tReturn, failed>>
  BY DEF Heapify, Sifting
<1>2. /\ n \in Nat \ {0} /\ zCapacity \in Nat /\ Parent(n) \in 0..(n - 1)
      /\ heap \in [Slots -> Priorities \cup {Cleared}]
  BY HeapConstants, ChildOfParent DEF HeapInv, HeapTypeOK
<1>3. IsABag(due') /\ \A x : Copies(due', x) = Count(s, n, x)
  BY <1>1, <1>2, ContentsBag
<1>4. HeapTypeOK'
  <2>1. heap' \in [Slots -> Priorities \cup {Cleared}]
    BY <1>1, <1>2 DEF Slots
  <2>2. DOMAIN due' \subseteq Priorities
    BY <1>1 DEF Contents
  <2>3. QED BY <1>1, <1>2, <1>3, <2>1, <2>2 DEF HeapInv, HeapTypeOK
<1>5. SiftOK'
  BY <1>1, <1>2 DEF SiftOK
<1>6. Sinking'
  <2>1. ASSUME NEW p \in Nat, p >= Parent(n), p # Parent(n), NEW j \in 1..(n - 1), Parent(j) = p
        PROVE  FALSE
    <3>1. j \in Nat \ {0} /\ j < n
      BY <1>2
    <3>2. j = 2 * p + 1 \/ j = 2 * p + 2
      BY <2>1, <3>1, ChildOfParent
    <3>3. n = 2 * Parent(n) + 1 \/ n = 2 * Parent(n) + 2
      BY <1>2, ChildOfParent
    <3>4. QED BY <1>2, <2>1, <3>1, <3>2, <3>3
  <2>2. \A p \in Nat : p >= Parent(n) /\ p # Parent(n) => HoldsChildren(heap', n, p, p)
    BY <2>1 DEF HoldsChildren
  <2>3. QED BY <1>1, <2>2 DEF Sinking
<1>7. OrderInv'
  BY <1>1, <1>2, <1>6 DEF OrderInv
<1>8. \A x : Count(heap', n, x) = Count(s, n, x)
  <2>1. \A i \in 0..(n - 1) : heap'[i] = s[i]
    BY <1>1, <1>2 DEF Slots
  <2>2. QED BY <1>2, <2>1, CountAgrees
<1>9. NothingLost'
  <2>1. \A x : Count(s, n, x) \in Nat
    BY <1>2, CountIs
  <2>2. QED BY <1>1, <1>3, <1>4, <1>8, <2>1, LostThen
<1>10. QED BY <1>4, <1>5, <1>7, <1>9 DEF HeapInv

(* The last element takes the root's place and the array ends before it.   *)
LEMMA PopStep == HeapInv /\ Pop => HeapInv'
<1> SUFFICES ASSUME HeapInv, Pop PROVE HeapInv'
  OBVIOUS
<1> DEFINE e == heap[0]
           m == zLength - 1
<1>1. /\ sift = Idle /\ zLength > 0 /\ tReturn' = e /\ zLength' = m
      /\ heap' = [Swapped(heap, 0, m) EXCEPT ![m] = Cleared]
      /\ due' = due (-) SetToBag({e})
  BY DEF Pop, Ended
<1>2. \/ zLength = 1 /\ sift' = Idle /\ failed' = FALSE
      \/ zLength # 1 /\ sift' = [call |-> "Pop", at |-> 0, start |-> 0] /\ failed' = failed
  BY DEF Pop, Returns, Sifting
<1>3. /\ zLength \in Nat \ {0} /\ zCapacity \in Nat /\ zLength <= zCapacity /\ m \in Nat
      /\ heap \in [Slots -> Priorities \cup {Cleared}] /\ 0 \in Slots /\ m \in Slots
      /\ HeapTypeOK /\ NothingLost /\ OrderInv /\ IsABag(due) /\ failed \in BOOLEAN
  BY <1>1, HeapConstants DEF HeapInv, HeapTypeOK, Slots
<1>4. /\ IsABag(due')
      /\ \A x : Copies(due', x) = IF e = x /\ Copies(due, x) > 0 THEN Copies(due, x) - 1 ELSE Copies(due, x)
  BY <1>1, <1>3, BagTakeOne
<1>5. HeapTypeOK'
  <2>1. heap' \in [Slots -> Priorities \cup {Cleared}] /\ e \in Priorities \cup {Cleared}
    BY <1>1, <1>3 DEF Swapped
  <2>2. zLength' \in 0..zCapacity
    BY <1>1, <1>3
  <2>3. DOMAIN due' \subseteq Priorities
    <3>1. \A x \in DOMAIN due' : x \in DOMAIN due
      BY <1>3, <1>4, CopiesBag
    <3>2. QED BY <1>3, <3>1, CopiesBag DEF HeapTypeOK
  <2>4. QED BY <1>1, <1>2, <1>3, <1>4, <2>1, <2>2, <2>3 DEF HeapTypeOK
<1>6. SiftOK'
  BY <1>1, <1>2, <1>3 DEF SiftOK, Idle, Sifting
<1>7. \A i \in 1..(m - 1) : heap'[i] = heap[i]
  BY <1>1, <1>3 DEF Swapped, Slots
<1>8. CASE zLength = 1
  <2>1. OrderInv'
    BY <1>1, <1>2, <1>8 DEF OrderInv, Idle, Sifting, HoldsChildren
  <2>2. \A x : Count(heap', 0, x) = 0
    BY CountNone
  <2>3. \A x : Copies(due', x) = 0
    <3>1. \A x : Count(heap, 1, x) = Count(heap, 0, x) + IF e = x THEN 1 ELSE 0
      BY CountOneMore
    <3>2. \A x : Count(heap, 0, x) = 0
      BY CountNone
    <3>3. \A x : Copies(due, x) <= Count(heap, 1, x) /\ Copies(due, x) \in Nat
      BY <1>3, <1>8, LostInv, CopiesBag
    <3>4. \A x : Copies(due, x) \in Nat /\ Copies(due, x) <= IF e = x THEN 1 ELSE 0
      BY <3>1, <3>2, <3>3
    <3>5. QED BY <1>4, <3>4
  <2>4. NothingLost'
    BY <1>1, <1>5, <1>8, <2>2, <2>3, LostThen
  <2>5. QED BY <1>5, <1>6, <2>1, <2>4 DEF HeapInv
<1>9. CASE zLength # 1
  <2>1. ASSUME ~failed PROVE Sinking'
    <3>1. \A p \in Nat : HoldsChildren(heap, zLength, p, p)
      BY <1>1, <1>3, <2>1 DEF OrderInv, Idle, Sifting
    <3>2. ASSUME NEW p \in Nat, p # 0, NEW j \in 1..(m - 1), Parent(j) = p
          PROVE  Holds(heap', p, j)
      <4>1. j \in Nat \ {0} /\ j \in 1..(zLength - 1)
        BY <1>3
      <4>2. p \in 1..(m - 1)
        BY <1>3, <3>2, <4>1, ChildOfParent
      <4>3. heap[p] >= heap[j]
        BY <3>1, <3>2, <4>1 DEF HoldsChildren, Holds
      <4>4. QED BY <1>7, <4>2, <4>3 DEF Holds
    <3>3. QED BY <1>1, <1>2, <1>9, <3>2 DEF Sinking, HoldsChildren
  <2>2. OrderInv'
    BY <1>1, <1>2, <1>3, <1>9, <2>1 DEF OrderInv
  <2>3. \A x : Count(heap, zLength, x) = Count(heap', m, x) + IF e = x THEN 1 ELSE 0
    <3> DEFINE g == Swapped(heap, 0, m)
    <3>1. \A x : Count(g, zLength, x) = Count(heap, zLength, x)
      <4>1. /\ Slots = DOMAIN heap /\ heap = [i \in Slots |-> heap[i]]
            /\ 0..(zLength - 1) \subseteq Slots
            /\ 0 \in 0..(zLength - 1) /\ m \in 0..(zLength - 1)
        BY <1>3 DEF Slots
      <4>2. QED BY <1>3, <4>1, SwapCounts
    <3>2. g[m] = e /\ \A i \in 0..(m - 1) : heap'[i] = g[i]
      BY <1>1, <1>3, <1>9 DEF Swapped, Slots
    <3> HIDE DEF g
    <3>3. \A x : Count(g, m + 1, x) = Count(g, m, x) + IF e = x THEN 1 ELSE 0
      BY <1>3, <3>2, CountOneMore
    <3>4. \A x : Count(heap', m, x) = Count(g, m, x)
      BY <1>3, <3>2, CountAgrees
    <3>5. m + 1 = zLength
      BY <1>3
    <3>6. QED BY <3>1, <3>3, <3>4, <3>5
  <2>4. NothingLost'
    <3>1. \A x : Copies(due, x) \in Nat /\ Count(heap', m, x) \in Nat
      BY <1>3, CopiesBag, CountIs
    <3>2. /\ \A x : Copies(due, x) <= Count(heap, zLength, x)
          /\ failed \/ \A x : Copies(due, x) = Count(heap, zLength, x)
      BY <1>3, LostInv
    <3>3. \A x : Copies(due', x) <= Count(heap', m, x)
      BY <1>4, <2>3, <3>1, <3>2
    <3>4. failed \/ \A x : Copies(due', x) = Count(heap', m, x)
      BY <1>4, <2>3, <3>1, <3>2
    <3>5. QED BY <1>1, <1>2, <1>5, <1>9, <3>3, <3>4, LostThen
  <2>5. QED BY <1>5, <1>6, <2>2, <2>4 DEF HeapInv
<1>10. QED BY <1>8, <1>9

LEMMA PopFailsStep == HeapInv /\ PopFails => HeapInv'
<1> SUFFICES ASSUME HeapInv, PopFails PROVE HeapInv'
  OBVIOUS
<1>1. /\ sift = Idle /\ zLength > 0 /\ heap' \in {heap, Swapped(heap, 0, zLength - 1)}
      /\ tReturn' \in {tReturn, heap[0]} /\ sift' = Idle /\ failed' = TRUE
      /\ UNCHANGED <<zLength, due>>
  BY DEF PopFails, Ended, Returns
<1>2. /\ zLength \in Nat \ {0} /\ zCapacity \in Nat /\ zLength - 1 \in 0..(zLength - 1)
      /\ 0 \in 0..(zLength - 1) /\ 0..(zLength - 1) \subseteq Slots
      /\ heap \in [Slots -> Priorities \cup {Cleared}] /\ HeapTypeOK /\ NothingLost
  BY <1>1, HeapConstants DEF HeapInv, HeapTypeOK, Slots
<1>3. HeapTypeOK'
  <2>1. heap' \in [Slots -> Priorities \cup {Cleared}] /\ heap[0] \in Priorities \cup {Cleared}
    BY <1>1, <1>2 DEF Swapped
  <2>2. QED BY <1>1, <1>2, <2>1 DEF HeapTypeOK
<1>4. SiftOK' /\ OrderInv'
  BY <1>1, <1>2 DEF SiftOK, OrderInv, Idle, Sifting
<1>5. \A x : Count(heap', zLength, x) = Count(heap, zLength, x)
  <2>1. Slots = DOMAIN heap /\ heap = [i \in Slots |-> heap[i]]
    BY <1>2
  <2>2. \A x : Count(Swapped(heap, 0, zLength - 1), zLength, x) = Count(heap, zLength, x)
    BY <1>2, <2>1, SwapCounts
  <2>3. QED BY <1>1, <2>2
<1>6. NothingLost'
  BY <1>1, <1>2, <1>3, <1>5, LostInv, LostThen
<1>7. QED BY <1>3, <1>4, <1>6 DEF HeapInv

-----------------------------------------------------------------------------
LEMMA HeapInductive == HeapInv /\ [HeapNext]_heapVars => HeapInv'
<1> SUFFICES ASSUME HeapInv, [HeapNext]_heapVars PROVE HeapInv'
  OBVIOUS
<1>1. CASE BubbleUp \/ AtRoot \/ BubbleUpFails
  BY <1>1, BubbleUpStep, AtRootStep, BubbleUpFailsStep
<1>2. CASE SiftDown \/ SiftOutOfBounds \/ SiftDownFails
  BY <1>2, SiftDownStep, SiftOutOfBoundsStep, SiftDownFailsStep
<1>3. CASE \E x \in Priorities : Insert(x)
  BY <1>3, InsertStep
<1>4. CASE InsertSetAtFails
  BY <1>4, InsertSetAtFailsStep
<1>5. CASE \E n \in 1..zCapacity : \E s \in [0..(n - 1) -> Priorities] : Heapify(n, s)
  BY <1>5, HeapifyStep
<1>6. CASE Pop \/ PopFails
  BY <1>6, PopStep, PopFailsStep
<1>7. CASE InsertFull \/ OnEmpty
  <2>1. UNCHANGED <<zLength, heap, tReturn, sift, due, failed>>
    BY <1>7 DEF InsertFull, OnEmpty, Returns
  <2>2. QED BY <2>1, ReturnsStep
<1>8. CASE UNCHANGED heapVars
  BY <1>8, ReturnsStep DEF heapVars
<1>9. QED BY <1>1, <1>2, <1>3, <1>4, <1>5, <1>6, <1>7, <1>8 DEF HeapNext

(* Between calls every parent holds its children, for every capacity and   *)
(* every set of priorities, unless an operation failed since the heap was  *)
(* last empty: Heapify orders any array although it ignores what its       *)
(* loops return, and Insert and Pop keep the order.                        *)
THEOREM HeapStaysOrdered == HeapSpec => []HeapOrder
<1>1. HeapInv => HeapOrder
  <2> SUFFICES ASSUME HeapInv, sift = Idle, ~failed, NEW i \in 1..(zLength - 1)
               PROVE  Holds(heap, Parent(i), i)
    BY DEF HeapOrder
  <2>1. \A p \in Nat : HoldsChildren(heap, zLength, p, p)
    BY DEF HeapInv, OrderInv, Idle, Sifting
  <2>2. Parent(i) \in Nat
    BY ChildOfParent DEF HeapInv, HeapTypeOK
  <2>3. QED BY <2>1, <2>2 DEF HoldsChildren
<1>2. QED BY <1>1, HeapInitially, HeapInductive, PTL DEF HeapSpec

(* No call loses an element, whatever fails in it.                         *)
THEOREM HeapLosesNothing == HeapSpec => []NothingLost
<1>1. HeapInv => NothingLost
  BY DEF HeapInv
<1>2. QED BY <1>1, HeapInitially, HeapInductive, PTL DEF HeapSpec

(* A set of numbers has a least element: induction, without a formula to   *)
(* instantiate a scheme with.                                              *)
LEMMA LeastElement ==
  ASSUME NEW T \in SUBSET Nat, T # {}
  PROVE  \E x \in T : \A y \in T : x <= y
<1> DEFINE Below(n) == 0..(n - 1)
           B == {Below(n) : n \in T}
<1>1. \A n \in Nat : Below(n) \in FiniteSubsetsOf(Nat)
  BY FS_Interval DEF FiniteSubsetsOf
<1>2. PICK b \in B : \A c \in B : <<c, b>> \notin StrictSubsetOrdering(Nat)
  <2>1. B \subseteq FiniteSubsetsOf(Nat) /\ B # {}
    BY <1>1
  <2>2. QED BY <2>1, FS_StrictSubsetOrderingWellFounded, WFMin
<1>3. PICK x \in T : b = Below(x)
  BY <1>2
<1>4. ASSUME NEW y \in T, y < x PROVE FALSE
  <2>1. /\ x \in Nat /\ y \in Nat
        /\ Below(y) \subseteq Below(x) /\ y \in Below(x) /\ y \notin Below(y)
        /\ Below(x) \subseteq Nat
    BY <1>4
  <2>2. <<Below(y), Below(x)>> \in StrictSubsetOrdering(Nat)
    BY <2>1 DEF StrictSubsetOrdering
  <2>3. QED BY <1>2, <1>3, <2>2
<1>5. QED BY <1>4

(* When every parent holds its children, the root holds everything: the    *)
(* first element that it did not hold would have a parent before it.       *)
LEMMA RootHoldsAll ==
  ASSUME NEW n \in Nat, NEW h, \A i \in 0..(n - 1) : h[i] \in Nat,
         \A j \in 1..(n - 1) : Holds(h, Parent(j), j)
  PROVE  \A i \in 0..(n - 1) : h[0] >= h[i]
<1> DEFINE T == { i \in 0..(n - 1) : ~(h[0] >= h[i]) }
<1> SUFFICES ASSUME T # {} PROVE FALSE
  OBVIOUS
<1>1. T \in SUBSET Nat
  OBVIOUS
<1>2. PICK i \in T : \A y \in T : i <= y
  BY <1>1, LeastElement
<1>3. i \in 1..(n - 1) /\ h[i] \in Nat /\ h[0] \in Nat /\ h[0] < h[i]
  OBVIOUS
<1>4. Parent(i) \in 0..(n - 1) /\ Parent(i) < i /\ h[Parent(i)] >= h[i] /\ h[Parent(i)] \in Nat
  BY <1>3, ChildOfParent DEF Holds
<1>5. Parent(i) \notin T
  BY <1>2, <1>4
<1>6. QED BY <1>3, <1>4, <1>5

(* So between calls, when nothing has failed, the root is a greatest one.  *)
LEMMA RootIsGreatest ==
  HeapInv /\ sift = Idle /\ ~failed => \A i \in 0..(zLength - 1) : heap[0] >= heap[i]
<1> SUFFICES ASSUME HeapInv, sift = Idle, ~failed PROVE \A i \in 0..(zLength - 1) : heap[0] >= heap[i]
  OBVIOUS
<1>1. zLength \in Nat /\ \A i \in 0..(zLength - 1) : heap[i] \in Nat
  BY HeapConstants DEF HeapInv, HeapTypeOK, Slots
<1>2. \A p \in Nat : HoldsChildren(heap, zLength, p, p)
  BY DEF HeapInv, OrderInv, Idle, Sifting
<1>3. \A j \in 1..(zLength - 1) : Holds(heap, Parent(j), j)
  <2> TAKE j \in 1..(zLength - 1)
  <2>1. Parent(j) \in Nat
    BY <1>1, ChildOfParent
  <2>2. QED BY <1>2, <2>1 DEF HoldsChildren
<1>4. QED BY <1>1, <1>3, RootHoldsAll

(* A round of a loop, and a call that fails at once, move no element in or *)
(* out of the queue.                                                       *)
LEMMA RoundsStutter ==
  \/ BubbleUp \/ AtRoot \/ BubbleUpFails \/ SiftDown \/ SiftOutOfBounds \/ SiftDownFails
  \/ InsertFull \/ OnEmpty \/ UNCHANGED heapVars
  => UNCHANGED <<due, tReturn>>
BY DEF BubbleUp, AtRoot, BubbleUpFails, SiftDown, SiftOutOfBounds, SiftDownFails,
       InsertFull, OnEmpty, heapVars

(* Until something fails, every step of every call is a step of a priority *)
(* queue or none, for every capacity and every set of priorities: the      *)
(* history of what was accepted and not handed out says what the queue     *)
(* holds, and the root, which Pop hands out, is the greatest of it.        *)
THEOREM HeapRefinement == HeapSpec => IsPriorityQueue
<1> DEFINE items == [x \in Priorities |-> Count(heap, zLength, x)]
<1>1. HeapInit => Queue!Init
  <2> SUFFICES ASSUME HeapInit PROVE items = [x \in Priorities |-> 0]
    BY DEF Queue!Init
  <2>1. \A x : Count(heap, 0, x) = 0
    BY CountNone
  <2>2. QED BY <2>1 DEF HeapInit
<1>2. HeapInv /\ HeapInv' /\ [HeapNext]_heapVars
      => [~failed /\ ~failed' => [Queue!Next]_(Queue!vars)]_heapVars
  <2> SUFFICES ASSUME HeapInv, HeapInv', [HeapNext]_heapVars, ~failed, ~failed'
               PROVE  Queue!Next \/ UNCHANGED <<items, tReturn>>
    BY DEF Queue!vars
  <2>1. /\ IsABag(due) /\ DOMAIN due \subseteq Priorities /\ IsABag(due')
        /\ zLength \in Nat /\ zLength' \in Nat
    BY HeapConstants DEF HeapInv, HeapTypeOK
  <2>2. /\ items = [x \in Priorities |-> Copies(due, x)]
        /\ items' = [x \in Priorities |-> Copies(due', x)]
    <3>1. due = Contents(heap, zLength) /\ due' = Contents(heap', zLength')
      BY DEF HeapInv, NothingLost
    <3>2. /\ \A x : Copies(due, x) = Count(heap, zLength, x)
          /\ \A x : Copies(due', x) = Count(heap', zLength', x)
      BY <2>1, <3>1, ContentsBag
    <3>3. QED BY <3>2
  <2>3. \A x : Copies(due, x) \in Nat /\ Copies(due', x) \in Nat
    BY <2>1, CopiesBag
  <2> HIDE DEF items
  <2>4. CASE \/ BubbleUp \/ AtRoot \/ BubbleUpFails \/ SiftDown \/ SiftOutOfBounds \/ SiftDownFails
             \/ InsertFull \/ OnEmpty \/ UNCHANGED heapVars
    <3>1. UNCHANGED <<due, tReturn>>
      BY <2>4, RoundsStutter
    <3>2. QED BY <2>2, <3>1
  <2>5. CASE InsertSetAtFails \/ PopFails
    BY <2>5 DEF InsertSetAtFails, PopFails
  <2>6. ASSUME NEW x \in Priorities, Insert(x) PROVE Queue!Next
    <3>1. due' = due (+) SetToBag({x}) /\ tReturn' = tReturn
      BY <2>6 DEF Insert
    <3>2. \A y : Copies(due', y) = Copies(due, y) + IF x = y THEN 1 ELSE 0
      BY <2>1, <3>1, BagAddOne
    <3>3. items' = [items EXCEPT ![x] = @ + 1]
      BY <2>2, <2>3, <3>2
    <3>4. Queue!Insert(x)
      BY <3>1, <3>3 DEF Queue!Insert, items
    <3>5. QED BY <3>4 DEF Queue!Next
  <2>7. ASSUME NEW n \in 1..zCapacity, NEW s \in [0..(n - 1) -> Priorities], Heapify(n, s)
        PROVE  Queue!Next
    <3>1. zLength = 0 /\ tReturn' = tReturn
      BY <2>7 DEF Heapify
    <3>2. \A x \in Priorities : items[x] = 0
      BY <3>1, CountNone DEF items
    <3>3. items' \in [Priorities -> Nat]
      BY <2>2, <2>3
    <3>4. Queue!Fill
      BY <3>1, <3>2, <3>3 DEF Queue!Fill, items
    <3>5. QED BY <3>4 DEF Queue!Next
  <2>8. CASE Pop
    <3> DEFINE e == heap[0]
    <3>1. /\ sift = Idle /\ zLength > 0 /\ tReturn' = e
          /\ due' = due (-) SetToBag({e})
      BY <2>8 DEF Pop
    <3>2. due = Contents(heap, zLength) /\ DOMAIN due = { heap[i] : i \in 0..(zLength - 1) }
      BY DEF HeapInv, NothingLost, Contents
    <3>3. e \in DOMAIN due /\ \A y \in DOMAIN due : e >= y
      BY <2>1, <3>1, <3>2, RootIsGreatest
    <3>4. \A y : Copies(due', y) = IF e = y /\ Copies(due, y) > 0 THEN Copies(due, y) - 1 ELSE Copies(due, y)
      BY <2>1, <3>1, BagTakeOne
    <3>5. e \in Priorities /\ \A y : y \in DOMAIN due <=> Copies(due, y) > 0
      BY <2>1, <3>3, CopiesBag
    <3> HIDE DEF e
    <3>6. items[e] > 0 /\ \A y \in Priorities : items[y] > 0 => e >= y
      BY <2>2, <3>3, <3>5
    <3>7. items' = [items EXCEPT ![e] = @ - 1]
      BY <2>2, <2>3, <3>3, <3>4, <3>5
    <3>8. Queue!Pop
      BY <3>1, <3>5, <3>6, <3>7 DEF Queue!Pop, items
    <3>9. QED BY <3>8 DEF Queue!Next
  <2>9. QED BY <2>4, <2>5, <2>6, <2>7, <2>8 DEF HeapNext
<1>3. QED BY <1>1, <1>2, HeapInitially, HeapInductive, PTL DEF HeapSpec, IsPriorityQueue
=============================================================================
