----------------------------- MODULE CrcProofs ------------------------------
(***************************************************************************)
(* Proofs about the CRC functions, for every message and every way to cut  *)
(* it into buffers: each of the six is the remainder of a division of the  *)
(* whole message, a receiver accepts whatever was sent, and damage within  *)
(* the length of the register does not go unnoticed.  They rest on the     *)
(* 1536 entries of the tables being right (TableAssumption), which is a    *)
(* closed formula that TLC evaluates.                                      *)
(***************************************************************************)
EXTENDS CrcClient, SequenceTheorems, FiniteSetTheorems, TLAPS

(* Induction over the naturals, from the pigeonhole principle: if n is not *)
(* in T, then adding one maps those of 0..n that are in T into themselves  *)
(* less 0, one to one.                                                     *)
LEMMA SetInduction ==
  ASSUME NEW T, 0 \in T, \A n \in Nat : n \in T => n + 1 \in T
  PROVE  \A n \in Nat : n \in T
<1> SUFFICES ASSUME NEW n \in Nat, n \notin T PROVE FALSE
  OBVIOUS
<1> DEFINE D == { m \in 0..n : m \in T }
           next == [ m \in D |-> m + 1 ]
<1>1. n # 0 /\ 0 \in D /\ n \notin D
  OBVIOUS
<1>2. IsFiniteSet(D)
  <2>1. IsFiniteSet(0..n) /\ D \subseteq 0..n
    BY FS_Interval
  <2>2. QED BY <2>1, FS_Subset
<1>3. /\ IsFiniteSet(D \ {0}) /\ Cardinality(D \ {0}) = Cardinality(D) - 1
      /\ Cardinality(D) \in Nat
  BY <1>1, <1>2, FS_RemoveElement, FS_CardinalityType
<1>4. next \in [D -> D \ {0}]
  BY <1>1
<1>5. \E x, y \in D : x # y /\ next[x] = next[y]
  <2> HIDE DEF next, D
  <2>1. QED BY <1>2, <1>3, <1>4, FS_PigeonHole
<1>6. QED BY <1>5

(* The bit of a whose weight is p.                                         *)
BitAt(a, p) == (a \div p) % 2

(* The halves of a byte.                                                   *)
LEMMA Nibble ==
  ASSUME NEW x \in {0, 1}, NEW y \in {0, 1}, NEW z \in {0, 1}, NEW t \in {0, 1},
         NEW n, n = 8 * x + 4 * y + 2 * z + t
  PROVE  /\ n \in 0..15
         /\ BitAt(n, 8) = x /\ BitAt(n, 4) = y /\ BitAt(n, 2) = z /\ BitAt(n, 1) = t
BY DEF BitAt

(* The exclusive or of two nibbles, as the table of it has it, adds their  *)
(* bits modulo 2.                                                          *)
LEMMA NibbleBits ==
  ASSUME NEW a \in 0..15, NEW b \in 0..15
  PROVE  /\ XorNibble[a][b] \in 0..15
         /\ \A p \in {1, 2, 4, 8} :
              BitAt(XorNibble[a][b], p) = (BitAt(a, p) + BitAt(b, p)) % 2
<1> DEFINE Sum(p) == (BitAt(a, p) + BitAt(b, p)) % 2
<1>1. \A p \in {1, 2, 4, 8} : XorBit(a, b, p) = p * Sum(p) /\ Sum(p) \in {0, 1}
  BY DEF XorBit, BitAt
<1>2. XorNibble[a][b] = 8 * Sum(8) + 4 * Sum(4) + 2 * Sum(2) + Sum(1)
  BY <1>1 DEF XorNibble
<1> HIDE DEF Sum
<1>3. /\ XorNibble[a][b] \in 0..15
      /\ \A p \in {1, 2, 4, 8} : BitAt(XorNibble[a][b], p) = Sum(p)
  BY <1>1, <1>2, Nibble
<1>4. QED BY <1>3 DEF Sum

(* A bit of a byte is a bit of its low or of its high half.                *)
LEMMA ByteBits ==
  ASSUME NEW c \in Byte, NEW x \in 0..15, NEW y \in 0..15, c = 16 * x + y,
         NEW p \in {1, 2, 4, 8}
  PROVE  BitAt(c, p) = BitAt(y, p) /\ BitAt(c, 16 * p) = BitAt(x, p)
<1>1. CASE p = 1  BY <1>1 DEF BitAt, Byte
<1>2. CASE p = 2  BY <1>2 DEF BitAt, Byte
<1>3. CASE p = 4  BY <1>3 DEF BitAt, Byte
<1>4. CASE p = 8  BY <1>4 DEF BitAt, Byte
<1>5. QED BY <1>1, <1>2, <1>3, <1>4

(* The exclusive or of two bytes adds their bits modulo 2.                 *)
LEMMA XorBits ==
  ASSUME NEW a \in Byte, NEW b \in Byte
  PROVE  /\ Xor(a, b) \in Byte
         /\ \A p \in {1, 2, 4, 8, 16, 32, 64, 128} :
              BitAt(Xor(a, b), p) = (BitAt(a, p) + BitAt(b, p)) % 2
<1>1. /\ a \div 16 \in 0..15 /\ a % 16 \in 0..15 /\ a = 16 * (a \div 16) + (a % 16)
      /\ b \div 16 \in 0..15 /\ b % 16 \in 0..15 /\ b = 16 * (b \div 16) + (b % 16)
  BY DEF Byte
<1>2. PICK h \in 0..15, l \in 0..15 : /\ h = XorNibble[a \div 16][b \div 16]
                                      /\ l = XorNibble[a % 16][b % 16]
                                      /\ Xor(a, b) = 16 * h + l
  <2>1. XorNibble[a \div 16][b \div 16] \in 0..15 /\ XorNibble[a % 16][b % 16] \in 0..15
    BY <1>1, NibbleBits
  <2>2. QED BY <2>1 DEF Xor
<1>3. \A p \in {1, 2, 4, 8} : /\ BitAt(h, p) = (BitAt(a \div 16, p) + BitAt(b \div 16, p)) % 2
                              /\ BitAt(l, p) = (BitAt(a % 16, p) + BitAt(b % 16, p)) % 2
  <2>1. \A x, y \in 0..15 : \A p \in {1, 2, 4, 8} :
          BitAt(XorNibble[x][y], p) = (BitAt(x, p) + BitAt(y, p)) % 2
    BY NibbleBits
  <2>2. QED BY <1>1, <1>2, <2>1
<1>4. \A c \in Byte, x, y \in 0..15 : c = 16 * x + y =>
        \A p \in {1, 2, 4, 8} : BitAt(c, p) = BitAt(y, p) /\ BitAt(c, 16 * p) = BitAt(x, p)
  BY ByteBits
<1>5. Xor(a, b) \in Byte
  BY <1>2 DEF Byte
<1>6. \A p \in {1, 2, 4, 8, 16, 32, 64, 128} :
        BitAt(Xor(a, b), p) = (BitAt(a, p) + BitAt(b, p)) % 2
  <2>1. \A p \in {1, 2, 4, 8} :
          /\ BitAt(Xor(a, b), p) = BitAt(l, p) /\ BitAt(Xor(a, b), 16 * p) = BitAt(h, p)
          /\ BitAt(a, p) = BitAt(a % 16, p) /\ BitAt(a, 16 * p) = BitAt(a \div 16, p)
          /\ BitAt(b, p) = BitAt(b % 16, p) /\ BitAt(b, 16 * p) = BitAt(b \div 16, p)
    <3>1. Xor(a, b) = 16 * h + l /\ Xor(a, b) \in Byte
      BY <1>2, <1>5
    <3>2. \A p \in {1, 2, 4, 8} :
            BitAt(Xor(a, b), p) = BitAt(l, p) /\ BitAt(Xor(a, b), 16 * p) = BitAt(h, p)
      BY <1>4, <3>1
    <3>3. \A p \in {1, 2, 4, 8} :
            BitAt(a, p) = BitAt(a % 16, p) /\ BitAt(a, 16 * p) = BitAt(a \div 16, p)
      BY <1>1, <1>4
    <3>4. \A p \in {1, 2, 4, 8} :
            BitAt(b, p) = BitAt(b % 16, p) /\ BitAt(b, 16 * p) = BitAt(b \div 16, p)
      BY <1>1, <1>4
    <3>5. QED BY <3>2, <3>3, <3>4
  <2>2. QED BY <1>3, <2>1
<1>7. QED BY <1>5, <1>6

(* The same for the bits in the order the variant takes them.              *)
LEMMA BitsOfXor ==
  ASSUME NEW v, NEW a \in Byte, NEW b \in Byte
  PROVE  /\ BitsOf(v, a) \in [1..8 -> {0, 1}]
         /\ \A k \in 1..8 : BitsOf(v, Xor(a, b))[k] = (BitsOf(v, a)[k] + BitsOf(v, b)[k]) % 2
<1>1. \A k \in 1..8 : Weight[IF v \in Reflected THEN 9 - k ELSE k] \in {1, 2, 4, 8, 16, 32, 64, 128}
  BY DEF Weight
<1>2. \A p \in {1, 2, 4, 8, 16, 32, 64, 128} : BitAt(a, p) \in {0, 1}
  BY DEF BitAt, Byte
<1>3. \A c : BitsOf(v, c) = [k \in 1..8 |-> BitAt(c, Weight[IF v \in Reflected THEN 9 - k ELSE k])]
  BY DEF BitsOf, BitAt
<1>4. QED BY <1>1, <1>2, <1>3, XorBits

-----------------------------------------------------------------------------
(* A word is a sequence.                                                   *)
LEMMA FunctionIsSeq ==
  ASSUME NEW S, NEW n \in Nat, NEW w \in [1..n -> S]
  PROVE  w \in Seq(S) /\ Len(w) = n /\ DOMAIN w = 1..n
BY LenProperties, SeqDef

(* The registers of the six functions have two or four bytes.              *)
LEMMA Widths4 ==
  ASSUME NEW v
  PROVE  Width(v) \in {2, 4}
BY DEF Width

(* The exclusive or of two words, byte by byte.                            *)
LEMMA XorWordType ==
  ASSUME NEW n, NEW u \in Word(n), NEW w \in Word(n)
  PROVE  /\ XorWord(u, w) \in Word(n)
         /\ \A k \in 1..n : XorWord(u, w)[k] = Xor(u[k], w[k])
<1>1. \A k \in 1..n : Xor(u[k], w[k]) \in Byte
  BY XorBits DEF Word
<1>2. XorWord(u, w) = [k \in 1..n |-> Xor(u[k], w[k])]
  BY DEF XorWord, Word
<1>3. QED BY <1>1, <1>2 DEF Word

(* How the loops of the variant shift, and the byte they look up.          *)
Shift(v, w) == IF v \in Reflected THEN ShiftRight(w) ELSE ShiftLeft(w)
Lead(v, w)  == IF v \in Reflected THEN Last(w) ELSE Head(w)

(* What is shifted in is 0, what leaves is the byte that goes through the  *)
(* table.                                                                  *)
LEMMA ShiftForm ==
  ASSUME NEW v, NEW w \in Word(Width(v))
  PROVE  /\ Shift(v, w) \in Word(Width(v))
         /\ v \in Reflected => \A k \in 1..Width(v) : Shift(v, w)[k] = IF k = 1 THEN 0 ELSE w[k - 1]
         /\ v \notin Reflected =>
              \A k \in 1..Width(v) : Shift(v, w)[k] = IF k = Width(v) THEN 0 ELSE w[k + 1]
         /\ v \in Reflected => Lead(v, w) = w[Width(v)]
         /\ v \notin Reflected => Lead(v, w) = w[1]
         /\ Lead(v, w) \in Byte
<1>1. w \in Seq(Byte) /\ Len(w) = Width(v) /\ DOMAIN w = 1..Width(v) /\ w # << >>
  BY Widths4, FunctionIsSeq DEF Word
<1>2. Width(v) \in 2..4 /\ 0 \in Byte
  BY Widths4 DEF Byte
<1>3. CASE v \in Reflected
  <2>1. /\ Front(w) \in Seq(Byte) /\ Len(Front(w)) = Width(v) - 1
        /\ \A k \in 1..(Width(v) - 1) : Front(w)[k] = w[k]
    BY <1>1, <1>2 DEF Front
  <2>2. /\ <<0>> \in Seq(Byte) /\ Len(<<0>>) = 1 /\ <<0>>[1] = 0
    BY <1>2
  <2>3. /\ ShiftRight(w) \in Seq(Byte) /\ Len(ShiftRight(w)) = Width(v)
        /\ \A k \in 1..Width(v) : ShiftRight(w)[k] = IF k = 1 THEN 0 ELSE w[k - 1]
    <3>1. /\ <<0>> \o Front(w) \in Seq(Byte) /\ Len(<<0>> \o Front(w)) = Width(v)
          /\ \A k \in 1..Width(v) :
               (<<0>> \o Front(w))[k] = IF k <= 1 THEN <<0>>[k] ELSE Front(w)[k - 1]
      BY <1>2, <2>1, <2>2, ConcatProperties
    <3>2. \A k \in 1..Width(v) : k # 1 => k - 1 \in 1..(Width(v) - 1) /\ ~(k <= 1)
      BY <1>2
    <3>3. QED BY <2>1, <2>2, <3>1, <3>2 DEF ShiftRight
  <2>4. ShiftRight(w) \in Word(Width(v))
    BY <2>3, LenProperties DEF Word
  <2>5. Last(w) = w[Width(v)] /\ w[Width(v)] \in Byte
    BY <1>1, <1>2 DEF Last
  <2>6. QED BY <1>3, <2>3, <2>4, <2>5 DEF Shift, Lead
<1>4. CASE v \notin Reflected
  <2>1. /\ Tail(w) \in Seq(Byte) /\ Len(Tail(w)) = Width(v) - 1
        /\ \A k \in 1..(Width(v) - 1) : Tail(w)[k] = w[k + 1]
    BY <1>1, <1>2, HeadTailProperties
  <2>2. /\ ShiftLeft(w) \in Seq(Byte) /\ Len(ShiftLeft(w)) = Width(v)
        /\ \A k \in 1..Width(v) : ShiftLeft(w)[k] = IF k = Width(v) THEN 0 ELSE w[k + 1]
    <3>1. /\ Append(Tail(w), 0) \in Seq(Byte) /\ Len(Append(Tail(w), 0)) = Width(v)
          /\ \A k \in 1..(Width(v) - 1) : Append(Tail(w), 0)[k] = Tail(w)[k]
          /\ Append(Tail(w), 0)[Width(v)] = 0
      BY <1>2, <2>1, AppendProperties
    <3>2. \A k \in 1..Width(v) : k # Width(v) => k \in 1..(Width(v) - 1)
      BY <1>2
    <3>3. QED BY <2>1, <3>1, <3>2 DEF ShiftLeft
  <2>3. ShiftLeft(w) \in Word(Width(v))
    BY <2>2, LenProperties DEF Word
  <2>4. Head(w) = w[1] /\ w[1] \in Byte
    BY <1>1, <1>2
  <2>5. QED BY <1>4, <2>2, <2>3, <2>4 DEF Shift, Lead
<1>5. QED BY <1>3, <1>4

(* One byte through any of the six loops: the word shifted by a byte, plus *)
(* the entry of the table.                                                 *)
LEMMA StepForm ==
  ASSUME NEW v \in Variants, NEW w \in Word(Width(v)), NEW b \in Byte
  PROVE  /\ Step(v, w, b) = XorWord(Shift(v, w), Entry(v, Xor(Lead(v, w), b)))
         /\ Step(v, w, b) \in Word(Width(v))
         /\ Xor(Lead(v, w), b) \in Byte
<1>1. Step(v, w, b) = XorWord(Shift(v, w), Entry(v, Xor(Lead(v, w), b)))
  <2>1. CASE v = "arc"      BY <2>1 DEF Step, ArcStep, Shift, Lead, Entry, Reflected
  <2>2. CASE v = "kermit"   BY <2>2 DEF Step, KermitStep, Shift, Lead, Entry, Reflected
  <2>3. CASE v = "zip"      BY <2>3 DEF Step, ZipStep, Shift, Lead, Entry, Reflected
  <2>4. CASE v = "binhex"   BY <2>4 DEF Step, BinhexStep, Shift, Lead, Entry, Reflected
  <2>5. CASE v = "ccitt"    BY <2>5 DEF Step, CcittStep, Shift, Lead, Entry, Reflected
  <2>6. CASE v = "ccitt32"  BY <2>6 DEF Step, Ccitt32Step, Shift, Lead, Entry, Reflected
  <2>7. QED BY <2>1, <2>2, <2>3, <2>4, <2>5, <2>6 DEF Variants
<1>2. Xor(Lead(v, w), b) \in Byte
  BY ShiftForm, XorBits
<1>3. Entry(v, Xor(Lead(v, w), b)) \in Word(Width(v))
  BY <1>2, TableAssumption
<1>4. Shift(v, w) \in Word(Width(v))
  BY ShiftForm
<1>5. QED BY <1>1, <1>2, <1>3, <1>4, XorWordType

-----------------------------------------------------------------------------
(* The recursive functions of the model are what their equations say.      *)
LEMMA RunFacts ==
  ASSUME NEW v \in Variants, NEW w \in Word(Width(v)), NEW data \in Seq(Byte)
  PROVE  /\ Run(v, w, data)[0] = w
         /\ \A n \in 0..Len(data) : Run(v, w, data)[n] \in Word(Width(v))
         /\ \A n \in 0..(Len(data) - 1) :
              Run(v, w, data)[n + 1] = Step(v, Run(v, w, data)[n], data[n + 1])
<1> DEFINE L == Len(data)
           Body(f, m) == [n \in 0..m |-> IF n = 0 THEN w ELSE Step(v, f[n - 1], data[n])]
           T == { m \in Nat : m <= L => \E f : f = Body(f, m) }
<1>1. L \in Nat /\ \A n \in 1..L : data[n] \in Byte
  BY LenProperties
<1>2. 0 \in T
  <2> DEFINE f == [n \in 0..0 |-> w]
  <2>1. f = Body(f, 0)
    OBVIOUS
  <2> HIDE DEF Body, f
  <2>2. QED BY <2>1
<1>3. \A m \in Nat : m \in T => m + 1 \in T
  <2> SUFFICES ASSUME NEW m \in Nat, m \in T, m + 1 <= L PROVE \E f : f = Body(f, m + 1)
    BY <1>1
  <2>1. PICK f : f = Body(f, m)
    BY <1>1
  <2> DEFINE g == [n \in 0..(m + 1) |-> IF n <= m THEN f[n] ELSE Step(v, f[m], data[m + 1])]
  <2>2. \A n \in 0..m : f[n] = IF n = 0 THEN w ELSE Step(v, f[n - 1], data[n])
    BY <2>1
  <2>3. \A n \in 0..(m + 1) : g[n] = IF n = 0 THEN w ELSE Step(v, g[n - 1], data[n])
    <3> SUFFICES ASSUME NEW n \in 0..(m + 1)
                 PROVE  g[n] = IF n = 0 THEN w ELSE Step(v, g[n - 1], data[n])
      OBVIOUS
    <3>1. CASE n = 0
      BY <2>2, <3>1
    <3>2. CASE n # 0
      <4>1. n - 1 \in 0..(m + 1) /\ n - 1 <= m /\ (n <= m \/ n = m + 1)
        BY <3>2
      <4>2. g[n - 1] = f[n - 1]
        BY <4>1
      <4>3. CASE n <= m
        <5>1. g[n] = f[n] /\ n \in 0..m
          BY <4>3
        <5>2. QED BY <2>2, <3>2, <4>2, <5>1
      <4>4. CASE n = m + 1
        <5>1. g[n] = Step(v, f[m], data[m + 1]) /\ n - 1 = m
          BY <4>4
        <5>2. QED BY <3>2, <4>2, <4>4, <5>1
      <4>5. QED BY <4>1, <4>3, <4>4
    <3>3. QED BY <3>1, <3>2
  <2>4. g = Body(g, m + 1)
    <3> HIDE DEF g
    <3>1. g = [n \in 0..(m + 1) |-> g[n]]
      BY DEF g
    <3>2. QED BY <2>3, <3>1
  <2> HIDE DEF Body, g
  <2>5. QED BY <2>4
<1>4. \E f : f = Body(f, L)
  <2>1. L \in T
    <3> HIDE DEF T, L
    <3>1. QED BY <1>1, <1>2, <1>3, SetInduction
  <2> HIDE DEF Body, L
  <2>2. QED BY <1>1, <2>1
<1> DEFINE crc == Run(v, w, data)
<1>5. crc = Body(crc, L)
  BY <1>4 DEF Run
<1>6. \A n \in 0..L : crc[n] = IF n = 0 THEN w ELSE Step(v, crc[n - 1], data[n])
  <2> HIDE DEF crc
  <2>1. QED BY <1>5
<1>7. crc[0] = w /\ \A n \in 0..(L - 1) : crc[n + 1] = Step(v, crc[n], data[n + 1])
  <2> HIDE DEF crc, Body, L
  <2>1. \A n \in 0..(L - 1) : n + 1 \in 0..L /\ n + 1 # 0 /\ (n + 1) - 1 = n
    BY <1>1
  <2>2. \A n \in 0..(L - 1) : crc[n + 1] = Step(v, crc[n], data[n + 1])
    BY <1>6, <2>1
  <2>3. QED BY <1>1, <1>6, <2>2
<1> DEFINE U == { n \in Nat : n <= L => crc[n] \in Word(Width(v)) }
<1>8. 0 \in U
  BY <1>7
<1>9. \A n \in Nat : n \in U => n + 1 \in U
  <2> HIDE DEF crc, L
  <2> SUFFICES ASSUME NEW n \in Nat, n \in U, n + 1 <= L PROVE crc[n + 1] \in Word(Width(v))
    BY <1>1
  <2>1. n \in 0..(L - 1) /\ n + 1 \in 1..L /\ crc[n] \in Word(Width(v))
    BY <1>1
  <2>2. data[n + 1] \in Byte
    BY <1>1, <2>1
  <2>3. QED BY <1>7, <2>1, <2>2, StepForm
<1>10. \A n \in Nat : n \in U
  <2> HIDE DEF U
  <2>1. QED BY <1>8, <1>9, SetInduction
<1>11. \A n \in 0..L : crc[n] \in Word(Width(v))
  <2> HIDE DEF crc
  <2>1. QED BY <1>1, <1>10
<1>12. QED BY <1>7, <1>11

-----------------------------------------------------------------------------
(* Words as vectors of bits.                                               *)
Size(v) == 8 * Width(v)
Bits(v) == [1..Size(v) -> {0, 1}]

(* A polynomial is as long as the register.                                *)
LEMMA Sizes ==
  ASSUME NEW v
  PROVE  Size(v) \in {16, 32} /\ Polynomial(v) \in Bits(v)
<1>1. Size(v) \in {16, 32}
  BY Widths4 DEF Size
<1>2. QED BY <1>1 DEF Polynomial, Bits, Size

(* Vectors that agree in every bit are equal.                              *)
LEMMA SameBits ==
  ASSUME NEW v, NEW f \in Bits(v), NEW g \in Bits(v), \A k \in 1..Size(v) : f[k] = g[k]
  PROVE  f = g
<1>1. f = [k \in 1..Size(v) |-> f[k]] /\ g = [k \in 1..Size(v) |-> g[k]]
  BY DEF Bits
<1>2. QED BY <1>1

(* A message of n bytes has 8 * n bits.                                    *)
LEMMA MessageBitType ==
  ASSUME NEW v, NEW data \in Seq(Byte), NEW k \in 1..(8 * Len(data))
  PROVE  /\ ((k - 1) \div 8) + 1 \in 1..Len(data) /\ ((k - 1) % 8) + 1 \in 1..8
         /\ MessageBit(v, data, k) \in {0, 1}
<1>1. Len(data) \in Nat
  BY LenProperties
<1>2. ((k - 1) \div 8) + 1 \in 1..Len(data) /\ ((k - 1) % 8) + 1 \in 1..8
  BY <1>1
<1>3. data[((k - 1) \div 8) + 1] \in Byte
  BY <1>2
<1>4. BitsOf(v, data[((k - 1) \div 8) + 1]) \in [1..8 -> {0, 1}]
  BY <1>3, BitsOfXor
<1>5. QED BY <1>2, <1>4 DEF MessageBit

(* The bytes of a word in the order of division: reversed for the          *)
(* reflected variants.                                                     *)
LEMMA InOrderType ==
  ASSUME NEW v, NEW w \in Word(Width(v))
  PROVE  /\ InOrderOf(v, w) \in Seq(Byte) /\ Len(InOrderOf(v, w)) = Width(v)
         /\ v \in Reflected => \A i \in 1..Width(v) : InOrderOf(v, w)[i] = w[(Width(v) - i) + 1]
         /\ v \notin Reflected => InOrderOf(v, w) = w
<1>1. w \in Seq(Byte) /\ Len(w) = Width(v) /\ Width(v) \in Nat
  BY Widths4, FunctionIsSeq DEF Word
<1>2. CASE v \in Reflected
  <2>1. InOrderOf(v, w) = [i \in 1..Width(v) |-> w[(Width(v) - i) + 1]]
    BY <1>1, <1>2 DEF InOrderOf, Reverse
  <2>2. \A i \in 1..Width(v) : w[(Width(v) - i) + 1] \in Byte
    BY <1>1 DEF Word
  <2>3. InOrderOf(v, w) \in [1..Width(v) -> Byte]
    BY <2>1, <2>2
  <2>4. QED BY <1>1, <1>2, <2>1, <2>3, FunctionIsSeq
<1>3. CASE v \notin Reflected
  BY <1>1, <1>3 DEF InOrderOf
<1>4. QED BY <1>2, <1>3

(* The bits of a word are a vector as long as the register.                *)
LEMMA WordBitsType ==
  ASSUME NEW v, NEW w \in Word(Width(v))
  PROVE  WordBits(v, w) \in Bits(v)
<1>1. InOrderOf(v, w) \in Seq(Byte) /\ Len(InOrderOf(v, w)) = Width(v)
  BY InOrderType
<1>2. \A k \in 1..Size(v) : MessageBit(v, InOrderOf(v, w), k) \in {0, 1}
  BY <1>1, MessageBitType DEF Size
<1>3. QED BY <1>2 DEF WordBits, Bits, Size

(* One step of the long division, bit by bit.                              *)
LEMMA DivideForm ==
  ASSUME NEW v, NEW r \in Bits(v), NEW bit \in {0, 1}
  PROVE  /\ Divide(v, r, bit) \in Bits(v)
         /\ \A k \in 1..Size(v) :
              Divide(v, r, bit)[k] =
                ((IF k = Size(v) THEN 0 ELSE r[k + 1])
                 + (IF (r[1] + bit) % 2 = 1 THEN Polynomial(v)[k] ELSE 0)) % 2
<1> DEFINE shifted == Append(Tail(r), 0)
<1>1. r \in Seq({0, 1}) /\ Len(r) = Size(v) /\ r # << >> /\ Size(v) \in Nat \ {0}
  BY Sizes, FunctionIsSeq DEF Bits
<1>2. /\ Tail(r) \in Seq({0, 1}) /\ Len(Tail(r)) = Size(v) - 1
      /\ \A k \in 1..(Size(v) - 1) : Tail(r)[k] = r[k + 1]
  BY <1>1, HeadTailProperties
<1>3. /\ shifted \in Seq({0, 1}) /\ Len(shifted) = Size(v)
      /\ \A k \in 1..Size(v) : shifted[k] = IF k = Size(v) THEN 0 ELSE r[k + 1]
  <2>1. /\ shifted \in Seq({0, 1}) /\ Len(shifted) = (Size(v) - 1) + 1
        /\ \A k \in 1..(Size(v) - 1) : shifted[k] = Tail(r)[k]
        /\ shifted[(Size(v) - 1) + 1] = 0
    BY <1>2, AppendProperties
  <2>2. (Size(v) - 1) + 1 = Size(v)
        /\ \A k \in 1..Size(v) : k # Size(v) => k \in 1..(Size(v) - 1)
    BY <1>1
  <2> HIDE DEF shifted
  <2>3. QED BY <1>2, <2>1, <2>2
<1>4. DOMAIN shifted = 1..Size(v) /\ shifted \in Bits(v)
  <2> HIDE DEF shifted
  <2>1. QED BY <1>3, LenProperties DEF Bits
<1>5. Head(r) = r[1]
  BY <1>1
<1>6. Divide(v, r, bit) = IF (r[1] + bit) % 2 = 1 THEN Sum2(shifted, Polynomial(v)) ELSE shifted
  BY <1>5 DEF Divide
<1> HIDE DEF shifted
<1>7. /\ \A k \in 1..Size(v) : shifted[k] \in {0, 1} /\ Polynomial(v)[k] \in {0, 1}
      /\ shifted = [k \in 1..Size(v) |-> shifted[k]]
  BY <1>4, Sizes DEF Bits
<1>8. Sum2(shifted, Polynomial(v)) = [k \in 1..Size(v) |-> (shifted[k] + Polynomial(v)[k]) % 2]
  BY <1>4 DEF Sum2
<1>9. \A k \in 1..Size(v) : /\ (shifted[k] + Polynomial(v)[k]) % 2 \in {0, 1}
                            /\ (shifted[k] + 0) % 2 = shifted[k]
  BY <1>7
<1>10. CASE (r[1] + bit) % 2 = 1
  BY <1>3, <1>6, <1>8, <1>9, <1>10 DEF Bits
<1>11. CASE (r[1] + bit) % 2 # 1
  BY <1>3, <1>4, <1>6, <1>9, <1>11
<1>12. QED BY <1>10, <1>11

LEMMA DivisionFacts ==
  ASSUME NEW v, NEW w \in Word(Width(v)), NEW data \in Seq(Byte)
  PROVE  /\ Division(v, w, data)[0] = WordBits(v, w)
         /\ \A k \in 0..(8 * Len(data)) : Division(v, w, data)[k] \in Bits(v)
         /\ \A k \in 0..(8 * Len(data) - 1) :
              Division(v, w, data)[k + 1] =
                Divide(v, Division(v, w, data)[k], MessageBit(v, data, k + 1))
<1> DEFINE L == 8 * Len(data)
           Body(f, m) == [k \in 0..m |-> IF k = 0 THEN WordBits(v, w)
                                         ELSE Divide(v, f[k - 1], MessageBit(v, data, k))]
           T == { m \in Nat : m <= L => \E f : f = Body(f, m) }
<1>1. L \in Nat /\ \A n \in 1..L : MessageBit(v, data, n) \in {0, 1}
  BY LenProperties, MessageBitType
<1>2. 0 \in T
  <2> DEFINE f == [n \in 0..0 |-> WordBits(v, w)]
  <2>1. f = Body(f, 0)
    OBVIOUS
  <2> HIDE DEF Body, f
  <2>2. QED BY <2>1
<1>3. \A m \in Nat : m \in T => m + 1 \in T
  <2> HIDE DEF L
  <2> SUFFICES ASSUME NEW m \in Nat, m \in T, m + 1 <= L PROVE \E f : f = Body(f, m + 1)
    <3> HIDE DEF Body
    <3>1. QED BY <1>1
  <2>1. PICK f : f = Body(f, m)
    BY <1>1
  <2> DEFINE g == [n \in 0..(m + 1) |->
                     IF n <= m THEN f[n] ELSE Divide(v, f[m], MessageBit(v, data, m + 1))]
             Next(h, n) == Divide(v, h[n - 1], MessageBit(v, data, n))
  <2>2. \A n \in 0..m : f[n] = IF n = 0 THEN WordBits(v, w) ELSE Next(f, n)
    BY <2>1
  <2>3. \A n \in 0..(m + 1) : g[n] = IF n = 0 THEN WordBits(v, w) ELSE Next(g, n)
    <3> SUFFICES ASSUME NEW n \in 0..(m + 1)
                 PROVE  g[n] = IF n = 0 THEN WordBits(v, w) ELSE Next(g, n)
      OBVIOUS
    <3>1. CASE n = 0
      BY <2>2, <3>1
    <3>2. CASE n # 0
      <4>1. n - 1 \in 0..(m + 1) /\ n - 1 <= m /\ (n <= m \/ n = m + 1)
        BY <3>2
      <4>2. g[n - 1] = f[n - 1]
        BY <4>1
      <4>3. CASE n <= m
        <5>1. g[n] = f[n] /\ n \in 0..m
          BY <4>3
        <5>2. QED BY <2>2, <3>2, <4>2, <5>1
      <4>4. CASE n = m + 1
        <5>1. g[n] = Divide(v, f[m], MessageBit(v, data, m + 1)) /\ n - 1 = m
          BY <4>4
        <5>2. QED BY <3>2, <4>2, <4>4, <5>1
      <4>5. QED BY <4>1, <4>3, <4>4
    <3>3. QED BY <3>1, <3>2
  <2>4. g = Body(g, m + 1)
    <3> HIDE DEF g
    <3>1. g = [n \in 0..(m + 1) |-> g[n]]
      BY DEF g
    <3>2. QED BY <2>3, <3>1
  <2> HIDE DEF Body, g
  <2>5. QED BY <2>4
<1>4. \E f : f = Body(f, L)
  <2>1. L \in T
    <3> HIDE DEF T, L
    <3>1. QED BY <1>1, <1>2, <1>3, SetInduction
  <2> HIDE DEF Body, L
  <2>2. QED BY <1>1, <2>1
<1> DEFINE rem == Division(v, w, data)
<1>5. rem = Body(rem, L)
  BY <1>4 DEF Division
<1>6. \A n \in 0..L : rem[n] = IF n = 0 THEN WordBits(v, w)
                               ELSE Divide(v, rem[n - 1], MessageBit(v, data, n))
  <2> HIDE DEF rem
  <2>1. QED BY <1>5
<1>7. /\ rem[0] = WordBits(v, w)
      /\ \A n \in 0..(L - 1) : rem[n + 1] = Divide(v, rem[n], MessageBit(v, data, n + 1))
  <2> HIDE DEF rem, Body, L
  <2>1. \A n \in 0..(L - 1) : n + 1 \in 0..L /\ n + 1 # 0 /\ (n + 1) - 1 = n
    BY <1>1
  <2>2. \A n \in 0..(L - 1) : rem[n + 1] = Divide(v, rem[n], MessageBit(v, data, n + 1))
    BY <1>6, <2>1
  <2>3. QED BY <1>1, <1>6, <2>2
<1> DEFINE U == { n \in Nat : n <= L => rem[n] \in Bits(v) }
<1>8. 0 \in U
  BY <1>7, WordBitsType
<1>9. \A n \in Nat : n \in U => n + 1 \in U
  <2> HIDE DEF rem, L
  <2> SUFFICES ASSUME NEW n \in Nat, n \in U, n + 1 <= L PROVE rem[n + 1] \in Bits(v)
    BY <1>1
  <2>1. n \in 0..(L - 1) /\ n + 1 \in 1..L /\ rem[n] \in Bits(v)
    BY <1>1
  <2>2. MessageBit(v, data, n + 1) \in {0, 1}
    BY <1>1, <2>1
  <2>3. QED BY <1>7, <2>1, <2>2, DivideForm
<1>10. \A n \in Nat : n \in U
  <2> HIDE DEF U
  <2>1. QED BY <1>8, <1>9, SetInduction
<1>11. \A n \in 0..L : rem[n] \in Bits(v)
  <2> HIDE DEF rem
  <2>1. QED BY <1>1, <1>10
<1>12. QED BY <1>7, <1>11

-----------------------------------------------------------------------------
(* A word that has lost its first j bits.                                  *)
Shifted(v, r, j) == [k \in 1..Size(v) |-> IF k + j <= Size(v) THEN r[k + j] ELSE 0]

(* s is the sum of what is left of r and of q.                             *)
IsSum(v, s, r, j, q) == \A k \in 1..Size(v) : s[k] = (Shifted(v, r, j)[k] + q[k]) % 2

(* Division is linear: if s is r without its first j bits plus q, then a   *)
(* step takes s to r without j + 1 bits plus what a step makes of q, with  *)
(* the bit that leaves r added to the bit of the message.                  *)
LEMMA DivideShifted ==
  ASSUME NEW v, NEW r \in Bits(v), NEW q \in Bits(v), NEW s \in Bits(v), NEW bit \in {0, 1},
         NEW j \in Nat, j < Size(v), IsSum(v, s, r, j, q)
  PROVE  IsSum(v, Divide(v, s, bit), r, j + 1, Divide(v, q, (r[j + 1] + bit) % 2))
<1> DEFINE z == Size(v)
           p == Polynomial(v)
           c == (r[j + 1] + bit) % 2
<1>1. z \in Nat \ {0} /\ 1 \in 1..z /\ j + 1 \in 1..z
  BY Sizes
<1>2. /\ \A k \in 1..z : r[k] \in {0, 1} /\ q[k] \in {0, 1} /\ s[k] \in {0, 1} /\ p[k] \in {0, 1}
      /\ c \in {0, 1}
  <2>1. Polynomial(v) \in [1..z -> {0, 1}]
    BY Sizes DEF Bits
  <2>2. r \in [1..z -> {0, 1}] /\ q \in [1..z -> {0, 1}] /\ s \in [1..z -> {0, 1}]
    BY DEF Bits
  <2> HIDE DEF z
  <2>3. r[j + 1] \in {0, 1}
    BY <1>1, <2>2
  <2>4. c \in {0, 1}
    BY <2>3
  <2>5. QED BY <2>1, <2>2, <2>4
<1>3. /\ \A k \in 1..z : Divide(v, s, bit)[k] =
           ((IF k = z THEN 0 ELSE s[k + 1]) + (IF (s[1] + bit) % 2 = 1 THEN p[k] ELSE 0)) % 2
      /\ \A k \in 1..z : Divide(v, q, c)[k] =
           ((IF k = z THEN 0 ELSE q[k + 1]) + (IF (q[1] + c) % 2 = 1 THEN p[k] ELSE 0)) % 2
  BY <1>2, DivideForm
<1>4. (s[1] + bit) % 2 = (q[1] + c) % 2
  <2>1. s[1] = (r[j + 1] + q[1]) % 2
    BY <1>1 DEF Shifted, IsSum
  <2>2. r[j + 1] \in {0, 1} /\ q[1] \in {0, 1}
    BY <1>1, <1>2
  <2>3. QED BY <2>1, <2>2
<1>5. \A k \in 1..z : k # z =>
        k + 1 \in 1..z /\ s[k + 1] = (Shifted(v, r, j + 1)[k] + q[k + 1]) % 2
  BY <1>1 DEF Shifted, IsSum
<1>6. Shifted(v, r, j + 1)[z] = 0 /\ \A k \in 1..z : Shifted(v, r, j + 1)[k] \in {0, 1}
  BY <1>1, <1>2 DEF Shifted
<1> HIDE DEF z, p, c
<1>7. ASSUME NEW k \in 1..z
      PROVE  Divide(v, s, bit)[k] = (Shifted(v, r, j + 1)[k] + Divide(v, q, c)[k]) % 2
  <2> DEFINE t == IF (q[1] + c) % 2 = 1 THEN p[k] ELSE 0
  <2>1. t \in {0, 1}
    BY <1>2
  <2>2. Divide(v, s, bit)[k] = ((IF k = z THEN 0 ELSE s[k + 1]) + t) % 2
    BY <1>3, <1>4
  <2>3. Divide(v, q, c)[k] = ((IF k = z THEN 0 ELSE q[k + 1]) + t) % 2
    BY <1>3
  <2> HIDE DEF t
  <2>4. CASE k = z
    BY <1>6, <2>1, <2>2, <2>3, <2>4
  <2>5. CASE k # z
    <3>1. PICK x \in {0, 1}, y \in {0, 1} : /\ x = Shifted(v, r, j + 1)[k] /\ y = q[k + 1]
                                            /\ s[k + 1] = (x + y) % 2
      BY <1>2, <1>5, <1>6, <2>5
    <3>2. Divide(v, s, bit)[k] = (((x + y) % 2) + t) % 2 /\ Divide(v, q, c)[k] = (y + t) % 2
      BY <2>2, <2>3, <2>5, <3>1
    <3>3. (((x + y) % 2) + t) % 2 = (x + ((y + t) % 2)) % 2
      BY <2>1
    <3>4. QED BY <3>1, <3>2, <3>3
  <2>6. QED BY <2>4, <2>5
<1>8. QED BY <1>7 DEF z, c, IsSum

(* One byte through the loop moves the bytes of the word towards the       *)
(* message and adds the entry of the table, whatever the direction of the  *)
(* shift.                                                                  *)
LEMMA InOrderStep ==
  ASSUME NEW v \in Variants, NEW w \in Word(Width(v)), NEW b \in Byte,
         NEW x, x = Xor(Lead(v, w), b)
  PROVE  /\ x \in Byte /\ Lead(v, w) = InOrderOf(v, w)[1]
         /\ \A i \in 1..Width(v) :
              InOrderOf(v, Step(v, w, b))[i] =
                Xor(IF i = Width(v) THEN 0 ELSE InOrderOf(v, w)[i + 1],
                    InOrderOf(v, Entry(v, x))[i])
<1> DEFINE W == Width(v)
           e == Entry(v, x)
           u == Shift(v, w)
<1>1. W \in 2..4 /\ 1 \in 1..W /\ W \in 1..W /\ (W - 1) + 1 = W
  BY Widths4
<1>2. x \in Byte /\ e \in Word(W) /\ Step(v, w, b) \in Word(W) /\ u \in Word(W)
  BY StepForm, ShiftForm, TableAssumption
<1>3. \A i \in 1..W : Step(v, w, b)[i] = Xor(u[i], e[i])
  BY <1>2, StepForm, XorWordType
<1> HIDE DEF W, e, u
<1>4. CASE v \in Reflected
  <2>1. \A i \in 1..W : /\ (W - i) + 1 \in 1..W
                        /\ InOrderOf(v, Step(v, w, b))[i] = Step(v, w, b)[(W - i) + 1]
                        /\ InOrderOf(v, e)[i] = e[(W - i) + 1]
                        /\ InOrderOf(v, w)[i] = w[(W - i) + 1]
    <3>1. \A a \in Word(W) : \A i \in 1..W : InOrderOf(v, a)[i] = a[(W - i) + 1]
      BY <1>4, InOrderType DEF W
    <3>2. \A i \in 1..W : (W - i) + 1 \in 1..W
      BY <1>1
    <3>3. w \in Word(W)
      BY DEF W
    <3>4. /\ \A i \in 1..W : InOrderOf(v, Step(v, w, b))[i] = Step(v, w, b)[(W - i) + 1]
          /\ \A i \in 1..W : InOrderOf(v, e)[i] = e[(W - i) + 1]
          /\ \A i \in 1..W : InOrderOf(v, w)[i] = w[(W - i) + 1]
      BY <1>2, <3>1, <3>3
    <3>5. QED BY <3>2, <3>4
  <2>2. /\ \A i \in 1..W : u[i] = IF i = 1 THEN 0 ELSE w[i - 1]
        /\ Lead(v, w) = w[W]
    BY <1>4, ShiftForm DEF W, u
  <2>3. ASSUME NEW i \in 1..W
        PROVE  u[(W - i) + 1] = IF i = W THEN 0 ELSE InOrderOf(v, w)[i + 1]
    <3>1. (W - i) + 1 \in 1..W /\ ((W - i) + 1 = 1 <=> i = W)
      BY <1>1
    <3>2. CASE i = W
      BY <2>2, <3>1, <3>2
    <3>3. CASE i # W
      <4>1. i + 1 \in 1..W /\ (W - (i + 1)) + 1 = ((W - i) + 1) - 1
        BY <1>1, <3>3
      <4>2. InOrderOf(v, w)[i + 1] = w[((W - i) + 1) - 1]
        BY <2>1, <4>1
      <4>3. QED BY <2>2, <3>1, <3>3, <4>2
    <3>4. QED BY <3>2, <3>3
  <2>4. \A i \in 1..W : InOrderOf(v, Step(v, w, b))[i] = Xor(u[(W - i) + 1], InOrderOf(v, e)[i])
    BY <1>3, <2>1
  <2>5. InOrderOf(v, w)[1] = w[W]
    BY <1>1, <2>1
  <2>6. QED BY <1>2, <2>2, <2>3, <2>4, <2>5 DEF W, e
<1>5. CASE v \notin Reflected
  <2>1. /\ InOrderOf(v, Step(v, w, b)) = Step(v, w, b)
        /\ InOrderOf(v, e) = e /\ InOrderOf(v, w) = w
    BY <1>2, <1>5, InOrderType DEF W
  <2>2. /\ \A i \in 1..W : u[i] = IF i = W THEN 0 ELSE w[i + 1]
        /\ Lead(v, w) = w[1]
    BY <1>5, ShiftForm DEF W, u
  <2>3. QED BY <1>2, <1>3, <2>1, <2>2 DEF W, e
<1>6. QED BY <1>4, <1>5

(* The bits of 0 are 0.                                                    *)
LEMMA ZeroBits ==
  ASSUME NEW v
  PROVE  0 \in Byte /\ \A k \in 1..8 : BitsOf(v, 0)[k] = 0
<1>1. \A k \in 1..8 : Weight[IF v \in Reflected THEN 9 - k ELSE k] \in {1, 2, 4, 8, 16, 32, 64, 128}
  BY DEF Weight
<1>2. \A p \in {1, 2, 4, 8, 16, 32, 64, 128} : (0 \div p) % 2 = 0
  OBVIOUS
<1>3. QED BY <1>1, <1>2 DEF BitsOf, Byte

(* Where bit k of a word is.                                               *)
LEMMA BitPlace ==
  ASSUME NEW v, NEW k \in 1..Size(v)
  PROVE  \E i \in 1..Width(v), m \in 1..8 :
           /\ i = ((k - 1) \div 8) + 1 /\ m = ((k - 1) % 8) + 1 /\ k = 8 * (i - 1) + m
           /\ \A w : WordBits(v, w)[k] = BitsOf(v, InOrderOf(v, w)[i])[m]
<1>1. Width(v) \in {2, 4} /\ Size(v) = 8 * Width(v)
  BY Widths4 DEF Size
<1>2. PICK i \in 1..Width(v), m \in 1..8 :
        i = ((k - 1) \div 8) + 1 /\ m = ((k - 1) % 8) + 1 /\ k = 8 * (i - 1) + m
  BY <1>1
<1>3. \A w : WordBits(v, w)[k] = BitsOf(v, InOrderOf(v, w)[i])[m]
  BY <1>1, <1>2 DEF WordBits, MessageBit
<1>4. QED BY <1>2, <1>3

(* One byte through the loop, as bits.                                     *)
LEMMA StepBits ==
  ASSUME NEW v \in Variants, NEW w \in Word(Width(v)), NEW b \in Byte,
         NEW x, x = Xor(Lead(v, w), b)
  PROVE  /\ x \in Byte
         /\ \A j \in 1..8 : BitsOf(v, x)[j] = (WordBits(v, w)[j] + BitsOf(v, b)[j]) % 2
         /\ \A k \in 1..Size(v) :
              WordBits(v, Step(v, w, b))[k] =
                (Shifted(v, WordBits(v, w), 8)[k] + WordBits(v, Entry(v, x))[k]) % 2
<1> DEFINE W == Width(v)
           r == WordBits(v, w)
           e == Entry(v, x)
<1>1. W \in {2, 4} /\ Size(v) = 8 * W
  BY Widths4 DEF Size
<1>2. /\ x \in Byte /\ Lead(v, w) = InOrderOf(v, w)[1] /\ e \in Word(W)
      /\ \A i \in 1..W : InOrderOf(v, Step(v, w, b))[i] =
                           Xor(IF i = W THEN 0 ELSE InOrderOf(v, w)[i + 1], InOrderOf(v, e)[i])
  <2>1. /\ x \in Byte /\ Lead(v, w) = InOrderOf(v, w)[1]
        /\ \A i \in 1..W : InOrderOf(v, Step(v, w, b))[i] =
                             Xor(IF i = W THEN 0 ELSE InOrderOf(v, w)[i + 1], InOrderOf(v, e)[i])
    BY InOrderStep
  <2>2. e \in Word(W)
    BY <2>1, TableAssumption
  <2>3. QED BY <2>1, <2>2
<1>3. /\ \A i \in 1..W : InOrderOf(v, w)[i] \in Byte
      /\ \A i \in 1..W : InOrderOf(v, e)[i] \in Byte
  BY <1>2, InOrderType
<1>4. \A j \in 1..8 : BitsOf(v, x)[j] = (r[j] + BitsOf(v, b)[j]) % 2
  <2> SUFFICES ASSUME NEW j \in 1..8 PROVE BitsOf(v, x)[j] = (r[j] + BitsOf(v, b)[j]) % 2
    OBVIOUS
  <2>1. j \in 1..Size(v) /\ ((j - 1) \div 8) + 1 = 1 /\ ((j - 1) % 8) + 1 = j
    BY <1>1
  <2>2. r[j] = BitsOf(v, InOrderOf(v, w)[1])[j]
    BY <2>1, BitPlace
  <2>3. Lead(v, w) \in Byte
    BY ShiftForm
  <2>4. QED BY <1>2, <2>2, <2>3, BitsOfXor
<1> HIDE DEF r, e
<1>5. ASSUME NEW k \in 1..Size(v)
      PROVE  WordBits(v, Step(v, w, b))[k] = (Shifted(v, r, 8)[k] + WordBits(v, e)[k]) % 2
  <2>1. PICK i \in 1..W, m \in 1..8 :
          /\ i = ((k - 1) \div 8) + 1 /\ m = ((k - 1) % 8) + 1 /\ k = 8 * (i - 1) + m
          /\ \A a : WordBits(v, a)[k] = BitsOf(v, InOrderOf(v, a)[i])[m]
    BY BitPlace
  <2> DEFINE y == IF i = W THEN 0 ELSE InOrderOf(v, w)[i + 1]
  <2>2. y \in Byte
    BY <1>1, <1>3, ZeroBits
  <2>3. WordBits(v, Step(v, w, b))[k] = (BitsOf(v, y)[m] + WordBits(v, e)[k]) % 2
    <3>1. WordBits(v, Step(v, w, b))[k] = BitsOf(v, Xor(y, InOrderOf(v, e)[i]))[m]
      BY <1>2, <2>1
    <3> HIDE DEF y
    <3>2. BitsOf(v, Xor(y, InOrderOf(v, e)[i]))[m]
            = (BitsOf(v, y)[m] + BitsOf(v, InOrderOf(v, e)[i])[m]) % 2
      BY <1>3, <2>2, BitsOfXor
    <3>3. QED BY <2>1, <3>1, <3>2
  <2>4. BitsOf(v, y)[m] = Shifted(v, r, 8)[k]
    <3>1. CASE i = W
      <4>1. ~(k + 8 <= Size(v))
        BY <1>1, <2>1, <3>1
      <4>2. QED BY <3>1, <4>1, ZeroBits DEF Shifted
    <3>2. CASE i # W
      <4>1. /\ i + 1 \in 1..W /\ k + 8 \in 1..Size(v)
            /\ (((k + 8) - 1) \div 8) + 1 = i + 1 /\ (((k + 8) - 1) % 8) + 1 = m
        BY <1>1, <2>1, <3>2
      <4>2. r[k + 8] = BitsOf(v, InOrderOf(v, w)[i + 1])[m]
        BY <4>1, BitPlace DEF r
      <4>3. QED BY <1>1, <3>2, <4>1, <4>2 DEF Shifted
    <3>3. QED BY <3>1, <3>2
  <2>5. QED BY <2>3, <2>4
<1>6. QED BY <1>2, <1>4, <1>5 DEF r, e

(* A word of equal bytes.                                                  *)
LEMMA FilledType ==
  ASSUME NEW v, NEW b \in Byte
  PROVE  Filled(b, Width(v)) \in Word(Width(v))
BY DEF Filled, Word

(* The bits of the word of zeros are 0.                                    *)
LEMMA ZeroWordBits ==
  ASSUME NEW v, NEW k \in 1..Size(v)
  PROVE  WordBits(v, Filled(0, Width(v)))[k] = 0
<1> DEFINE w == Filled(0, Width(v))
<1>1. Width(v) \in Nat /\ w \in Word(Width(v))
  BY Widths4, FilledType, ZeroBits
<1>2. \A i \in 1..Width(v) : w[i] = 0 /\ (Width(v) - i) + 1 \in 1..Width(v)
  BY <1>1 DEF Filled
<1>3. \A i \in 1..Width(v) : InOrderOf(v, w)[i] = 0
  <2> HIDE DEF w
  <2>1. CASE v \in Reflected      BY <1>1, <1>2, <2>1, InOrderType
  <2>2. CASE v \notin Reflected   BY <1>1, <1>2, <2>2, InOrderType
  <2>3. QED BY <2>1, <2>2
<1> HIDE DEF w
<1>4. PICK i \in 1..Width(v), m \in 1..8 : WordBits(v, w)[k] = BitsOf(v, InOrderOf(v, w)[i])[m]
  BY BitPlace
<1>5. QED BY <1>3, <1>4, ZeroBits DEF w

(* Eight steps of the division do to the remainder what one step of the    *)
(* loop does to the word: the bits that leave the word act on the rest as  *)
(* the remainder of the byte they form with the message, which is the      *)
(* entry of the table.                                                     *)
LEMMA EightSteps ==
  ASSUME NEW v \in Variants, NEW w \in Word(Width(v)), NEW b \in Byte,
         NEW p, p[0] = WordBits(v, w), \A j \in 0..8 : p[j] \in Bits(v),
         \A j \in 0..7 : p[j + 1] = Divide(v, p[j], BitsOf(v, b)[j + 1])
  PROVE  p[8] = WordBits(v, Step(v, w, b))
<1> DEFINE x == Xor(Lead(v, w), b)
           r == WordBits(v, w)
           zero == Filled(0, Width(v))
           q == Division(v, zero, <<x>>)
           T == { j \in Nat : j <= 8 =>
                    \A k \in 1..Size(v) : p[j][k] = (Shifted(v, r, j)[k] + q[j][k]) % 2 }
<1>1. /\ x \in Byte /\ r \in Bits(v) /\ zero \in Word(Width(v)) /\ Step(v, w, b) \in Word(Width(v))
      /\ Size(v) \in {16, 32}
  BY StepBits, WordBitsType, FilledType, ZeroBits, StepForm, Sizes
<1>2. <<x>> \in Seq(Byte) /\ Len(<<x>>) = 1 /\ <<x>>[1] = x
  BY <1>1
<1>3. /\ q[0] = WordBits(v, zero) /\ \A j \in 0..8 : q[j] \in Bits(v)
      /\ \A j \in 0..7 : q[j + 1] = Divide(v, q[j], MessageBit(v, <<x>>, j + 1))
  <2> HIDE DEF x, zero
  <2>1. /\ q[0] = WordBits(v, zero) /\ \A k \in 0..(8 * 1) : q[k] \in Bits(v)
        /\ \A k \in 0..(8 * 1 - 1) : q[k + 1] = Divide(v, q[k], MessageBit(v, <<x>>, k + 1))
    BY <1>1, <1>2, DivisionFacts
  <2> HIDE DEF q
  <2>2. QED BY <2>1
<1>4. \A j \in 0..7 : /\ MessageBit(v, <<x>>, j + 1) = (r[j + 1] + BitsOf(v, b)[j + 1]) % 2
                      /\ BitsOf(v, b)[j + 1] \in {0, 1}
  <2> HIDE DEF x, r
  <2> SUFFICES ASSUME NEW j \in 0..7
               PROVE  /\ MessageBit(v, <<x>>, j + 1) = (r[j + 1] + BitsOf(v, b)[j + 1]) % 2
                      /\ BitsOf(v, b)[j + 1] \in {0, 1}
    OBVIOUS
  <2>1. /\ j + 1 \in 1..8 /\ (((j + 1) - 1) \div 8) + 1 = 1 /\ (((j + 1) - 1) % 8) + 1 = j + 1
    OBVIOUS
  <2>2. MessageBit(v, <<x>>, j + 1) = BitsOf(v, x)[j + 1]
    BY <1>2, <2>1 DEF MessageBit
  <2>3. BitsOf(v, x)[j + 1] = (r[j + 1] + BitsOf(v, b)[j + 1]) % 2
    BY <2>1, StepBits DEF x, r
  <2>4. BitsOf(v, b)[j + 1] \in {0, 1}
    BY <2>1, BitsOfXor
  <2>5. QED BY <2>2, <2>3, <2>4
<1>5. q[8] = WordBits(v, Entry(v, x))
  <2>1. q[8] = Remainder(v, zero, <<x>>)
    <3>1. 8 * Len(<<x>>) = 8
      BY <1>2
    <3>2. QED BY <3>1 DEF Remainder
  <2> HIDE DEF x
  <2>2. QED BY <1>1, <2>1, TableAssumption
<1> HIDE DEF q, r, x
<1>6. 0 \in T
  <2> SUFFICES ASSUME NEW k \in 1..Size(v) PROVE p[0][k] = (Shifted(v, r, 0)[k] + q[0][k]) % 2
    OBVIOUS
  <2>1. q[0][k] = 0
    BY <1>3, ZeroWordBits
  <2>2. Shifted(v, r, 0)[k] = r[k] /\ r[k] \in {0, 1}
    <3>1. k + 0 = k /\ k <= Size(v)
      BY <1>1
    <3>2. Shifted(v, r, 0)[k] = r[k]
      BY <3>1 DEF Shifted
    <3>3. QED BY <1>1, <3>2 DEF Bits
  <2>3. QED BY <2>1, <2>2 DEF r
<1>7. \A j \in Nat : j \in T => j + 1 \in T
  <2> SUFFICES ASSUME NEW j \in Nat, j \in T, j + 1 <= 8
               PROVE  \A k \in 1..Size(v) : p[j + 1][k] = (Shifted(v, r, j + 1)[k] + q[j + 1][k]) % 2
    OBVIOUS
  <2> DEFINE bit == BitsOf(v, b)[j + 1]
  <2>1. j \in 0..7 /\ j \in 0..8 /\ j < Size(v)
    BY <1>1
  <2>2. /\ p[j] \in Bits(v) /\ q[j] \in Bits(v) /\ bit \in {0, 1}
        /\ \A k \in 1..Size(v) : p[j][k] = (Shifted(v, r, j)[k] + q[j][k]) % 2
    BY <1>3, <1>4, <2>1
  <2>3. p[j + 1] = Divide(v, p[j], bit) /\ q[j + 1] = Divide(v, q[j], (r[j + 1] + bit) % 2)
    BY <1>3, <1>4, <2>1
  <2> HIDE DEF T, bit
  <2>4. \A k \in 1..Size(v) :
          Divide(v, p[j], bit)[k] =
            (Shifted(v, r, j + 1)[k] + Divide(v, q[j], (r[j + 1] + bit) % 2)[k]) % 2
    <3>1. IsSum(v, p[j], r, j, q[j])
      BY <2>2 DEF IsSum
    <3>2. IsSum(v, Divide(v, p[j], bit), r, j + 1, Divide(v, q[j], (r[j + 1] + bit) % 2))
      BY <1>1, <2>1, <2>2, <3>1, DivideShifted
    <3>3. QED BY <3>2 DEF IsSum
  <2>5. QED BY <2>3, <2>4
<1>8. \A j \in Nat : j \in T
  <2> HIDE DEF T
  <2>1. QED BY <1>6, <1>7, SetInduction
<1>9. \A k \in 1..Size(v) : p[8][k] = (Shifted(v, r, 8)[k] + q[8][k]) % 2
  BY <1>8
<1>10. \A k \in 1..Size(v) : p[8][k] = WordBits(v, Step(v, w, b))[k]
  BY <1>5, <1>9, StepBits DEF r, x
<1>11. p[8] \in Bits(v) /\ WordBits(v, Step(v, w, b)) \in Bits(v)
  BY <1>1, WordBitsType
<1>12. QED BY <1>10, <1>11, SameBits

(* The division of a longer message begins with that of its first part.    *)
LEMMA DivisionPrefix ==
  ASSUME NEW v, NEW w \in Word(Width(v)), NEW a \in Seq(Byte), NEW b \in Seq(Byte)
  PROVE  \A k \in 0..(8 * Len(a)) : Division(v, w, a \o b)[k] = Division(v, w, a)[k]
<1> DEFINE L == 8 * Len(a)
           f == Division(v, w, a)
           g == Division(v, w, a \o b)
           T == { k \in Nat : k <= L => g[k] = f[k] }
<1>1. /\ Len(a) \in Nat /\ Len(b) \in Nat /\ a \o b \in Seq(Byte)
      /\ Len(a \o b) = Len(a) + Len(b)
      /\ \A i \in 1..Len(a) : (a \o b)[i] = a[i]
  <2>1. Len(a) \in Nat /\ Len(b) \in Nat
    BY LenProperties
  <2>2. QED BY <2>1, ConcatProperties
<1>2. \A k \in 1..L : MessageBit(v, a \o b, k) = MessageBit(v, a, k)
  BY <1>1, MessageBitType DEF MessageBit
<1>3. /\ f[0] = WordBits(v, w) /\ \A k \in 0..(L - 1) : f[k + 1] = Divide(v, f[k], MessageBit(v, a, k + 1))
      /\ g[0] = WordBits(v, w)
      /\ \A k \in 0..(8 * Len(a \o b) - 1) : g[k + 1] = Divide(v, g[k], MessageBit(v, a \o b, k + 1))
  BY <1>1, DivisionFacts
<1>4. 8 * Len(a \o b) >= L /\ L \in Nat /\ 8 * Len(a \o b) \in Nat
  BY <1>1
<1> HIDE DEF f, g, L
<1>5. 0 \in T
  BY <1>3
<1>6. \A k \in Nat : k \in T => k + 1 \in T
  <2> SUFFICES ASSUME NEW k \in Nat, k \in T, k + 1 <= L PROVE g[k + 1] = f[k + 1]
    OBVIOUS
  <2>1. k \in 0..(L - 1) /\ k + 1 \in 1..L /\ k \in 0..(8 * Len(a \o b) - 1) /\ g[k] = f[k]
    BY <1>4
  <2>2. QED BY <1>2, <1>3, <2>1
<1>7. \A k \in Nat : k \in T
  <2> HIDE DEF T
  <2>1. QED BY <1>5, <1>6, SetInduction
<1>8. QED BY <1>4, <1>7 DEF f, g, L

(* Induction over the bytes of a chunk.                                    *)
LEMMA LoopDivides ==
  ASSUME NEW v \in Variants, NEW start \in Word(Width(v)), NEW w \in Word(Width(v)),
         NEW a \in Seq(Byte), NEW b \in Seq(Byte),
         WordBits(v, w) = Remainder(v, start, a)
  PROVE  /\ Loop(v, w, b) \in Word(Width(v))
         /\ WordBits(v, Loop(v, w, b)) = Remainder(v, start, a \o b)
<1> DEFINE crc == Run(v, w, b)
           rem == Division(v, start, a \o b)
           at(n) == 8 * (Len(a) + n)
           T == { n \in Nat : n <= Len(b) => WordBits(v, crc[n]) = rem[at(n)] }
<1>1. /\ Len(a) \in Nat /\ Len(b) \in Nat /\ a \o b \in Seq(Byte)
      /\ Len(a \o b) = Len(a) + Len(b)
      /\ \A i \in 1..Len(b) : b[i] \in Byte /\ (a \o b)[Len(a) + i] = b[i]
  <2>1. Len(a) \in Nat /\ Len(b) \in Nat
    BY LenProperties
  <2>2. /\ a \o b \in Seq(Byte) /\ Len(a \o b) = Len(a) + Len(b)
        /\ \A i \in 1..(Len(a) + Len(b)) : (a \o b)[i] = IF i <= Len(a) THEN a[i] ELSE b[i - Len(a)]
    BY <2>1, ConcatProperties
  <2>3. ASSUME NEW i \in 1..Len(b)
        PROVE  b[i] \in Byte /\ (a \o b)[Len(a) + i] = b[i]
    <3>1. Len(a) + i \in 1..(Len(a) + Len(b)) /\ ~(Len(a) + i <= Len(a)) /\ (Len(a) + i) - Len(a) = i
      BY <2>1
    <3>2. (a \o b)[Len(a) + i] = b[(Len(a) + i) - Len(a)]
      BY <2>2, <3>1
    <3>3. b[i] \in Byte
      BY <2>1
    <3>4. QED BY <3>1, <3>2, <3>3
  <2>4. QED BY <2>1, <2>2, <2>3
<1>2. /\ crc[0] = w /\ \A n \in 0..Len(b) : crc[n] \in Word(Width(v))
      /\ \A n \in 0..(Len(b) - 1) : crc[n + 1] = Step(v, crc[n], b[n + 1])
  BY RunFacts
<1>3. /\ \A k \in 0..at(Len(b)) : rem[k] \in Bits(v)
      /\ \A k \in 0..(at(Len(b)) - 1) : rem[k + 1] = Divide(v, rem[k], MessageBit(v, a \o b, k + 1))
  BY <1>1, DivisionFacts
<1>4. rem[at(0)] = Remainder(v, start, a)
  <2>1. 8 * Len(a) \in 0..(8 * Len(a)) /\ at(0) = 8 * Len(a)
    BY <1>1
  <2>2. QED BY <2>1, DivisionPrefix DEF Remainder
<1> HIDE DEF crc, rem
<1>5. 0 \in T
  BY <1>2, <1>4
<1>6. \A n \in Nat : n \in T => n + 1 \in T
  <2> SUFFICES ASSUME NEW n \in Nat, n \in T, n + 1 <= Len(b)
               PROVE  WordBits(v, crc[n + 1]) = rem[at(n + 1)]
    OBVIOUS
  <2> DEFINE p == [j \in 0..8 |-> rem[at(n) + j]]
  <2>1. /\ n \in 0..Len(b) /\ n \in 0..(Len(b) - 1) /\ n + 1 \in 1..Len(b)
        /\ WordBits(v, crc[n]) = rem[at(n)] /\ crc[n] \in Word(Width(v)) /\ b[n + 1] \in Byte
    BY <1>1, <1>2
  <2>2. /\ at(n) \in Nat /\ at(n) + 8 = at(n + 1) /\ at(n) + 0 = at(n)
        /\ \A j \in 0..8 : at(n) + j \in 0..at(Len(b))
        /\ \A j \in 0..7 : /\ at(n) + j \in 0..(at(Len(b)) - 1)
                           /\ at(n) + (j + 1) = (at(n) + j) + 1
    BY <1>1, <2>1
  <2>3. \A j \in 0..7 : MessageBit(v, a \o b, (at(n) + j) + 1) = BitsOf(v, b[n + 1])[j + 1]
    <3> SUFFICES ASSUME NEW j \in 0..7
                 PROVE  MessageBit(v, a \o b, (at(n) + j) + 1) = BitsOf(v, b[n + 1])[j + 1]
      OBVIOUS
    <3>1. /\ ((((at(n) + j) + 1) - 1) \div 8) + 1 = Len(a) + (n + 1)
          /\ ((((at(n) + j) + 1) - 1) % 8) + 1 = j + 1
      <4>1. \A m \in Nat : /\ ((((8 * m + j) + 1) - 1) \div 8) + 1 = m + 1
                             /\ ((((8 * m + j) + 1) - 1) % 8) + 1 = j + 1
        OBVIOUS
      <4>2. Len(a) + n \in Nat /\ (Len(a) + n) + 1 = Len(a) + (n + 1)
        BY <1>1
      <4>3. QED BY <4>1, <4>2
    <3> HIDE DEF at
    <3>2. (a \o b)[Len(a) + (n + 1)] = b[n + 1]
      BY <1>1, <2>1
    <3>3. QED BY <3>1, <3>2 DEF MessageBit
  <2> HIDE DEF at
  <2>4. /\ p[0] = WordBits(v, crc[n]) /\ p[8] = rem[at(n + 1)]
        /\ \A j \in 0..8 : p[j] \in Bits(v)
    <3>1. p[0] = rem[at(n) + 0] /\ p[8] = rem[at(n) + 8] /\ \A j \in 0..8 : p[j] = rem[at(n) + j]
      OBVIOUS
    <3> HIDE DEF p
    <3>2. p[0] = WordBits(v, crc[n]) /\ p[8] = rem[at(n + 1)]
      BY <2>1, <2>2, <3>1
    <3>3. \A j \in 0..8 : p[j] \in Bits(v)
      BY <1>3, <2>2, <3>1
    <3>4. QED BY <3>2, <3>3
  <2>5. \A j \in 0..7 : p[j + 1] = Divide(v, p[j], BitsOf(v, b[n + 1])[j + 1])
    <3> SUFFICES ASSUME NEW j \in 0..7
                 PROVE  p[j + 1] = Divide(v, p[j], BitsOf(v, b[n + 1])[j + 1])
      OBVIOUS
    <3>1. p[j + 1] = rem[at(n) + (j + 1)] /\ p[j] = rem[at(n) + j]
      OBVIOUS
    <3>2. rem[(at(n) + j) + 1] = Divide(v, rem[at(n) + j], MessageBit(v, a \o b, (at(n) + j) + 1))
      BY <1>3, <2>2
    <3>3. QED BY <2>2, <2>3, <3>1, <3>2
  <2> HIDE DEF p
  <2>6. p[8] = WordBits(v, Step(v, crc[n], b[n + 1]))
    BY <2>1, <2>4, <2>5, EightSteps
  <2>7. QED BY <1>2, <2>1, <2>4, <2>6
<1>7. \A n \in Nat : n \in T
  <2> HIDE DEF T
  <2>1. QED BY <1>5, <1>6, SetInduction
<1>8. WordBits(v, crc[Len(b)]) = rem[at(Len(b))] /\ crc[Len(b)] \in Word(Width(v))
  BY <1>1, <1>2, <1>7
<1>9. at(Len(b)) = 8 * Len(a \o b)
  BY <1>1
<1>10. QED BY <1>8, <1>9 DEF Loop, Remainder, crc, rem

-----------------------------------------------------------------------------
(* Exclusive or is addition in a group where every byte is its own inverse.*)
LEMMA SameByte ==
  ASSUME NEW a \in Byte, NEW b \in Byte,
         \A p \in {1, 2, 4, 8, 16, 32, 64, 128} : BitAt(a, p) = BitAt(b, p)
  PROVE  a = b
<1>1. \A n \in 0..15 : n = 8 * BitAt(n, 8) + 4 * BitAt(n, 4) + 2 * BitAt(n, 2) + BitAt(n, 1)
  BY DEF BitAt
<1>2. ASSUME NEW c \in Byte
      PROVE  /\ c \div 16 \in 0..15 /\ c % 16 \in 0..15 /\ c = 16 * (c \div 16) + (c % 16)
             /\ BitAt(c \div 16, 8) = BitAt(c, 128) /\ BitAt(c \div 16, 4) = BitAt(c, 64)
             /\ BitAt(c \div 16, 2) = BitAt(c, 32) /\ BitAt(c \div 16, 1) = BitAt(c, 16)
             /\ BitAt(c % 16, 8) = BitAt(c, 8) /\ BitAt(c % 16, 4) = BitAt(c, 4)
             /\ BitAt(c % 16, 2) = BitAt(c, 2) /\ BitAt(c % 16, 1) = BitAt(c, 1)
  <2>1. c \div 16 \in 0..15 /\ c % 16 \in 0..15 /\ c = 16 * (c \div 16) + (c % 16)
    BY DEF Byte
  <2>2. \A p \in {1, 2, 4, 8} : /\ BitAt(c, p) = BitAt(c % 16, p)
                                 /\ BitAt(c, 16 * p) = BitAt(c \div 16, p)
    BY <2>1, ByteBits
  <2>3. 16 * 1 = 16 /\ 16 * 2 = 32 /\ 16 * 4 = 64 /\ 16 * 8 = 128
    OBVIOUS
  <2>4. QED BY <2>1, <2>2, <2>3
<1>3. a \div 16 = b \div 16
  <2>1. /\ BitAt(a \div 16, 8) = BitAt(b \div 16, 8) /\ BitAt(a \div 16, 4) = BitAt(b \div 16, 4)
        /\ BitAt(a \div 16, 2) = BitAt(b \div 16, 2) /\ BitAt(a \div 16, 1) = BitAt(b \div 16, 1)
    BY <1>2
  <2>2. a \div 16 \in 0..15 /\ b \div 16 \in 0..15
    BY <1>2
  <2>3. QED BY <1>1, <2>1, <2>2
<1>4. a % 16 = b % 16
  <2>1. /\ BitAt(a % 16, 8) = BitAt(b % 16, 8) /\ BitAt(a % 16, 4) = BitAt(b % 16, 4)
        /\ BitAt(a % 16, 2) = BitAt(b % 16, 2) /\ BitAt(a % 16, 1) = BitAt(b % 16, 1)
    BY <1>2
  <2>2. a % 16 \in 0..15 /\ b % 16 \in 0..15
    BY <1>2
  <2>3. QED BY <1>1, <2>1, <2>2
<1>5. QED BY <1>2, <1>3, <1>4

(* Bytes under exclusive or: 0 is neutral, every byte its own inverse, and *)
(* the operation associative and commutative.                              *)
LEMMA XorLaws ==
  ASSUME NEW a \in Byte, NEW b \in Byte, NEW c \in Byte
  PROVE  /\ Xor(a, 0) = a /\ Xor(0, a) = a /\ Xor(a, a) = 0
         /\ Xor(Xor(a, b), c) = Xor(a, Xor(b, c))
         /\ Xor(a, b) = Xor(b, a)
<1> DEFINE P == {1, 2, 4, 8, 16, 32, 64, 128}
<1>1. 0 \in Byte /\ \A p \in P : BitAt(0, p) = 0
  BY DEF Byte, BitAt
<1>2. \A x \in Byte : \A p \in P : BitAt(x, p) \in {0, 1}
  BY DEF BitAt, Byte
<1>3. \A x, y \in Byte : /\ Xor(x, y) \in Byte
                         /\ \A p \in P : BitAt(Xor(x, y), p) = (BitAt(x, p) + BitAt(y, p)) % 2
  BY XorBits
<1> HIDE DEF P
<1>4. \A x, y \in Byte : (\A p \in P : BitAt(x, p) = BitAt(y, p)) => x = y
  BY SameByte DEF P
<1>5. Xor(a, 0) = a
  <2>1. \A p \in P : BitAt(Xor(a, 0), p) = BitAt(a, p)
    BY <1>1, <1>2, <1>3
  <2>2. QED BY <1>1, <1>3, <1>4, <2>1
<1>6. Xor(0, a) = a
  <2>1. \A p \in P : BitAt(Xor(0, a), p) = BitAt(a, p)
    BY <1>1, <1>2, <1>3
  <2>2. QED BY <1>1, <1>3, <1>4, <2>1
<1>7. Xor(a, a) = 0
  <2>1. \A p \in P : BitAt(Xor(a, a), p) = BitAt(0, p)
    BY <1>1, <1>2, <1>3
  <2>2. QED BY <1>1, <1>3, <1>4, <2>1
<1>8. Xor(Xor(a, b), c) = Xor(a, Xor(b, c))
  <2>1. Xor(a, b) \in Byte /\ Xor(b, c) \in Byte /\ Xor(Xor(a, b), c) \in Byte
        /\ Xor(a, Xor(b, c)) \in Byte
    BY <1>3
  <2>2. ASSUME NEW p \in P PROVE BitAt(Xor(Xor(a, b), c), p) = BitAt(Xor(a, Xor(b, c)), p)
    <3>1. /\ BitAt(Xor(a, b), p) = (BitAt(a, p) + BitAt(b, p)) % 2
          /\ BitAt(Xor(b, c), p) = (BitAt(b, p) + BitAt(c, p)) % 2
          /\ BitAt(Xor(Xor(a, b), c), p) = (BitAt(Xor(a, b), p) + BitAt(c, p)) % 2
          /\ BitAt(Xor(a, Xor(b, c)), p) = (BitAt(a, p) + BitAt(Xor(b, c), p)) % 2
      BY <1>3, <2>1
    <3>2. BitAt(a, p) \in {0, 1} /\ BitAt(b, p) \in {0, 1} /\ BitAt(c, p) \in {0, 1}
      BY <1>2
    <3>3. QED BY <3>1, <3>2
  <2>3. QED BY <1>4, <2>1, <2>2
<1>9. Xor(a, b) = Xor(b, a)
  <2>1. \A p \in P : BitAt(Xor(a, b), p) = BitAt(Xor(b, a), p)
    BY <1>2, <1>3
  <2>2. QED BY <1>3, <1>4, <2>1
<1>10. QED BY <1>5, <1>6, <1>7, <1>8, <1>9

-----------------------------------------------------------------------------
(* Words that agree in every byte are equal.                               *)
LEMMA SameWord ==
  ASSUME NEW n, NEW u \in Word(n), NEW w \in Word(n), \A k \in 1..n : u[k] = w[k]
  PROVE  u = w
<1>1. u = [k \in 1..n |-> u[k]] /\ w = [k \in 1..n |-> w[k]]
  BY DEF Word
<1>2. QED BY <1>1

(* ZIP's complement, undone before the next call, is its own inverse.      *)
LEMMA ResumeUndone ==
  ASSUME NEW v \in Variants, NEW w \in Word(Width(v))
  PROVE  /\ Resume(v, w) \in Word(Width(v))
         /\ Resume(v, Resume(v, w)) = w
<1>1. CASE v = "zip"
  <2> DEFINE ones == Filled(255, 4)
  <2>1. Width(v) = 4 /\ 255 \in Byte
    BY <1>1 DEF Width, Byte
  <2>2. ones \in Word(4) /\ \A k \in 1..4 : ones[k] = 255
    BY <2>1 DEF Filled, Word
  <2> HIDE DEF ones
  <2>3. /\ XorWord(w, ones) \in Word(4) /\ XorWord(XorWord(w, ones), ones) \in Word(4)
        /\ \A k \in 1..4 : XorWord(w, ones)[k] = Xor(w[k], 255)
        /\ \A k \in 1..4 : XorWord(XorWord(w, ones), ones)[k] = Xor(XorWord(w, ones)[k], 255)
    BY <2>1, <2>2, XorWordType
  <2>4. \A x \in Byte : Xor(Xor(x, 255), 255) = x
    BY <2>1, XorLaws
  <2>5. \A k \in 1..4 : XorWord(XorWord(w, ones), ones)[k] = w[k]
    BY <2>1, <2>3, <2>4 DEF Word
  <2>6. XorWord(XorWord(w, ones), ones) = w
    BY <2>1, <2>3, <2>5, SameWord
  <2>7. QED BY <1>1, <2>1, <2>3, <2>6 DEF Resume, ones
<1>2. CASE v # "zip"
  BY <1>2 DEF Resume
<1>3. QED BY <1>1, <1>2

(* A call with data runs the loop, and ZIP complements.                    *)
LEMMA UpdateForm ==
  ASSUME NEW v \in Variants, NEW w \in Word(Width(v)), NEW data \in Seq(Byte)
  PROVE  /\ data # << >> => Update(v, w, data) = Resume(v, Loop(v, w, data))
         /\ data = << >> => Update(v, w, data) = Filled(0, Width(v))
         /\ Update(v, w, data) \in Word(Width(v))
<1>1. Loop(v, w, data) \in Word(Width(v))
  <2>1. Len(data) \in 0..Len(data)
    BY LenProperties
  <2>2. QED BY <2>1, RunFacts DEF Loop
<1>2. /\ data # << >> => Update(v, w, data) = Resume(v, Loop(v, w, data))
      /\ data = << >> => Update(v, w, data) = Filled(0, Width(v))
  <2>1. CASE v = "arc"
    BY <2>1 DEF Update, Juno_CrcArcUpdate, Resume, Width
  <2>2. CASE v = "kermit"
    BY <2>2 DEF Update, Juno_CrcKermitUpdate, Resume, Width
  <2>3. CASE v = "zip"
    BY <2>3 DEF Update, Juno_CrcZipUpdate, Resume, Width
  <2>4. CASE v = "binhex"
    BY <2>4 DEF Update, Juno_CrcBinhexUpdate, Resume, Width
  <2>5. CASE v = "ccitt"
    BY <2>5 DEF Update, Juno_CrcCcittUpdate, Resume, Width
  <2>6. CASE v = "ccitt32"
    BY <2>6 DEF Update, Juno_CrcCcitt32Update, Resume, Width
  <2>7. QED BY <2>1, <2>2, <2>3, <2>4, <2>5, <2>6 DEF Variants
<1>3. QED BY <1>1, <1>2, ResumeUndone, FilledType, ZeroBits

-----------------------------------------------------------------------------
(* The strengthening of CrcIsRemainder that every call preserves.          *)
CrcInv ==
  /\ variant \in Variants
  /\ iCrc \in Word(Width(variant)) /\ seed \in Word(Width(variant))
  /\ fed \in Seq(Byte)
  /\ CrcIsRemainder

(* A message of no bytes leaves the remainder where it started.            *)
LEMMA NothingFed ==
  ASSUME NEW v, NEW w \in Word(Width(v))
  PROVE  << >> \in Seq(Byte) /\ Remainder(v, w, << >>) = WordBits(v, w)
<1>1. << >> \in Seq(Byte) /\ 8 * Len(<< >>) = 0
  OBVIOUS
<1>2. QED BY <1>1, DivisionFacts DEF Remainder

(* Every call of a client keeps the register the remainder of what was     *)
(* fed, an empty one included.                                             *)
LEMMA CrcInvariance == CrcSpec => []CrcInv
<1>1. CrcInit => CrcInv
  <2> SUFFICES ASSUME CrcInit PROVE CrcInv
    OBVIOUS
  <2>1. variant \in Variants /\ seed = Seed(variant) /\ fed = << >>
    BY DEF CrcInit
  <2>2. seed \in Word(Width(variant))
    <3>1. PICK b \in {0, 255} : Seed(variant) = Filled(b, Width(variant))
      BY DEF Seed
    <3>2. b \in Byte
      BY DEF Byte
    <3>3. QED BY <2>1, <3>1, <3>2, FilledType
  <2>3. iCrc = Resume(variant, seed)
    BY DEF CrcInit, Resume
  <2>4. iCrc \in Word(Width(variant)) /\ Resume(variant, iCrc) = seed
    BY <2>1, <2>2, <2>3, ResumeUndone
  <2>5. QED BY <2>1, <2>2, <2>4, NothingFed DEF CrcInv, CrcIsRemainder
<1>2. CrcInv /\ [CrcNext]_crcVars => CrcInv'
  <2> SUFFICES ASSUME CrcInv, [CrcNext]_crcVars PROVE CrcInv'
    OBVIOUS
  <2>0. /\ variant \in Variants /\ iCrc \in Word(Width(variant)) /\ seed \in Word(Width(variant))
        /\ fed \in Seq(Byte) /\ Resume(variant, iCrc) \in Word(Width(variant))
        /\ WordBits(variant, Resume(variant, iCrc)) = Remainder(variant, seed, fed)
    BY ResumeUndone DEF CrcInv, CrcIsRemainder
  <2>1. ASSUME NEW chunk \in Seq(Byte), chunk # << >>, Feed(chunk) PROVE CrcInv'
    <3> DEFINE w == Loop(variant, Resume(variant, iCrc), chunk)
    <3>1. /\ variant' = variant /\ seed' = seed /\ fed' = fed \o chunk
          /\ iCrc' = Update(variant, Resume(variant, iCrc), chunk)
      BY <2>1 DEF Feed
    <3>2. w \in Word(Width(variant)) /\ WordBits(variant, w) = Remainder(variant, seed, fed \o chunk)
      BY <2>0, LoopDivides
    <3>3. iCrc' = Resume(variant, w) /\ iCrc' \in Word(Width(variant))
      BY <2>0, <2>1, <3>1, UpdateForm
    <3> HIDE DEF w
    <3>4. Resume(variant, iCrc') = w
      BY <2>0, <3>2, <3>3, ResumeUndone
    <3>5. fed \o chunk \in Seq(Byte)
      BY <2>0
    <3>6. QED BY <2>0, <3>1, <3>2, <3>3, <3>4, <3>5 DEF CrcInv, CrcIsRemainder
  <2>2. CASE FeedEmpty
    <3> DEFINE zero == Filled(0, Width(variant))
    <3>1. /\ variant' = variant /\ seed' = Resume(variant, zero) /\ fed' = << >>
          /\ iCrc' = Update(variant, Resume(variant, iCrc), << >>)
      BY <2>2 DEF FeedEmpty
    <3>2. iCrc' = zero /\ zero \in Word(Width(variant))
      BY <2>0, <3>1, NothingFed, UpdateForm, FilledType, ZeroBits
    <3> HIDE DEF zero
    <3>3. Resume(variant, zero) \in Word(Width(variant))
      BY <2>0, <3>2, ResumeUndone
    <3>4. QED BY <2>0, <3>1, <3>2, <3>3, NothingFed DEF CrcInv, CrcIsRemainder
  <2>3. CASE UNCHANGED crcVars
    BY <2>3 DEF CrcInv, CrcIsRemainder, crcVars
  <2>4. \A chunk \in Openings \cup Chunks : chunk \in Seq(Byte) /\ chunk # << >>
    BY CrcClientAssumption
  <2>5. QED BY <2>1, <2>2, <2>3, <2>4 DEF CrcNext
<1>3. QED BY <1>1, <1>2, PTL DEF CrcSpec

(* Whatever the message and however it is cut into buffers, each of the    *)
(* six functions computes the remainder of its polynomial division.        *)
THEOREM CrcIsTheRemainder == CrcSpec => []CrcIsRemainder
<1>1. CrcInv => CrcIsRemainder
  BY DEF CrcInv
<1>2. QED BY <1>1, CrcInvariance, PTL

-----------------------------------------------------------------------------
(* The loop from w over the bytes of c, where w is c or its complement.    *)
LEMMA SameInOrder ==
  ASSUME NEW v, NEW u \in Word(Width(v)), NEW w \in Word(Width(v)),
         \A i \in 1..Width(v) : InOrderOf(v, u)[i] = InOrderOf(v, w)[i]
  PROVE  u = w
<1> DEFINE W == Width(v)
<1>1. W \in Nat
  BY Widths4
<1>2. CASE v \in Reflected
  <2>1. \A i \in 1..W : InOrderOf(v, u)[i] = u[(W - i) + 1] /\ InOrderOf(v, w)[i] = w[(W - i) + 1]
    BY <1>2, InOrderType
  <2>2. \A k \in 1..W : (W - k) + 1 \in 1..W /\ (W - ((W - k) + 1)) + 1 = k
    BY <1>1
  <2> HIDE DEF W
  <2>3. \A k \in 1..W : u[k] = w[k]
    BY <2>1, <2>2 DEF W
  <2>4. QED BY <2>3, SameWord DEF W
<1>3. CASE v \notin Reflected
  <2>1. InOrderOf(v, u) = u /\ InOrderOf(v, w) = w
    BY <1>3, InOrderType
  <2>2. QED BY <2>1, SameWord
<1>4. QED BY <1>2, <1>3

(* A word of equal bytes in either order.                                  *)
LEMMA InOrderFilled ==
  ASSUME NEW v, NEW b \in Byte
  PROVE  \A i \in 1..Width(v) : InOrderOf(v, Filled(b, Width(v)))[i] = b
<1> DEFINE w == Filled(b, Width(v))
<1>1. Width(v) \in Nat /\ w \in Word(Width(v))
  BY Widths4, FilledType
<1>2. \A i \in 1..Width(v) : w[i] = b /\ (Width(v) - i) + 1 \in 1..Width(v)
  BY <1>1 DEF Filled
<1> HIDE DEF w
<1>3. CASE v \in Reflected
  <2>1. \A i \in 1..Width(v) : InOrderOf(v, w)[i] = w[(Width(v) - i) + 1]
    BY <1>1, <1>3, InOrderType
  <2>2. QED BY <1>2, <2>1 DEF w
<1>4. CASE v \notin Reflected   BY <1>1, <1>2, <1>4, InOrderType DEF w
<1>5. QED BY <1>3, <1>4

(* Fed the bytes of c, the loop does to the exclusive or of c and z what   *)
(* zero bytes make of z: every byte of c meets itself.                     *)
LEMMA OwnBytesCancel ==
  ASSUME NEW v \in Variants, NEW c \in Word(Width(v)), NEW z \in Word(Width(v)),
         NEW w \in Word(Width(v)),
         \A i \in 1..Width(v) : InOrderOf(v, w)[i] = Xor(InOrderOf(v, c)[i], InOrderOf(v, z)[i])
  PROVE  Loop(v, w, InOrderOf(v, c)) = Loop(v, z, Filled(0, Width(v)))
<1> DEFINE W == Width(v)
           own == InOrderOf(v, c)
           zeros == Filled(0, W)
           f == Run(v, w, own)
           g == Run(v, z, zeros)
           left(i, j) == IF i + j <= W THEN own[i + j] ELSE 0
           Ahead(j) == \A i \in 1..W : InOrderOf(v, f[j])[i] = Xor(left(i, j), InOrderOf(v, g[j])[i])
           T == { j \in Nat : j <= W => Ahead(j) }
<1>1. /\ W \in {2, 4} /\ own \in Seq(Byte) /\ Len(own) = W /\ \A i \in 1..W : own[i] \in Byte
      /\ 0 \in Byte /\ zeros \in Word(W) /\ zeros \in Seq(Byte) /\ Len(zeros) = W
      /\ \A i \in 1..W : zeros[i] = 0
  <2>1. W \in {2, 4} /\ own \in Seq(Byte) /\ Len(own) = W
    BY Widths4, InOrderType
  <2>2. \A i \in 1..W : own[i] \in Byte
    BY <2>1
  <2>3. 0 \in Byte /\ zeros \in Word(W) /\ \A i \in 1..W : zeros[i] = 0
    BY FilledType, ZeroBits DEF Filled
  <2>4. zeros \in Seq(Byte) /\ Len(zeros) = W
    BY <2>1, <2>3, FunctionIsSeq DEF Word
  <2>5. QED BY <2>1, <2>2, <2>3, <2>4
<1> HIDE DEF W, own, zeros
<1>2. /\ f[0] = w /\ \A n \in 0..W : f[n] \in Word(W)
      /\ \A n \in 0..(W - 1) : f[n + 1] = Step(v, f[n], own[n + 1])
      /\ g[0] = z /\ \A n \in 0..W : g[n] \in Word(W)
      /\ \A n \in 0..(W - 1) : g[n + 1] = Step(v, g[n], zeros[n + 1])
  <2>1. /\ f[0] = w /\ \A n \in 0..Len(own) : f[n] \in Word(W)
        /\ \A n \in 0..(Len(own) - 1) : f[n + 1] = Step(v, f[n], own[n + 1])
    BY <1>1, RunFacts DEF W
  <2>2. /\ g[0] = z /\ \A n \in 0..Len(zeros) : g[n] \in Word(W)
        /\ \A n \in 0..(Len(zeros) - 1) : g[n + 1] = Step(v, g[n], zeros[n + 1])
    BY <1>1, RunFacts DEF W
  <2>3. QED BY <1>1, <2>1, <2>2
<1> HIDE DEF f, g
<1>3. 0 \in T
  <2>1. ASSUME NEW i \in 1..W
        PROVE  InOrderOf(v, f[0])[i] = Xor(left(i, 0), InOrderOf(v, g[0])[i])
    <3>1. i + 0 = i /\ i <= W
      BY <1>1
    <3>2. left(i, 0) = own[i]
      BY <3>1
    <3> HIDE DEF left
    <3>3. QED BY <1>2, <3>2 DEF W, own
  <2>2. QED BY <2>1
<1>4. \A j \in Nat : j \in T => j + 1 \in T
  <2> SUFFICES ASSUME NEW j \in Nat, j \in T, j + 1 <= W PROVE Ahead(j + 1)
    OBVIOUS
  <2>1. /\ j \in 0..W /\ j \in 0..(W - 1) /\ j + 1 \in 1..W /\ 1 \in 1..W /\ W \in 1..W
        /\ f[j] \in Word(W) /\ g[j] \in Word(W)
        /\ f[j + 1] = Step(v, f[j], own[j + 1]) /\ g[j + 1] = Step(v, g[j], 0)
        /\ own[j + 1] \in Byte
    BY <1>1, <1>2
  <2>2. Ahead(j)
    BY <1>1, <2>1
  <2>3. \A i \in 1..W : left(i, j) \in Byte /\ InOrderOf(v, g[j])[i] \in Byte
    <3>1. \A i \in 1..W : InOrderOf(v, g[j])[i] \in Byte
      <4>1. InOrderOf(v, g[j]) \in Seq(Byte) /\ Len(InOrderOf(v, g[j])) = W
        BY <2>1, InOrderType DEF W
      <4>2. QED BY <4>1
    <3>2. \A i \in 1..W : i + j <= W => i + j \in 1..W
      BY <1>1
    <3>3. QED BY <1>1, <3>1, <3>2
  <2> DEFINE x == Xor(Lead(v, f[j]), own[j + 1])
             y == Xor(Lead(v, g[j]), 0)
             e == InOrderOf(v, Entry(v, y))
  <2>4. /\ y \in Byte /\ Lead(v, f[j]) = InOrderOf(v, f[j])[1] /\ Lead(v, g[j]) = InOrderOf(v, g[j])[1]
        /\ \A i \in 1..W : InOrderOf(v, f[j + 1])[i] =
             Xor(IF i = W THEN 0 ELSE InOrderOf(v, f[j])[i + 1], InOrderOf(v, Entry(v, x))[i])
        /\ \A i \in 1..W : InOrderOf(v, g[j + 1])[i] =
             Xor(IF i = W THEN 0 ELSE InOrderOf(v, g[j])[i + 1], e[i])
    <3>1. /\ Lead(v, f[j]) = InOrderOf(v, f[j])[1]
          /\ \A i \in 1..W : InOrderOf(v, Step(v, f[j], own[j + 1]))[i] =
               Xor(IF i = W THEN 0 ELSE InOrderOf(v, f[j])[i + 1], InOrderOf(v, Entry(v, x))[i])
      BY <2>1, InOrderStep DEF W
    <3>2. /\ y \in Byte /\ Lead(v, g[j]) = InOrderOf(v, g[j])[1]
          /\ \A i \in 1..W : InOrderOf(v, Step(v, g[j], 0))[i] =
               Xor(IF i = W THEN 0 ELSE InOrderOf(v, g[j])[i + 1], e[i])
      BY <1>1, <2>1, InOrderStep DEF W
    <3> HIDE DEF x, y, e
    <3>3. QED BY <2>1, <3>1, <3>2
  <2>5. x = y
    <3> DEFINE a == own[j + 1]
               d == InOrderOf(v, g[j])[1]
    <3>1. left(1, j) = a
      <4>1. 1 + j <= W /\ 1 + j = j + 1
        BY <1>1, <2>1
      <4>2. QED BY <4>1
    <3>2. a \in Byte /\ d \in Byte
      BY <2>1, <2>3
    <3>3. Lead(v, f[j]) = Xor(a, d) /\ Lead(v, g[j]) = d
      <4> HIDE DEF left
      <4>1. QED BY <2>1, <2>2, <2>4, <3>1
    <3> HIDE DEF a, d
    <3>4. Xor(Xor(a, d), a) = d
      <4>1. Xor(a, d) \in Byte
        BY <3>2, XorBits
      <4>2. Xor(a, d) = Xor(d, a)
        BY <3>2, XorLaws
      <4>3. Xor(Xor(d, a), a) = Xor(d, Xor(a, a))
        BY <3>2, XorLaws
      <4>4. Xor(a, a) = 0 /\ Xor(d, 0) = d
        BY <3>2, XorLaws
      <4>5. QED BY <4>2, <4>3, <4>4
    <3>5. Xor(d, 0) = d
      BY <3>2, XorLaws
    <3>6. QED BY <3>3, <3>4, <3>5 DEF a
  <2>6. \A i \in 1..W : e[i] \in Byte
    <3>1. Entry(v, y) \in Word(W)
      <4> HIDE DEF y
      <4>1. QED BY <2>4, TableAssumption DEF W
    <3>2. InOrderOf(v, Entry(v, y)) \in Seq(Byte) /\ Len(InOrderOf(v, Entry(v, y))) = W
      BY <3>1, InOrderType DEF W
    <3>3. QED BY <3>2
  <2> HIDE DEF x, y
  <2>7. ASSUME NEW i \in 1..W
        PROVE  InOrderOf(v, f[j + 1])[i] = Xor(left(i, j + 1), InOrderOf(v, g[j + 1])[i])
    <3> DEFINE a == left(i, j + 1)
               d == IF i = W THEN 0 ELSE InOrderOf(v, g[j])[i + 1]
               h == e[i]
    <3>1. a \in Byte /\ d \in Byte /\ h \in Byte
      <4>1. i + (j + 1) <= W => i + (j + 1) \in 1..W
        BY <1>1
      <4>2. i # W => i + 1 \in 1..W
        BY <1>1
      <4>3. QED BY <1>1, <2>3, <2>6, <4>1, <4>2
    <3>2. (IF i = W THEN 0 ELSE InOrderOf(v, f[j])[i + 1]) = Xor(a, d)
      <4>1. CASE i = W
        <5>1. ~(i + (j + 1) <= W)
          BY <1>1, <4>1
        <5>2. a = 0 /\ d = 0
          BY <4>1, <5>1
        <5>3. Xor(0, 0) = 0
          BY <1>1, XorLaws
        <5>4. QED BY <4>1, <5>2, <5>3
      <4>2. CASE i # W
        <5>1. i + 1 \in 1..W /\ (i + 1) + j = i + (j + 1)
          BY <1>1, <4>2
        <5>2. left(i + 1, j) = a /\ d = InOrderOf(v, g[j])[i + 1]
          BY <4>2, <5>1
        <5> HIDE DEF left, a, d
        <5>3. QED BY <2>2, <4>2, <5>1, <5>2
      <4>3. QED BY <4>1, <4>2
    <3>3. InOrderOf(v, f[j + 1])[i] = Xor(Xor(a, d), h)
      BY <2>4, <2>5, <3>2
    <3>4. InOrderOf(v, g[j + 1])[i] = Xor(d, h)
      BY <2>4
    <3> HIDE DEF a, d, h
    <3>5. Xor(Xor(a, d), h) = Xor(a, Xor(d, h))
      BY <3>1, XorLaws
    <3>6. QED BY <3>3, <3>4, <3>5 DEF a
  <2>8. QED BY <2>7
<1>5. \A j \in Nat : j \in T
  <2> HIDE DEF T
  <2>1. QED BY <1>3, <1>4, SetInduction
<1>6. \A i \in 1..W : InOrderOf(v, f[W])[i] = InOrderOf(v, g[W])[i]
  <2> SUFFICES ASSUME NEW i \in 1..W PROVE InOrderOf(v, f[W])[i] = InOrderOf(v, g[W])[i]
    OBVIOUS
  <2>1. W \in 0..W /\ ~(i + W <= W)
    BY <1>1
  <2>2. Ahead(W)
    BY <1>1, <1>5
  <2>3. InOrderOf(v, f[W])[i] = Xor(0, InOrderOf(v, g[W])[i])
    BY <2>1, <2>2
  <2>4. g[W] \in Word(W)
    BY <1>2, <2>1
  <2>5. InOrderOf(v, g[W]) \in Seq(Byte) /\ Len(InOrderOf(v, g[W])) = W
    BY <2>4, InOrderType DEF W
  <2>6. InOrderOf(v, g[W])[i] \in Byte
    BY <2>5
  <2>7. QED BY <2>3, <2>6, XorLaws
<1>7. f[W] \in Word(W) /\ g[W] \in Word(W)
  BY <1>1, <1>2
<1>8. f[W] = g[W]
  BY <1>6, <1>7, SameInOrder DEF W
<1>9. QED BY <1>1, <1>8 DEF Loop, f, g, own, zeros, W

(* Zero bytes leave a word of zeros as it is.                              *)
LEMMA ZeroEntry ==
  ASSUME NEW v \in Variants, v # "zip"
  PROVE  Entry(v, 0) = Filled(0, Width(v))
<1>1. \A n \in Nat : n = 0 => Half(n) = <<0, 0>>
  BY DEF Half
<1>2. <<0, 0>> = Filled(0, 2) /\ <<0, 0>> \o <<0, 0>> = Filled(0, 4)
  BY DEF Filled
<1>3. CASE v = "arc"
  <2>1. arc_crctab[0 + 1] = 0
    BY DEF arc_crctab
  <2>2. QED BY <1>1, <1>2, <1>3, <2>1 DEF Entry, Entry16, Width
<1>4. CASE v = "kermit"
  <2>1. kermit_crctab[0 + 1] = 0
    BY DEF kermit_crctab
  <2>2. QED BY <1>1, <1>2, <1>4, <2>1 DEF Entry, Entry16, Width
<1>5. CASE v = "binhex"
  <2>1. binhex_crctab[0 + 1] = 0
    BY DEF binhex_crctab
  <2>2. QED BY <1>1, <1>2, <1>5, <2>1 DEF Entry, Entry16, Width
<1>6. CASE v = "ccitt"
  <2>1. ccitt_crctab[1] = 0
    BY DEF ccitt_crctab, binhex_crctab
  <2>2. ccitt_crctab[0 + 1] = 0
    BY <2>1
  <2>3. QED BY <1>1, <1>2, <1>6, <2>2 DEF Entry, Entry16, Width
<1>7. CASE v = "ccitt32"
  <2>1. ccitt32_crctab[1] = 0 /\ ccitt32_crctab[2] = 0
    BY DEF ccitt32_crctab
  <2>2. 2 * 0 + 1 = 1 /\ 2 * 0 + 2 = 2
    OBVIOUS
  <2>3. Half(ccitt32_crctab[2 * 0 + 1]) = <<0, 0>> /\ Half(ccitt32_crctab[2 * 0 + 2]) = <<0, 0>>
    BY <1>1, <2>1, <2>2
  <2>4. Entry(v, 0) = Half(ccitt32_crctab[2 * 0 + 1]) \o Half(ccitt32_crctab[2 * 0 + 2])
    BY <1>7 DEF Entry, Entry32
  <2>5. Width(v) = 4
    BY <1>7 DEF Width
  <2>6. QED BY <1>2, <2>3, <2>4, <2>5
<1>8. QED BY <1>3, <1>4, <1>5, <1>6, <1>7 DEF Variants

(* A loop over zero bytes leaves a register of zeros as it is.             *)
LEMMA ZerosStay ==
  ASSUME NEW v \in Variants, v # "zip"
  PROVE  Loop(v, Filled(0, Width(v)), Filled(0, Width(v))) = Filled(0, Width(v))
<1> DEFINE W == Width(v)
           zeros == Filled(0, W)
           f == Run(v, zeros, zeros)
           T == { j \in Nat : j <= W => f[j] = zeros }
<1>1. /\ W \in {2, 4} /\ 0 \in Byte /\ zeros \in Word(W) /\ zeros \in Seq(Byte) /\ Len(zeros) = W
      /\ \A i \in 1..W : zeros[i] = 0
  <2>1. W \in {2, 4}
    BY Widths4
  <2>2. 0 \in Byte /\ zeros \in Word(W) /\ \A i \in 1..W : zeros[i] = 0
    BY FilledType, ZeroBits DEF Filled
  <2>3. zeros \in Seq(Byte) /\ Len(zeros) = W
    BY <2>1, <2>2, FunctionIsSeq DEF Word
  <2>4. QED BY <2>1, <2>2, <2>3
<1>2. Entry(v, 0) = zeros
  BY ZeroEntry
<1> HIDE DEF zeros, W
<1>3. f[0] = zeros /\ \A n \in 0..(W - 1) : f[n + 1] = Step(v, f[n], zeros[n + 1])
  <2>1. f[0] = zeros /\ \A n \in 0..(Len(zeros) - 1) : f[n + 1] = Step(v, f[n], zeros[n + 1])
    BY <1>1, RunFacts DEF W
  <2>2. QED BY <1>1, <2>1
<1> HIDE DEF f
<1>4. Step(v, zeros, 0) = zeros
  <2>1. Lead(v, zeros) = 0 /\ \A k \in 1..W : Shift(v, zeros)[k] = 0
    <3>1. 1 \in 1..W /\ W \in 1..W /\ \A k \in 1..W : /\ k # 1 => k - 1 \in 1..W
                                                      /\ k # W => k + 1 \in 1..W
      BY <1>1
    <3>2. CASE v \in Reflected
      BY <1>1, <3>1, <3>2, ShiftForm DEF W
    <3>3. CASE v \notin Reflected
      BY <1>1, <3>1, <3>3, ShiftForm DEF W
    <3>4. QED BY <3>2, <3>3
  <2>2. Xor(0, 0) = 0
    BY <1>1, XorLaws
  <2>3. Step(v, zeros, 0) = XorWord(Shift(v, zeros), zeros) /\ Step(v, zeros, 0) \in Word(W)
    BY <1>1, <1>2, <2>1, <2>2, StepForm DEF W
  <2>4. Shift(v, zeros) \in Word(W)
    BY <1>1, ShiftForm DEF W
  <2>5. \A k \in 1..W : XorWord(Shift(v, zeros), zeros)[k] = zeros[k]
    BY <1>1, <2>1, <2>2, <2>4, XorWordType
  <2>6. QED BY <1>1, <2>3, <2>5, SameWord
<1>5. 0 \in T
  BY <1>3
<1>6. \A j \in Nat : j \in T => j + 1 \in T
  <2> SUFFICES ASSUME NEW j \in Nat, j \in T, j + 1 <= W PROVE f[j + 1] = zeros
    OBVIOUS
  <2>1. j \in 0..(W - 1) /\ j + 1 \in 1..W /\ f[j] = zeros
    BY <1>1
  <2>2. QED BY <1>1, <1>3, <1>4, <2>1
<1>7. \A j \in Nat : j \in T
  <2> HIDE DEF T
  <2>1. QED BY <1>5, <1>6, SetInduction
<1>8. f[W] = zeros
  BY <1>1, <1>7
<1>9. QED BY <1>1, <1>8 DEF Loop, f, zeros, W

(* Four zero bytes on a word of ones give ZIP's residue, complemented.     *)
LEMMA ZipStepForm ==
  ASSUME NEW w \in Word(4), NEW h \in Nat, NEW l \in Nat,
         zip_crctab[2 * w[4] + 1] = h, zip_crctab[2 * w[4] + 2] = l
  PROVE  /\ Step("zip", w, 0) \in Word(4)
         /\ Step("zip", w, 0)[1] = Xor(0, h \div 256)
         /\ Step("zip", w, 0)[2] = Xor(w[1], h % 256)
         /\ Step("zip", w, 0)[3] = Xor(w[2], l \div 256)
         /\ Step("zip", w, 0)[4] = Xor(w[3], l % 256)
<1>1. "zip" \in Variants /\ "zip" \in Reflected /\ Width("zip") = 4
  BY DEF Variants, Reflected, Width
<1>2. 0 \in Byte /\ w[4] \in Byte
  BY DEF Byte, Word
<1> DEFINE u == Shift("zip", w)
           e == Entry("zip", w[4])
<1>3. /\ u \in Word(4) /\ Lead("zip", w) = w[4]
      /\ u[1] = 0 /\ u[2] = w[1] /\ u[3] = w[2] /\ u[4] = w[3]
  <2>1. /\ u \in Word(4) /\ Lead("zip", w) = w[4]
        /\ \A k \in 1..4 : u[k] = IF k = 1 THEN 0 ELSE w[k - 1]
    BY <1>1, ShiftForm
  <2> HIDE DEF u
  <2>2. u[1] = 0 /\ u[2] = w[2 - 1] /\ u[3] = w[3 - 1] /\ u[4] = w[4 - 1]
    BY <2>1
  <2>3. QED BY <2>1, <2>2
<1>4. e \in Word(4)
  BY <1>1, <1>2, TableAssumption
<1>5. e[1] = h \div 256 /\ e[2] = h % 256 /\ e[3] = l \div 256 /\ e[4] = l % 256
  <2>1. e = Half(h) \o Half(l)
    BY DEF Entry, Entry32
  <2>2. /\ Half(h) \in Seq(Nat) /\ Len(Half(h)) = 2 /\ Half(h)[1] = h \div 256 /\ Half(h)[2] = h % 256
        /\ Half(l) \in Seq(Nat) /\ Len(Half(l)) = 2 /\ Half(l)[1] = l \div 256 /\ Half(l)[2] = l % 256
    BY DEF Half
  <2> HIDE DEF e
  <2> DEFINE p == Half(h)
             q == Half(l)
  <2> HIDE DEF p, q
  <2>3. e[1] = p[1] /\ e[2] = p[2] /\ e[3] = q[1] /\ e[4] = q[2]
    <3>1. e = p \o q /\ p \in Seq(Nat) /\ Len(p) = 2 /\ q \in Seq(Nat) /\ Len(q) = 2
      BY <2>1, <2>2 DEF p, q
    <3>2. \A k \in 1..(Len(p) + Len(q)) :
            (p \o q)[k] = IF k <= Len(p) THEN p[k] ELSE q[k - Len(p)]
      BY <3>1, ConcatProperties
    <3>3. \A k \in 1..(2 + 2) : e[k] = IF k <= 2 THEN p[k] ELSE q[k - 2]
      BY <3>1, <3>2
    <3>4. e[1] = p[1] /\ e[2] = p[2] /\ e[3] = q[3 - 2] /\ e[4] = q[4 - 2]
      BY <3>3
    <3>5. QED BY <3>4
  <2>4. e[1] = Half(h)[1] /\ e[2] = Half(h)[2] /\ e[3] = Half(l)[1] /\ e[4] = Half(l)[2]
    BY <2>3 DEF p, q
  <2>5. QED BY <2>2, <2>4
<1>6. Step("zip", w, 0) = XorWord(u, e) /\ Step("zip", w, 0) \in Word(4)
  <2>1. Xor(w[4], 0) = w[4]
    BY <1>2, XorLaws
  <2>2. QED BY <1>1, <1>2, <1>3, <2>1, StepForm
<1> HIDE DEF u, e
<1>7. \A k \in 1..4 : XorWord(u, e)[k] = Xor(u[k], e[k])
  BY <1>3, <1>4, XorWordType
<1>8. 1 \in 1..4 /\ 2 \in 1..4 /\ 3 \in 1..4 /\ 4 \in 1..4
  OBVIOUS
<1>9. /\ XorWord(u, e)[1] = Xor(u[1], e[1]) /\ XorWord(u, e)[2] = Xor(u[2], e[2])
      /\ XorWord(u, e)[3] = Xor(u[3], e[3]) /\ XorWord(u, e)[4] = Xor(u[4], e[4])
  BY <1>7, <1>8
<1>10. QED BY <1>3, <1>5, <1>6, <1>9

(* The four bytes of a word, and the two halves of a table entry.          *)
Bytes4(w, a, b, c, d) ==
  w \in Word(4) /\ w[1] = a /\ w[2] = b /\ w[3] = c /\ w[4] = d
ZipRow(d, h1, h2, l1, l2) ==
  /\ zip_crctab[2 * d + 1] \in Nat /\ Half(zip_crctab[2 * d + 1]) = <<h1, h2>>
  /\ zip_crctab[2 * d + 2] \in Nat /\ Half(zip_crctab[2 * d + 2]) = <<l1, l2>>

(* The same with the bytes given as numbers.                               *)
LEMMA ZipStepValue ==
  ASSUME NEW w, NEW a, NEW b, NEW c, NEW d, NEW h1, NEW h2, NEW l1, NEW l2,
         Bytes4(w, a, b, c, d), ZipRow(d, h1, h2, l1, l2)
  PROVE  Bytes4(Step("zip", w, 0), Xor(0, h1), Xor(a, h2), Xor(b, l1), Xor(c, l2))
<1> DEFINE h == zip_crctab[2 * d + 1]
           l == zip_crctab[2 * d + 2]
<1>1. /\ h \in Nat /\ h \div 256 = h1 /\ h % 256 = h2
      /\ l \in Nat /\ l \div 256 = l1 /\ l % 256 = l2
  BY DEF ZipRow, Half
<1>2. w \in Word(4) /\ w[1] = a /\ w[2] = b /\ w[3] = c /\ w[4] = d
  BY DEF Bytes4
<1>3. zip_crctab[2 * w[4] + 1] = h /\ zip_crctab[2 * w[4] + 2] = l
  BY <1>2
<1> HIDE DEF h, l
<1>4. QED BY <1>1, <1>2, <1>3, ZipStepForm DEF Bytes4

(* ZIP's register of ones after four zero bytes, complemented: the         *)
(* constant a receiver sees. Each step is the entry of the table it uses.  *)
LEMMA ZipResidue ==
  XorWord(Loop("zip", Filled(255, 4), Filled(0, 4)), Filled(255, 4)) = <<33, 68, 223, 28>>
<1> DEFINE f == Run("zip", Filled(255, 4), Filled(0, 4))
           ones == Filled(255, 4)
<1>1. /\ "zip" \in Variants /\ Width("zip") = 4 /\ 0 \in Byte /\ 255 \in Byte /\ 4 \in Nat
  BY DEF Variants, Width, Byte
<1>2. ones \in Word(4) /\ \A k \in 1..4 : ones[k] = 255
  BY <1>1 DEF Word, Filled
<1>3. Filled(0, 4) \in Seq(Byte) /\ Len(Filled(0, 4)) = 4 /\ \A k \in 1..4 : Filled(0, 4)[k] = 0
  <2>1. Filled(0, 4) \in [1..4 -> Byte] /\ \A k \in 1..4 : Filled(0, 4)[k] = 0
    BY <1>1 DEF Filled
  <2>2. QED BY <1>1, <2>1, FunctionIsSeq
<1>4. /\ f[0] = ones
      /\ f[1] = Step("zip", f[0], 0) /\ f[2] = Step("zip", f[1], 0)
      /\ f[3] = Step("zip", f[2], 0) /\ f[4] = Step("zip", f[3], 0)
  <2>1. f[0] = ones /\ \A n \in 0..(4 - 1) : f[n + 1] = Step("zip", f[n], Filled(0, 4)[n + 1])
    BY <1>1, <1>2, <1>3, RunFacts
  <2> HIDE DEF f
  <2>2. \A n \in 0..(4 - 1) : n + 1 \in 1..4
    OBVIOUS
  <2>3. \A n \in 0..(4 - 1) : f[n + 1] = Step("zip", f[n], 0)
    BY <1>3, <2>1, <2>2
  <2>4. f[0 + 1] = Step("zip", f[0], 0) /\ f[1 + 1] = Step("zip", f[1], 0)
        /\ f[2 + 1] = Step("zip", f[2], 0) /\ f[3 + 1] = Step("zip", f[3], 0)
    BY <2>3
  <2>5. QED BY <2>1, <2>4
<1>5. Loop("zip", ones, Filled(0, 4)) = f[4]
  BY <1>3 DEF Loop
<1> HIDE DEF f, ones
<1>6. Bytes4(f[0], 255, 255, 255, 255)
  BY <1>2, <1>4 DEF Bytes4
<1>7. Bytes4(f[1], 45, 253, 16, 114)
  <2>1. zip_crctab[511] = \h2D02 /\ zip_crctab[512] = \hEF8D
    BY DEF zip_crctab
  <2>2. /\ 2 * 255 + 1 = 511 /\ 2 * 255 + 2 = 512 /\ \h2D02 \in Nat /\ \hEF8D \in Nat
        /\ \h2D02 \div 256 = 45 /\ \h2D02 % 256 = 2 /\ \hEF8D \div 256 = 239 /\ \hEF8D % 256 = 141
    OBVIOUS
  <2>3. ZipRow(255, 45, 2, 239, 141)
    BY <2>1, <2>2 DEF ZipRow, Half
  <2>4. Bytes4(Step("zip", f[0], 0), Xor(0, 45), Xor(255, 2), Xor(255, 239), Xor(255, 141))
    BY <1>6, <2>3, ZipStepValue
  <2>5. Xor(0, 45) = 45 /\ Xor(255, 2) = 253 /\ Xor(255, 239) = 16 /\ Xor(255, 141) = 114
    BY DEF Xor, XorNibble, XorBit
  <2>6. QED BY <1>4, <2>4, <2>5
<1>8. Bytes4(f[2], 190, 38, 237, 0)
  <2>1. zip_crctab[229] = \hBE0B /\ zip_crctab[230] = \h1010
    BY DEF zip_crctab
  <2>2. /\ 2 * 114 + 1 = 229 /\ 2 * 114 + 2 = 230 /\ \hBE0B \in Nat /\ \h1010 \in Nat
        /\ \hBE0B \div 256 = 190 /\ \hBE0B % 256 = 11 /\ \h1010 \div 256 = 16 /\ \h1010 % 256 = 16
    OBVIOUS
  <2>3. ZipRow(114, 190, 11, 16, 16)
    BY <2>1, <2>2 DEF ZipRow, Half
  <2>4. Bytes4(Step("zip", f[1], 0), Xor(0, 190), Xor(45, 11), Xor(253, 16), Xor(16, 16))
    BY <1>7, <2>3, ZipStepValue
  <2>5. Xor(0, 190) = 190 /\ Xor(45, 11) = 38 /\ Xor(253, 16) = 237 /\ Xor(16, 16) = 0
    BY DEF Xor, XorNibble, XorBit
  <2>6. QED BY <1>4, <2>4, <2>5
<1>9. Bytes4(f[3], 0, 190, 38, 237)
  <2>1. zip_crctab[1] = 0 /\ zip_crctab[2] = 0
    BY DEF zip_crctab
  <2>2. /\ 2 * 0 + 1 = 1 /\ 2 * 0 + 2 = 2 /\ 0 \in Nat /\ 0 \in Nat
        /\ 0 \div 256 = 0 /\ 0 % 256 = 0 /\ 0 \div 256 = 0 /\ 0 % 256 = 0
    OBVIOUS
  <2>3. ZipRow(0, 0, 0, 0, 0)
    BY <2>1, <2>2 DEF ZipRow, Half
  <2>4. Bytes4(Step("zip", f[2], 0), Xor(0, 0), Xor(190, 0), Xor(38, 0), Xor(237, 0))
    BY <1>8, <2>3, ZipStepValue
  <2>5. Xor(0, 0) = 0 /\ Xor(190, 0) = 190 /\ Xor(38, 0) = 38 /\ Xor(237, 0) = 237
    BY DEF Xor, XorNibble, XorBit
  <2>6. QED BY <1>4, <2>4, <2>5
<1>10. Bytes4(f[4], 222, 187, 32, 227)
  <2>1. zip_crctab[475] = \hDEBB /\ zip_crctab[476] = \h9EC5
    BY DEF zip_crctab
  <2>2. /\ 2 * 237 + 1 = 475 /\ 2 * 237 + 2 = 476 /\ \hDEBB \in Nat /\ \h9EC5 \in Nat
        /\ \hDEBB \div 256 = 222 /\ \hDEBB % 256 = 187 /\ \h9EC5 \div 256 = 158 /\ \h9EC5 % 256 = 197
    OBVIOUS
  <2>3. ZipRow(237, 222, 187, 158, 197)
    BY <2>1, <2>2 DEF ZipRow, Half
  <2>4. Bytes4(Step("zip", f[3], 0), Xor(0, 222), Xor(0, 187), Xor(190, 158), Xor(38, 197))
    BY <1>9, <2>3, ZipStepValue
  <2>5. Xor(0, 222) = 222 /\ Xor(0, 187) = 187 /\ Xor(190, 158) = 32 /\ Xor(38, 197) = 227
    BY DEF Xor, XorNibble, XorBit
  <2>6. QED BY <1>4, <2>4, <2>5
<1>11. Xor(222, 255) = 33 /\ Xor(187, 255) = 68 /\ Xor(32, 255) = 223 /\ Xor(227, 255) = 28
  BY DEF Xor, XorNibble, XorBit
<1> DEFINE x == XorWord(f[4], ones)
           y == <<33, 68, 223, 28>>
<1>12. x \in Word(4) /\ x[1] = 33 /\ x[2] = 68 /\ x[3] = 223 /\ x[4] = 28
  <2>1. x \in Word(4) /\ \A k \in 1..4 : x[k] = Xor(f[4][k], ones[k])
    BY <1>2, <1>10, XorWordType DEF Bytes4
  <2> HIDE DEF x
  <2>2. /\ x[1] = Xor(f[4][1], ones[1]) /\ x[2] = Xor(f[4][2], ones[2])
        /\ x[3] = Xor(f[4][3], ones[3]) /\ x[4] = Xor(f[4][4], ones[4])
    BY <2>1
  <2>3. ones[1] = 255 /\ ones[2] = 255 /\ ones[3] = 255 /\ ones[4] = 255
    BY <1>2
  <2>4. QED BY <1>10, <1>11, <2>1, <2>2, <2>3 DEF Bytes4
<1>13. y \in Word(4) /\ y[1] = 33 /\ y[2] = 68 /\ y[3] = 223 /\ y[4] = 28
  BY DEF Word, Byte
<1> HIDE DEF x, y
<1>14. \A k \in 1..4 : x[k] = y[k]
  <2>1. \A k \in 1..4 : k = 1 \/ k = 2 \/ k = 3 \/ k = 4
    OBVIOUS
  <2>2. QED BY <1>12, <1>13, <2>1
<1>15. x = y
  BY <1>12, <1>13, <1>14, SameWord
<1>16. QED BY <1>5, <1>15 DEF x, y, ones

(* The same bytes of every variant's zero word give its residue.           *)
LEMMA ZerosGiveResidue ==
  ASSUME NEW v \in Variants
  PROVE  Resume(v, Loop(v, Resume(v, Filled(0, Width(v))), Filled(0, Width(v)))) = Residue(v)
<1>1. CASE v = "zip"
  <2>1. Width(v) = 4 /\ 0 \in Byte /\ 255 \in Byte
    BY <1>1 DEF Width, Byte
  <2>2. Filled(0, 4) \in Word(4) /\ Filled(255, 4) \in Word(4)
        /\ \A k \in 1..4 : Filled(0, 4)[k] = 0 /\ Filled(255, 4)[k] = 255
    BY <2>1 DEF Filled, Word
  <2>3. XorWord(Filled(0, 4), Filled(255, 4)) = Filled(255, 4)
    <3>1. /\ XorWord(Filled(0, 4), Filled(255, 4)) \in Word(4)
          /\ \A k \in 1..4 : XorWord(Filled(0, 4), Filled(255, 4))[k]
                               = Xor(Filled(0, 4)[k], Filled(255, 4)[k])
      BY <2>2, XorWordType
    <3>2. Xor(0, 255) = 255
      BY <2>1, XorLaws
    <3>3. \A k \in 1..4 : XorWord(Filled(0, 4), Filled(255, 4))[k] = Filled(255, 4)[k]
      BY <2>2, <3>1, <3>2
    <3>4. QED BY <2>2, <3>1, <3>3, SameWord
  <2>4. Resume(v, Filled(0, 4)) = Filled(255, 4)
    BY <1>1, <2>3 DEF Resume
  <2>5. Resume(v, Loop(v, Filled(255, 4), Filled(0, 4)))
          = XorWord(Loop("zip", Filled(255, 4), Filled(0, 4)), Filled(255, 4))
    BY <1>1 DEF Resume
  <2>6. Residue(v) = <<33, 68, 223, 28>>
    BY <1>1 DEF Residue
  <2>7. QED BY <2>1, <2>4, <2>5, <2>6, ZipResidue
<1>2. CASE v # "zip"
  <2>1. /\ Resume(v, Filled(0, Width(v))) = Filled(0, Width(v))
        /\ Residue(v) = Filled(0, Width(v))
        /\ Resume(v, Loop(v, Filled(0, Width(v)), Filled(0, Width(v))))
             = Loop(v, Filled(0, Width(v)), Filled(0, Width(v)))
    BY <1>2 DEF Resume, Residue
  <2>2. QED BY <1>2, <2>1, ZerosStay
<1>3. QED BY <1>1, <1>2

(* Resuming from c is c plus the word that a caller resumes from 0.        *)
LEMMA ResumeIsSum ==
  ASSUME NEW v \in Variants, NEW c \in Word(Width(v))
  PROVE  \A i \in 1..Width(v) :
           InOrderOf(v, Resume(v, c))[i]
             = Xor(InOrderOf(v, c)[i], InOrderOf(v, Resume(v, Filled(0, Width(v))))[i])
<1> DEFINE W == Width(v)
           z == Resume(v, Filled(0, W))
           w == Resume(v, c)
<1>1. W \in {2, 4} /\ 0 \in Byte /\ Filled(0, W) \in Word(W) /\ W \in Nat
  BY Widths4, FilledType, ZeroBits
<1>2. z \in Word(W) /\ w \in Word(W)
  BY <1>1, ResumeUndone
<1>3. \A k \in 1..W : w[k] = Xor(c[k], z[k])
  <2> SUFFICES ASSUME NEW k \in 1..W PROVE w[k] = Xor(c[k], z[k])
    OBVIOUS
  <2>1. c[k] \in Byte /\ Filled(0, W)[k] = 0
    BY DEF Word, Filled
  <2>2. CASE v = "zip"
    <3>1. W = 4 /\ 255 \in Byte
      BY <2>2 DEF Width, Byte
    <3>2. Filled(255, 4) \in Word(4) /\ Filled(255, 4)[k] = 255
      BY <3>1 DEF Filled, Word
    <3>3. w = XorWord(c, Filled(255, 4)) /\ z = XorWord(Filled(0, 4), Filled(255, 4))
      BY <2>2, <3>1 DEF Resume
    <3>4. c \in Word(4) /\ Filled(0, 4) \in Word(4) /\ k \in 1..4 /\ Filled(0, 4)[k] = 0
      BY <1>1, <2>1, <3>1
    <3> HIDE DEF w, z, W
    <3>5. w[k] = Xor(c[k], 255) /\ z[k] = Xor(0, 255)
      BY <3>2, <3>3, <3>4, XorWordType
    <3>6. Xor(0, 255) = 255
      BY <3>1, XorLaws
    <3>7. QED BY <3>5, <3>6
  <2>3. CASE v # "zip"
    <3>1. w = c /\ z = Filled(0, W)
      BY <2>3 DEF Resume
    <3>2. Xor(c[k], 0) = c[k]
      BY <2>1, XorLaws
    <3>3. QED BY <2>1, <3>1, <3>2
  <2>4. QED BY <2>2, <2>3
<1> HIDE DEF z, w
<1>4. CASE v \in Reflected
  <2>1. \A i \in 1..W : (W - i) + 1 \in 1..W
    BY <1>1
  <2> HIDE DEF W
  <2>2. /\ \A i \in 1..W : InOrderOf(v, w)[i] = w[(W - i) + 1]
        /\ \A i \in 1..W : InOrderOf(v, c)[i] = c[(W - i) + 1]
        /\ \A i \in 1..W : InOrderOf(v, z)[i] = z[(W - i) + 1]
    BY <1>2, <1>4, InOrderType DEF W
  <2>3. \A i \in 1..W : InOrderOf(v, w)[i] = Xor(InOrderOf(v, c)[i], InOrderOf(v, z)[i])
    BY <1>3, <2>1, <2>2
  <2>4. QED BY <2>3 DEF W, w, z
<1>5. CASE v \notin Reflected
  <2>1. InOrderOf(v, w) = w /\ InOrderOf(v, c) = c /\ InOrderOf(v, z) = z
    BY <1>2, <1>5, InOrderType DEF W
  <2>2. \A i \in 1..W : InOrderOf(v, w)[i] = Xor(InOrderOf(v, c)[i], InOrderOf(v, z)[i])
    BY <1>3, <2>1
  <2>3. QED BY <2>2 DEF w, z
<1>6. QED BY <1>4, <1>5

(* Feeding a CRC to the function that computed it gives the residue.       *)
LEMMA OwnBytesAccepted ==
  ASSUME NEW v \in Variants, NEW c \in Word(Width(v))
  PROVE  Update(v, Resume(v, c), InOrderOf(v, c)) = Residue(v)
<1> DEFINE zero == Filled(0, Width(v))
<1>1. zero \in Word(Width(v)) /\ Width(v) \in {2, 4}
  BY FilledType, ZeroBits, Widths4
<1>2. Resume(v, zero) \in Word(Width(v)) /\ Resume(v, c) \in Word(Width(v))
  BY <1>1, ResumeUndone
<1>3. InOrderOf(v, c) \in Seq(Byte) /\ InOrderOf(v, c) # << >>
  <2>1. InOrderOf(v, c) \in Seq(Byte) /\ Len(InOrderOf(v, c)) = Width(v)
    BY InOrderType
  <2>2. Len(<< >>) = 0
    OBVIOUS
  <2>3. QED BY <1>1, <2>1, <2>2
<1>4. Loop(v, Resume(v, c), InOrderOf(v, c)) = Loop(v, Resume(v, zero), zero)
  BY <1>2, ResumeIsSum, OwnBytesCancel
<1>5. Update(v, Resume(v, c), InOrderOf(v, c)) = Resume(v, Loop(v, Resume(v, c), InOrderOf(v, c)))
  BY <1>2, <1>3, UpdateForm
<1>6. QED BY <1>4, <1>5, ZerosGiveResidue

(* A receiver that feeds the CRC after the message ends with the same      *)
(* value whatever the message was: the residue a caller of the six         *)
(* functions may test for.                                                 *)
THEOREM ReceiverAlwaysAccepts == CrcSpec => []ReceiverAccepts
<1>1. CrcInv => ReceiverAccepts
  BY OwnBytesAccepted DEF CrcInv, ReceiverAccepts
<1>2. QED BY <1>1, CrcInvariance, PTL

-----------------------------------------------------------------------------
(* The other way round: what a remainder says of the one before it.  The   *)
(* polynomials have a constant term, so the last bit of a remainder is the *)
(* one that left, added to the bit of the message.                         *)
LEMMA DivideBack ==
  ASSUME NEW v, NEW r \in Bits(v), NEW q \in Bits(v), NEW x \in {0, 1}, NEW y \in {0, 1}
  PROVE  /\ Divide(v, r, x)[Size(v)] = (r[1] + x) % 2
         /\ (r[1] + x) % 2 = (q[1] + y) % 2 =>
              \A k \in 1..Size(v) :
                k # 1 /\ Divide(v, r, x)[k - 1] = Divide(v, q, y)[k - 1] => r[k] = q[k]
         /\ (r[1] + x) % 2 = (q[1] + y) % 2 /\ r[1] = q[1] => x = y
         /\ (r[1] + x) % 2 = (q[1] + y) % 2 /\ x = y => r[1] = q[1]
         /\ (r[1] + x) % 2 = (q[1] + y) % 2 /\ r = q => Divide(v, r, x) = Divide(v, q, y)
<1> DEFINE z == Size(v)
           p == Polynomial(v)
           c == (r[1] + x) % 2
           d == (q[1] + y) % 2
<1>1. z \in {16, 32} /\ \A k \in 1..z : p[k] \in {0, 1}
  BY Sizes DEF Bits
<1>2. p[z] = 1
  BY <1>1 DEF Polynomial, Size
<1>3. \A k \in 1..z : r[k] \in {0, 1} /\ q[k] \in {0, 1}
  BY DEF Bits
<1>4. r[1] \in {0, 1} /\ q[1] \in {0, 1} /\ c \in {0, 1} /\ d \in {0, 1}
  <2>1. 1 \in 1..z
    BY <1>1
  <2>2. r[1] \in {0, 1} /\ q[1] \in {0, 1}
    BY <1>3, <2>1
  <2>3. QED BY <2>2
<1>5. /\ \A k \in 1..z : Divide(v, r, x)[k] =
           ((IF k = z THEN 0 ELSE r[k + 1]) + (IF c = 1 THEN p[k] ELSE 0)) % 2
      /\ \A k \in 1..z : Divide(v, q, y)[k] =
           ((IF k = z THEN 0 ELSE q[k + 1]) + (IF d = 1 THEN p[k] ELSE 0)) % 2
      /\ Divide(v, r, x) \in Bits(v) /\ Divide(v, q, y) \in Bits(v)
  BY DivideForm
<1>6. /\ c = d /\ r[1] = q[1] => x = y
      /\ c = d /\ x = y => r[1] = q[1]
  <2>1. \A i, j, k, l \in {0, 1} : (i + k) % 2 = (j + l) % 2 => (i = j => k = l) /\ (k = l => i = j)
    OBVIOUS
  <2>2. QED BY <1>4, <2>1
<1>7. c = (r[1] + x) % 2 /\ d = (q[1] + y) % 2 /\ z = Size(v)
  OBVIOUS
<1> HIDE DEF z, p, c, d
<1>8. Divide(v, r, x)[z] = c
  <2>1. z \in 1..z
    BY <1>1
  <2>2. QED BY <1>2, <1>4, <1>5, <2>1
<1>9. ASSUME c = d, NEW k \in 1..z, k # 1, Divide(v, r, x)[k - 1] = Divide(v, q, y)[k - 1]
      PROVE  r[k] = q[k]
  <2>1. k - 1 \in 1..z /\ k - 1 # z /\ (k - 1) + 1 = k
    BY <1>1, <1>9
  <2>2. PICK t \in {0, 1} : /\ Divide(v, r, x)[k - 1] = (r[k] + t) % 2
                            /\ Divide(v, q, y)[k - 1] = (q[k] + t) % 2
    <3>1. (IF c = 1 THEN p[k - 1] ELSE 0) \in {0, 1}
      BY <1>1, <2>1
    <3>2. /\ Divide(v, r, x)[k - 1] = (r[k] + (IF c = 1 THEN p[k - 1] ELSE 0)) % 2
          /\ Divide(v, q, y)[k - 1] = (q[k] + (IF c = 1 THEN p[k - 1] ELSE 0)) % 2
      BY <1>5, <1>9, <2>1
    <3>3. QED BY <3>1, <3>2
  <2>3. r[k] \in {0, 1} /\ q[k] \in {0, 1}
    BY <1>3
  <2>4. (r[k] + t) % 2 = (q[k] + t) % 2
    BY <1>9, <2>2
  <2>5. QED BY <2>3, <2>4
<1>10. ASSUME c = d, r = q PROVE Divide(v, r, x) = Divide(v, q, y)
  <2>1. \A k \in 1..z : Divide(v, r, x)[k] = Divide(v, q, y)[k]
    BY <1>5, <1>10
  <2>2. QED BY <1>5, <1>7, <2>1, SameBits
<1>11. QED BY <1>6, <1>7, <1>8, <1>9, <1>10

(* f are the remainders of the bits x; x and y differ only in the n bits   *)
(* after the first s.                                                      *)
Divides(v, f, x, L) ==
  /\ \A k \in 0..L : f[k] \in Bits(v)
  /\ \A k \in 1..L : x[k] \in {0, 1}
  /\ \A k \in 0..(L - 1) : f[k + 1] = Divide(v, f[k], x[k + 1])
DifferWithin(x, y, L, s, n) == \A k \in 1..L : ~(s < k /\ k <= s + n) => x[k] = y[k]

(* Divisions of two messages that end with the same remainder and differ   *)
(* within as many bits as the remainder has do not differ at all.          *)
LEMMA SameEndSameBits ==
  ASSUME NEW v, NEW L \in Nat, NEW f, NEW g, NEW x, NEW y, NEW s \in Nat,
         Divides(v, f, x, L), Divides(v, g, y, L), f[0] = g[0], f[L] = g[L],
         DifferWithin(x, y, L, s, Size(v))
  PROVE  \A k \in 1..L : x[k] = y[k]
<1> DEFINE z == Size(v)
           Agree(n) == \A i \in 1..z : i + n > s + z => f[n][i] = g[n][i]
           Leaves(n) == (f[n][1] + x[n + 1]) % 2 = (g[n][1] + y[n + 1]) % 2
           T == { m \in Nat : m <= L /\ s <= L - m => Agree(L - m) }
           U == { n \in Nat : n <= L => f[n] = g[n] }
<1>1. z \in {16, 32} /\ z = Size(v) /\ 1 \in 1..z /\ z \in 1..z
  BY Sizes
<1>2. \A k \in 0..(L - 1) :
        /\ k + 1 \in 1..L /\ k \in 0..L /\ k + 1 \in 0..L
        /\ f[k] \in Bits(v) /\ g[k] \in Bits(v) /\ x[k + 1] \in {0, 1} /\ y[k + 1] \in {0, 1}
        /\ f[k + 1] = Divide(v, f[k], x[k + 1]) /\ g[k + 1] = Divide(v, g[k], y[k + 1])
  <2>1. \A k \in 0..(L - 1) : k + 1 \in 1..L /\ k \in 0..L /\ k + 1 \in 0..L
    OBVIOUS
  <2>2. QED BY <2>1 DEF Divides
<1>14. \A k \in 0..(L - 1) : ~(s < k + 1 /\ k + 1 <= s + z) => x[k + 1] = y[k + 1]
  BY <1>2 DEF DifferWithin
<1> HIDE DEF z
<1>3. \A k \in 0..(L - 1) :
        /\ f[k + 1][z] = (f[k][1] + x[k + 1]) % 2 /\ g[k + 1][z] = (g[k][1] + y[k + 1]) % 2
        /\ Leaves(k) => \A i \in 1..z : i # 1 /\ f[k + 1][i - 1] = g[k + 1][i - 1] => f[k][i] = g[k][i]
        /\ Leaves(k) /\ f[k][1] = g[k][1] => x[k + 1] = y[k + 1]
        /\ Leaves(k) /\ x[k + 1] = y[k + 1] => f[k][1] = g[k][1]
        /\ Leaves(k) /\ f[k] = g[k] => f[k + 1] = g[k + 1]
  <2> SUFFICES ASSUME NEW k \in 0..(L - 1)
               PROVE
        /\ f[k + 1][z] = (f[k][1] + x[k + 1]) % 2 /\ g[k + 1][z] = (g[k][1] + y[k + 1]) % 2
        /\ Leaves(k) => \A i \in 1..z : i # 1 /\ f[k + 1][i - 1] = g[k + 1][i - 1] => f[k][i] = g[k][i]
        /\ Leaves(k) /\ f[k][1] = g[k][1] => x[k + 1] = y[k + 1]
        /\ Leaves(k) /\ x[k + 1] = y[k + 1] => f[k][1] = g[k][1]
        /\ Leaves(k) /\ f[k] = g[k] => f[k + 1] = g[k + 1]
    OBVIOUS
  <2>1. PICK r \in Bits(v), q \in Bits(v), b \in {0, 1}, c \in {0, 1} :
          r = f[k] /\ q = g[k] /\ b = x[k + 1] /\ c = y[k + 1]
    BY <1>2
  <2>2. f[k + 1] = Divide(v, r, b) /\ g[k + 1] = Divide(v, q, c)
    BY <1>2, <2>1
  <2>3. /\ Divide(v, r, b)[z] = (r[1] + b) % 2
        /\ Divide(v, q, c)[z] = (q[1] + c) % 2
        /\ (r[1] + b) % 2 = (q[1] + c) % 2 =>
             \A i \in 1..z : i # 1 /\ Divide(v, r, b)[i - 1] = Divide(v, q, c)[i - 1] => r[i] = q[i]
        /\ (r[1] + b) % 2 = (q[1] + c) % 2 /\ r[1] = q[1] => b = c
        /\ (r[1] + b) % 2 = (q[1] + c) % 2 /\ b = c => r[1] = q[1]
        /\ (r[1] + b) % 2 = (q[1] + c) % 2 /\ r = q => Divide(v, r, b) = Divide(v, q, c)
    BY <1>1, DivideBack
  <2>4. QED BY <2>1, <2>2, <2>3
<1>4. \A k \in 0..(L - 1) : s <= k /\ Agree(k + 1) => Leaves(k)
  <2> SUFFICES ASSUME NEW k \in 0..(L - 1), s <= k, Agree(k + 1) PROVE Leaves(k)
    OBVIOUS
  <2>1. z + (k + 1) > s + z
    BY <1>1
  <2>2. f[k + 1][z] = g[k + 1][z]
    BY <1>1, <2>1
  <2>3. QED BY <1>3, <2>2
<1>5. 0 \in T
  BY <1>1
<1>6. \A m \in Nat : m \in T => m + 1 \in T
  <2> SUFFICES ASSUME NEW m \in Nat, m \in T, m + 1 <= L, s <= L - (m + 1)
               PROVE  Agree(L - (m + 1))
    OBVIOUS
  <2> DEFINE k == L - (m + 1)
  <2>1. k \in 0..(L - 1) /\ s <= k /\ k + 1 = L - m /\ k + 1 \in 1..L
    OBVIOUS
  <2>2. Agree(k + 1)
    BY <2>1
  <2> HIDE DEF k
  <2>3. Leaves(k)
    BY <1>4, <2>1, <2>2
  <2>4. ASSUME NEW i \in 1..z, i + k > s + z PROVE f[k][i] = g[k][i]
    <3>1. CASE i = 1
      <4>1. ~(k + 1 <= s + z)
        BY <1>1, <2>1, <2>4, <3>1
      <4>2. x[k + 1] = y[k + 1]
        BY <1>14, <2>1, <4>1
      <4>3. f[k][1] = g[k][1]
        BY <1>3, <2>1, <2>3, <4>2
      <4>4. QED BY <3>1, <4>3
    <3>2. CASE i # 1
      <4>1. i - 1 \in 1..z /\ (i - 1) + (k + 1) > s + z
        BY <1>1, <2>1, <2>4, <3>2
      <4>2. f[k + 1][i - 1] = g[k + 1][i - 1]
        BY <2>2, <4>1
      <4>3. QED BY <1>3, <2>1, <2>3, <3>2, <4>2
    <3>3. QED BY <3>1, <3>2
  <2>5. Agree(k)
    BY <2>4
  <2>6. QED BY <2>5 DEF k
<1>7. \A m \in Nat : m \in T
  <2> HIDE DEF T
  <2>1. QED BY <1>5, <1>6, SetInduction
<1>8. \A k \in 0..(L - 1) : Leaves(k) \/ x[k + 1] = y[k + 1]
  <2> SUFFICES ASSUME NEW k \in 0..(L - 1), x[k + 1] # y[k + 1] PROVE Leaves(k)
    OBVIOUS
  <2>1. s <= k
    BY <1>1, <1>14
  <2>2. L - (k + 1) \in Nat /\ L - (L - (k + 1)) = k + 1
    OBVIOUS
  <2>3. L - (k + 1) <= L /\ s <= L - (L - (k + 1))
    BY <2>1
  <2>4. Agree(k + 1)
    BY <1>7, <2>2, <2>3
  <2>5. QED BY <1>4, <2>1, <2>4
<1>9. \A k \in 0..(L - 1) : f[k] = g[k] => Leaves(k) /\ x[k + 1] = y[k + 1] /\ f[k + 1] = g[k + 1]
  <2> SUFFICES ASSUME NEW k \in 0..(L - 1), f[k] = g[k]
               PROVE  Leaves(k) /\ x[k + 1] = y[k + 1] /\ f[k + 1] = g[k + 1]
    OBVIOUS
  <2>1. Leaves(k)
    BY <1>8
  <2> HIDE DEF Leaves
  <2>2. QED BY <1>3, <2>1
<1>10. 0 \in U
  OBVIOUS
<1>11. \A n \in Nat : n \in U => n + 1 \in U
  BY <1>9
<1>12. \A n \in Nat : n \in U
  <2> HIDE DEF U
  <2>1. QED BY <1>10, <1>11, SetInduction
<1>13. QED
  <2> SUFFICES ASSUME NEW k \in 1..L PROVE x[k] = y[k]
    OBVIOUS
  <2>1. k - 1 \in 0..(L - 1) /\ (k - 1) + 1 = k /\ k - 1 \in U
    BY <1>12
  <2>2. f[k - 1] = g[k - 1]
    BY <2>1
  <2>3. x[(k - 1) + 1] = y[(k - 1) + 1]
    BY <1>9, <2>1, <2>2
  <2>4. QED BY <2>1, <2>3

(* Messages of the same bits are equal.                                    *)
LEMMA SameMessage ==
  ASSUME NEW v, NEW a \in Seq(Byte), NEW b \in Seq(Byte), Len(a) = Len(b),
         \A k \in 1..(8 * Len(a)) : MessageBit(v, a, k) = MessageBit(v, b, k)
  PROVE  a = b
<1>1. Len(a) \in Nat
  BY LenProperties
<1>2. ASSUME NEW i \in 1..Len(a) PROVE a[i] = b[i]
  <2>1. a[i] \in Byte /\ b[i] \in Byte
    BY <1>1
  <2>2. ASSUME NEW m \in 1..8 PROVE BitsOf(v, a[i])[m] = BitsOf(v, b[i])[m]
    <3> DEFINE k == 8 * (i - 1) + m
    <3>1. /\ k \in 1..(8 * Len(a)) /\ ((k - 1) \div 8) + 1 = i /\ ((k - 1) % 8) + 1 = m
      BY <1>1
    <3>2. MessageBit(v, a, k) = MessageBit(v, b, k)
      BY <3>1
    <3> HIDE DEF k
    <3>3. QED BY <3>1, <3>2 DEF MessageBit
  <2>3. \A p \in {1, 2, 4, 8, 16, 32, 64, 128} : BitAt(a[i], p) = BitAt(b[i], p)
    <3> SUFFICES ASSUME NEW p \in {1, 2, 4, 8, 16, 32, 64, 128}
                 PROVE  BitAt(a[i], p) = BitAt(b[i], p)
      OBVIOUS
    <3>1. \E j \in 1..8 : Weight[j] = p
      BY DEF Weight
    <3>2. \E m \in 1..8 : Weight[IF v \in Reflected THEN 9 - m ELSE m] = p
      <4>1. PICK j \in 1..8 : Weight[j] = p
        BY <3>1
      <4>2. 9 - j \in 1..8 /\ 9 - (9 - j) = j
        OBVIOUS
      <4>3. CASE v \in Reflected
        BY <4>1, <4>2, <4>3
      <4>4. CASE v \notin Reflected
        BY <4>1, <4>4
      <4>5. QED BY <4>3, <4>4
    <3>3. PICK m \in 1..8 : Weight[IF v \in Reflected THEN 9 - m ELSE m] = p
      BY <3>2
    <3>4. BitsOf(v, a[i])[m] = BitAt(a[i], p) /\ BitsOf(v, b[i])[m] = BitAt(b[i], p)
      BY <3>3 DEF BitsOf, BitAt
    <3>5. QED BY <2>2, <3>4
  <2>4. QED BY <2>1, <2>3, SameByte
<1>3. a = b
  BY <1>2, SeqEqual
<1>4. QED BY <1>3

(* The messages differ only in the n bits after the first s.               *)
SameBut(v, a, b, s, n) ==
  \A k \in 1..(8 * Len(a)) : ~(s < k /\ k <= s + n) => MessageBit(v, a, k) = MessageBit(v, b, k)

(* Damage of any number of bits that lie within a register's length of     *)
(* each other, anywhere in a message of any length, changes the CRC that   *)
(* any of the six functions computes, from whatever value it resumes.      *)
THEOREM BurstsDetected ==
  ASSUME NEW v \in Variants, NEW w \in Word(Width(v)),
         NEW a \in Seq(Byte), NEW b \in Seq(Byte), Len(a) = Len(b), a # b,
         NEW s \in Nat, SameBut(v, a, b, s, Size(v))
  PROVE  Update(v, w, a) # Update(v, w, b)
<1> SUFFICES ASSUME Update(v, w, a) = Update(v, w, b) PROVE FALSE
  OBVIOUS
<1> DEFINE L == 8 * Len(a)
           f == Division(v, w, a)
           g == Division(v, w, b)
           x == [k \in 1..L |-> MessageBit(v, a, k)]
           y == [k \in 1..L |-> MessageBit(v, b, k)]
<1>1. Len(a) \in Nat /\ L \in Nat /\ a # << >> /\ b # << >>
  <2>1. Len(a) \in Nat
    BY LenProperties
  <2>2. a # << >> /\ b # << >>
    BY EmptySeq
  <2>3. QED BY <2>1, <2>2
<1>2. Loop(v, w, a) = Loop(v, w, b)
  <2>1. Resume(v, Loop(v, w, a)) = Resume(v, Loop(v, w, b))
    BY <1>1, UpdateForm
  <2>2. Loop(v, w, a) \in Word(Width(v)) /\ Loop(v, w, b) \in Word(Width(v))
    BY NothingFed, LoopDivides
  <2>3. QED BY <2>1, <2>2, ResumeUndone
<1>3. f[L] = g[L]
  <2>1. << >> \in Seq(Byte) /\ WordBits(v, w) = Remainder(v, w, << >>)
    BY NothingFed
  <2>2. << >> \o a = a /\ << >> \o b = b
    BY ConcatEmptySeq
  <2>3. /\ WordBits(v, Loop(v, w, a)) = Remainder(v, w, << >> \o a)
        /\ WordBits(v, Loop(v, w, b)) = Remainder(v, w, << >> \o b)
    BY <2>1, LoopDivides
  <2>4. QED BY <1>2, <2>2, <2>3 DEF Remainder
<1>4. /\ f[0] = WordBits(v, w) /\ g[0] = WordBits(v, w)
      /\ \A k \in 0..L : f[k] \in Bits(v) /\ g[k] \in Bits(v)
      /\ \A k \in 0..(L - 1) : /\ f[k + 1] = Divide(v, f[k], MessageBit(v, a, k + 1))
                               /\ g[k + 1] = Divide(v, g[k], MessageBit(v, b, k + 1))
  <2>1. /\ f[0] = WordBits(v, w) /\ \A k \in 0..(8 * Len(a)) : f[k] \in Bits(v)
        /\ \A k \in 0..(8 * Len(a) - 1) : f[k + 1] = Divide(v, f[k], MessageBit(v, a, k + 1))
    BY DivisionFacts
  <2>2. /\ g[0] = WordBits(v, w) /\ \A k \in 0..(8 * Len(b)) : g[k] \in Bits(v)
        /\ \A k \in 0..(8 * Len(b) - 1) : g[k + 1] = Divide(v, g[k], MessageBit(v, b, k + 1))
    BY DivisionFacts
  <2> HIDE DEF f, g
  <2>3. QED BY <2>1, <2>2
<1>5. \A k \in 1..L : x[k] \in {0, 1} /\ y[k] \in {0, 1}
  BY MessageBitType
<1> HIDE DEF f, g
<1>6. \A k \in 0..(L - 1) : /\ f[k + 1] = Divide(v, f[k], x[k + 1])
                            /\ g[k + 1] = Divide(v, g[k], y[k + 1])
  <2>1. \A k \in 0..(L - 1) : k + 1 \in 1..L
    BY <1>1
  <2>2. QED BY <1>4, <2>1
<1>7. DifferWithin(x, y, L, s, Size(v))
  BY DEF DifferWithin, SameBut
<1>8. \A k \in 1..L : MessageBit(v, a, k) = x[k] /\ MessageBit(v, b, k) = y[k]
  OBVIOUS
<1> HIDE DEF x, y, L
<1>9. \A k \in 1..L : x[k] = y[k]
  <2>1. Divides(v, f, x, L) /\ Divides(v, g, y, L)
    BY <1>4, <1>5, <1>6 DEF Divides
  <2>2. QED BY <1>1, <1>3, <1>4, <1>7, <2>1, SameEndSameBits
<1>10. \A k \in 1..(8 * Len(a)) : MessageBit(v, a, k) = MessageBit(v, b, k)
  BY <1>8, <1>9 DEF L
<1>11. QED BY <1>10, SameMessage

(* So a receiver that feeds the CRC of a after a message b damaged in this *)
(* way does not see the residue that it would accept.                      *)
THEOREM ReceiverRejectsBursts ==
  ASSUME NEW v \in Variants, NEW w \in Word(Width(v)),
         NEW a \in Seq(Byte), NEW b \in Seq(Byte), Len(a) = Len(b), a # b,
         NEW s \in Nat, SameBut(v, a, b, s, Size(v))
  PROVE  Update(v, Resume(v, Update(v, w, b)), InOrderOf(v, Update(v, w, a))) # Residue(v)
<1> DEFINE c == Update(v, w, a)
           d == Update(v, w, b)
<1>1. c # d
  BY BurstsDetected
<1>2. c \in Word(Width(v)) /\ d \in Word(Width(v))
  BY UpdateForm
<1> HIDE DEF c, d
<1>3. /\ InOrderOf(v, c) \in Seq(Byte) /\ Len(InOrderOf(v, c)) = Width(v)
      /\ InOrderOf(v, d) \in Seq(Byte) /\ Len(InOrderOf(v, d)) = Width(v)
  BY <1>2, InOrderType
<1>4. InOrderOf(v, c) # InOrderOf(v, d)
  BY <1>1, <1>2, SameInOrder
<1>5. Resume(v, d) \in Word(Width(v))
  BY <1>2, ResumeUndone
<1>6. SameBut(v, InOrderOf(v, c), InOrderOf(v, d), 0, Size(v))
  BY <1>3, Widths4 DEF Size, SameBut
<1>7. Update(v, Resume(v, d), InOrderOf(v, c)) # Update(v, Resume(v, d), InOrderOf(v, d))
  <2>1. 0 \in Nat
    OBVIOUS
  <2>2. QED BY <1>3, <1>4, <1>5, <1>6, <2>1, BurstsDetected
<1>8. Update(v, Resume(v, d), InOrderOf(v, d)) = Residue(v)
  BY <1>2, OwnBytesAccepted
<1>9. QED BY <1>7, <1>8 DEF c, d
=============================================================================
