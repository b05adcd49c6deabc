----------------------------- MODULE CrcClient ------------------------------
(***************************************************************************)
(* A caller that feeds a message to a CRC function chunk by chunk, as the  *)
(* comment of crc.h shows.  The reference is long division of the message  *)
(* by the variant's polynomial, one bit at a time, without any table.      *)
(***************************************************************************)
EXTENDS Crc

CONSTANTS
  Openings,     \* what a message may begin with
  Chunks,       \* what it may go on with
  LengthBound   \* bytes of a message

ASSUME CrcClientAssumption ==
  /\ Openings \subseteq Seq(Byte) /\ Chunks \subseteq Seq(Byte)
  /\ << >> \notin Openings \cup Chunks
  /\ LengthBound \in Nat

VARIABLES
  variant,   \* the function in use
  iCrc,      \* its last result, or the seed
  seed,      \* history: the value the message so far was started with
  fed        \* history: the bytes fed since

crcVars == <<variant, iCrc, seed, fed>>

CrcInit ==
  /\ variant \in Variants
  /\ seed = Seed(variant)
  /\ iCrc = IF variant = "zip" THEN Resume("zip", seed) ELSE seed
  /\ fed = << >>

Feed(chunk) ==
  /\ Len(fed) + Len(chunk) <= LengthBound
  /\ iCrc' = Update(variant, Resume(variant, iCrc), chunk)
  /\ fed' = fed \o chunk
  /\ UNCHANGED <<variant, seed>>

(* A chunk of no bytes returns 0: the message so far is forgotten.         *)
FeedEmpty ==
  /\ fed # << >>
  /\ iCrc' = Update(variant, Resume(variant, iCrc), << >>)
  /\ seed' = Resume(variant, Filled(0, Width(variant)))
  /\ fed' = << >>
  /\ UNCHANGED variant

CrcNext ==
  \/ fed = << >> /\ \E chunk \in Openings : Feed(chunk)
  \/ \E chunk \in Chunks : Feed(chunk)
  \/ FeedEmpty

CrcSpec == CrcInit /\ [][CrcNext]_crcVars

-----------------------------------------------------------------------------
(* The polynomials, without their leading term: x^16 + x^15 + x^2 + 1 for  *)
(* ARC, x^16 + x^12 + x^5 + 1 for Kermit, BinHex and CCITT, and that of    *)
(* CRC-32, as the bits of the coefficients from the highest power down.    *)
Polynomial(v) ==
  LET powers == CASE v = "arc" -> {15, 2, 0}
                  [] v \in {"kermit", "binhex", "ccitt"} -> {12, 5, 0}
                  [] OTHER -> {26, 23, 22, 16, 12, 11, 10, 8, 7, 5, 4, 2, 1, 0}
  IN  [k \in 1..(8 * Width(v)) |-> IF 8 * Width(v) - k \in powers THEN 1 ELSE 0]

(* The bits of a byte, of a message, and of a word, in the order the       *)
(* variant takes them: lowest first for the reflected ones.                *)
Weight == <<128, 64, 32, 16, 8, 4, 2, 1>>
BitsOf(v, b) == [k \in 1..8 |-> (b \div Weight[IF v \in Reflected THEN 9 - k ELSE k]) % 2]
MessageBit(v, data, k) == BitsOf(v, data[((k - 1) \div 8) + 1])[((k - 1) % 8) + 1]
InOrderOf(v, w) == IF v \in Reflected THEN Reverse(w) ELSE w
WordBits(v, w) == [k \in 1..(8 * Width(v)) |-> MessageBit(v, InOrderOf(v, w), k)]

Sum2(u, w) == [k \in DOMAIN u |-> (u[k] + w[k]) % 2]

(* One bit of the message into the remainder r.                            *)
Divide(v, r, bit) ==
  LET shifted == Append(Tail(r), 0)
  IN  IF (Head(r) + bit) % 2 = 1 THEN Sum2(shifted, Polynomial(v)) ELSE shifted

(* The remainders after each bit of data, and after the last.              *)
Division(v, start, data) ==
  LET r[k \in 0..(8 * Len(data))] ==
        IF k = 0 THEN WordBits(v, start) ELSE Divide(v, r[k - 1], MessageBit(v, data, k))
  IN  r
Remainder(v, start, data) == Division(v, start, data)[8 * Len(data)]

(* Every one of the 1536 entries of the tables is the remainder of the     *)
(* byte it stands for.                                                     *)
Entry(v, k) ==
  CASE v = "arc"     -> Entry16(arc_crctab, k)
    [] v = "kermit"  -> Entry16(kermit_crctab, k)
    [] v = "zip"     -> Entry32(zip_crctab, k)
    [] v = "binhex"  -> Entry16(binhex_crctab, k)
    [] v = "ccitt"   -> Entry16(ccitt_crctab, k)
    [] v = "ccitt32" -> Entry32(ccitt32_crctab, k)

ASSUME TableAssumption ==
  \A v \in Variants : \A k \in Byte :
    /\ Entry(v, k) \in Word(Width(v))
    /\ WordBits(v, Entry(v, k)) = Remainder(v, Filled(0, Width(v)), <<k>>)

(* However a message is cut into chunks, the CRC is the remainder of the   *)
(* whole message: every one of the 1536 table entries is right, the word   *)
(* shifts the way its table is reflected, ZIP's complement is undone at    *)
(* each boundary.  An empty chunk starts a new message whose seed is 0.    *)
CrcIsRemainder ==
  WordBits(variant, Resume(variant, iCrc)) = Remainder(variant, seed, fed)

(* A receiver that feeds the CRC after the message gets the same value     *)
(* whatever the message was: 0, or for ZIP the one of its complement.      *)
Residue(v) == IF v = "zip" THEN <<33, 68, 223, 28>> ELSE Filled(0, Width(v))
ReceiverAccepts ==
  fed # << >> => Update(variant, Resume(variant, iCrc), InOrderOf(variant, iCrc)) = Residue(variant)
=============================================================================
