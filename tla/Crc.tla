-------------------------------- MODULE Crc ---------------------------------
(***************************************************************************)
(* The six table-driven CRC functions (juno_arc.c to juno_zip.c, crc.h).   *)
(* A word of 16 or 32 bits is the sequence of its bytes, most significant  *)
(* first.  ARC, Kermit and ZIP shift to the right (the low byte goes       *)
(* through the table), the others to the left.                             *)
(***************************************************************************)
EXTENDS CrcTables, SequencesExt

Byte == 0..255
Word(n) == [1..n -> Byte]

(* Exclusive or of bytes, by way of the exclusive or of their nibbles.     *)
XorBit(a, b, p) == p * (((a \div p) + (b \div p)) % 2)
XorNibble == [a \in 0..15 |-> [b \in 0..15 |->
  XorBit(a, b, 8) + XorBit(a, b, 4) + XorBit(a, b, 2) + XorBit(a, b, 1)]]
Xor(a, b) == 16 * XorNibble[a \div 16][b \div 16] + XorNibble[a % 16][b % 16]
XorWord(u, w) == [k \in DOMAIN u |-> Xor(u[k], w[k])]

Half(n) == <<n \div 256, n % 256>>
Entry16(table, k) == Half(table[k + 1])
Entry32(table, k) == Half(table[2 * k + 1]) \o Half(table[2 * k + 2])

Filled(b, n) == [k \in 1..n |-> b]
ShiftRight(w) == <<0>> \o Front(w)
ShiftLeft(w)  == Append(Tail(w), 0)

-----------------------------------------------------------------------------
Variants == {"arc", "kermit", "zip", "binhex", "ccitt", "ccitt32"}
Reflected == {"arc", "kermit", "zip"}

Width(v) == IF v \in {"zip", "ccitt32"} THEN 4 ELSE 2

(* One byte through each of the loops.                                     *)
ArcStep(w, b)     == XorWord(ShiftRight(w), Entry16(arc_crctab, Xor(Last(w), b)))
KermitStep(w, b)  == XorWord(ShiftRight(w), Entry16(kermit_crctab, Xor(Last(w), b)))
ZipStep(w, b)     == XorWord(ShiftRight(w), Entry32(zip_crctab, Xor(Last(w), b)))
BinhexStep(w, b)  == XorWord(ShiftLeft(w), Entry16(binhex_crctab, Xor(Head(w), b)))
CcittStep(w, b)   == XorWord(ShiftLeft(w), Entry16(ccitt_crctab, Xor(Head(w), b)))
Ccitt32Step(w, b) == XorWord(ShiftLeft(w), Entry32(ccitt32_crctab, Xor(Head(w), b)))

Step(v, w, b) ==
  CASE v = "arc"     -> ArcStep(w, b)
    [] v = "kermit"  -> KermitStep(w, b)
    [] v = "zip"     -> ZipStep(w, b)
    [] v = "binhex"  -> BinhexStep(w, b)
    [] v = "ccitt"   -> CcittStep(w, b)
    [] v = "ccitt32" -> Ccitt32Step(w, b)

(* while(cnt--): crc[n] after n bytes.                                     *)
Run(v, w, data) ==
  LET crc[n \in 0..Len(data)] == IF n = 0 THEN w ELSE Step(v, crc[n - 1], data[n])
  IN  crc
Loop(v, w, data) == Run(v, w, data)[Len(data)]

Juno_CrcArcUpdate(iCrc, data) ==
  IF data = << >> THEN Filled(0, 2) ELSE Loop("arc", iCrc, data)
Juno_CrcKermitUpdate(iCrc, data) ==
  IF data = << >> THEN Filled(0, 2) ELSE Loop("kermit", iCrc, data)
Juno_CrcBinhexUpdate(iCrc, data) ==
  IF data = << >> THEN Filled(0, 2) ELSE Loop("binhex", iCrc, data)
Juno_CrcCcittUpdate(iCrc, data) ==
  IF data = << >> THEN Filled(0, 2) ELSE Loop("ccitt", iCrc, data)

(* Mutant: the last byte of the buffer is left out.                        *)
Juno_CrcCcitt32UpdateShort(iCrc, data) ==
  IF data = << >> THEN Filled(0, 4) ELSE Loop("ccitt32", iCrc, Front(data))

Juno_CrcCcitt32Update(iCrc, data) ==
  IF data = << >> THEN Filled(0, 4) ELSE Loop("ccitt32", iCrc, data)

(* Mutant: no final exclusive or.                                          *)
Juno_CrcZipUpdateRaw(iCrc, data) ==
  IF data = << >> THEN Filled(0, 4) ELSE Loop("zip", iCrc, data)

(* ZIP complements the result of every call that has data.                 *)
Juno_CrcZipUpdate(iCrc, data) ==
  IF data = << >> THEN Filled(0, 4) ELSE XorWord(Loop("zip", iCrc, data), Filled(255, 4))

Update(v, iCrc, data) ==
  CASE v = "arc"     -> Juno_CrcArcUpdate(iCrc, data)
    [] v = "kermit"  -> Juno_CrcKermitUpdate(iCrc, data)
    [] v = "zip"     -> Juno_CrcZipUpdate(iCrc, data)
    [] v = "binhex"  -> Juno_CrcBinhexUpdate(iCrc, data)
    [] v = "ccitt"   -> Juno_CrcCcittUpdate(iCrc, data)
    [] v = "ccitt32" -> Juno_CrcCcitt32Update(iCrc, data)

-----------------------------------------------------------------------------
(* The JUNO_*_CRC_INIT seeds.                                              *)
Seed(v) == Filled(IF v \in {"ccitt", "ccitt32", "zip"} THEN 255 ELSE 0, Width(v))

(* What a caller passes back: ZIP's complement is to be undone first.      *)
Resume(v, w) == IF v = "zip" THEN XorWord(w, Filled(255, 4)) ELSE w
=============================================================================
