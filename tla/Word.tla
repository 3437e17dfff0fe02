-------------------------------- MODULE Word --------------------------------
(***************************************************************************)
(* Go's uint64/int64/uint32/int32 arithmetic, as the emulator uses it on   *)
(* registers, immediates, addresses and instruction words.                 *)
(*                                                                         *)
(* TLC integers are 32-bit, so a 64-bit word is represented exactly as its *)
(* eight little-endian bytes: w[i] holds bits 8*i .. 8*i+7.  Every         *)
(* operator below is the Go operator it is named after, with Go's          *)
(* wrap-around (mod 2^64) semantics; nothing is narrowed.  Only signExtend *)
(* (sign.go) is code of the repository; the rest is the Go language.       *)
(***************************************************************************)
EXTENDS Integers, Bitwise, TLC

Bytes == 0 .. 7                 \* byte positions of a uint64
Byte  == 0 .. 255
Word  == [Bytes -> Byte]        \* a uint64 value

\* The byte at position j, with positions past the top reading as fill.
At(w, j, fill) == IF j \in Bytes THEN w[j] ELSE fill

(* uint64(n) for a non-negative TLC integer n < 2^31. *)
FromNat(n) == [i \in Bytes |-> IF i < 4 THEN (n \div 2^(8 * i)) % 256 ELSE 0]

Zero   == FromNat(0)
One    == FromNat(1)
MaxU64 == [i \in Bytes |-> 255]                 \* math.MaxUint64

(* Words that fit a TLC integer, and their value. *)
IsSmall(w) == w[3] < 128 /\ \A i \in 4 .. 7 : w[i] = 0
ToNat(w)   == w[0] + 256 * w[1] + 65536 * w[2] + 16777216 * w[3]

(* Bit i of w, and (w >> lo) & (1<<n - 1) as a natural, for n <= 24: the  *)
(* four bytes from the one holding bit lo cover bits lo .. lo+24.          *)
Bit(w, i)      == (w[i \div 8] \div 2^(i % 8)) % 2
Bits(w, lo, n) ==
  LET b == lo \div 8
      v == At(w, b, 0) + 256 * At(w, b + 1, 0) + 65536 * At(w, b + 2, 0)
           + 16777216 * (At(w, b + 3, 0) % 128)
  IN  (v \div 2^(lo % 8)) % 2^n

IsNeg(w) == w[7] >= 128                          \* int64(w) < 0

(* The same word, with its eight bytes computed now: TLC keeps            *)
(* [i \in Bytes |-> e] as an unevaluated function, which a 64-step loop   *)
(* would nest 64 deep; :> and @@ build an explicit function.              *)
Norm(w) == (0 :> w[0]) @@ (1 :> w[1]) @@ (2 :> w[2]) @@ (3 :> w[3])
           @@ (4 :> w[4]) @@ (5 :> w[5]) @@ (6 :> w[6]) @@ (7 :> w[7])

-----------------------------------------------------------------------------
(* Bitwise operators: &, |, ^, &^ and ^x. *)
WAnd(a, b)    == [i \in Bytes |-> a[i] & b[i]]
WOr(a, b)     == [i \in Bytes |-> a[i] | b[i]]
WXor(a, b)    == [i \in Bytes |-> a[i] ^^ b[i]]
WNot(a)       == [i \in Bytes |-> 255 - a[i]]
WAndNot(a, b) == WAnd(a, WNot(b))

-----------------------------------------------------------------------------
(* + and - on uint64, wrapping modulo 2^64. *)
Add(a, b) ==
  LET c[i \in 0 .. 8] == IF i = 0 THEN 0 ELSE (a[i-1] + b[i-1] + c[i-1]) \div 256
  IN  [i \in Bytes |-> (a[i] + b[i] + c[i]) % 256]

Sub(a, b) ==
  LET d[i \in 0 .. 8] == IF i = 0 THEN 0
                         ELSE IF a[i-1] - b[i-1] - d[i-1] < 0 THEN 1 ELSE 0
  IN  [i \in Bytes |-> (a[i] - b[i] - d[i]) % 256]

Neg(a) == Sub(Zero, a)

-----------------------------------------------------------------------------
(* <<, >> on uint64 and >> on int64, by k in 0 .. 63 bit positions. *)
Shl(a, k) ==
  LET q == k \div 8   r == k % 8
  IN  [i \in Bytes |-> ((At(a, i - q, 0) * 2^r) % 256) + At(a, i - q - 1, 0) \div 2^(8 - r)]

ShrFill(a, k, fill) ==
  LET q == k \div 8   r == k % 8
  IN  [i \in Bytes |-> At(a, i + q, fill) \div 2^r + ((At(a, i + q + 1, fill) * 2^(8 - r)) % 256)]

Shr(a, k) == ShrFill(a, k, 0)
Sra(a, k) == ShrFill(a, k, IF IsNeg(a) THEN 255 ELSE 0)

-----------------------------------------------------------------------------
(* Comparisons: a < b on uint64 and on int64. *)
LtU(a, b) ==
  LET lt[i \in Bytes] == IF a[i] # b[i] THEN a[i] < b[i]
                         ELSE IF i = 0 THEN FALSE ELSE lt[i-1]
  IN  lt[7]

LtS(a, b) == IF IsNeg(a) # IsNeg(b) THEN IsNeg(a) ELSE LtU(a, b)

-----------------------------------------------------------------------------
(* The full 128-bit product of two uint64, as 16 little-endian bytes; Mul  *)
(* is Go's a * b (the low half), on uint64 and int64 alike.                *)
MulFull(a, b) ==
  LET col(k) == LET s[j \in 0 .. 8] ==
                      IF j = 0 THEN 0
                      ELSE s[j-1] + (IF k - (j-1) \in Bytes THEN a[j-1] * b[k-(j-1)] ELSE 0)
                IN  s[8]
      c[k \in 0 .. 16] == IF k = 0 THEN 0 ELSE (col(k-1) + c[k-1]) \div 256
  IN  [k \in 0 .. 15 |-> (col(k) + c[k]) % 256]

Mul(a, b)   == LET p == MulFull(a, b) IN [i \in Bytes |-> p[i]]
MulHiU(a, b) == LET p == MulFull(a, b) IN [i \in Bytes |-> p[i + 8]]

-----------------------------------------------------------------------------
(* / and % on uint64 for b # 0: restoring long division, one bit at a     *)
(* time from bit 63 down.  DivStep(qr, a, b, i) brings bit i of a into    *)
(* the remainder qr[2] and the next quotient bit into qr[1].              *)
DivStep(qr, a, b, i) ==
  LET q  == qr[1]
      r  == qr[2]
      r1 == WOr(Shl(r, 1), FromNat(Bit(a, i)))
      ge == Bit(r, 63) = 1 \/ ~LtU(r1, b)   \* the 65-bit r1 >= b
  IN  IF ge THEN <<Norm(WOr(Shl(q, 1), One)), Norm(Sub(r1, b))>>
            ELSE <<Norm(Shl(q, 1)), Norm(r1)>>

(* The steps for bits n-1 .. 0 of a.  The IF evaluates each step before  *)
(* the next starts (its test always holds); passed unevaluated, the 64    *)
(* steps would nest 64 deep when the result is finally read.              *)
RECURSIVE DivLoop(_, _, _, _)
DivLoop(qr, a, b, n) ==
  IF n = 0 THEN qr
  ELSE LET next == DivStep(qr, a, b, n - 1)
       IN  IF next[1] \in Word THEN DivLoop(next, a, b, n - 1) ELSE qr

DivRemU(a, b) == DivLoop(<<Zero, Zero>>, a, b, 64)

DivU(a, b) == DivRemU(a, b)[1]
RemU(a, b) == DivRemU(a, b)[2]

(* / and % on int64 for b # 0: truncation toward zero; MinInt64 / -1 wraps *)
(* to MinInt64 and MinInt64 % -1 is 0, as Go defines them.                 *)
Abs(a)     == IF IsNeg(a) THEN Neg(a) ELSE a
DivS(a, b) == LET q == DivU(Abs(a), Abs(b)) IN IF IsNeg(a) # IsNeg(b) THEN Neg(q) ELSE q
RemS(a, b) == LET r == RemU(Abs(a), Abs(b)) IN IF IsNeg(a) THEN Neg(r) ELSE r

-----------------------------------------------------------------------------
(* Conversions between the 64- and 32-bit types:                          *)
(*   U32(a) == uint64(uint32(a))   zero-extends the low 32 bits;           *)
(*   S32(a) == uint64(int32(a))    sign-extends them.                      *)
U32(a) == [i \in Bytes |-> IF i < 4 THEN a[i] ELSE 0]
S32(a) == [i \in Bytes |-> IF i < 4 THEN a[i] ELSE IF a[3] >= 128 THEN 255 ELSE 0]

-----------------------------------------------------------------------------
(* signExtend (sign.go): signBits[bit] holds 1 << bit and MaxUint64 << bit *)
(* for bit < 32; v is or-ed with the ones when its bit `bit` is set.       *)
signExtend(v, bit) ==
  IF Bit(v, bit) = 1 THEN WOr(v, Shl(MaxU64, bit)) ELSE v

=============================================================================
