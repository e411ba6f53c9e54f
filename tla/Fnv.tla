--------------------------------- MODULE Fnv ---------------------------------
(***************************************************************************)
(* libfnv: fnv::Fnv64a, the hash by which DataStorage identifies devices   *)
(* and measured values, byte by byte as its loop computes it, next to the  *)
(* definition of FNV-1a it cites.  TLC's integers are too small for 64     *)
(* bits: a word is four 16-bit limbs, the lowest first, and arithmetic is  *)
(* modulo 2^64.                                                            *)
(***************************************************************************)
EXTENDS Integers, Sequences

CONSTANTS
  Strings,      \* the names to hash, sequences of bytes
  SignedChar    \* char is signed, as it is on x86

ASSUME FnvAssumption ==
  /\ Strings \subseteq Seq(0 .. 255)
  /\ SignedChar \in BOOLEAN

VARIABLES
  str,    \* the parameter
  i,      \* how many of its bytes the loop has consumed
  hash

vars == <<str, i, hash>>

Base == 65536
Words == [1 .. 4 -> 0 .. (Base - 1)]

Word(limb(_)) == <<limb(1), limb(2), limb(3), limb(4)>>

\* The word of these limbs, each of which may carry into the next.
Carried(limb(_)) ==
  LET second == limb(2) + limb(1) \div Base
      third == limb(3) + second \div Base
      fourth == limb(4) + third \div Base
  IN  <<limb(1) % Base, second % Base, third % Base, fourth % Base>>

Plus(a, b) == Carried(LAMBDA k : a[k] + b[k])

LimbOf(a, k) == IF k \in 1 .. 4 THEN a[k] ELSE 0

\* a << n
ShiftLeft(a, n) ==
  LET whole == n \div 16
      bits == n % 16
  IN  Word(LAMBDA k :
        ((LimbOf(a, k - whole) * 2^bits) % Base)
          + LimbOf(a, (k - whole) - 1) \div 2^(16 - bits))

XoredLimb(x, y) ==
  LET bit(w) == IF (x \div w) % 2 = (y \div w) % 2 THEN 0 ELSE w
  IN  bit(1) + bit(2) + bit(4) + bit(8) + bit(16) + bit(32) + bit(64)
        + bit(128) + bit(256) + bit(512) + bit(1024) + bit(2048) + bit(4096)
        + bit(8192) + bit(16384) + bit(32768)

Xored(a, b) == Word(LAMBDA k : XoredLimb(a[k], b[k]))

\* Mutant: the byte is masked to seven bits.
ExtendedSevenBits(c) == <<c % 128, 0, 0, 0>>

\* The uint64_t that a byte becomes: a signed char carries its sign upwards.
Extended(c) ==
  IF SignedChar /\ c >= 128
    THEN <<Base - 256 + c, Base - 1, Base - 1, Base - 1>>
    ELSE <<c, 0, 0, 0>>

\* The offset basis 0xcbf29ce484222325.
Offset == <<8997, 33826, 40164, 52210>>

\* Mutant: one of the shifts is off by one.
SumOfWrongShifts(a) ==
  LET shift(n) == ShiftLeft(a, n)
  IN  Plus(a, Plus(Plus(shift(1), shift(4)),
                   Plus(Plus(shift(5), shift(7)), Plus(shift(9), shift(40)))))

\* hash + (hash << 1) + (hash << 4) + ... + (hash << 40).
SumOfShifts(a) ==
  LET shift(n) == ShiftLeft(a, n)
  IN  Plus(a, Plus(Plus(shift(1), shift(4)),
                   Plus(Plus(shift(5), shift(7)), Plus(shift(8), shift(40)))))

\* One round of the loop.
Round(h, c) == SumOfShifts(Xored(h, Extended(c)))

-----------------------------------------------------------------------------
Init ==
  /\ str \in Strings
  /\ i = 0
  /\ hash = Offset

\* Mutant: the loop stops before the last byte.
HasAllButLast == i + 1 < Len(str)

\* The range-based for loop has another byte.
HasNext == i < Len(str)

HashByte ==
  /\ HasNext
  /\ i' = i + 1
  /\ hash' = Round(hash, str[i + 1])
  /\ UNCHANGED str

Spec == Init /\ [][HashByte]_vars

Returned == ~HasNext

-----------------------------------------------------------------------------
(***************************************************************************)
(* The reference: http://www.isthe.com/chongo/tech/comp/fnv/, which        *)
(* fnv.hpp cites, with unsigned octets and the FNV prime 2^40 + 0x1b3.     *)
(***************************************************************************)
TimesPrime(a) ==
  Carried(LAMBDA k : 435 * a[k] + 256 * LimbOf(a, k - 2))

\* The hash of s when round takes the hash so far and the next byte.
Hashed(s, round(_, _)) ==
  LET h[n \in 0 .. Len(s)] == IF n = 0 THEN Offset ELSE round(h[n - 1], s[n])
  IN  h[Len(s)]

Fnv1a ==
  [s \in Strings |->
     Hashed(s, LAMBDA h, c : TimesPrime(Xored(h, <<c, 0, 0, 0>>)))]

Fnv64a == [s \in Strings |-> Hashed(s, Round)]

Ascii(s) == \A k \in 1 .. Len(s) : s[k] < 128

\* No byte of s is negative as a char.
Plain(s) == SignedChar => Ascii(s)

\* The function returns the FNV-1a hash of a name that has no byte from 0x80
\* on, and of any name where char is unsigned.  fnv.hpp, lines 12-14, makes no
\* exception for the others.
AsciiIsFnv1a == Returned /\ Plain(str) => hash = Fnv1a[str]

\* s and t are of one length and differ within n consecutive bytes.
DifferWithin(s, t, n) ==
  /\ Len(s) = Len(t)
  /\ \E k \in 0 .. Len(s) :
       \A j \in 1 .. Len(s) : s[j] # t[j] => k < j /\ j <= k + n

Close(s, t) ==
  \/ DifferWithin(s, t, 1)
  \/ DifferWithin(s, t, 3) /\ Plain(s) /\ Plain(t)

\* DataStorage compares hashes and never names: names that differ in one byte,
\* or in up to three consecutive bytes that are not negative, as those of
\* devices numbered with up to three digits do, have different hashes.  Two
\* consecutive bytes are too many for others: see NoCollision.
NoCloseCollision ==
  Returned =>
    \A other \in Strings \ {str} : Close(str, other) => Fnv64a[other] # hash

\* More than that holds of the names at hand: no two ASCII names at hand
\* share one, so that each device and each measured value is counted for
\* itself.  Of other names this is not true where char is signed: after an
\* even hash the bytes 1, 1 and 255, 255 lead to the same one.
NoCollision ==
  Returned /\ Ascii(str) =>
    \A other \in Strings :
      Ascii(other) /\ Fnv64a[other] = hash => other = str
=============================================================================
