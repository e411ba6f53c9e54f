----------------------------- MODULE FnvProofs -----------------------------
(***************************************************************************)
(* Proofs about Fnv, for every set of names: the shifts and additions of   *)
(* fnv.cpp multiply each of the 2^64 hashes by the FNV prime, and so every *)
(* ASCII name, however long, gets its FNV-1a hash; and names that differ   *)
(* in one byte, or in a few consecutive ones, get different hashes.        *)
(***************************************************************************)
EXTENDS Fnv, WellFoundedInduction, TLAPS

-----------------------------------------------------------------------------
(***************************************************************************)
(* Arithmetic modulo 2^64 on limbs.                                        *)
(***************************************************************************)
Value(a) == a[1] + Base * (a[2] + Base * (a[3] + Base * a[4]))

\* q times 2^64.
Lost(q) == Base * (Base * (Base * (Base * q)))

\* Equal modulo 2^64.
Congruent(x, y) == \E q \in Int : x = y + Lost(q)

LEMMA CongruentSums ==
  ASSUME NEW x \in Int, NEW y \in Int, NEW u \in Int, NEW v \in Int,
         Congruent(x, u), Congruent(y, v)
  PROVE  Congruent(x + y, u + v)
  <1>1. PICK p \in Int : x = u + Lost(p)
    BY DEF Congruent
  <1>2. PICK q \in Int : y = v + Lost(q)
    BY DEF Congruent
  <1>3. x + y = u + v + Lost(p + q) /\ p + q \in Int
    BY <1>1, <1>2 DEF Lost, Base
  <1> QED
    BY <1>3 DEF Congruent

LEMMA CongruentTransitive ==
  ASSUME NEW x \in Int, NEW y \in Int, NEW z \in Int,
         Congruent(x, y), Congruent(y, z)
  PROVE  Congruent(x, z)
  <1>1. PICK p \in Int : x = y + Lost(p)
    BY DEF Congruent
  <1>2. PICK q \in Int : y = z + Lost(q)
    BY DEF Congruent
  <1>3. x = z + Lost(p + q) /\ p + q \in Int
    BY <1>1, <1>2 DEF Lost, Base
  <1> QED
    BY <1>3 DEF Congruent

LEMMA CongruentSymmetric ==
  ASSUME NEW x \in Int, NEW y \in Int, Congruent(x, y)
  PROVE  Congruent(y, x)
  <1>1. PICK q \in Int : x = y + Lost(q)
    BY DEF Congruent
  <1>2. y = x + Lost(0 - q) /\ 0 - q \in Int
    BY <1>1 DEF Lost, Base
  <1> QED
    BY <1>2 DEF Congruent

\* What it is to be in a range, for bounds that are not written out.
LEMMA UpTo ==
  ASSUME NEW n \in Int, NEW sum \in Nat, sum <= n
  PROVE  sum \in 0 .. n
  OBVIOUS

LEMMA BelowBound ==
  ASSUME NEW m \in Int, NEW n \in 0 .. (m - 1)
  PROVE  n \in Nat /\ n \in Int /\ 0 <= n /\ n < m
  OBVIOUS

LEMMA BaseIsInt == Base \in Int /\ Base - 1 \in Int
  BY DEF Base

\* One limb: the quotient goes into the next.
LEMMA DivMod ==
  ASSUME NEW n \in Nat
  PROVE  /\ n % Base \in 0 .. (Base - 1)
         /\ n \div Base \in Nat
         /\ n = Base * (n \div Base) + (n % Base)
  <1>1. n % Base \in 0 .. (Base - 1)
    <2>1. n % Base \in Nat /\ n % Base <= Base - 1
      BY DEF Base
    <2> QED
      BY ONLY <2>1, BaseIsInt, UpTo
  <1>2. n \div Base \in Nat
    BY DEF Base
  <1>3. n = Base * (n \div Base) + (n % Base)
    BY DEF Base
  <1> QED
    BY <1>1, <1>2, <1>3

\* Four limbs that may be too large for a word.
Limbs == [1 .. 4 -> Nat]

LEMMA LimbRange ==
  ASSUME NEW n \in 0 .. (Base - 1)
  PROVE  n \in Nat /\ n \in Int /\ 0 <= n /\ n < Base
  BY BaseIsInt, BelowBound

LEMMA WordsAreLimbs ==
  ASSUME NEW a \in Words
  PROVE  a \in Limbs
  BY LimbRange DEF Words, Limbs

LEMMA ValueIsInt ==
  ASSUME NEW a \in Limbs
  PROVE  Value(a) \in Int
  BY DEF Limbs, Value, Base

Carry(limbs) == Carried(LAMBDA k : limbs[k])

\* What Carried makes of four limbs is a word of the same value.
LEMMA CarryFacts ==
  ASSUME NEW l \in Limbs
  PROVE  Carry(l) \in Words /\ Congruent(Value(Carry(l)), Value(l))
  <1> DEFINE l1 == l[1]  l2 == l[2]  l3 == l[3]  l4 == l[4]
             second == l2 + l1 \div Base
             third == l3 + second \div Base
             fourth == l4 + third \div Base
             w == <<l1 % Base, second % Base, third % Base, fourth % Base>>
  <1>0. l1 \in Nat /\ l2 \in Nat /\ l3 \in Nat /\ l4 \in Nat
    BY DEF Limbs
  <1> HIDE DEF l1, l2, l3, l4
  <1>1. /\ l1 \div Base \in Nat /\ l1 % Base \in 0 .. (Base - 1)
        /\ l1 = Base * (l1 \div Base) + (l1 % Base)
    BY <1>0, DivMod
  <1>2. second \in Nat
    BY <1>0, <1>1
  <1>3. /\ second \div Base \in Nat /\ second % Base \in 0 .. (Base - 1)
        /\ second = Base * (second \div Base) + (second % Base)
    BY <1>2, DivMod
  <1>4. third \in Nat
    BY <1>0, <1>3
  <1>5. /\ third \div Base \in Nat /\ third % Base \in 0 .. (Base - 1)
        /\ third = Base * (third \div Base) + (third % Base)
    BY <1>4, DivMod
  <1>6. fourth \in Nat
    BY <1>0, <1>5
  <1>7. /\ fourth \div Base \in Nat /\ fourth % Base \in 0 .. (Base - 1)
        /\ fourth = Base * (fourth \div Base) + (fourth % Base)
    BY <1>6, DivMod
  <1>8. w \in Words
    BY <1>1, <1>3, <1>5, <1>7 DEF Words
  <1>9. Value(w) = Value(l) + Lost(0 - fourth \div Base)
    <2> DEFINE c1 == l1 \div Base  c2 == second \div Base
               c3 == third \div Base  c4 == fourth \div Base
               r1 == l1 % Base  r2 == second % Base
               r3 == third % Base  r4 == fourth % Base
    <2>1. /\ c1 \in Int /\ c2 \in Int /\ c3 \in Int /\ c4 \in Int
          /\ r1 \in Int /\ r2 \in Int /\ r3 \in Int /\ r4 \in Int
          /\ l1 = Base * c1 + r1 /\ l2 + c1 = Base * c2 + r2
          /\ l3 + c2 = Base * c3 + r3 /\ l4 + c3 = Base * c4 + r4
      BY <1>0, <1>1, <1>3, <1>5, <1>7
    <2> HIDE DEF c1, c2, c3, c4, r1, r2, r3, r4
    <2>2. r1 + Base * (r2 + Base * (r3 + Base * r4))
            = l1 + Base * (l2 + Base * (l3 + Base * l4)) + Lost(0 - c4)
      BY <1>0, <2>1 DEF Lost, Base
    <2>3. Value(<<r1, r2, r3, r4>>)
            = Value(l) + Lost(0 - c4)
      BY <2>2 DEF Value, l1, l2, l3, l4
    <2> QED
      BY <2>3 DEF r1, r2, r3, r4, c4
  <1>10. Carry(l) = w
    BY DEF Carry, Carried, l1, l2, l3, l4
  <1>11. Congruent(Value(w), Value(l))
    <2> HIDE DEF w, fourth
    <2>1. 0 - fourth \div Base \in Int
      BY <1>7
    <2> QED
      BY <1>9, <2>1 DEF Congruent
  <1> HIDE DEF w
  <1> QED
    BY <1>8, <1>10, <1>11

\* Plus adds modulo 2^64.
LEMMA PlusFacts ==
  ASSUME NEW a \in Limbs, NEW b \in Limbs
  PROVE  /\ Plus(a, b) \in Words
         /\ Congruent(Value(Plus(a, b)), Value(a) + Value(b))
  <1> DEFINE sum == <<a[1] + b[1], a[2] + b[2], a[3] + b[3], a[4] + b[4]>>
  <1>1. /\ a[1] \in Nat /\ a[2] \in Nat /\ a[3] \in Nat /\ a[4] \in Nat
        /\ b[1] \in Nat /\ b[2] \in Nat /\ b[3] \in Nat /\ b[4] \in Nat
    BY DEF Limbs
  <1>2. Plus(a, b) = Carry(sum)
    BY DEF Plus, Carry, Carried
  <1>3. Value(sum) = Value(a) + Value(b) /\ sum \in Limbs
    BY <1>1 DEF Value, Base, Limbs
  <1> HIDE DEF sum
  <1> QED
    BY <1>2, <1>3, CarryFacts

\* What a limb loses in a shift by less than a limb goes into the next.
Splits(x, p, r) ==
  /\ (x * p) % Base \in Nat /\ x \div r \in Nat
  /\ x * p = Base * (x \div r) + ((x * p) % Base)

LEMMA LimbTimes2 ==
  ASSUME NEW x \in Nat
  PROVE  Splits(x, 2, 32768)
  BY DEF Splits, Base

LEMMA LimbTimes16 ==
  ASSUME NEW x \in Nat
  PROVE  Splits(x, 16, 4096)
  BY DEF Splits, Base

LEMMA LimbTimes32 ==
  ASSUME NEW x \in Nat
  PROVE  Splits(x, 32, 2048)
  BY DEF Splits, Base

LEMMA LimbTimes128 ==
  ASSUME NEW x \in Nat
  PROVE  Splits(x, 128, 512)
  BY DEF Splits, Base

LEMMA LimbTimes256 ==
  ASSUME NEW x \in Nat
  PROVE  Splits(x, 256, 256)
  BY DEF Splits, Base

LEMMA LimbShift ==
  ASSUME NEW x \in 0 .. (Base - 1),
         NEW p, NEW r,
         <<p, r>> \in {<<2, 32768>>, <<16, 4096>>, <<32, 2048>>, <<128, 512>>,
                       <<256, 256>>}
  PROVE  /\ (x * p) % Base \in Nat /\ x \div r \in Nat
         /\ x * p = Base * (x \div r) + ((x * p) % Base)
  <1>1. x \in Nat
    BY LimbRange
  <1>2. Splits(x, p, r)
    BY <1>1, LimbTimes2, LimbTimes16, LimbTimes32, LimbTimes128, LimbTimes256
  <1> QED
    BY <1>2 DEF Splits

\* A shift by less than a limb multiplies by a power of two modulo 2^64.
LEMMA ShiftWithin ==
  ASSUME NEW a \in Words,
         NEW n, NEW p, NEW r,
         <<n, p, r>> \in {<<1, 2, 32768>>, <<4, 16, 4096>>, <<5, 32, 2048>>,
                          <<7, 128, 512>>, <<8, 256, 256>>}
  PROVE  /\ ShiftLeft(a, n) \in Limbs
         /\ Congruent(Value(ShiftLeft(a, n)), p * Value(a))
  <1> DEFINE low(k) == (a[k] * p) % Base
             high(k) == a[k] \div r
             s == <<low(1) + 0, low(2) + high(1), low(3) + high(2),
                    low(4) + high(3)>>
  <1>1. /\ n \div 16 = 0 /\ n % 16 = n
        /\ 2^n = p /\ 2^(16 - n) = r
    <2>1. CASE n = 1 /\ p = 2 /\ r = 32768
      BY <2>1
    <2>2. CASE n = 4 /\ p = 16 /\ r = 4096
      BY <2>2
    <2>3. CASE n = 5 /\ p = 32 /\ r = 2048
      BY <2>3
    <2>4. CASE n = 7 /\ p = 128 /\ r = 512
      BY <2>4
    <2>5. CASE n = 8 /\ p = 256 /\ r = 256
      BY <2>5
    <2> QED
      BY <2>1, <2>2, <2>3, <2>4, <2>5
  <1>2. ShiftLeft(a, n) = s
    BY <1>1 DEF ShiftLeft, Word, LimbOf
  <1>3. ASSUME NEW k \in 1 .. 4
        PROVE  /\ a[k] \in Int /\ low(k) \in Nat /\ high(k) \in Nat
               /\ a[k] * p = Base * high(k) + low(k)
    <2>1. a[k] \in 0 .. (Base - 1)
      BY DEF Words
    <2>2. a[k] \in Int
      BY <2>1, LimbRange
    <2> QED
      BY <2>1, <2>2, LimbShift
  <1> HIDE DEF low, high
  <1>4. s \in Limbs
    BY <1>3 DEF Limbs
  <1>5. p * Value(a) = a[1] * p
          + Base * (a[2] * p + Base * (a[3] * p + Base * (a[4] * p)))
    <2> p \in Int
      OBVIOUS
    <2> QED
      BY <1>3 DEF Value, Base
  <1>6. Value(s) = p * Value(a) + Lost(0 - high(4))
    <2>1. Value(s) = low(1) + Base * (low(2) + high(1)
            + Base * (low(3) + high(2) + Base * (low(4) + high(3))))
      BY <1>3 DEF Value
    <2> QED
      BY <1>3, <1>5, <2>1 DEF Lost, Base
  <1>7. 0 - high(4) \in Int
    BY <1>3
  <1> QED
    BY <1>2, <1>4, <1>6, <1>7 DEF Congruent

\* So does one by forty.
LEMMA ShiftByForty ==
  ASSUME NEW a \in Words
  PROVE  /\ ShiftLeft(a, 40) \in Limbs
         /\ Congruent(Value(ShiftLeft(a, 40)),
                      Base * (Base * (256 * Value(a))))
  <1> DEFINE low(k) == (a[k] * 256) % Base
             high(k) == a[k] \div 256
             s == <<0, 0, low(1), low(2) + high(1)>>
  <1>1. ASSUME NEW k \in 1 .. 4
        PROVE  /\ a[k] \in Int /\ low(k) \in Nat /\ high(k) \in Nat
               /\ a[k] * 256 = Base * high(k) + low(k)
    <2>1. a[k] \in 0 .. (Base - 1)
      BY DEF Words
    <2>2. a[k] \in Int
      BY <2>1, LimbRange
    <2> QED
      BY <2>1, <2>2, LimbShift
  <1>2. ShiftLeft(a, 40) = s
    <2>1. /\ 40 \div 16 = 2 /\ 40 % 16 = 8
          /\ 2^8 = 256 /\ 16 - 8 = 8
      OBVIOUS
    <2>2. /\ LimbOf(a, 1 - 2) = 0 /\ LimbOf(a, 2 - 2) = 0
          /\ LimbOf(a, 3 - 2) = a[1] /\ LimbOf(a, 4 - 2) = a[2]
          /\ LimbOf(a, (1 - 2) - 1) = 0 /\ LimbOf(a, (2 - 2) - 1) = 0
          /\ LimbOf(a, (3 - 2) - 1) = 0 /\ LimbOf(a, (4 - 2) - 1) = a[1]
      BY DEF LimbOf
    <2>3. /\ (0 * 256) % Base = 0 /\ 0 \div 256 = 0
          /\ low(1) + 0 = low(1)
      BY <1>1 DEF Base
    <2> QED
      BY <2>1, <2>2, <2>3 DEF ShiftLeft, Word
  <1> HIDE DEF low, high
  <1>3. s \in Limbs
    BY <1>1 DEF Limbs
  <1>4. Base * (Base * (256 * Value(a)))
          = Base * (Base * (a[1] * 256
              + Base * (a[2] * 256 + Base * (a[3] * 256 + Base * (a[4] * 256)))))
    BY <1>1 DEF Value, Base
  <1>5. Value(s) = Base * (Base * (low(1) + Base * (low(2) + high(1))))
    BY <1>1 DEF Value, Base
  <1>6. Value(s) = Base * (Base * (256 * Value(a)))
          + Lost(0 - (high(2) + a[3] * 256 + Base * (a[4] * 256)))
    BY <1>1, <1>4, <1>5 DEF Lost, Base
  <1>7. 0 - (high(2) + a[3] * 256 + Base * (a[4] * 256)) \in Int
    BY <1>1 DEF Base
  <1> HIDE DEF s
  <1> QED
    BY <1>2, <1>3, <1>6, <1>7 DEF Congruent

\* The lowest limb is the remainder.
LEMMA LowestLimb ==
  ASSUME NEW x \in Int, NEW y \in Int, 0 <= x, x < Base, 0 <= y, y < Base,
         NEW u \in Int, NEW v \in Int, x + Base * u = y + Base * v
  PROVE  x = y /\ u = v
  BY DEF Base

\* A word is determined by its value modulo 2^64.
LEMMA WordsDiffer ==
  ASSUME NEW a \in Words, NEW b \in Words, Congruent(Value(a), Value(b))
  PROVE  a = b
  <1>1. PICK q \in Int : Value(a) = Value(b) + Lost(q)
    BY DEF Congruent
  <1>2. ASSUME NEW k \in 1 .. 4
        PROVE  /\ a[k] \in Int /\ 0 <= a[k] /\ a[k] < Base
               /\ b[k] \in Int /\ 0 <= b[k] /\ b[k] < Base
    BY LimbRange DEF Words
  <1> DEFINE u2 == a[3] + Base * a[4]
             v2 == b[3] + Base * (b[4] + Base * q)
             u1 == a[2] + Base * u2
             v1 == b[2] + Base * v2
  <1>3. u1 \in Int /\ v1 \in Int /\ u2 \in Int /\ v2 \in Int
    BY <1>2 DEF Base
  <1>4. a[1] + Base * u1 = b[1] + Base * v1
    BY <1>1, <1>2 DEF Value, Lost, Base
  <1>5. a[1] = b[1] /\ u1 = v1
    <2> HIDE DEF u1, v1
    <2> QED
      BY <1>2, <1>3, <1>4, LowestLimb
  <1>6. a[2] = b[2] /\ u2 = v2
    <2> HIDE DEF u2, v2
    <2> QED
      BY <1>2, <1>3, <1>5, LowestLimb
  <1>7. a[3] = b[3] /\ a[4] = b[4] + Base * q
    <2>1. b[4] + Base * q \in Int
      BY <1>2 DEF Base
    <2> QED
      BY <1>2, <1>6, <2>1, LowestLimb
  <1>8. a[4] = b[4]
    <2>1. a[4] + Base * 0 = b[4] + Base * q
      BY <1>2, <1>7 DEF Base
    <2> QED
      BY <1>2, <2>1, LowestLimb
  <1> QED
    BY <1>5, <1>6, <1>7, <1>8 DEF Words

\* The product with 2^40 + 435 modulo 2^64.
Product(a) == 435 * Value(a) + Base * (Base * (256 * Value(a)))

LEMMA PrimeLimbs ==
  ASSUME NEW w \in Int, NEW x \in Int, NEW y \in Int, NEW z \in Int
  PROVE  435 * w + Base * (435 * x + Base * (435 * y + 256 * w
           + Base * (435 * z + 256 * x)))
         = 435 * w + Base * (435 * x + Base * (435 * y + Base * (435 * z)))
             + Base * (Base * (256 * w + Base * (256 * x + Base * (256 * y
             + Base * (256 * z)))))
             + Base * (Base * (Base * (Base *
                 (0 - (256 * y + Base * (256 * z))))))
  BY DEF Base

LEMMA TimesPrimeFacts ==
  ASSUME NEW a \in Words
  PROVE  TimesPrime(a) \in Words /\ Congruent(Value(TimesPrime(a)), Product(a))
  <1> DEFINE l == <<435 * a[1] + 256 * 0, 435 * a[2] + 256 * 0,
                    435 * a[3] + 256 * a[1], 435 * a[4] + 256 * a[2]>>
  <1>1. a[1] \in Nat /\ a[2] \in Nat /\ a[3] \in Nat /\ a[4] \in Nat
    BY LimbRange DEF Words
  <1>2. TimesPrime(a) = Carry(l)
    <2>1. /\ LimbOf(a, 1 - 2) = 0 /\ LimbOf(a, 2 - 2) = 0
          /\ LimbOf(a, 3 - 2) = a[1] /\ LimbOf(a, 4 - 2) = a[2]
      BY DEF LimbOf
    <2> QED
      BY <2>1 DEF TimesPrime, Carry, Carried
  <1>3. l \in Limbs
    BY <1>1 DEF Limbs
  <1>4. Value(l) = Product(a) + Lost(0 - (256 * a[3] + Base * (256 * a[4])))
    <2>1. Value(l) = 435 * a[1] + Base * (435 * a[2]
            + Base * (435 * a[3] + 256 * a[1]
                        + Base * (435 * a[4] + 256 * a[2])))
      BY <1>1 DEF Value
    <2>2. Product(a) = 435 * a[1] + Base * (435 * a[2]
            + Base * (435 * a[3] + Base * (435 * a[4])))
            + Base * (Base * (256 * a[1] + Base * (256 * a[2]
            + Base * (256 * a[3] + Base * (256 * a[4])))))
      BY <1>1 DEF Value, Product, Base
    <2> QED
      BY <1>1, <2>1, <2>2, PrimeLimbs DEF Lost
  <1>5. 0 - (256 * a[3] + Base * (256 * a[4])) \in Int
    BY <1>1 DEF Base
  <1>6. Congruent(Value(l), Product(a))
    <2> HIDE DEF l
    <2> QED
      BY <1>4, <1>5 DEF Congruent
  <1>7. Carry(l) \in Words /\ Congruent(Value(Carry(l)), Value(l))
    <2> HIDE DEF l
    <2> QED
      BY <1>3, CarryFacts
  <1>8. Value(Carry(l)) \in Int /\ Value(l) \in Int /\ Product(a) \in Int
    <2>1. Value(a) \in Int
      BY WordsAreLimbs, ValueIsInt
    <2>2. Product(a) \in Int
      BY <2>1 DEF Product, Base
    <2> HIDE DEF l
    <2> QED
      BY <1>3, <1>7, <2>2, WordsAreLimbs, ValueIsInt
  <1> HIDE DEF l
  <1> QED
    BY <1>2, <1>6, <1>7, <1>8, CongruentTransitive

\* The sum of a hash and its shifts has the same value modulo 2^64.
LEMMA SumOfShiftsFacts ==
  ASSUME NEW a \in Words
  PROVE  /\ SumOfShifts(a) \in Words
         /\ Congruent(Value(SumOfShifts(a)), Product(a))
  <1> DEFINE shift(n) == ShiftLeft(a, n)
             A == Plus(shift(1), shift(4))
             B == Plus(shift(5), shift(7))
             C == Plus(shift(8), shift(40))
             D == Plus(B, C)
             E == Plus(A, D)
             v == Value(a)
  <1>1. /\ a \in Limbs /\ v \in Int
    BY WordsAreLimbs, ValueIsInt
  <1>2. /\ shift(1) \in Limbs /\ Congruent(Value(shift(1)), 2 * v)
        /\ shift(4) \in Limbs /\ Congruent(Value(shift(4)), 16 * v)
        /\ shift(5) \in Limbs /\ Congruent(Value(shift(5)), 32 * v)
        /\ shift(7) \in Limbs /\ Congruent(Value(shift(7)), 128 * v)
        /\ shift(8) \in Limbs /\ Congruent(Value(shift(8)), 256 * v)
        /\ shift(40) \in Limbs
        /\ Congruent(Value(shift(40)), Base * (Base * (256 * v)))
    BY ShiftWithin, ShiftByForty
  <1>3. ASSUME NEW x \in Limbs, NEW y \in Limbs, NEW m \in Int, NEW n \in Int,
               Congruent(Value(x), m), Congruent(Value(y), n)
        PROVE  Plus(x, y) \in Limbs /\ Congruent(Value(Plus(x, y)), m + n)
    <2>1. Plus(x, y) \in Limbs
          /\ Congruent(Value(Plus(x, y)), Value(x) + Value(y))
      BY PlusFacts, WordsAreLimbs
    <2>2. Value(Plus(x, y)) \in Int /\ Value(x) \in Int /\ Value(y) \in Int
      BY <2>1, ValueIsInt
    <2>3. Congruent(Value(x) + Value(y), m + n)
      BY <1>3, <2>2, CongruentSums
    <2> QED
      BY <2>1, <2>2, <2>3, CongruentTransitive
  <1>4. /\ 2 * v \in Int /\ 16 * v \in Int /\ 32 * v \in Int
        /\ 128 * v \in Int /\ 256 * v \in Int
        /\ Base * (Base * (256 * v)) \in Int
    BY <1>1 DEF Base
  <1> HIDE DEF shift, v
  <1>5. A \in Limbs /\ Congruent(Value(A), 2 * v + 16 * v)
    BY <1>2, <1>3, <1>4
  <1>6. B \in Limbs /\ Congruent(Value(B), 32 * v + 128 * v)
    BY <1>2, <1>3, <1>4
  <1>7. C \in Limbs
        /\ Congruent(Value(C), 256 * v + Base * (Base * (256 * v)))
    BY <1>2, <1>3, <1>4
  <1> HIDE DEF A, B, C
  <1>8. D \in Limbs
        /\ Congruent(Value(D), (32 * v + 128 * v)
                                 + (256 * v + Base * (Base * (256 * v))))
    <2>1. 32 * v + 128 * v \in Int /\ 256 * v + Base * (Base * (256 * v)) \in Int
      BY <1>4
    <2> QED
      BY <1>3, <1>6, <1>7, <2>1
  <1> HIDE DEF D
  <1>9. E \in Limbs
        /\ Congruent(Value(E), (2 * v + 16 * v) + ((32 * v + 128 * v)
                                 + (256 * v + Base * (Base * (256 * v)))))
    <2>1. /\ 2 * v + 16 * v \in Int
          /\ (32 * v + 128 * v) + (256 * v + Base * (Base * (256 * v))) \in Int
      BY <1>4
    <2> QED
      BY <1>3, <1>5, <1>8, <2>1
  <1> HIDE DEF E
  <1>10. v + ((2 * v + 16 * v) + ((32 * v + 128 * v)
           + (256 * v + Base * (Base * (256 * v)))))
         = 435 * v + Base * (Base * (256 * v))
    BY <1>1 DEF Base
  <1>11. SumOfShifts(a) = Plus(a, E)
    BY DEF SumOfShifts, shift, A, B, C, D, E
  <1>12. Congruent(Value(a), v)
    <2>1. Value(a) = v + Lost(0) /\ 0 \in Int
      BY <1>1 DEF Lost, Base, v
    <2> QED
      BY <2>1 DEF Congruent
  <1>13. Congruent(Value(Plus(a, E)), 435 * v + Base * (Base * (256 * v)))
    <2>1. (2 * v + 16 * v) + ((32 * v + 128 * v)
            + (256 * v + Base * (Base * (256 * v)))) \in Int
      BY <1>4
    <2> QED
      BY <1>1, <1>3, <1>9, <1>10, <1>12, <2>1
  <1> QED
    BY <1>1, <1>9, <1>11, <1>13, PlusFacts DEF Product, v

\* Each of the 2^64 hashes plus its shifts by 1, 4, 5, 7, 8 and 40 is that
\* hash times the FNV prime, modulo 2^64 (fnv.cpp, line 15).
THEOREM ShiftsMultiply == \A a \in Words : SumOfShifts(a) = TimesPrime(a)
  <1> TAKE a \in Words
  <1>1. /\ SumOfShifts(a) \in Words /\ TimesPrime(a) \in Words
        /\ Congruent(Value(SumOfShifts(a)), Product(a))
        /\ Congruent(Value(TimesPrime(a)), Product(a))
    BY SumOfShiftsFacts, TimesPrimeFacts
  <1>2. /\ Value(SumOfShifts(a)) \in Int /\ Value(TimesPrime(a)) \in Int
        /\ Product(a) \in Int
    <2>1. Value(a) \in Int
      BY WordsAreLimbs, ValueIsInt
    <2>2. Product(a) \in Int
      BY <2>1 DEF Product, Base
    <2> QED
      BY <1>1, <2>2, WordsAreLimbs, ValueIsInt
  <1>3. Congruent(Value(SumOfShifts(a)), Value(TimesPrime(a)))
    BY <1>1, <1>2, CongruentSymmetric, CongruentTransitive
  <1> QED
    BY <1>1, <1>3, WordsDiffer

-----------------------------------------------------------------------------
(***************************************************************************)
(* The prime is odd: multiplying by it loses nothing modulo 2^64.          *)
(***************************************************************************)
\* 435 has the inverse 38267 modulo 2^16.
LEMMA LimbCancels ==
  ASSUME NEW d \in Int, NEW m \in Int, 435 * d = Base * m
  PROVE  \E n \in Int : d = Base * n
  <1>1. d = Base * (38267 * m - 254 * d) /\ 38267 * m - 254 * d \in Int
    BY DEF Base
  <1> QED
    BY <1>1

LEMMA PrimeCancels ==
  ASSUME NEW d \in Int, Congruent(435 * d + Base * (Base * (256 * d)), 0)
  PROVE  \E r \in Int : d = Lost(r)
  <1>1. PICK q \in Int : 435 * d + Base * (Base * (256 * d)) = Lost(q)
    BY DEF Congruent, Lost, Base
  <1>2. PICK d1 \in Int : d = Base * d1
    <2> DEFINE m == Base * (Base * (Base * q)) - Base * (256 * d)
    <2>1. m \in Int /\ 435 * d = Base * m
      BY <1>1 DEF Lost, Base
    <2> HIDE DEF m
    <2> QED
      BY <2>1, LimbCancels
  <1>3. PICK d2 \in Int : d1 = Base * d2
    <2> DEFINE m == Base * (Base * q) - Base * (256 * d1)
    <2>1. m \in Int /\ 435 * d1 = Base * m
      BY <1>1, <1>2 DEF Lost, Base
    <2> HIDE DEF m
    <2> QED
      BY <2>1, LimbCancels
  <1>4. PICK d3 \in Int : d2 = Base * d3
    <2> DEFINE m == Base * q - Base * (256 * d2)
    <2>1. m \in Int /\ 435 * d2 = Base * m
      BY <1>1, <1>2, <1>3 DEF Lost, Base
    <2> HIDE DEF m
    <2> QED
      BY <2>1, LimbCancels
  <1>5. PICK d4 \in Int : d3 = Base * d4
    <2> DEFINE m == q - Base * (256 * d3)
    <2>1. m \in Int /\ 435 * d3 = Base * m
      BY <1>1, <1>2, <1>3, <1>4 DEF Lost, Base
    <2> HIDE DEF m
    <2> QED
      BY <2>1, LimbCancels
  <1>6. d = Lost(d4)
    BY <1>2, <1>3, <1>4, <1>5 DEF Lost
  <1> QED
    BY <1>6

Apart(a, b) == Value(a) - Value(b)

\* m is d times the prime, modulo 2^64.
PrimeTimes(m, d) ==
  \E q \in Int : m = 435 * d + Base * (Base * (256 * d)) + Lost(q)

LEMMA ApartType ==
  ASSUME NEW a \in Words, NEW b \in Words
  PROVE  Apart(a, b) \in Int
  BY WordsAreLimbs, ValueIsInt DEF Apart

\* How far the products of two words are apart.
LEMMA ProductsDiffer ==
  ASSUME NEW a \in Words, NEW b \in Words
  PROVE  PrimeTimes(Apart(TimesPrime(a), TimesPrime(b)), Apart(a, b))
  <1> DEFINE v == Value(a)  w == Value(b)
             x == Value(TimesPrime(a))  y == Value(TimesPrime(b))
  <1>1. v \in Int /\ w \in Int /\ x \in Int /\ y \in Int
    BY TimesPrimeFacts, WordsAreLimbs, ValueIsInt
  <1>2. /\ Congruent(x, 435 * v + Base * (Base * (256 * v)))
        /\ Congruent(y, 435 * w + Base * (Base * (256 * w)))
    BY TimesPrimeFacts DEF Product
  <1> HIDE DEF v, w, x, y
  <1>3. PICK m \in Int : x = 435 * v + Base * (Base * (256 * v)) + Lost(m)
    BY <1>2 DEF Congruent
  <1>4. PICK n \in Int : y = 435 * w + Base * (Base * (256 * w)) + Lost(n)
    BY <1>2 DEF Congruent
  <1>5. x - y = 435 * (v - w) + Base * (Base * (256 * (v - w))) + Lost(m - n)
        /\ m - n \in Int
    BY <1>1, <1>3, <1>4 DEF Lost, Base
  <1> QED
    BY <1>5 DEF v, w, x, y, Apart, PrimeTimes

LEMMA SameValue ==
  ASSUME NEW a \in Words, NEW b \in Words
  PROVE  Apart(a, b) = 0 <=> a = b
  <1>1. Value(a) \in Int /\ Value(b) \in Int
    BY WordsAreLimbs, ValueIsInt
  <1>2. ASSUME Apart(a, b) = 0
        PROVE  a = b
    <2>1. Value(a) = Value(b) + Lost(0)
      BY <1>1, <1>2 DEF Apart, Lost, Base
    <2> QED
      BY <2>1, WordsDiffer DEF Congruent
  <1> QED
    BY <1>1, <1>2 DEF Apart

LEMMA TimesPrimeDetermines ==
  ASSUME NEW a \in Words, NEW b \in Words, TimesPrime(a) = TimesPrime(b)
  PROVE  a = b
  <1> DEFINE d == Apart(a, b)
  <1>1. d \in Int
    BY ApartType
  <1>2. PrimeTimes(0, d)
    <2>1. Apart(TimesPrime(a), TimesPrime(b)) = 0
      BY TimesPrimeFacts, SameValue
    <2> QED
      BY <2>1, ProductsDiffer
  <1> HIDE DEF d
  <1>3. Congruent(435 * d + Base * (Base * (256 * d)), 0)
    <2>1. PICK q \in Int : 0 = 435 * d + Base * (Base * (256 * d)) + Lost(q)
      BY <1>2 DEF PrimeTimes
    <2>2. 435 * d + Base * (Base * (256 * d)) = 0 + Lost(0 - q) /\ 0 - q \in Int
      BY <1>1, <2>1 DEF Lost, Base
    <2> QED
      BY <2>2 DEF Congruent
  <1>4. PICK r \in Int : d = Lost(r)
    BY <1>1, <1>3, PrimeCancels
  <1>5. Congruent(Value(a), Value(b))
    <2>1. Value(a) \in Int /\ Value(b) \in Int
      BY WordsAreLimbs, ValueIsInt
    <2>2. Value(a) = Value(b) + Lost(r)
      BY <1>4, <2>1 DEF d, Apart, Lost, Base
    <2> QED
      BY <2>2 DEF Congruent
  <1> QED
    BY <1>5, WordsDiffer

-----------------------------------------------------------------------------
(***************************************************************************)
(* The exclusive or, bit by bit.                                           *)
(***************************************************************************)
Bit(x, w) == (x \div w) % 2

LEMMA BitType ==
  ASSUME NEW x \in Nat, NEW w \in Nat \ {0}
  PROVE  Bit(x, w) \in {0, 1}
  <1>1. x \div w \in Nat
    OBVIOUS
  <1> QED
    BY <1>1 DEF Bit

\* The number that has these sixteen bits, four at a time.
Four(a, b, c, d) == a + 2 * b + 4 * c + 8 * d

Digit(a, u) == a + 16 * u

Sixteen(d) ==
  Digit(Four(d[1], d[2], d[4], d[8]),
    Digit(Four(d[16], d[32], d[64], d[128]),
      Digit(Four(d[256], d[512], d[1024], d[2048]),
            Four(d[4096], d[8192], d[16384], d[32768]))))

Powers == {1, 2, 4, 8, 16, 32, 64, 128, 256, 512, 1024, 2048, 4096, 8192,
           16384, 32768}

Bits == [Powers -> {0, 1}]

LEMMA FourFacts ==
  ASSUME NEW a \in {0, 1}, NEW b \in {0, 1}, NEW c \in {0, 1}, NEW d \in {0, 1}
  PROVE  Four(a, b, c, d) \in Nat /\ Four(a, b, c, d) < 16
  BY DEF Four

LEMMA FourDetermine ==
  ASSUME NEW a \in {0, 1}, NEW b \in {0, 1}, NEW c \in {0, 1}, NEW d \in {0, 1},
         NEW e \in {0, 1}, NEW f \in {0, 1}, NEW g \in {0, 1}, NEW h \in {0, 1},
         Four(a, b, c, d) = Four(e, f, g, h)
  PROVE  a = e /\ b = f /\ c = g /\ d = h
  BY DEF Four

\* A number has one sequence of digits of base 16.
LEMMA DigitDetermines ==
  ASSUME NEW a \in Nat, NEW e \in Nat, a < 16, e < 16,
         NEW u \in Nat, NEW v \in Nat, Digit(a, u) = Digit(e, v)
  PROVE  a = e /\ u = v
  BY DEF Digit

LEMMA DigitIsNat ==
  ASSUME NEW a \in Nat, NEW u \in Nat
  PROVE  Digit(a, u) \in Nat
  BY DEF Digit

\* A number has one sequence of bits.
LEMMA BitsDetermine ==
  ASSUME NEW p \in Bits, NEW q \in Bits, Sixteen(p) = Sixteen(q)
  PROVE  p = q
  <1> DEFINE f1(d) == Four(d[1], d[2], d[4], d[8])
             f2(d) == Four(d[16], d[32], d[64], d[128])
             f3(d) == Four(d[256], d[512], d[1024], d[2048])
             f4(d) == Four(d[4096], d[8192], d[16384], d[32768])
  <1>1. ASSUME NEW d \in Bits
        PROVE  /\ \A w \in Powers : d[w] \in {0, 1}
               /\ f1(d) \in Nat /\ f2(d) \in Nat /\ f3(d) \in Nat /\ f4(d) \in Nat
               /\ f1(d) < 16 /\ f2(d) < 16 /\ f3(d) < 16 /\ f4(d) < 16
    <2>1. \A w \in Powers : d[w] \in {0, 1}
      BY DEF Bits
    <2> QED
      BY <2>1, FourFacts DEF Powers
  <1>2. Digit(f1(p), Digit(f2(p), Digit(f3(p), f4(p))))
          = Digit(f1(q), Digit(f2(q), Digit(f3(q), f4(q))))
    BY DEF Sixteen
  <1>3. f1(p) = f1(q) /\ f2(p) = f2(q) /\ f3(p) = f3(q) /\ f4(p) = f4(q)
    <2>1. /\ f1(p) \in Nat /\ f2(p) \in Nat /\ f3(p) \in Nat /\ f4(p) \in Nat
          /\ f1(p) < 16 /\ f2(p) < 16 /\ f3(p) < 16 /\ f4(p) < 16
      BY <1>1
    <2>2. /\ f1(q) \in Nat /\ f2(q) \in Nat /\ f3(q) \in Nat /\ f4(q) \in Nat
          /\ f1(q) < 16 /\ f2(q) < 16 /\ f3(q) < 16 /\ f4(q) < 16
      BY <1>1
    <2> HIDE DEF f1, f2, f3, f4
    <2>3. /\ Digit(f3(p), f4(p)) \in Nat /\ Digit(f3(q), f4(q)) \in Nat
          /\ Digit(f2(p), Digit(f3(p), f4(p))) \in Nat
          /\ Digit(f2(q), Digit(f3(q), f4(q))) \in Nat
      BY <2>1, <2>2, DigitIsNat
    <2>4. f1(p) = f1(q)
          /\ Digit(f2(p), Digit(f3(p), f4(p))) = Digit(f2(q), Digit(f3(q), f4(q)))
      BY <1>2, <2>1, <2>2, <2>3, DigitDetermines
    <2>5. f2(p) = f2(q) /\ Digit(f3(p), f4(p)) = Digit(f3(q), f4(q))
      BY <2>1, <2>2, <2>3, <2>4, DigitDetermines
    <2>6. f3(p) = f3(q) /\ f4(p) = f4(q)
      BY <2>1, <2>2, <2>5, DigitDetermines
    <2> QED
      BY <2>4, <2>5, <2>6
  <1>4. ASSUME NEW w \in Powers
        PROVE  p[w] = q[w]
    <2>1. p[1] = q[1] /\ p[2] = q[2] /\ p[4] = q[4] /\ p[8] = q[8]
      BY <1>1, <1>3, FourDetermine DEF Powers
    <2>2. p[16] = q[16] /\ p[32] = q[32] /\ p[64] = q[64] /\ p[128] = q[128]
      BY <1>1, <1>3, FourDetermine DEF Powers
    <2>3. /\ p[256] = q[256] /\ p[512] = q[512] /\ p[1024] = q[1024]
          /\ p[2048] = q[2048]
      BY <1>1, <1>3, FourDetermine DEF Powers
    <2>4. /\ p[4096] = q[4096] /\ p[8192] = q[8192] /\ p[16384] = q[16384]
          /\ p[32768] = q[32768]
      BY <1>1, <1>3, FourDetermine DEF Powers
    <2> QED
      BY <2>1, <2>2, <2>3, <2>4 DEF Powers
  <1> QED
    BY <1>4 DEF Bits

Quotient(x, w) == x \div w

\* Halving a number takes its lowest bit off.
LEMMA Halves ==
  ASSUME NEW x \in Nat
  PROVE  /\ Quotient(x, 1) = 2 * Quotient(x, 2) + Bit(x, 1)
         /\ Quotient(x, 2) = 2 * Quotient(x, 4) + Bit(x, 2)
         /\ Quotient(x, 4) = 2 * Quotient(x, 8) + Bit(x, 4)
         /\ Quotient(x, 8) = 2 * Quotient(x, 16) + Bit(x, 8)
         /\ Quotient(x, 16) = 2 * Quotient(x, 32) + Bit(x, 16)
         /\ Quotient(x, 32) = 2 * Quotient(x, 64) + Bit(x, 32)
         /\ Quotient(x, 64) = 2 * Quotient(x, 128) + Bit(x, 64)
         /\ Quotient(x, 128) = 2 * Quotient(x, 256) + Bit(x, 128)
         /\ Quotient(x, 256) = 2 * Quotient(x, 512) + Bit(x, 256)
         /\ Quotient(x, 512) = 2 * Quotient(x, 1024) + Bit(x, 512)
         /\ Quotient(x, 1024) = 2 * Quotient(x, 2048) + Bit(x, 1024)
         /\ Quotient(x, 2048) = 2 * Quotient(x, 4096) + Bit(x, 2048)
         /\ Quotient(x, 4096) = 2 * Quotient(x, 8192) + Bit(x, 4096)
         /\ Quotient(x, 8192) = 2 * Quotient(x, 16384) + Bit(x, 8192)
         /\ Quotient(x, 16384) = 2 * Quotient(x, 32768) + Bit(x, 16384)
         /\ Quotient(x, 32768) = 2 * Quotient(x, 65536) + Bit(x, 32768)
  BY DEF Bit, Quotient

BitsOf(x) == [w \in Powers |-> Bit(x, w)]

LEMMA BitsOfType ==
  ASSUME NEW x \in Nat
  PROVE  BitsOf(x) \in Bits
  <1>1. \A w \in Powers : w \in Nat \ {0}
    BY DEF Powers
  <1> QED
    BY <1>1, BitType DEF BitsOf, Bits

\* A limb is the number that has its bits.
LEMMA LimbOfBits ==
  ASSUME NEW x \in Nat, x < 65536
  PROVE  Sixteen(BitsOf(x)) = x
  <1> DEFINE b(w) == Bit(x, w)
             h(w) == Quotient(x, w)
  <1>1. Sixteen(BitsOf(x))
          = Digit(Four(b(1), b(2), b(4), b(8)),
              Digit(Four(b(16), b(32), b(64), b(128)),
                Digit(Four(b(256), b(512), b(1024), b(2048)),
                      Four(b(4096), b(8192), b(16384), b(32768)))))
    BY DEF Sixteen, BitsOf, Powers
  <1>2. \A w \in Powers : b(w) \in Int
    BY BitsOfType DEF BitsOf, Bits
  <1>3. h(1) = x /\ h(65536) = 0 /\ \A w \in Powers : h(w) \in Int
    BY DEF Powers, Quotient
  <1>4. /\ h(1) = 2 * h(2) + b(1)
        /\ h(2) = 2 * h(4) + b(2)
        /\ h(4) = 2 * h(8) + b(4)
        /\ h(8) = 2 * h(16) + b(8)
        /\ h(16) = 2 * h(32) + b(16)
        /\ h(32) = 2 * h(64) + b(32)
        /\ h(64) = 2 * h(128) + b(64)
        /\ h(128) = 2 * h(256) + b(128)
        /\ h(256) = 2 * h(512) + b(256)
        /\ h(512) = 2 * h(1024) + b(512)
        /\ h(1024) = 2 * h(2048) + b(1024)
        /\ h(2048) = 2 * h(4096) + b(2048)
        /\ h(4096) = 2 * h(8192) + b(4096)
        /\ h(8192) = 2 * h(16384) + b(8192)
        /\ h(16384) = 2 * h(32768) + b(16384)
        /\ h(32768) = 2 * h(65536) + b(32768)
    BY Halves
  <1> HIDE DEF b, h
  <1> QED
    BY <1>1, <1>2, <1>3, <1>4 DEF Powers, Four, Digit

\* Where the bits of x and y differ the exclusive or has one.
DifferingBits(x, y) ==
  [w \in Powers |-> IF Bit(x, w) = Bit(y, w) THEN 0 ELSE 1]

LEMMA DifferingType == \A x, y : DifferingBits(x, y) \in Bits
  BY DEF DifferingBits, Bits

LEMMA XoredIsSixteen ==
  ASSUME NEW x, NEW y
  PROVE  XoredLimb(x, y) = Sixteen(DifferingBits(x, y))
  <1> DEFINE bit(w) == IF (x \div w) % 2 = (y \div w) % 2 THEN 0 ELSE w
             d(w) == IF Bit(x, w) = Bit(y, w) THEN 0 ELSE 1
  <1>1. Sixteen(DifferingBits(x, y))
          = Digit(Four(d(1), d(2), d(4), d(8)),
              Digit(Four(d(16), d(32), d(64), d(128)),
                Digit(Four(d(256), d(512), d(1024), d(2048)),
                      Four(d(4096), d(8192), d(16384), d(32768)))))
    BY DEF Sixteen, DifferingBits, Powers
  <1>2. XoredLimb(x, y)
            = bit(1) + bit(2) + bit(4) + bit(8) + bit(16) + bit(32) + bit(64)
                + bit(128) + bit(256) + bit(512) + bit(1024) + bit(2048)
                + bit(4096) + bit(8192) + bit(16384) + bit(32768)
    BY DEF XoredLimb
  <1>3. \A w \in Powers : d(w) \in Int /\ bit(w) = w * d(w)
    BY DEF Powers, Bit
  <1> HIDE DEF bit, d
  <1> QED
    BY <1>1, <1>2, <1>3 DEF Powers, Four, Digit

LEMMA XoredIsSymmetric ==
  ASSUME NEW x, NEW y
  PROVE  XoredLimb(x, y) = XoredLimb(y, x)
  <1>1. DifferingBits(x, y) = DifferingBits(y, x)
    BY DEF DifferingBits
  <1> QED
    BY <1>1, XoredIsSixteen

LEMMA LimbIsBelow ==
  ASSUME NEW x \in 0 .. (Base - 1)
  PROVE  x \in Nat /\ x < 65536
  BY LimbRange DEF Base

\* The exclusive or with the same limb keeps different limbs different.
LEMMA XoredLimbDetermines ==
  ASSUME NEW x \in 0 .. (Base - 1), NEW y \in 0 .. (Base - 1),
         NEW z \in 0 .. (Base - 1), XoredLimb(x, z) = XoredLimb(y, z)
  PROVE  x = y
  <1>1. /\ x \in Nat /\ x < 65536 /\ y \in Nat /\ y < 65536
        /\ z \in Nat
    BY LimbIsBelow
  <1>2. DifferingBits(x, z) = DifferingBits(y, z)
    BY XoredIsSixteen, DifferingType, BitsDetermine
  <1>3. ASSUME NEW w \in Powers
        PROVE  BitsOf(x)[w] = BitsOf(y)[w]
    <2>1. /\ Bit(x, w) \in {0, 1} /\ Bit(y, w) \in {0, 1} /\ Bit(z, w) \in {0, 1}
      BY <1>1, BitsOfType DEF BitsOf, Bits
    <2>2. DifferingBits(x, z)[w] = DifferingBits(y, z)[w]
      BY <1>2
    <2>3. (Bit(x, w) = Bit(z, w)) <=> (Bit(y, w) = Bit(z, w))
      BY <2>2 DEF DifferingBits
    <2> QED
      BY <2>1, <2>3 DEF BitsOf
  <1>4. BitsOf(x) = BitsOf(y)
    BY <1>3 DEF BitsOf
  <1> QED
    BY <1>1, <1>4, LimbOfBits

\* So does the exclusive or with the same word.
LEMMA XoredDetermines ==
  ASSUME NEW a \in Words, NEW b \in Words, NEW z \in Words,
         Xored(a, z) = Xored(b, z)
  PROVE  a = b
  <1>1. ASSUME NEW k \in 1 .. 4
        PROVE  a[k] = b[k]
    <2>1. XoredLimb(a[k], z[k]) = XoredLimb(b[k], z[k])
      BY DEF Xored, Word
    <2> QED
      BY <2>1, XoredLimbDetermines DEF Words
  <1> QED
    BY <1>1 DEF Words

LEMMA XoredSymmetric ==
  ASSUME NEW a, NEW b
  PROVE  Xored(a, b) = Xored(b, a)
  BY XoredIsSymmetric DEF Xored, Word

\* The exclusive or with nothing.
LEMMA XoredWithZero ==
  ASSUME NEW x \in 0 .. (Base - 1)
  PROVE  XoredLimb(x, 0) = x
  <1>1. x \in Nat /\ x < 65536
    BY LimbIsBelow
  <1>2. \A w \in Powers : Bit(0, w) = 0
    BY DEF Powers, Bit
  <1>3. \A w \in Powers : Bit(x, w) \in {0, 1}
    BY <1>1, BitsOfType DEF BitsOf, Bits
  <1>4. DifferingBits(x, 0) = BitsOf(x)
    BY <1>2, <1>3 DEF DifferingBits, BitsOf
  <1> QED
    BY <1>1, <1>4, XoredIsSixteen, LimbOfBits

\* At most n, of either sign.
Within(e, n) == -n <= e /\ e <= n

\* The exclusive or with a byte changes a limb by less than 256.
LEMMA XoredWithByte ==
  ASSUME NEW x \in 0 .. (Base - 1), NEW c \in 0 .. 255
  PROVE  \E e \in Int : Within(e, 255) /\ XoredLimb(x, c) = x + e
  <1>1. x \in Nat /\ x < 65536
    BY LimbIsBelow
  <1> DEFINE p == BitsOf(x)
             q == DifferingBits(x, c)
             f1(d) == Four(d[1], d[2], d[4], d[8])
             f2(d) == Four(d[16], d[32], d[64], d[128])
             rest(d) == Digit(Four(d[256], d[512], d[1024], d[2048]),
                              Four(d[4096], d[8192], d[16384], d[32768]))
  <1>2. p \in Bits /\ q \in Bits
    BY <1>1, BitsOfType, DifferingType
  <1>3. /\ x = Digit(f1(p), Digit(f2(p), rest(p)))
        /\ XoredLimb(x, c) = Digit(f1(q), Digit(f2(q), rest(q)))
    BY <1>1, LimbOfBits, XoredIsSixteen DEF Sixteen
  <1>4. ASSUME NEW w \in Powers, w >= 256
        PROVE  p[w] = q[w]
    <2>1. Bit(c, w) = 0
      BY <1>4 DEF Powers, Bit
    <2>2. Bit(x, w) \in {0, 1}
      BY <1>1, BitsOfType DEF BitsOf, Bits
    <2> QED
      BY <2>1, <2>2 DEF BitsOf, DifferingBits
  <1>5. rest(p) = rest(q)
    <2> HIDE DEF p, q
    <2> QED
      BY <1>4 DEF Powers
  <1>6. ASSUME NEW d \in Bits
        PROVE  /\ f1(d) \in Nat /\ f2(d) \in Nat /\ f1(d) < 16 /\ f2(d) < 16
               /\ rest(d) \in Nat
    <2>1. \A w \in Powers : d[w] \in {0, 1}
      BY DEF Bits
    <2>2. /\ f1(d) \in Nat /\ f2(d) \in Nat /\ f1(d) < 16 /\ f2(d) < 16
          /\ Four(d[256], d[512], d[1024], d[2048]) \in Nat
          /\ Four(d[4096], d[8192], d[16384], d[32768]) \in Nat
      BY <2>1, FourFacts DEF Powers
    <2> QED
      BY <2>2, DigitIsNat
  <1>7. /\ f1(p) \in Nat /\ f2(p) \in Nat /\ f1(p) < 16 /\ f2(p) < 16
        /\ f1(q) \in Nat /\ f2(q) \in Nat /\ f1(q) < 16 /\ f2(q) < 16
        /\ rest(p) \in Nat
    BY <1>2, <1>6
  <1> DEFINE e == (f1(q) - f1(p)) + 16 * (f2(q) - f2(p))
  <1> HIDE DEF p, q, f1, f2, rest
  <1>8. e \in Int /\ Within(e, 255)
    BY <1>7 DEF Within
  <1>9. XoredLimb(x, c) = x + e
    BY <1>3, <1>5, <1>7 DEF Digit
  <1> QED
    BY <1>8, <1>9

LEMMA FourBits ==
  ASSUME NEW w \in Nat, NEW a \in {0, w}, NEW b \in {0, 2 * w},
         NEW c \in {0, 4 * w}, NEW d \in {0, 8 * w}
  PROVE  a + b + c + d \in Nat /\ a + b + c + d <= 15 * w
  OBVIOUS

LEMMA LimbUpTo ==
  ASSUME NEW sum \in Nat, sum <= 65535
  PROVE  sum \in 0 .. (Base - 1)
  <1>1. Base - 1 = 65535
    BY DEF Base
  <1> DEFINE top == Base - 1
  <1> HIDE DEF top
  <1>2. top \in Int /\ sum <= top
    <2>1. top = 65535
      BY ONLY <1>1 DEF top
    <2> QED
      BY ONLY <2>1, sum \in Nat, sum <= 65535
  <1>3. sum \in 0 .. top
    BY <1>2, UpTo
  <1> QED
    BY ONLY <1>3 DEF top

\* The exclusive or is a word.
LEMMA XoredType ==
  ASSUME NEW a, NEW b
  PROVE  Xored(a, b) \in Words
  <1>1. ASSUME NEW x, NEW y
        PROVE  XoredLimb(x, y) \in 0 .. (Base - 1)
    <2> DEFINE bit(w) == IF (x \div w) % 2 = (y \div w) % 2 THEN 0 ELSE w
    <2>1. /\ bit(1) \in {0, 1} /\ bit(2) \in {0, 2} /\ bit(4) \in {0, 4}
          /\ bit(8) \in {0, 8} /\ bit(16) \in {0, 16} /\ bit(32) \in {0, 32}
          /\ bit(64) \in {0, 64} /\ bit(128) \in {0, 128}
          /\ bit(256) \in {0, 256} /\ bit(512) \in {0, 512}
          /\ bit(1024) \in {0, 1024} /\ bit(2048) \in {0, 2048}
          /\ bit(4096) \in {0, 4096} /\ bit(8192) \in {0, 8192}
          /\ bit(16384) \in {0, 16384} /\ bit(32768) \in {0, 32768}
      OBVIOUS
    <2>2. XoredLimb(x, y)
            = bit(1) + bit(2) + bit(4) + bit(8) + bit(16) + bit(32) + bit(64)
                + bit(128) + bit(256) + bit(512) + bit(1024) + bit(2048)
                + bit(4096) + bit(8192) + bit(16384) + bit(32768)
      BY DEF XoredLimb
    <2> HIDE DEF bit
    <2> DEFINE g1 == bit(1) + bit(2) + bit(4) + bit(8)
               g2 == bit(16) + bit(32) + bit(64) + bit(128)
               g3 == bit(256) + bit(512) + bit(1024) + bit(2048)
               g4 == bit(4096) + bit(8192) + bit(16384) + bit(32768)
    <2>3. g1 \in Nat /\ g1 <= 15
      BY <2>1, FourBits
    <2>4. g2 \in Nat /\ g2 <= 240
      BY <2>1, FourBits
    <2>5. g3 \in Nat /\ g3 <= 3840
      BY <2>1, FourBits
    <2>6. g4 \in Nat /\ g4 <= 61440
      BY <2>1, FourBits
    <2>7. XoredLimb(x, y) = g1 + g2 + g3 + g4
      <3>1. /\ bit(1) \in Int /\ bit(2) \in Int /\ bit(4) \in Int
            /\ bit(8) \in Int /\ bit(16) \in Int /\ bit(32) \in Int
            /\ bit(64) \in Int /\ bit(128) \in Int /\ bit(256) \in Int
            /\ bit(512) \in Int /\ bit(1024) \in Int /\ bit(2048) \in Int
            /\ bit(4096) \in Int /\ bit(8192) \in Int
            /\ bit(16384) \in Int /\ bit(32768) \in Int
        BY <2>1
      <3> QED
        BY <2>2, <3>1
    <2> HIDE DEF g1, g2, g3, g4
    <2>8. g1 + g2 + g3 + g4 \in 0 .. (Base - 1)
      <3> DEFINE sum == g1 + g2 + g3 + g4
      <3>1. sum \in Nat
        BY ONLY <2>3, <2>4, <2>5, <2>6
      <3>2. sum <= 65535
        BY ONLY <2>3, <2>4, <2>5, <2>6
      <3> HIDE DEF sum
      <3>3. sum \in 0 .. (Base - 1)
        BY <3>1, <3>2, LimbUpTo
      <3> QED
        BY ONLY <3>3 DEF sum
    <2> QED
      BY ONLY <2>7, <2>8
  <1> QED
    BY <1>1 DEF Xored, Word, Words

-----------------------------------------------------------------------------
(***************************************************************************)
(* What one round keeps apart, and what three do.                          *)
(***************************************************************************)
\* A byte as the lowest of 64 bits.
Octet(c) == <<c, 0, 0, 0>>

LEMMA ByteIsLimb ==
  ASSUME NEW c \in 0 .. 255
  PROVE  c \in Nat /\ c \in 0 .. (Base - 1) /\ Base - 256 + c \in 0 .. (Base - 1)
  <1>1. c \in Nat /\ c <= 65535
    OBVIOUS
  <1>2. Base - 256 + c \in Nat /\ Base - 256 + c <= 65535
    BY DEF Base
  <1> DEFINE n == Base - 256 + c
  <1> HIDE DEF n
  <1>3. n \in 0 .. (Base - 1)
    <2>1. n \in Nat /\ n <= 65535
      BY ONLY <1>2 DEF n
    <2> QED
      BY ONLY <2>1, LimbUpTo
  <1>4. c \in 0 .. (Base - 1)
    BY ONLY <1>1, LimbUpTo
  <1> QED
    BY ONLY <1>1, <1>3, <1>4 DEF n

LEMMA ZeroAndTop == 0 \in 0 .. (Base - 1) /\ Base - 1 \in 0 .. (Base - 1)
  <1>1. Base - 1 \in Nat /\ Base - 1 <= Base - 1 /\ Base - 1 \in Int
    BY DEF Base
  <1>2. 0 \in Nat /\ 0 <= Base - 1
    BY DEF Base
  <1> QED
    BY <1>1, <1>2, UpTo

LEMMA OctetType ==
  ASSUME NEW c \in 0 .. 255
  PROVE  Octet(c) \in Words
  BY ByteIsLimb, ZeroAndTop DEF Octet, Words

LEMMA ExtendedType ==
  ASSUME NEW c \in 0 .. 255
  PROVE  Extended(c) \in Words
  BY ByteIsLimb, ZeroAndTop DEF Extended, Words

\* Different bytes become different numbers.
LEMMA ExtendedDetermines ==
  ASSUME NEW c \in 0 .. 255, NEW d \in 0 .. 255, Extended(c) = Extended(d)
  PROVE  c = d
  <1>1. Extended(c)[1] = IF SignedChar /\ c >= 128 THEN Base - 256 + c ELSE c
    BY DEF Extended
  <1>2. Extended(d)[1] = IF SignedChar /\ d >= 128 THEN Base - 256 + d ELSE d
    BY DEF Extended
  <1> QED
    BY <1>1, <1>2 DEF Base

LEMMA RoundType ==
  ASSUME NEW h, NEW c
  PROVE  /\ Round(h, c) \in Words
         /\ Round(h, c) = TimesPrime(Xored(h, Extended(c)))
  BY XoredType, ShiftsMultiply, TimesPrimeFacts DEF Round

\* A round keeps different hashes different.
LEMMA RoundDeterminesHash ==
  ASSUME NEW h \in Words, NEW g \in Words, NEW c \in 0 .. 255,
         Round(h, c) = Round(g, c)
  PROVE  h = g
  <1>1. Xored(h, Extended(c)) = Xored(g, Extended(c))
    BY RoundType, XoredType, TimesPrimeDetermines
  <1>2. Extended(c) \in Words
    BY ExtendedType
  <1> QED
    BY <1>1, <1>2, XoredDetermines

\* After one hash it keeps different bytes different.
LEMMA RoundDeterminesByte ==
  ASSUME NEW h \in Words, NEW c \in 0 .. 255, NEW d \in 0 .. 255,
         Round(h, c) = Round(h, d)
  PROVE  c = d
  <1>1. Xored(h, Extended(c)) = Xored(h, Extended(d))
    BY RoundType, XoredType, TimesPrimeDetermines
  <1>2. Xored(Extended(c), h) = Xored(Extended(d), h)
    BY <1>1, XoredSymmetric
  <1>3. Extended(c) = Extended(d)
    BY <1>2, ExtendedType, XoredDetermines
  <1> QED
    BY <1>3, ExtendedDetermines

\* The exclusive or with a byte that is not negative changes a hash by less
\* than 256.
LEMMA XoredOctet ==
  ASSUME NEW h \in Words, NEW c \in 0 .. 255
  PROVE  \E e \in Int : Within(e, 255) /\ Value(Xored(h, Octet(c))) = Value(h) + e
  <1> DEFINE x == Xored(h, Octet(c))
  <1>1. /\ x[1] = XoredLimb(h[1], c) /\ x[2] = XoredLimb(h[2], 0)
        /\ x[3] = XoredLimb(h[3], 0) /\ x[4] = XoredLimb(h[4], 0)
    BY DEF Xored, Word, Octet
  <1>2. x[2] = h[2] /\ x[3] = h[3] /\ x[4] = h[4]
    BY <1>1, XoredWithZero DEF Words
  <1>3. PICK e \in Int : Within(e, 255) /\ x[1] = h[1] + e
    <2>1. h[1] \in 0 .. (Base - 1)
      BY DEF Words
    <2>2. \E e \in Int : Within(e, 255) /\ XoredLimb(h[1], c) = h[1] + e
      BY ONLY <2>1, c \in 0 .. 255, XoredWithByte
    <2> HIDE DEF x
    <2> QED
      BY <1>1, <2>2
  <1>4. h[1] \in Int /\ h[2] \in Int /\ h[3] \in Int /\ h[4] \in Int
    BY LimbRange DEF Words
  <1> HIDE DEF x
  <1>5. Value(x) = Value(h) + e
    BY <1>2, <1>3, <1>4 DEF Value, Base
  <1> QED
    BY <1>3, <1>5 DEF x

\* s is m changed by the exclusive ors of two hashes with a byte each.
Near(s, m) == Within(s - m, 510)

\* Three bytes of which each changes a hash by less than 256 cannot make up
\* for one another: 435 * 435 * 510 + 435 * 510 + 510 is below 2^32, and so is
\* 222720 * 510 + 256 * 510, where 222720 is 2 * 435 * 256.
LEMMA NoCancelling ==
  ASSUME NEW s1 \in Int, NEW m1 \in Int, NEW s2 \in Int, NEW m2 \in Int,
         Near(s1, 0), PrimeTimes(m1, s1), Near(s2, m1), PrimeTimes(m2, s2),
         Near(0, m2)
  PROVE  s1 = 0 /\ s2 = m1 /\ m2 = 0
  <1>1. PICK q1 \in Int : m1 = 435 * s1 + Base * (Base * (256 * s1)) + Lost(q1)
    BY DEF PrimeTimes
  <1>2. PICK q2 \in Int : m2 = 435 * s2 + Base * (Base * (256 * s2)) + Lost(q2)
    BY DEF PrimeTimes
  <1> DEFINE d2 == s2 - m1
             d3 == 0 - m2
             low == 189225 * s1 + 435 * d2 + d3
             high == 222720 * s1 + 256 * d2
             q == 0 - q2 - 435 * q1 - Base * (Base * (256 * q1)) - 65536 * s1
  <1>3. /\ d2 \in Int /\ d3 \in Int
        /\ -510 <= s1 /\ s1 <= 510 /\ -510 <= d2 /\ d2 <= 510
        /\ -510 <= d3 /\ d3 <= 510
    BY DEF Near, Within
  <1>4. low \in Int /\ high \in Int /\ q \in Int
    BY DEF Base
  <1>5. low + Base * (Base * high) = Lost(q)
    BY <1>1, <1>2 DEF Lost, Base
  <1>6. s2 = m1 + d2 /\ m2 = 0 - d3
    OBVIOUS
  <1> HIDE DEF d2, d3
  <1>7. -4000000000 < low /\ low < 4000000000
    BY <1>3
  <1>8. -4000000000 < high /\ high < 4000000000
    BY <1>3
  <1>9. low = 0 /\ high = Base * (Base * q)
    <2> HIDE DEF low, high, q
    <2> QED
      BY <1>4, <1>5, <1>7 DEF Lost, Base
  <1>10. high = 0
    <2> HIDE DEF low, high, q
    <2> QED
      BY <1>4, <1>8, <1>9 DEF Base
  <1>11. d2 = 0 - 870 * s1
    BY <1>3, <1>10
  <1>12. s1 = 0 /\ d2 = 0
    BY ONLY <1>3, <1>11, s1 \in Int
  <1>13. d3 = 0
    <2>1. low = 0
      BY <1>9
    <2> QED
      BY ONLY <1>3, <1>12, <2>1
  <1> QED
    BY ONLY <1>3, <1>6, <1>12, <1>13, m1 \in Int, s2 \in Int, m2 \in Int

\* A byte that is not negative as a char.
PlainByte(c) == c \in 0 .. 255 /\ (SignedChar => ~(c >= 128))

LEMMA PlainRound ==
  ASSUME NEW h, NEW c, PlainByte(c)
  PROVE  Round(h, c) = TimesPrime(Xored(h, Octet(c)))
  BY RoundType DEF Extended, Octet, PlainByte

LEMMA OctetsDiffer ==
  ASSUME NEW h \in Words, NEW g \in Words, NEW c \in 0 .. 255, NEW d \in 0 .. 255
  PROVE  Near(Apart(Xored(h, Octet(c)), Xored(g, Octet(d))), Apart(h, g))
  <1>1. PICK m \in Int :
          Within(m, 255) /\ Value(Xored(h, Octet(c))) = Value(h) + m
    BY XoredOctet
  <1>2. PICK n \in Int :
          Within(n, 255) /\ Value(Xored(g, Octet(d))) = Value(g) + n
    BY XoredOctet
  <1>3. Value(h) \in Int /\ Value(g) \in Int
    BY WordsAreLimbs, ValueIsInt
  <1>4. Within(m - n, 510)
    BY <1>1, <1>2 DEF Within
  <1>5. ((Value(h) + m) - (Value(g) + n)) - (Value(h) - Value(g)) = m - n
    BY <1>3
  <1> QED
    BY <1>1, <1>2, <1>4, <1>5 DEF Near, Apart

\* After one hash, different triples of bytes that are not negative lead to
\* different hashes.
LEMMA ThreeRounds ==
  ASSUME NEW h \in Words,
         NEW c1, NEW c2, NEW c3, NEW d1, NEW d2, NEW d3,
         PlainByte(c1), PlainByte(c2), PlainByte(c3),
         PlainByte(d1), PlainByte(d2), PlainByte(d3),
         Round(Round(Round(h, c1), c2), c3) = Round(Round(Round(h, d1), d2), d3)
  PROVE  c1 = d1 /\ c2 = d2 /\ c3 = d3
  <1> DEFINE h1 == Round(h, c1)  g1 == Round(h, d1)
             h2 == Round(h1, c2)  g2 == Round(g1, d2)
             x1 == Xored(h, Octet(c1))  y1 == Xored(h, Octet(d1))
             x2 == Xored(h1, Octet(c2))  y2 == Xored(g1, Octet(d2))
             x3 == Xored(h2, Octet(c3))  y3 == Xored(g2, Octet(d3))
  <1>1. /\ c1 \in 0 .. 255 /\ c2 \in 0 .. 255 /\ c3 \in 0 .. 255
        /\ d1 \in 0 .. 255 /\ d2 \in 0 .. 255 /\ d3 \in 0 .. 255
    BY DEF PlainByte
  <1>2. /\ h1 \in Words /\ g1 \in Words /\ h2 \in Words /\ g2 \in Words
        /\ x1 \in Words /\ y1 \in Words /\ x2 \in Words /\ y2 \in Words
        /\ x3 \in Words /\ y3 \in Words
    BY RoundType, XoredType
  <1>3. /\ h1 = TimesPrime(x1) /\ g1 = TimesPrime(y1)
        /\ h2 = TimesPrime(x2) /\ g2 = TimesPrime(y2)
        /\ TimesPrime(x3) = TimesPrime(y3)
    BY PlainRound
  <1>4. Round(h1, c2) = h2 /\ Round(g1, d2) = g2 /\ Round(h2, c3) = Round(g2, d3)
    OBVIOUS
  <1> HIDE DEF h1, g1, h2, g2
  <1>5. /\ Near(Apart(x1, y1), Apart(h, h))
        /\ Near(Apart(x2, y2), Apart(h1, g1))
        /\ Near(Apart(x3, y3), Apart(h2, g2))
    BY <1>1, <1>2, OctetsDiffer
  <1> HIDE DEF x1, y1, x2, y2, x3, y3
  <1>6. Apart(x3, y3) = 0 /\ Apart(h, h) = 0
    BY <1>2, <1>3, TimesPrimeDetermines, SameValue
  <1>7. /\ PrimeTimes(Apart(h1, g1), Apart(x1, y1))
        /\ PrimeTimes(Apart(h2, g2), Apart(x2, y2))
    BY <1>2, <1>3, ProductsDiffer
  <1>8. /\ Apart(x1, y1) \in Int /\ Apart(h1, g1) \in Int
        /\ Apart(x2, y2) \in Int /\ Apart(h2, g2) \in Int
    BY <1>2, ApartType
  <1>9. /\ Apart(x1, y1) = 0 /\ Apart(x2, y2) = Apart(h1, g1)
        /\ Apart(h2, g2) = 0
    BY <1>5, <1>6, <1>7, <1>8, NoCancelling
  <1>10. h1 = g1
    BY <1>2, <1>3, <1>9, SameValue
  <1>11. h2 = g2
    BY <1>2, <1>9, SameValue
  <1>12. c1 = d1
    BY <1>1, <1>10, RoundDeterminesByte DEF h1, g1
  <1>13. c2 = d2
    <2>1. Round(h1, c2) = Round(h1, d2)
      BY <1>4, <1>10, <1>11, Zenon
    <2> QED
      BY <1>1, <1>2, <2>1, RoundDeterminesByte, Zenon
  <1>14. c3 = d3
    <2>1. Round(h2, c3) = Round(h2, d3)
      BY <1>4, <1>11, Zenon
    <2> QED
      BY <1>1, <1>2, <2>1, RoundDeterminesByte, Zenon
  <1> QED
    BY <1>12, <1>13, <1>14

\* So do different pairs.
LEMMA TwoRounds ==
  ASSUME NEW h \in Words, NEW c1, NEW c2, NEW d1, NEW d2,
         PlainByte(c1), PlainByte(c2), PlainByte(d1), PlainByte(d2),
         Round(Round(h, c1), c2) = Round(Round(h, d1), d2)
  PROVE  c1 = d1 /\ c2 = d2
  <1>1. PlainByte(0)
    BY DEF PlainByte
  <1> QED
    BY <1>1, ThreeRounds

-----------------------------------------------------------------------------
(***************************************************************************)
(* The loop over the bytes of a name.                                      *)
(***************************************************************************)
LEMMA ElementInRange ==
  ASSUME NEW S, NEW q \in Seq(S), NEW n \in 1 .. Len(q)
  PROVE  q[n] \in S
  OBVIOUS

\* One round of the loop is one of the reference where the byte, as a char, is
\* not negative.
LEMMA RoundIsReference ==
  ASSUME NEW h, NEW c, SignedChar => ~(c >= 128)
  PROVE  Round(h, c) = TimesPrime(Xored(h, <<c, 0, 0, 0>>))
  BY XoredType, ShiftsMultiply DEF Round, Extended

LEMMA LeastOf ==
  ASSUME NEW bad \in SUBSET Nat, bad # {}
  PROVE  \E k \in bad : \A n \in bad : k <= n
  <1> DEFINE less == {ss \in Nat \X Nat : ss[1] < ss[2]}
  <1>1. IsWellFoundedOn(less, Nat)
    BY NatLessThanWellFounded DEF OpToRel
  <1>2. PICK k \in bad : \A n \in bad : <<n, k>> \notin less
    <2> HIDE DEF less
    <2> QED
      BY <1>1, WFMin
  <1>3. ASSUME NEW n \in bad
        PROVE  k <= n
    <2>1. n \in Nat /\ k \in Nat
      OBVIOUS
    <2>2. ~(n < k)
      BY <1>2, <2>1
    <2> QED
      BY <2>1, <2>2
  <1> QED
    BY <1>3

\* The hashes of the first m of these words.
IsChain(h, words, m) ==
  h = [n \in 0 .. m |-> IF n = 0 THEN Offset
                        ELSE TimesPrime(Xored(h[n - 1], words[n]))]

\* There is such a function: by induction on the number of words.
LEMMA ChainExists ==
  ASSUME NEW words, NEW m \in Nat
  PROVE  \E h : IsChain(h, words, m)
  <1> DEFINE bad == {n \in Nat : ~ \E h : IsChain(h, words, n)}
  <1>1. SUFFICES ASSUME bad # {} PROVE FALSE
    OBVIOUS
  <1>2. \E k \in bad : \A n \in bad : k <= n
    <2>1. bad \in SUBSET Nat
      OBVIOUS
    <2> HIDE DEF bad
    <2> QED
      BY <1>1, <2>1, LeastOf
  <1> PICK k \in bad : \A n \in bad : k <= n
    BY <1>2
  <1>3. k # 0
    <2>1. IsChain([n \in 0 .. 0 |-> Offset], words, 0)
      BY DEF IsChain
    <2> QED
      BY <2>1
  <1>4. PICK h : IsChain(h, words, k - 1)
    BY <1>2, <1>3
  <1> DEFINE g == [n \in 0 .. k |->
                     IF n = k THEN TimesPrime(Xored(h[k - 1], words[k]))
                              ELSE h[n]]
  <1>5. IsChain(g, words, k)
    <2>1. k \in Nat /\ k - 1 \in Nat
      BY <1>2, <1>3
    <2>2. ASSUME NEW n \in 0 .. k
          PROVE  g[n] = IF n = 0 THEN Offset
                        ELSE TimesPrime(Xored(g[n - 1], words[n]))
      <3>1. CASE n = k
        BY <1>3, <2>1, <3>1
      <3>2. CASE n # k
        <4>1. n \in 0 .. (k - 1) /\ (n # 0 => n - 1 \in 0 .. k /\ n - 1 # k)
          BY <2>1, <3>2
        <4>2. h[n] = IF n = 0 THEN Offset
                     ELSE TimesPrime(Xored(h[n - 1], words[n]))
          BY <1>4, <4>1 DEF IsChain
        <4> QED
          BY <3>2, <4>1, <4>2
      <3> QED
        BY <3>1, <3>2
    <2> QED
      BY <2>2 DEF IsChain
  <1> QED
    BY <1>2, <1>5

\* The reference on the first bytes of s.
IsReference(h, s, m) ==
  h = [n \in 0 .. m |-> IF n = 0 THEN Offset
                        ELSE TimesPrime(Xored(h[n - 1], <<s[n], 0, 0, 0>>))]

LEMMA ReferenceExists ==
  ASSUME NEW s, NEW m \in Nat
  PROVE  \E h : IsReference(h, s, m)
  <1> DEFINE words == [n \in 1 .. m |-> <<s[n], 0, 0, 0>>]
  <1>1. PICK h : IsChain(h, words, m)
    BY ChainExists
  <1>2. \A n \in 0 .. m : n # 0 => words[n] = <<s[n], 0, 0, 0>>
    OBVIOUS
  <1> HIDE DEF words
  <1>3. IsReference(h, s, m)
    BY <1>1, <1>2 DEF IsChain, IsReference
  <1> QED
    BY <1>3

\* The loop on the first bytes of s.
IsHash(h, s, m) ==
  h = [n \in 0 .. m |-> IF n = 0 THEN Offset ELSE Round(h[n - 1], s[n])]

LEMMA HashExists ==
  ASSUME NEW s, NEW m \in Nat
  PROVE  \E h : IsHash(h, s, m)
  <1> DEFINE words == [n \in 1 .. m |-> Extended(s[n])]
  <1>1. PICK h : IsChain(h, words, m)
    BY ChainExists
  <1>2. ASSUME NEW n \in 0 .. m, n # 0, NEW x
        PROVE  TimesPrime(Xored(x, words[n])) = Round(x, s[n])
    <2>1. words[n] = Extended(s[n])
      BY <1>2
    <2> HIDE DEF words
    <2> QED
      BY <2>1, RoundType
  <1> HIDE DEF words
  <1>3. IsHash(h, s, m)
    BY <1>1, <1>2 DEF IsChain, IsHash
  <1> QED
    BY <1>3

Hashes(s) == CHOOSE h : IsHash(h, s, Len(s))

\* Fnv64a computes it.
LEMMA HashFacts ==
  ASSUME NEW s \in Strings
  PROVE  /\ Len(s) \in Nat
         /\ Fnv64a[s] = Hashes(s)[Len(s)]
         /\ Hashes(s)[0] = Offset
         /\ \A n \in 0 .. (Len(s) - 1) :
              Hashes(s)[n + 1] = Round(Hashes(s)[n], s[n + 1])
  <1>1. Len(s) \in Nat
    BY FnvAssumption
  <1>2. Fnv64a[s] = Hashes(s)[Len(s)]
    BY DEF Fnv64a, Hashed, Hashes, IsHash
  <1>3. IsHash(Hashes(s), s, Len(s))
    BY <1>1, HashExists DEF Hashes
  <1> QED
    BY <1>1, <1>2, <1>3 DEF IsHash

Reference(s) == CHOOSE h : IsReference(h, s, Len(s))

\* The definition of FNV-1a computes it.
LEMMA ReferenceFacts ==
  ASSUME NEW s \in Strings
  PROVE  /\ Fnv1a[s] = Reference(s)[Len(s)]
         /\ Reference(s)[0] = Offset
         /\ \A n \in 0 .. (Len(s) - 1) :
              Reference(s)[n + 1]
                = TimesPrime(Xored(Reference(s)[n], <<s[n + 1], 0, 0, 0>>))
  <1>1. Len(s) \in Nat
    BY FnvAssumption
  <1>2. Fnv1a[s] = Reference(s)[Len(s)]
    BY DEF Fnv1a, Hashed, Reference, IsReference
  <1>3. IsReference(Reference(s), s, Len(s))
    BY <1>1, ReferenceExists DEF Reference
  <1> QED
    BY <1>1, <1>2, <1>3 DEF IsReference

\* So far the loop has hashed the bytes it has consumed.
LoopInv ==
  /\ str \in Strings /\ i \in 0 .. Len(str)
  /\ Plain(str) => hash = Reference(str)[i]

LEMMA LoopStep == LoopInv /\ [HashByte]_vars => LoopInv'
  <1> SUFFICES ASSUME LoopInv, [HashByte]_vars PROVE LoopInv'
    OBVIOUS
  <1>1. CASE UNCHANGED vars
    BY <1>1 DEF LoopInv, vars
  <1>2. CASE HashByte
    <2>1. /\ str' = str /\ i' = i + 1 /\ i \in 0 .. (Len(str) - 1)
          /\ i + 1 \in 1 .. Len(str)
      BY <1>2, FnvAssumption DEF HashByte, HasNext, LoopInv
    <2>2. ASSUME Plain(str)
          PROVE  hash' = Reference(str)[i + 1]
      <3>1. ASSUME SignedChar
            PROVE  ~(str[i + 1] >= 128)
        <4>1. str \in Seq(0 .. 255)
          BY FnvAssumption DEF LoopInv
        <4>2. str[i + 1] \in 0 .. 255
          BY <2>1, <4>1, ElementInRange
        <4>3. Ascii(str)
          BY <2>2, <3>1 DEF Plain
        <4>4. str[i + 1] < 128
          BY <2>1, <4>3 DEF Ascii
        <4> QED
          BY <4>2, <4>4
      <3>2. Round(hash, str[i + 1])
              = TimesPrime(Xored(hash, <<str[i + 1], 0, 0, 0>>))
        BY <3>1, RoundIsReference
      <3>3. hash = Reference(str)[i]
        BY <2>2 DEF LoopInv
      <3>4. Reference(str)[i + 1]
              = TimesPrime(Xored(Reference(str)[i], <<str[i + 1], 0, 0, 0>>))
        BY <2>1, ReferenceFacts DEF LoopInv
      <3> QED
        BY <1>2, <3>2, <3>3, <3>4 DEF HashByte
    <2> QED
      BY <2>1, <2>2 DEF LoopInv, Plain, Ascii
  <1> QED
    BY <1>1, <1>2

\* A name of any length that has no byte from 0x80 on, and any name where char
\* is unsigned, gets its FNV-1a hash (fnv.hpp, line 14).
THEOREM AsciiNamesGetFnv1a == Spec => []AsciiIsFnv1a
  <1>1. Init => LoopInv
    BY ReferenceFacts, FnvAssumption DEF Init, LoopInv
  <1>2. LoopInv => AsciiIsFnv1a
    BY ReferenceFacts, FnvAssumption
       DEF LoopInv, AsciiIsFnv1a, Returned, HasNext
  <1> QED
    BY <1>1, <1>2, LoopStep, PTL DEF Spec

-----------------------------------------------------------------------------
(***************************************************************************)
(* Names that are close to each other.                                     *)
(***************************************************************************)
LEMMA OffsetType == Offset \in Words
  <1>1. /\ 8997 \in 0 .. (Base - 1) /\ 33826 \in 0 .. (Base - 1)
        /\ 40164 \in 0 .. (Base - 1) /\ 52210 \in 0 .. (Base - 1)
    BY LimbUpTo
  <1> QED
    BY <1>1 DEF Offset, Words

LEMMA HashType ==
  ASSUME NEW s \in Strings, NEW n \in 0 .. Len(s)
  PROVE  Hashes(s)[n] \in Words
  <1>1. CASE n = 0
    BY <1>1, HashFacts, OffsetType
  <1>2. CASE n # 0
    <2>1. n - 1 \in 0 .. (Len(s) - 1) /\ (n - 1) + 1 = n
      BY <1>2, HashFacts
    <2>2. Hashes(s)[n] = Round(Hashes(s)[n - 1], s[n])
      BY <2>1, HashFacts
    <2> QED
      BY <2>2, RoundType
  <1> QED
    BY <1>1, <1>2

\* Where s and t agree from byte m + 1 to byte n.
Agree(s, t, m, n) == \A j \in (m + 1) .. n : s[j] = t[j]

\* Equal bytes lead from equal hashes to equal hashes: by induction.
LEMMA SamePrefix ==
  ASSUME NEW s \in Strings, NEW t \in Strings, Len(s) = Len(t),
         NEW k \in 0 .. Len(s), Agree(s, t, 0, k)
  PROVE  Hashes(s)[k] = Hashes(t)[k]
  <1> DEFINE bad == {n \in 0 .. k : Hashes(s)[n] # Hashes(t)[n]}
  <1>0. Len(s) \in Nat /\ k \in Nat /\ k <= Len(s)
    BY HashFacts
  <1>1. SUFFICES ASSUME bad # {} PROVE FALSE
    BY <1>0
  <1>2. PICK n \in bad : \A m \in bad : n <= m
    <2>1. bad \in SUBSET Nat
      BY <1>0
    <2> HIDE DEF bad
    <2> QED
      BY <1>1, <2>1, LeastOf
  <1>3. n # 0
    BY HashFacts
  <1>4. /\ n \in 0 .. k /\ n - 1 \in 0 .. k /\ n - 1 \notin bad
        /\ n - 1 \in 0 .. (Len(s) - 1) /\ (n - 1) + 1 = n
    BY <1>0, <1>2, <1>3
  <1>5. Hashes(s)[n - 1] = Hashes(t)[n - 1]
    BY <1>4
  <1>6. s[n] = t[n]
    BY <1>0, <1>3, <1>4 DEF Agree
  <1>7. /\ Hashes(s)[n] = Round(Hashes(s)[n - 1], s[n])
        /\ Hashes(t)[n] = Round(Hashes(t)[n - 1], t[n])
    BY <1>4, HashFacts
  <1> QED
    BY <1>2, <1>5, <1>6, <1>7

\* And from different hashes to different ones.
LEMMA SameSuffix ==
  ASSUME NEW s \in Strings, NEW t \in Strings, Len(s) = Len(t),
         NEW k \in 0 .. Len(s), Agree(s, t, k, Len(s)),
         Hashes(s)[Len(s)] = Hashes(t)[Len(s)]
  PROVE  Hashes(s)[k] = Hashes(t)[k]
  <1> DEFINE bad == {n \in 0 .. (Len(s) - k) :
                       Hashes(s)[Len(s) - n] # Hashes(t)[Len(s) - n]}
  <1>0. Len(s) \in Nat /\ k \in Nat /\ k <= Len(s)
    BY HashFacts
  <1>1. SUFFICES ASSUME bad # {} PROVE FALSE
    <2>1. Len(s) - k \in 0 .. (Len(s) - k) /\ Len(s) - (Len(s) - k) = k
      BY <1>0
    <2> QED
      BY <2>1
  <1>2. PICK n \in bad : \A m \in bad : n <= m
    <2>1. bad \in SUBSET Nat
      BY <1>0
    <2> HIDE DEF bad
    <2> QED
      BY <1>1, <2>1, LeastOf
  <1>3. n # 0
    BY <1>0
  <1> DEFINE l == Len(s) - n
  <1>4. /\ n \in 0 .. (Len(s) - k) /\ n - 1 \in 0 .. (Len(s) - k)
        /\ n - 1 \notin bad /\ Len(s) - (n - 1) = l + 1
        /\ l \in 0 .. (Len(s) - 1) /\ l + 1 \in (k + 1) .. Len(s)
        /\ l + 1 \in 1 .. Len(s) /\ l \in 0 .. Len(s)
    <2>1. n \in Nat /\ n <= Len(s) - k
      BY <1>0, <1>2
    <2>2. n - 1 \notin bad
      <3>1. ~(n <= n - 1)
        BY <2>1
      <3> QED
        BY <1>2, <3>1
    <2> HIDE DEF bad
    <2> QED
      BY <1>0, <1>3, <2>1, <2>2
  <1>5. Hashes(s)[l + 1] = Hashes(t)[l + 1]
    BY <1>4
  <1>6. s[l + 1] = t[l + 1]
    BY <1>4 DEF Agree
  <1>7. /\ Hashes(s)[l + 1] = Round(Hashes(s)[l], s[l + 1])
        /\ Hashes(t)[l + 1] = Round(Hashes(t)[l], t[l + 1])
    BY <1>4, HashFacts
  <1>8. s[l + 1] \in 0 .. 255
    <2>1. s \in Seq(0 .. 255)
      BY FnvAssumption
    <2> QED
      BY <1>4, <2>1, ElementInRange
  <1>9. Hashes(s)[l] \in Words /\ Hashes(t)[l] \in Words
    BY <1>4, HashType
  <1>10. Hashes(s)[l] # Hashes(t)[l]
    BY <1>2
  <1> HIDE DEF l, bad
  <1>11. Round(Hashes(s)[l], s[l + 1]) = Round(Hashes(t)[l], s[l + 1])
    BY <1>5, <1>6, <1>7
  <1> QED
    BY <1>8, <1>9, <1>10, <1>11, RoundDeterminesHash

LEMMA SameBytes ==
  ASSUME NEW s \in Strings, NEW t \in Strings, Len(s) = Len(t),
         \A j \in 1 .. Len(s) : s[j] = t[j]
  PROVE  s = t
  <1>1. s \in Seq(0 .. 255) /\ t \in Seq(0 .. 255)
    BY FnvAssumption
  <1> QED
    BY <1>1

LEMMA ByteType ==
  ASSUME NEW s \in Strings, NEW n \in 1 .. Len(s)
  PROVE  s[n] \in 0 .. 255 /\ (Plain(s) => PlainByte(s[n]))
  <1>1. s \in Seq(0 .. 255)
    BY FnvAssumption
  <1>2. s[n] \in 0 .. 255
    BY <1>1, ElementInRange
  <1>3. SignedChar /\ Plain(s) => s[n] < 128
    BY DEF Plain, Ascii
  <1>4. ~(s[n] < 128 /\ s[n] >= 128)
    <2>1. s[n] \in Nat
      BY <1>2, ByteIsLimb
    <2> QED
      BY ONLY <2>1
  <1> QED
    BY <1>2, <1>3, <1>4 DEF PlainByte

\* Names that differ within one byte.
LEMMA OneByte ==
  ASSUME NEW s \in Strings, NEW t \in Strings, DifferWithin(s, t, 1),
         Hashes(s)[Len(s)] = Hashes(t)[Len(t)]
  PROVE  s = t
  <1>1. Len(s) = Len(t) /\ Len(s) \in Nat
    BY HashFacts DEF DifferWithin
  <1>2. PICK k \in 0 .. Len(s) :
          \A j \in 1 .. Len(s) : s[j] # t[j] => k < j /\ j <= k + 1
    BY DEF DifferWithin
  <1>3. CASE k = Len(s)
    <2>1. \A j \in 1 .. Len(s) : s[j] = t[j]
      BY <1>1, <1>2, <1>3
    <2> QED
      BY <1>1, <2>1, SameBytes
  <1>4. CASE k < Len(s)
    <2>1. /\ k + 1 \in 0 .. Len(s) /\ k + 1 \in 1 .. Len(s)
          /\ k \in 0 .. (Len(s) - 1)
      BY <1>1, <1>4
    <2>2. Agree(s, t, 0, k) /\ Agree(s, t, k + 1, Len(s))
      BY <1>1, <1>2 DEF Agree
    <2>3. Hashes(s)[k] = Hashes(t)[k]
      BY <1>1, <2>2, SamePrefix
    <2>4. Hashes(s)[k + 1] = Hashes(t)[k + 1]
      BY <1>1, <2>1, <2>2, SameSuffix
    <2>5. /\ Hashes(s)[k + 1] = Round(Hashes(s)[k], s[k + 1])
          /\ Hashes(t)[k + 1] = Round(Hashes(t)[k], t[k + 1])
      BY <1>1, <2>1, HashFacts
    <2>6. s[k + 1] = t[k + 1]
      <3>1. s[k + 1] \in 0 .. 255 /\ t[k + 1] \in 0 .. 255
        BY <1>1, <2>1, ByteType
      <3>2. Hashes(s)[k] \in Words
        BY HashType
      <3>3. Round(Hashes(s)[k], s[k + 1]) = Round(Hashes(s)[k], t[k + 1])
        BY <2>3, <2>4, <2>5
      <3> QED
        BY <3>1, <3>2, <3>3, RoundDeterminesByte, Zenon
    <2>7. \A j \in 1 .. Len(s) : s[j] = t[j]
      <3>1. \A j \in 1 .. Len(s) : k < j /\ j <= k + 1 => j = k + 1
        BY <1>1
      <3> QED
        BY <1>2, <2>6, <3>1
    <2> QED
      BY <1>1, <2>7, SameBytes
  <1> QED
    BY <1>1, <1>3, <1>4

\* Names without negative bytes that differ within three bytes.
LEMMA ThreeBytes ==
  ASSUME NEW s \in Strings, NEW t \in Strings, DifferWithin(s, t, 3),
         Plain(s), Plain(t), Hashes(s)[Len(s)] = Hashes(t)[Len(t)]
  PROVE  s = t
  <1>1. Len(s) = Len(t) /\ Len(s) \in Nat
    BY HashFacts DEF DifferWithin
  <1>2. PICK k \in 0 .. Len(s) :
          \A j \in 1 .. Len(s) : s[j] # t[j] => k < j /\ j <= k + 3
    BY DEF DifferWithin
  <1> DEFINE h == Hashes(s)[k]
  <1>3. h \in Words /\ h = Hashes(t)[k]
    <2>1. Agree(s, t, 0, k)
      BY <1>1, <1>2 DEF Agree
    <2> QED
      BY <1>1, <2>1, SamePrefix, HashType
  <1>4. ASSUME NEW n \in 0 .. Len(s), n >= k + 3 \/ n = Len(s)
        PROVE  Hashes(s)[n] = Hashes(t)[n]
    <2>1. Agree(s, t, n, Len(s))
      BY <1>1, <1>2, <1>4 DEF Agree
    <2> QED
      BY <1>1, <2>1, SameSuffix
  <1>5. ASSUME NEW n \in 1 .. Len(s)
        PROVE  /\ PlainByte(s[n]) /\ PlainByte(t[n])
               /\ Hashes(s)[n] = Round(Hashes(s)[n - 1], s[n])
               /\ Hashes(t)[n] = Round(Hashes(t)[n - 1], t[n])
    <2>1. n - 1 \in 0 .. (Len(s) - 1) /\ (n - 1) + 1 = n
      BY <1>1
    <2>2. Hashes(s)[n] = Round(Hashes(s)[n - 1], s[n])
      BY <2>1, HashFacts
    <2>3. Hashes(t)[n] = Round(Hashes(t)[n - 1], t[n])
      BY <1>1, <2>1, HashFacts
    <2> QED
      BY <1>1, <2>2, <2>3, ByteType
  <1>6. ASSUME NEW n \in 1 .. Len(s), n # k + 1, n # k + 2, n # k + 3
        PROVE  s[n] = t[n]
    <2>1. ~(k < n /\ n <= k + 3)
      BY <1>1, <1>6
    <2> QED
      BY <1>2, <2>1
  <1>7. CASE Len(s) = k
    <2>1. \A j \in 1 .. Len(s) : s[j] = t[j]
      BY <1>1, <1>6, <1>7
    <2> QED
      BY <1>1, <2>1, SameBytes
  <1>8. CASE Len(s) = k + 1
    <2>1. DifferWithin(s, t, 1)
      <3>1. \A j \in 1 .. Len(s) : s[j] # t[j] => k < j /\ j <= k + 1
        BY <1>1, <1>2, <1>8
      <3> QED
        BY <1>1, <3>1 DEF DifferWithin
    <2> QED
      BY <2>1, OneByte
  <1>9. CASE Len(s) = k + 2
    <2>1. k + 1 \in 1 .. Len(s) /\ k + 2 \in 1 .. Len(s)
          /\ (k + 1) - 1 = k /\ (k + 2) - 1 = k + 1
      BY <1>1, <1>9
    <2>2. /\ Hashes(s)[k + 2] = Round(Round(h, s[k + 1]), s[k + 2])
          /\ Hashes(t)[k + 2] = Round(Round(h, t[k + 1]), t[k + 2])
      BY <1>3, <1>5, <2>1
    <2>3. Hashes(s)[k + 2] = Hashes(t)[k + 2]
      BY <1>1, <1>9
    <2>4. /\ PlainByte(s[k + 1]) /\ PlainByte(t[k + 1])
          /\ PlainByte(s[k + 2]) /\ PlainByte(t[k + 2])
      BY <1>5, <2>1
    <2> HIDE DEF h
    <2>5. Round(Round(h, s[k + 1]), s[k + 2]) = Round(Round(h, t[k + 1]), t[k + 2])
      BY <2>2, <2>3
    <2>6. s[k + 1] = t[k + 1] /\ s[k + 2] = t[k + 2]
      BY ONLY <1>3, <2>4, <2>5, TwoRounds
    <2>7. \A j \in 1 .. Len(s) : s[j] = t[j]
      BY <1>1, <1>6, <1>9, <2>6
    <2> QED
      BY <1>1, <2>7, SameBytes
  <1>10. CASE Len(s) >= k + 3
    <2>1. k + 1 \in 1 .. Len(s) /\ k + 2 \in 1 .. Len(s) /\ k + 3 \in 1 .. Len(s)
          /\ (k + 1) - 1 = k /\ (k + 2) - 1 = k + 1 /\ (k + 3) - 1 = k + 2
          /\ k + 3 \in 0 .. Len(s)
      BY <1>1, <1>10
    <2>2. /\ Hashes(s)[k + 3] = Round(Round(Round(h, s[k + 1]), s[k + 2]), s[k + 3])
          /\ Hashes(t)[k + 3] = Round(Round(Round(h, t[k + 1]), t[k + 2]), t[k + 3])
      BY <1>3, <1>5, <2>1
    <2>3. Hashes(s)[k + 3] = Hashes(t)[k + 3]
      BY <1>1, <1>4, <2>1
    <2>4. /\ PlainByte(s[k + 1]) /\ PlainByte(t[k + 1])
          /\ PlainByte(s[k + 2]) /\ PlainByte(t[k + 2])
          /\ PlainByte(s[k + 3]) /\ PlainByte(t[k + 3])
      BY <1>5, <2>1
    <2> HIDE DEF h
    <2>5. Round(Round(Round(h, s[k + 1]), s[k + 2]), s[k + 3])
            = Round(Round(Round(h, t[k + 1]), t[k + 2]), t[k + 3])
      BY <2>2, <2>3
    <2>6. s[k + 1] = t[k + 1] /\ s[k + 2] = t[k + 2] /\ s[k + 3] = t[k + 3]
      BY ONLY <1>3, <2>4, <2>5, ThreeRounds
    <2>7. \A j \in 1 .. Len(s) : s[j] = t[j]
      BY <1>6, <2>6
    <2> QED
      BY <1>1, <2>7, SameBytes
  <1>11. Len(s) = k \/ Len(s) = k + 1 \/ Len(s) = k + 2 \/ Len(s) >= k + 3
    BY <1>1
  <1> QED
    BY <1>7, <1>8, <1>9, <1>10, <1>11

\* So far the loop has the hash of the bytes it has consumed.
HashInv == str \in Strings /\ i \in 0 .. Len(str) /\ hash = Hashes(str)[i]

LEMMA HashStep == HashInv /\ [HashByte]_vars => HashInv'
  <1> SUFFICES ASSUME HashInv, [HashByte]_vars PROVE HashInv'
    OBVIOUS
  <1>1. CASE UNCHANGED vars
    BY <1>1 DEF HashInv, vars
  <1>2. CASE HashByte
    <2>1. /\ str' = str /\ i' = i + 1 /\ i \in 0 .. (Len(str) - 1)
          /\ i + 1 \in 0 .. Len(str)
      BY <1>2, HashFacts DEF HashByte, HasNext, HashInv
    <2>2. hash' = Hashes(str)[i + 1]
      BY <1>2, <2>1, HashFacts DEF HashByte, HashInv
    <2> QED
      BY <2>1, <2>2 DEF HashInv
  <1> QED
    BY <1>1, <1>2

\* Fnv64a gives names of any length different hashes that differ in one byte,
\* or within three consecutive bytes none of which is negative as a char, such
\* as those of devices numbered with up to three digits (fnv.cpp, line 9;
\* DataStorage.cpp, line 23, compares hashes and never names).
THEOREM CloseNamesDiffer == Spec => []NoCloseCollision
  <1>1. Init => HashInv
    BY HashFacts DEF Init, HashInv
  <1>2. HashInv => NoCloseCollision
    <2> SUFFICES ASSUME HashInv, Returned, NEW other \in Strings \ {str},
                        Close(str, other), Fnv64a[other] = hash
                 PROVE  FALSE
      BY DEF NoCloseCollision
    <2>1. hash = Hashes(str)[Len(str)] /\ str \in Strings
      BY HashFacts DEF HashInv, Returned, HasNext
    <2>2. Hashes(str)[Len(str)] = Hashes(other)[Len(other)]
      BY <2>1, HashFacts
    <2>3. str = other
      BY <2>1, <2>2, OneByte, ThreeBytes DEF Close
    <2> QED
      BY <2>3
  <1> QED
    BY <1>1, <1>2, HashStep, PTL DEF Spec
=============================================================================
