----------------------------- MODULE DataLemmas -----------------------------
(***************************************************************************)
(* Facts about sequences and sums that the proofs about several components *)
(* share.  Backend and Logger keep their messages in three parts, those    *)
(* done, the one in hand and those queued, and move them from part to      *)
(* part.  DataStorage and EndToEnd compare a count with the sum of the     *)
(* counts of all devices or all scripts.                                   *)
(***************************************************************************)
EXTENDS Integers, Sequences, FiniteSets, Functions, SequenceTheorems,
        FunctionTheorems, FiniteSetTheorems, TLAPS

-----------------------------------------------------------------------------
\* Appending x to a sequence adds x to its range.
LEMMA RangeOfAppend ==
  ASSUME NEW S, NEW s \in Seq(S), NEW x \in S
  PROVE  Range(Append(s, x)) = Range(s) \cup {x}
  <1>1. /\ Len(Append(s, x)) = Len(s) + 1
        /\ \A i \in 1 .. Len(s) : Append(s, x)[i] = s[i]
        /\ Append(s, x)[Len(s) + 1] = x
    BY AppendProperties
  <1>2. /\ DOMAIN s = 1 .. Len(s)
        /\ DOMAIN Append(s, x) = 1 .. Len(s) + 1
        /\ Len(s) \in Nat
    BY <1>1, AppendProperties, LenProperties
  <1> QED
    BY <1>1, <1>2 DEF Range

\* Pushing at the end of the queue appends to the accepted messages.
LEMMA ConcatAppend ==
  ASSUME NEW S, NEW s \in Seq(S), NEW t \in Seq(S), NEW u \in Seq(S),
         NEW x \in S
  PROVE  s \o t \o Append(u, x) = Append(s \o t \o u, x)
  <1>1. s \o t \in Seq(S)
    BY ConcatProperties
  <1> DEFINE st == s \o t
  <1> HIDE DEF st
  <1>2. st \o Append(u, x) = Append(st \o u, x)
    BY <1>1 DEF st
  <1> QED
    BY <1>2 DEF st

\* Taking the head of the queue in hand leaves the accepted messages as they
\* are.
LEMMA ConcatHeadTail ==
  ASSUME NEW S, NEW s \in Seq(S), NEW u \in Seq(S), u # <<>>
  PROVE  s \o <<Head(u)>> \o Tail(u) = s \o <<>> \o u
  OBVIOUS

\* Storing the message in hand leaves the accepted messages as they are.
LEMMA ConcatStore ==
  ASSUME NEW S, NEW s \in Seq(S), NEW u \in Seq(S), NEW x \in S
  PROVE  Append(s, x) \o <<>> \o u = s \o <<x>> \o u
  OBVIOUS

\* The message in hand is the oldest accepted message not stored yet.
LEMMA ConcatNext ==
  ASSUME NEW S, NEW s \in Seq(S), NEW u \in Seq(S), NEW x \in S
  PROVE  /\ Len(s) < Len(s \o <<x>> \o u)
         /\ (s \o <<x>> \o u)[Len(s) + 1] = x
  <1> DEFINE sx == s \o <<x>>
  <1>1. sx = Append(s, x) /\ sx \in Seq(S)
    BY AppendIsConcat, AppendProperties
  <1>2. Len(sx) = Len(s) + 1 /\ sx[Len(s) + 1] = x /\ Len(s) \in Nat
    BY <1>1, AppendProperties, LenProperties
  <1> HIDE DEF sx
  <1>3. /\ Len(sx \o u) = Len(sx) + Len(u) /\ Len(u) \in Nat
        /\ (sx \o u)[Len(s) + 1] = sx[Len(s) + 1]
    BY <1>1, <1>2, ConcatProperties, LenProperties
  <1> QED
    BY <1>2, <1>3 DEF sx

\* The tail of a sequence that is not empty.
LEMMA TailFacts ==
  ASSUME NEW S, NEW s \in Seq(S), s # <<>>, NEW t, t = Tail(s)
  PROVE  /\ Len(s) \in Nat /\ Len(s) > 0
         /\ t \in Seq(S) /\ Len(t) = Len(s) - 1
         /\ \A i \in 1 .. Len(s) - 1 : t[i] = s[i + 1]
         /\ t = <<>> <=> Len(s) = 1
  <1>1. Len(s) \in Nat \ {0}
    BY ONLY s \in Seq(S), s # <<>>, EmptySeq
  <1>2. /\ Tail(s) \in Seq(S) /\ Len(Tail(s)) = Len(s) - 1
        /\ \A i \in 1 .. Len(Tail(s)) : Tail(s)[i] = s[i + 1]
    BY ONLY s \in Seq(S), s # <<>>, HeadTailProperties
  <1>3. /\ t \in Seq(S) /\ Len(t) = Len(s) - 1
        /\ \A i \in 1 .. Len(s) - 1 : t[i] = s[i + 1]
    BY <1>2
  <1>4. /\ t # <<>> => Len(t) \in Nat \ {0}
        /\ Len(<<>>) = 0
    BY ONLY <1>3, EmptySeq
  <1>5. t = <<>> => Len(t) = 0
    BY ONLY <1>4
  <1> QED
    BY ONLY <1>1, <1>3, <1>4, <1>5

\* Appending a new element to a sequence without repetitions.
LEMMA InjectiveAppend ==
  ASSUME NEW S, NEW s \in Seq(S), NEW x \in S,
         IsInjective(s), x \notin Range(s)
  PROVE  IsInjective(Append(s, x))
  <1>1. /\ Len(Append(s, x)) = Len(s) + 1
        /\ \A i \in 1 .. Len(s) : Append(s, x)[i] = s[i]
        /\ Append(s, x)[Len(s) + 1] = x
    BY AppendProperties
  <1>2. /\ DOMAIN s = 1 .. Len(s)
        /\ DOMAIN Append(s, x) = 1 .. Len(s) + 1
        /\ Len(s) \in Nat
    BY <1>1, AppendProperties, LenProperties
  <1>3. \A i \in 1 .. Len(s) : s[i] # x
    BY <1>2 DEF Range
  <1>4. \A i, j \in 1 .. Len(s) : s[i] = s[j] => i = j
    BY <1>2 DEF IsInjective
  <1> DEFINE a == Append(s, x)
             n == Len(s)
  <1> HIDE DEF a, n
  <1>5. /\ n \in Nat /\ DOMAIN a = 1 .. n + 1 /\ a[n + 1] = x
        /\ \A i \in 1 .. n : a[i] = s[i] /\ s[i] # x
        /\ \A i, j \in 1 .. n : s[i] = s[j] => i = j
    BY <1>1, <1>2, <1>3, <1>4 DEF a, n
  <1>6. \A i, j \in 1 .. n + 1 : a[i] = a[j] => i = j
    <2> TAKE i, j \in 1 .. n + 1
    <2> HAVE a[i] = a[j]
    <2>1. CASE i = n + 1 \/ j = n + 1
      BY <1>5, <2>1
    <2>2. CASE i \in 1 .. n /\ j \in 1 .. n
      BY <1>5, <2>2
    <2> QED
      BY <1>5, <2>1, <2>2
  <1> QED
    BY <1>5, <1>6 DEF IsInjective, a

\* Cutting a sequence short leaves its elements without new ones.
LEMMA PrefixFacts ==
  ASSUME NEW S, NEW s \in Seq(S), NEW t \in Seq(S)
  PROVE  /\ Range(s) \subseteq Range(s \o t)
         /\ IsInjective(s \o t) => IsInjective(s)
  <1> DEFINE st == s \o t
  <1>1. /\ st \in Seq(S) /\ Len(st) = Len(s) + Len(t)
        /\ \A i \in 1 .. Len(s) + Len(t) :
             st[i] = IF i <= Len(s) THEN s[i] ELSE t[i - Len(s)]
    BY ConcatProperties
  <1>2. /\ DOMAIN s = 1 .. Len(s) /\ DOMAIN st = 1 .. Len(st)
        /\ Len(s) \in Nat /\ Len(t) \in Nat
    BY <1>1, LenProperties
  <1> HIDE DEF st
  <1>3. \A i \in DOMAIN s : i \in DOMAIN st /\ st[i] = s[i]
    BY <1>1, <1>2
  <1>4. Range(s) \subseteq Range(st)
    BY <1>3 DEF Range
  <1>5. IsInjective(st) => IsInjective(s)
    BY <1>3 DEF IsInjective
  <1> QED
    BY <1>4, <1>5 DEF st

-----------------------------------------------------------------------------
\* Where the elements of a sequence are in S, to count them.
Positions(s, S) == {i \in DOMAIN s : s[i] \in S}

LEMMA PositionsFinite ==
  ASSUME NEW T, NEW s \in Seq(T), NEW S
  PROVE  /\ IsFiniteSet(Positions(s, S))
         /\ Cardinality(Positions(s, S)) \in Nat
  <1>1. DOMAIN s = 1 .. Len(s) /\ Len(s) \in Nat
    BY LenProperties
  <1>2. IsFiniteSet(1 .. Len(s))
    BY <1>1, FS_Interval
  <1>3. Positions(s, S) \in SUBSET (1 .. Len(s))
    BY <1>1 DEF Positions
  <1>4. IsFiniteSet(Positions(s, S))
    BY <1>2, <1>3, FS_Subset
  <1> QED
    BY <1>4, FS_CardinalityType

\* Appending an element adds one position if it is in S.
LEMMA PositionsAppend ==
  ASSUME NEW T, NEW s \in Seq(T), NEW x \in T, NEW S
  PROVE  Cardinality(Positions(Append(s, x), S))
           = Cardinality(Positions(s, S)) + IF x \in S THEN 1 ELSE 0
  <1> DEFINE n == Len(s) + 1
             P == Positions(s, S)
             Q == Positions(Append(s, x), S)
  <1>1. /\ Len(Append(s, x)) = n
        /\ \A i \in 1 .. Len(s) : Append(s, x)[i] = s[i]
        /\ Append(s, x)[n] = x
    BY AppendProperties
  <1>2. /\ DOMAIN s = 1 .. Len(s) /\ Len(s) \in Nat
        /\ DOMAIN Append(s, x) = 1 .. n
    BY <1>1, AppendProperties, LenProperties
  <1>3. Q = IF x \in S THEN P \cup {n} ELSE P
    BY <1>1, <1>2 DEF Positions
  <1>4. n \notin P
    BY <1>2 DEF Positions
  <1>5. IsFiniteSet(P) /\ Cardinality(P) \in Nat
    BY PositionsFinite
  <1> HIDE DEF P, Q, n
  <1>6. Cardinality(P \cup {n}) = Cardinality(P) + 1
    BY <1>4, <1>5, FS_AddElement
  <1>7. Cardinality(Q) = Cardinality(P) + IF x \in S THEN 1 ELSE 0
    BY <1>3, <1>5, <1>6
  <1> QED
    BY <1>7 DEF P, Q

\* Taking the head away takes one position away if it is in S.
LEMMA PositionsTail ==
  ASSUME NEW T, NEW s \in Seq(T), s # <<>>, NEW S
  PROVE  Cardinality(Positions(s, S))
           = Cardinality(Positions(Tail(s), S))
               + IF Head(s) \in S THEN 1 ELSE 0
  <1> DEFINE P == Positions(s, S)
             Q == Positions(Tail(s), S)
             shift == [i \in Q |-> i + 1]
  <1>1. /\ Len(s) \in Nat /\ Len(s) > 0
        /\ Tail(s) \in Seq(T) /\ Len(Tail(s)) = Len(s) - 1
        /\ \A i \in 1 .. Len(s) - 1 : Tail(s)[i] = s[i + 1]
        /\ Head(s) = s[1]
    BY TailFacts, HeadTailProperties
  <1>2. /\ DOMAIN s = 1 .. Len(s)
        /\ DOMAIN Tail(s) = 1 .. Len(s) - 1
    BY <1>1, LenProperties
  <1>3. P \ {1} = {i + 1 : i \in Q}
    <2>1. \A j \in P \ {1} : j - 1 \in Q /\ j = (j - 1) + 1
      BY <1>1, <1>2 DEF Positions
    <2>2. \A i \in Q : i + 1 \in P \ {1}
      BY <1>1, <1>2 DEF Positions
    <2> HIDE DEF P, Q
    <2> QED
      BY <2>1, <2>2
  <1>4. Q \subseteq Nat
    BY <1>1, <1>2 DEF Positions
  <1>5. IsFiniteSet(P) /\ Cardinality(P) \in Nat /\ IsFiniteSet(Q)
    BY <1>1, PositionsFinite
  <1>6. 1 \in P <=> Head(s) \in S
    BY <1>1, <1>2 DEF Positions
  <1> HIDE DEF P, Q
  <1>7. shift \in Bijection(Q, P \ {1})
    <2>1. shift \in [Q -> P \ {1}]
      BY <1>3
    <2>2. \A i, j \in Q : shift[i] = shift[j] => i = j
      BY <1>4
    <2>3. \A k \in P \ {1} : \E i \in Q : shift[i] = k
      BY <1>3
    <2> HIDE DEF shift
    <2> QED
      BY <2>1, <2>2, <2>3, Fun_IsBij
  <1>8. Cardinality(P \ {1}) = Cardinality(Q)
    BY <1>5, <1>7, FS_Bijection DEF ExistsBijection
  <1>9. Cardinality(P \ {1})
          = IF 1 \in P THEN Cardinality(P) - 1 ELSE Cardinality(P)
    BY <1>5, FS_RemoveElement
  <1>10. Cardinality(P) = Cardinality(Q) + IF Head(s) \in S THEN 1 ELSE 0
    BY <1>5, <1>6, <1>8, <1>9
  <1> QED
    BY <1>10 DEF P, Q

-----------------------------------------------------------------------------
\* Induction over the subsets of a finite set: good is the set of the subsets
\* that have the property.
LEMMA SubsetInduction ==
  ASSUME NEW S, IsFiniteSet(S), NEW good,
         \A T \in SUBSET S : (\A x \in T : T \ {x} \in good) => T \in good
  PROVE  \A T \in SUBSET S : T \in good
  <1> DEFINE bad == {T \in SUBSET S : T \notin good}
             less == StrictSubsetOrdering(S)
  <1>1. IsWellFoundedOn(less, SUBSET S)
    BY FS_StrictSubsetOrderingWellFounded, FS_FiniteSubsetsOfFinite
  <1>2. SUFFICES ASSUME bad # {} PROVE FALSE
    OBVIOUS
  <1>3. bad \subseteq SUBSET S
    OBVIOUS
  <1>4. PICK T \in bad : \A U \in bad : <<U, T>> \notin less
    <2> HIDE DEF bad, less
    <2> QED
      BY <1>1, <1>2, <1>3, WFMin
  <1>5. ASSUME NEW x \in T
        PROVE  T \ {x} \in good
    <2>1. T \ {x} \in SUBSET S /\ T \in SUBSET S
      BY <1>4
    <2>2. <<T \ {x}, T>> \in less
      BY <2>1 DEF StrictSubsetOrdering
    <2> QED
      BY <1>4, <2>1, <2>2
  <1> QED
    BY <1>4, <1>5

\* As many pairs for each x in S as f[x] says: what a sum over S counts.
Tokens(f, S) == UNION {{x} \X (1 .. f[x]) : x \in S}

\* The size of a union of disjoint sets.
LEMMA DisjointUnion ==
  ASSUME NEW A, NEW B, IsFiniteSet(A), IsFiniteSet(B), A \cap B = {}
  PROVE  /\ IsFiniteSet(A \cup B)
         /\ Cardinality(A \cup B) = Cardinality(A) + Cardinality(B)
  <1>1. /\ IsFiniteSet(A \cup B)
        /\ Cardinality(A \cup B)
             = Cardinality(A) + Cardinality(B) - Cardinality(A \cap B)
    BY FS_Union
  <1>2. Cardinality(A \cap B) = 0
    BY FS_EmptySet
  <1>3. Cardinality(A) \in Nat /\ Cardinality(B) \in Nat
    BY FS_CardinalityType
  <1> QED
    BY ONLY <1>1, <1>2, <1>3

\* The tokens of a finite set, and those of one of its elements.
LEMMA TokensFacts ==
  ASSUME NEW S, IsFiniteSet(S), NEW f \in [S -> Nat]
  PROVE  \A T \in SUBSET S :
           /\ IsFiniteSet(Tokens(f, T))
           /\ \A x \in T : Cardinality(Tokens(f, T))
                             = f[x] + Cardinality(Tokens(f, T \ {x}))
  <1> DEFINE good == {T \in SUBSET S : IsFiniteSet(Tokens(f, T))}
  <1>1. ASSUME NEW T \in SUBSET S, NEW x \in T
        PROVE  /\ Tokens(f, T) = Tokens(f, T \ {x}) \cup ({x} \X (1 .. f[x]))
               /\ Tokens(f, T \ {x}) \cap ({x} \X (1 .. f[x])) = {}
    BY DEF Tokens
  <1>2. ASSUME NEW x \in S
        PROVE  /\ IsFiniteSet({x} \X (1 .. f[x]))
               /\ Cardinality({x} \X (1 .. f[x])) = f[x]
    <2>1. f[x] \in Nat
      OBVIOUS
    <2>2. IsFiniteSet(1 .. f[x]) /\ Cardinality(1 .. f[x]) = f[x]
      BY <2>1, FS_Interval
    <2>3. IsFiniteSet({x}) /\ Cardinality({x}) = 1
      BY FS_Singleton
    <2> QED
      BY <2>1, <2>2, <2>3, FS_Product
  <1>3. ASSUME NEW T \in SUBSET S, \A x \in T : T \ {x} \in good
        PROVE  T \in good
    <2>1. CASE T = {}
      BY <2>1, FS_EmptySet DEF Tokens
    <2>2. ASSUME NEW x \in T
          PROVE  IsFiniteSet(Tokens(f, T))
      <3> DEFINE A == Tokens(f, T \ {x})
                 B == {x} \X (1 .. f[x])
      <3>1. IsFiniteSet(A) /\ IsFiniteSet(B)
        BY <1>2, <1>3
      <3>2. Tokens(f, T) = A \cup B /\ A \cap B = {}
        BY <1>1
      <3> HIDE DEF A, B
      <3> QED
        BY <3>1, <3>2, DisjointUnion
    <2> QED
      BY <2>1, <2>2
  <1>4. \A T \in SUBSET S : T \in good
    <2> HIDE DEF good
    <2> QED
      BY <1>3, SubsetInduction
  <1>6. ASSUME NEW T \in SUBSET S, NEW x \in T
        PROVE  Cardinality(Tokens(f, T))
                 = f[x] + Cardinality(Tokens(f, T \ {x}))
    <2> DEFINE A == Tokens(f, T \ {x})
               B == {x} \X (1 .. f[x])
    <2>1. IsFiniteSet(A) /\ Cardinality(A) \in Nat
      BY <1>4, FS_CardinalityType
    <2>2. IsFiniteSet(B) /\ Cardinality(B) = f[x] /\ f[x] \in Nat
      BY <1>2
    <2>3. Tokens(f, T) = A \cup B /\ A \cap B = {}
      BY <1>1
    <2> HIDE DEF A, B
    <2>4. Cardinality(A \cup B) = Cardinality(A) + Cardinality(B)
      BY <2>1, <2>2, <2>3, DisjointUnion
    <2> QED
      BY <2>1, <2>2, <2>3, <2>4 DEF A
  <1> QED
    BY <1>4, <1>6

\* A sum over a finite set counts its tokens, in whatever order it is taken.
LEMMA SumCountsTokens ==
  ASSUME NEW S, IsFiniteSet(S), NEW f \in [S -> Nat]
  PROVE  SumFunctionOnSet(f, S) = Cardinality(Tokens(f, S))
  <1> DEFINE pick(T) == CHOOSE x \in T : TRUE
             IsSum(it) ==
               it = [T \in SUBSET S |->
                       IF T = {} THEN 0
                       ELSE f[pick(T)] + it[T \ {pick(T)}]]
             count == [T \in SUBSET S |-> Cardinality(Tokens(f, T))]
             sum == CHOOSE it : IsSum(it)
  <1>1. SumFunctionOnSet(f, S) = sum[S]
    BY DEF SumFunctionOnSet, FoldFunctionOnSet, MapThenFoldSet
  <1>2. \A T \in SUBSET S : T # {} => pick(T) \in T
    OBVIOUS
  <1> HIDE DEF pick
  <1>3. \A T \in SUBSET S :
          count[T] = IF T = {} THEN 0 ELSE f[pick(T)] + count[T \ {pick(T)}]
    <2> TAKE T \in SUBSET S
    <2>1. CASE T = {}
      BY <2>1, FS_EmptySet DEF Tokens
    <2>2. CASE T # {}
      BY <1>2, <2>2, TokensFacts
    <2> QED
      BY <2>1, <2>2
  <1>4. count = [T \in SUBSET S |->
                   IF T = {} THEN 0 ELSE f[pick(T)] + count[T \ {pick(T)}]]
    <2> DEFINE g(T) == IF T = {} THEN 0 ELSE f[pick(T)] + count[T \ {pick(T)}]
    <2>1. \A T \in SUBSET S : count[T] = g(T)
      BY <1>3
    <2>2. count = [T \in SUBSET S |-> count[T]]
      OBVIOUS
    <2> HIDE DEF count, g
    <2> QED
      BY <2>1, <2>2 DEF g
  <1>5. IsSum(sum)
    <2>1. IsSum(count)
      BY <1>4
    <2> HIDE DEF IsSum, count
    <2> QED
      BY <2>1
  <1> HIDE DEF sum
  <1>6. \A T \in SUBSET S :
          sum[T] = IF T = {} THEN 0 ELSE f[pick(T)] + sum[T \ {pick(T)}]
    BY <1>5
  <1> DEFINE good == {T \in SUBSET S : sum[T] = count[T]}
  <1>7. ASSUME NEW T \in SUBSET S, \A x \in T : T \ {x} \in good
        PROVE  T \in good
    <2>1. CASE T = {}
      BY <1>3, <1>6, <2>1
    <2>2. CASE T # {}
      <3> HIDE DEF count
      <3>1. sum[T \ {pick(T)}] = count[T \ {pick(T)}]
        BY <1>2, <1>7, <2>2
      <3> QED
        BY <1>3, <1>6, <2>2, <3>1
    <2> QED
      BY <2>1, <2>2
  <1>8. S \in good
    <2> HIDE DEF good
    <2> QED
      BY <1>7, SubsetInduction
  <1> QED
    BY <1>1, <1>8

\* A sum of natural numbers is one.
LEMMA SumType ==
  ASSUME NEW S, IsFiniteSet(S), NEW f \in [S -> Nat]
  PROVE  SumFunctionOnSet(f, S) \in Nat
  BY SumCountsTokens, TokensFacts, FS_CardinalityType

\* A sum of zeros is zero.
LEMMA SumOfZeros ==
  ASSUME NEW S, IsFiniteSet(S), NEW f \in [S -> Nat], \A x \in S : f[x] = 0
  PROVE  SumFunctionOnSet(f, S) = 0
  <1>1. Tokens(f, S) = {}
    BY DEF Tokens
  <1> QED
    BY <1>1, SumCountsTokens, FS_EmptySet

\* One summand more by d, the sum more by d.
LEMMA SumPlus ==
  ASSUME NEW S, IsFiniteSet(S), NEW f \in [S -> Nat], NEW g \in [S -> Nat],
         NEW a \in S, \A x \in S \ {a} : g[x] = f[x]
  PROVE  SumFunctionOnSet(g, S) - SumFunctionOnSet(f, S) = g[a] - f[a]
  <1>1. Tokens(g, S \ {a}) = Tokens(f, S \ {a})
    BY DEF Tokens
  <1> DEFINE rest == Cardinality(Tokens(f, S \ {a}))
  <1>2. rest \in Nat
    BY TokensFacts, FS_CardinalityType
  <1>3. /\ Cardinality(Tokens(f, S)) = f[a] + rest
        /\ Cardinality(Tokens(g, S)) = g[a] + rest
    BY <1>1, TokensFacts
  <1> HIDE DEF rest
  <1> QED
    BY <1>2, <1>3, SumCountsTokens
=============================================================================
