------------------------------ MODULE ListProofs ------------------------------
(***************************************************************************)
(* Facts about the operators that the handlers and the generated code are  *)
(* built from: lists, lists of lists, recursion, sums.                     *)
(***************************************************************************)
EXTENDS Integers, SequencesExt, TLAPS, SequenceTheorems, WellFoundedInduction,
        FiniteSetTheorems, FunctionTheorems

\* The least number of a set is in it and below the others.
LEMMA MinOfNats ==
  ASSUME NEW I \in SUBSET Nat, I # {}
  PROVE  Min(I) \in I /\ \A j \in I : Min(I) <= j
<1>. DEFINE R == {p \in Nat \X Nat : p[1] < p[2]}
<1>1. IsWellFoundedOn(R, Nat)
  BY NatLessThanWellFounded, Zenon DEF OpToRel
<1>2. PICK m \in I : \A j \in I : <<j, m>> \notin R
  <2>. HIDE DEF R
  <2>. QED BY <1>1, WFMin
<1>3. ASSUME NEW j \in I PROVE m <= j
  <2>1. m \in Nat /\ j \in Nat
    OBVIOUS
  <2>2. <<j, m>> \notin R
    <3>. HIDE DEF R
    <3>. QED BY <1>2
  <2>. QED BY <2>1, <2>2
<1>. QED BY <1>3 DEF Min

\* Erasing an element of a list.
LEMMA RemoveAtProperties ==
  ASSUME NEW S, NEW s \in Seq(S), NEW i \in 1 .. Len(s)
  PROVE  /\ RemoveAt(s, i) \in Seq(S)
         /\ Len(RemoveAt(s, i)) = Len(s) - 1
         /\ \A k \in 1 .. Len(s) - 1 :
              RemoveAt(s, i)[k] = IF k < i THEN s[k] ELSE s[k + 1]
<1>. DEFINE left == SubSeq(s, 1, i - 1)
            right == SubSeq(s, i + 1, Len(s))
<1>1. Len(s) \in Nat /\ \A k \in 1 .. Len(s) : s[k] \in S
  BY ElementOfSeq, LenProperties
<1>2. /\ left \in Seq(S) /\ Len(left) = i - 1
      /\ \A k \in 1 .. i - 1 : left[k] = s[k]
  <2>1. \A k \in 1 .. i - 1 : s[k] \in S
    BY <1>1
  <2>. QED BY <1>1, <2>1, SubSeqProperties
<1>3. /\ right \in Seq(S) /\ Len(right) = Len(s) - i
      /\ \A k \in 1 .. Len(s) - i : right[k] = s[k + i]
  <2>1. \A k \in i + 1 .. Len(s) : s[k] \in S
    BY <1>1
  <2>. QED BY <1>1, <2>1, SubSeqProperties
<1>. HIDE DEF left, right
<1>4. /\ left \o right \in Seq(S) /\ Len(left \o right) = Len(s) - 1
      /\ \A k \in 1 .. Len(s) - 1 :
           (left \o right)[k] = IF k <= i - 1 THEN left[k] ELSE right[k - (i - 1)]
  <2>1. /\ left \o right \in Seq(S)
        /\ Len(left \o right) = Len(left) + Len(right)
        /\ \A k \in 1 .. Len(left) + Len(right) :
             (left \o right)[k] =
               IF k <= Len(left) THEN left[k] ELSE right[k - Len(left)]
    BY <1>2, <1>3, ConcatProperties
  <2>2. Len(left) = i - 1 /\ Len(left) + Len(right) = Len(s) - 1
    BY <1>1, <1>2, <1>3
  <2>. QED BY <2>1, <2>2
<1>5. ASSUME NEW k \in 1 .. Len(s) - 1
      PROVE  (left \o right)[k] = IF k < i THEN s[k] ELSE s[k + 1]
  <2>1. CASE k < i
    BY <1>1, <1>2, <1>4, <2>1
  <2>2. CASE ~(k < i)
    <3>1. k - (i - 1) \in 1 .. Len(s) - i /\ (k - (i - 1)) + i = k + 1
      BY <1>1, <2>2
    <3>. QED BY <1>1, <1>3, <1>4, <2>2, <3>1
  <2>. QED BY <2>1, <2>2
<1>6. RemoveAt(s, i) = left \o right
  BY Zenon DEF RemoveAt, left, right
<1>. QED BY <1>4, <1>5, <1>6

\* What a list holds after an element was erased or appended.
LEMMA ListMembers ==
  ASSUME NEW S, NEW s \in Seq(S)
  PROVE  /\ \A e \in S : ToSet(Append(s, e)) = ToSet(s) \cup {e}
         /\ \A i \in 1 .. Len(s) :
              /\ s[i] \in ToSet(s)
              /\ ToSet(RemoveAt(s, i)) \subseteq ToSet(s)
              /\ ToSet(s) \subseteq ToSet(RemoveAt(s, i)) \cup {s[i]}
<1>1. Len(s) \in Nat /\ DOMAIN s = 1 .. Len(s)
  BY LenProperties
<1>2. \A t \in Seq(S) : ToSet(t) = {t[k] : k \in 1 .. Len(t)}
  BY LenProperties DEF ToSet
<1>3. ASSUME NEW e \in S PROVE ToSet(Append(s, e)) = ToSet(s) \cup {e}
  <2>1. /\ Append(s, e) \in Seq(S) /\ Len(Append(s, e)) = Len(s) + 1
        /\ \A k \in 1 .. Len(s) : Append(s, e)[k] = s[k]
        /\ Append(s, e)[Len(s) + 1] = e
    BY AppendProperties
  <2>2. ToSet(Append(s, e)) = {Append(s, e)[k] : k \in 1 .. Len(s) + 1}
    BY <1>2, <2>1
  <2>3. 1 .. Len(s) + 1 = (1 .. Len(s)) \cup {Len(s) + 1}
    BY <1>1
  <2>. HIDE DEF ToSet
  <2>. QED BY <1>1, <1>2, <2>1, <2>2, <2>3
<1>4. ASSUME NEW i \in 1 .. Len(s)
      PROVE  /\ s[i] \in ToSet(s)
             /\ ToSet(RemoveAt(s, i)) \subseteq ToSet(s)
             /\ ToSet(s) \subseteq ToSet(RemoveAt(s, i)) \cup {s[i]}
  <2>. DEFINE r == RemoveAt(s, i)
  <2>1. /\ r \in Seq(S) /\ Len(r) = Len(s) - 1
        /\ \A k \in 1 .. Len(s) - 1 : r[k] = IF k < i THEN s[k] ELSE s[k + 1]
    BY RemoveAtProperties
  <2>. HIDE DEF r
  <2>2. ToSet(r) = {r[k] : k \in 1 .. Len(s) - 1}
    BY <1>2, <2>1
  <2>3. ToSet(s) = {s[k] : k \in 1 .. Len(s)}
    BY <1>2
  <2>4. ASSUME NEW k \in 1 .. Len(s) - 1 PROVE r[k] \in ToSet(s)
    BY <1>1, <2>1, <2>3, k \in 1 .. Len(s), k + 1 \in 1 .. Len(s)
  <2>5. ASSUME NEW k \in 1 .. Len(s) PROVE s[k] \in ToSet(r) \cup {s[i]}
    <3>1. CASE k < i
      <4>1. k \in 1 .. Len(s) - 1 /\ r[k] = s[k]
        BY <1>1, <2>1, <3>1
      <4>. QED BY <2>2, <4>1
    <3>2. CASE k > i
      <4>1. k - 1 \in 1 .. Len(s) - 1 /\ r[k - 1] = s[k]
        BY <1>1, <2>1, <3>2
      <4>. QED BY <2>2, <4>1
    <3>. QED BY <1>1, <3>1, <3>2
  <2>. QED BY <2>2, <2>3, <2>4, <2>5 DEF r
<1>. QED BY <1>3, <1>4

\* What two lists hold together.
LEMMA ConcatMembers ==
  ASSUME NEW S, NEW s \in Seq(S), NEW t \in Seq(S)
  PROVE  ToSet(s \o t) = ToSet(s) \cup ToSet(t)
<1>. DEFINE L == Len(s)
            N == Len(t)
<1>1. L \in Nat /\ N \in Nat /\ DOMAIN s = 1 .. L /\ DOMAIN t = 1 .. N
  BY LenProperties
<1>2. /\ DOMAIN (s \o t) = 1 .. L + N
      /\ \A k \in 1 .. L + N : (s \o t)[k] = IF k <= L THEN s[k] ELSE t[k - L]
  BY ConcatProperties, LenProperties
<1>. HIDE DEF L, N
<1>3. \A k \in 1 .. L : k \in 1 .. L + N /\ k <= L
  BY <1>1
<1>4. \A k \in 1 .. N : L + k \in 1 .. L + N /\ ~(L + k <= L) /\ (L + k) - L = k
  BY <1>1
<1>5. \A k \in 1 .. L + N : k \in 1 .. L \/ (~(k <= L) /\ k - L \in 1 .. N)
  BY <1>1
<1>6. ASSUME NEW x \in ToSet(s \o t) PROVE x \in ToSet(s) \cup ToSet(t)
  BY <1>1, <1>2, <1>3, <1>5 DEF ToSet
<1>7. ASSUME NEW x \in ToSet(s) PROVE x \in ToSet(s \o t)
  BY <1>1, <1>2, <1>3 DEF ToSet
<1>8. ASSUME NEW x \in ToSet(t) PROVE x \in ToSet(s \o t)
  <2>1. PICK k \in 1 .. N : x = t[k]
    BY <1>1 DEF ToSet
  <2>2. (s \o t)[L + k] = x
    BY <1>2, <1>4, <2>1
  <2>. QED BY <1>2, <1>4, <2>2 DEF ToSet
<1>. QED BY <1>6, <1>7, <1>8

\* A list is its head and the rest.
LEMMA HeadTailMembers ==
  ASSUME NEW S, NEW s \in Seq(S), s # <<>>
  PROVE  ToSet(s) = {Head(s)} \cup ToSet(Tail(s))
<1>. DEFINE N == Len(s)
<1>1. N \in Nat \ {0} /\ DOMAIN s = 1 .. N
  BY LenProperties, EmptySeq
<1>2. /\ Head(s) = s[1] /\ DOMAIN Tail(s) = 1 .. N - 1
      /\ \A k \in 1 .. N - 1 : Tail(s)[k] = s[k + 1]
  BY HeadTailProperties, LenProperties
<1>. HIDE DEF N
<1>3. ASSUME NEW k \in 1 .. N PROVE k = 1 \/ (k - 1 \in 1 .. N - 1 /\ (k - 1) + 1 = k)
  BY <1>1
<1>4. ASSUME NEW k \in 1 .. N - 1 PROVE k + 1 \in 1 .. N
  BY <1>1
<1>5. ASSUME NEW x \in ToSet(s) PROVE x = Head(s) \/ x \in ToSet(Tail(s))
  <2>1. PICK k \in 1 .. N : x = s[k]
    BY <1>1 DEF ToSet
  <2>2. CASE k = 1
    BY <1>2, <2>1, <2>2
  <2>3. CASE k # 1
    <3>1. x = Tail(s)[k - 1] /\ k - 1 \in DOMAIN Tail(s)
      BY <1>2, <1>3, <2>1, <2>3
    <3>. QED BY <3>1 DEF ToSet
  <2>. QED BY <2>2, <2>3
<1>6. ASSUME NEW x \in ToSet(Tail(s)) PROVE x \in ToSet(s)
  BY <1>1, <1>2, <1>4 DEF ToSet
<1>7. Head(s) \in ToSet(s)
  BY <1>1, <1>2, 1 \in 1 .. N DEF ToSet
<1>. QED BY <1>5, <1>6, <1>7

\* The greater of some numbers.
LEMMA MaxOfThree ==
  ASSUME NEW a \in Nat, NEW b \in Nat, NEW c \in Nat
  PROVE  /\ Max({a, b, c}) \in {a, b, c}
         /\ Max({a, b, c}) >= a /\ Max({a, b, c}) >= b /\ Max({a, b, c}) >= c
<1>1. \E m \in {a, b, c} : \A y \in {a, b, c} : m >= y
  <2>1. CASE a >= b /\ a >= c
    BY <2>1
  <2>2. CASE b >= a /\ b >= c
    BY <2>2
  <2>3. CASE c >= a /\ c >= b
    BY <2>3
  <2>. QED BY <2>1, <2>2, <2>3
<1>. QED BY <1>1 DEF Max

\* Where an element is in a list.
Positions(s, x) == {k \in DOMAIN s : s[k] = x}

\* An element is at finitely many places, none when it is not in the list.
LEMMA PositionsFinite ==
  ASSUME NEW S, NEW s \in Seq(S), NEW x
  PROVE  /\ IsFiniteSet(Positions(s, x))
         /\ Cardinality(Positions(s, x)) \in Nat
         /\ Cardinality(Positions(s, x)) = 0 <=> x \notin ToSet(s)
<1>1. Len(s) \in Nat /\ DOMAIN s = 1 .. Len(s)
  BY LenProperties
<1>2. IsFiniteSet(1 .. Len(s))
  BY <1>1, FS_Interval
<1>3. Positions(s, x) \in SUBSET (1 .. Len(s))
  BY <1>1 DEF Positions
<1>4. IsFiniteSet(Positions(s, x))
  BY <1>2, <1>3, FS_Subset
<1>5. Positions(s, x) = {} <=> x \notin ToSet(s)
  BY DEF Positions, ToSet
<1>. QED BY <1>4, <1>5, FS_EmptySet, FS_CardinalityType

\* Appending an element counts one of it more,
LEMMA AppendCounts ==
  ASSUME NEW S, NEW s \in Seq(S), NEW e \in S, NEW x
  PROVE  Cardinality(Positions(Append(s, e), x)) =
           Cardinality(Positions(s, x)) + (IF e = x THEN 1 ELSE 0)
<1>. DEFINE N == Len(s)
            P == Positions(s, x)
<1>1. N \in Nat /\ DOMAIN s = 1 .. N
  BY LenProperties
<1>2. /\ DOMAIN Append(s, e) = 1 .. N + 1
      /\ \A k \in 1 .. N : Append(s, e)[k] = s[k]
      /\ Append(s, e)[N + 1] = e
  BY AppendProperties, LenProperties
<1>3. IsFiniteSet(P) /\ Cardinality(P) \in Nat /\ N + 1 \notin P
  <2>1. N + 1 \notin P
    BY <1>1 DEF Positions
  <2>. HIDE DEF P, N
  <2>. QED BY <2>1, PositionsFinite DEF P
<1>4. 1 .. N + 1 = (1 .. N) \cup {N + 1}
  BY <1>1
<1>. HIDE DEF N
<1>5. CASE e = x
  <2>1. Positions(Append(s, e), x) = P \cup {N + 1}
    BY <1>1, <1>2, <1>4, <1>5 DEF Positions
  <2>. HIDE DEF P
  <2>. QED BY <1>3, <1>5, <2>1, FS_AddElement DEF P
<1>6. CASE e # x
  <2>1. Positions(Append(s, e), x) = P
    BY <1>1, <1>2, <1>4, <1>6 DEF Positions
  <2>. QED BY <1>3, <1>6, <2>1
<1>. QED BY <1>5, <1>6

\* and erasing one counts one of it less.
LEMMA RemoveAtCounts ==
  ASSUME NEW S, NEW s \in Seq(S), NEW i \in 1 .. Len(s), NEW x
  PROVE  Cardinality(Positions(RemoveAt(s, i), x)) =
           Cardinality(Positions(s, x)) - (IF s[i] = x THEN 1 ELSE 0)
<1>. DEFINE N == Len(s)
            r == RemoveAt(s, i)
            P == Positions(s, x)
            Q == Positions(r, x)
            old == [k \in Q |-> IF k < i THEN k ELSE k + 1]
<1>1. N \in Nat /\ DOMAIN s = 1 .. N
  BY LenProperties
<1>2. /\ r \in Seq(S) /\ DOMAIN r = 1 .. N - 1
      /\ \A k \in 1 .. N - 1 : r[k] = IF k < i THEN s[k] ELSE s[k + 1]
  BY RemoveAtProperties, LenProperties
<1>. HIDE DEF r, N
<1>3. i \in 1 .. N
  BY DEF N
<1>4. Q \in SUBSET (1 .. N - 1) /\ P \in SUBSET (1 .. N)
  BY <1>1, <1>2 DEF Positions
<1>5. ASSUME NEW k \in Q PROVE old[k] \in P \ {i}
  <2>1. k \in 1 .. N - 1 /\ r[k] = x
    BY <1>2 DEF Positions
  <2>2. CASE k < i
    BY <1>1, <1>2, <1>3, <2>1, <2>2 DEF Positions
  <2>3. CASE ~(k < i)
    BY <1>1, <1>2, <1>3, <2>1, <2>3 DEF Positions
  <2>. QED BY <2>2, <2>3
<1>6. ASSUME NEW j \in P \ {i} PROVE \E k \in Q : old[k] = j
  <2>1. j \in 1 .. N /\ s[j] = x /\ j # i
    BY <1>1 DEF Positions
  <2>2. CASE j < i
    <3>1. j \in Q
      BY <1>1, <1>2, <1>3, <2>1, <2>2 DEF Positions
    <3>. QED BY <2>2, <3>1
  <2>3. CASE j > i
    <3>1. j - 1 \in Q /\ ~(j - 1 < i)
      BY <1>1, <1>2, <1>3, <2>1, <2>3 DEF Positions
    <3>. QED BY <2>1, <3>1
  <2>. QED BY <1>3, <2>1, <2>2, <2>3
<1>7. \A j, k \in Q : old[j] = old[k] => j = k
  BY <1>1, <1>3, <1>4
<1>8. old \in Bijection(Q, P \ {i})
  <2>1. old \in [Q -> P \ {i}]
    BY <1>5
  <2>. HIDE DEF old, P, Q
  <2>. QED BY <1>6, <1>7, <2>1, Fun_IsBij
<1>. HIDE DEF old
<1>9. IsFiniteSet(P) /\ IsFiniteSet(Q)
  BY <1>2, PositionsFinite
<1>10. Cardinality(P \ {i}) = Cardinality(Q)
  <2>1. ExistsBijection(Q, P \ {i})
    BY <1>8 DEF ExistsBijection
  <2>. HIDE DEF P, Q
  <2>. QED BY <1>9, <2>1, FS_Bijection
<1>11. i \in P <=> s[i] = x
  BY <1>1, <1>3 DEF Positions
<1>. HIDE DEF P
<1>12. Cardinality(P \ {i}) = IF i \in P THEN Cardinality(P) - 1 ELSE Cardinality(P)
  BY <1>9, FS_RemoveElement
<1>13. Cardinality(P) \in Nat
  BY <1>9, FS_CardinalityType
<1>. QED BY <1>10, <1>11, <1>12, <1>13 DEF P, Q, r

-----------------------------------------------------------------------------
(***************************************************************************)
(* Numbers: induction, as a fact about sets.                               *)
(***************************************************************************)

\* Induction up to N: a set that has 0, and n with n - 1, has all of 0 .. N.
LEMMA UpTo ==
  ASSUME NEW N \in Nat, NEW Good, 0 \in Good,
         \A n \in 1 .. N : n - 1 \in Good => n \in Good
  PROVE  \A n \in 0 .. N : n \in Good
<1>. DEFINE Bad == {n \in 0 .. N : n \notin Good}
<1>. SUFFICES ASSUME Bad # {} PROVE FALSE
  OBVIOUS
<1>1. Min(Bad) \in Bad /\ \A j \in Bad : Min(Bad) <= j
  BY MinOfNats, Bad \in SUBSET Nat
<1>2. PICK m \in Bad : \A j \in Bad : m <= j
  BY <1>1
<1>3. m \in 1 .. N
  BY m \in 0 .. N, m # 0
<1>4. m - 1 \in Good
  BY <1>2, <1>3, m - 1 \in 0 .. N
<1>. QED BY <1>3, <1>4

\* A recursion over 0 .. N whose step is a function: what it may be, and what
\* it solves up to k.
Steps(N, S) == [S \X (1 .. N) -> S]

Solves(g, first, step, k) ==
  g[0] = first /\ \A n \in 1 .. k : g[n] = step[<<g[n - 1], n>>]

Solutions(N, S, first, step) == {g \in [0 .. N -> S] : Solves(g, first, step, N)}

\* It has a solution.
LEMMA Recursion ==
  ASSUME NEW N \in Nat, NEW S, NEW first \in S, NEW step \in Steps(N, S)
  PROVE  Solutions(N, S, first, step) # {}
<1>. DEFINE Good == {k \in 0 .. N : \E g \in [0 .. k -> S] : Solves(g, first, step, k)}
<1>. USE DEF Steps, Solves
<1>1. 0 \in Good
  <2>. DEFINE g0 == [n \in 0 .. 0 |-> first]
  <2>1. g0 \in [0 .. 0 -> S] /\ Solves(g0, first, step, 0)
    OBVIOUS
  <2>. HIDE DEF g0
  <2>. QED BY <2>1
<1>2. ASSUME NEW k \in 1 .. N, k - 1 \in Good
      PROVE  k \in Good
  <2>1. PICK g \in [0 .. k - 1 -> S] : Solves(g, first, step, k - 1)
    BY <1>2
  <2>. DEFINE h == [n \in 0 .. k |-> IF n = k THEN step[<<g[k - 1], k>>] ELSE g[n]]
  <2>2. h \in [0 .. k -> S]
    BY g[k - 1] \in S
  <2>3. ASSUME NEW n \in 1 .. k PROVE h[n] = step[<<h[n - 1], n>>]
    <3>1. h[n - 1] = g[n - 1]
      BY n - 1 \in 0 .. k, n - 1 # k
    <3>2. CASE n = k
      BY <3>1, <3>2
    <3>3. CASE n # k
      BY <2>1, <3>1, <3>3, n \in 1 .. k - 1
    <3>. QED BY <3>2, <3>3
  <2>4. h[0] = first
    BY <2>1
  <2>. HIDE DEF h
  <2>. QED BY <2>2, <2>3, <2>4
<1>3. N \in Good
  <2>. HIDE DEF Good
  <2>. QED BY <1>1, <1>2, UpTo
<1>. QED BY <1>3 DEF Solutions

-----------------------------------------------------------------------------
(***************************************************************************)
(* Lists of lists.                                                         *)
(***************************************************************************)

\* A flattened list grows by one list at a time.
LEMMA FlattenByList ==
  ASSUME NEW S, NEW seqs \in Seq(Seq(S))
  PROVE  \E g : /\ FlattenSeq(seqs) = g[Len(seqs)]
                /\ g[0] = <<>>
                /\ \A n \in 1 .. Len(seqs) : g[n] = g[n - 1] \o seqs[n]
                /\ \A n \in 0 .. Len(seqs) : g[n] \in Seq(S)
<1>. DEFINE N == Len(seqs)
            T == Seq(S)
            step == [p \in T \X (1 .. N) |-> p[1] \o seqs[p[2]]]
            Is(f) == f = [i \in 1 .. N |-> IF i = 1 THEN seqs[i] ELSE f[i - 1] \o seqs[i]]
            flatten == CHOOSE f : Is(f)
<1>1. N \in Nat /\ \A n \in 1 .. N : seqs[n] \in T
  BY LenProperties, ElementOfSeq
<1>2. <<>> \in T
  BY EmptySeq
<1>3. step \in Steps(N, T)
  <2>1. ASSUME NEW p \in T \X (1 .. N) PROVE p[1] \o seqs[p[2]] \in T
    BY <1>1, ConcatProperties
  <2>. HIDE DEF T, N
  <2>. QED BY <2>1 DEF Steps
<1>4. PICK g \in [0 .. N -> T] :
        g[0] = <<>> /\ \A n \in 1 .. N : g[n] = step[<<g[n - 1], n>>]
  <2>. DEFINE first == <<>>
  <2>1. first \in T
    BY <1>2
  <2>. HIDE DEF T, step, N, first
  <2>2. Solutions(N, T, first, step) # {}
    BY <1>1, <1>3, <2>1, Recursion
  <2>. QED BY <2>2 DEF first, Solutions, Solves
<1>5. ASSUME NEW n \in 1 .. N PROVE g[n] = g[n - 1] \o seqs[n]
  <2>1. g[n - 1] \in T
    BY <1>1, n - 1 \in 0 .. N
  <2>. HIDE DEF T
  <2>. QED BY <1>4, <2>1
<1>6. CASE N = 0
  <2>1. FlattenSeq(seqs) = <<>>
    BY <1>6, EmptySeq, LenProperties DEF FlattenSeq
  <2>. QED BY <1>1, <1>4, <1>5, <1>6, <2>1
<1>7. CASE N # 0
  <2>1. FlattenSeq(seqs) = flatten[N]
    BY <1>7, Zenon DEF FlattenSeq
  <2>2. Is([i \in 1 .. N |-> g[i]])
    <3>. DEFINE h == [i \in 1 .. N |-> g[i]]
    <3>1. ASSUME NEW i \in 1 .. N
          PROVE  g[i] = IF i = 1 THEN seqs[i] ELSE h[i - 1] \o seqs[i]
      <4>1. CASE i = 1
        <5>1. i - 1 = 0
          BY <4>1
        <5>3. g[i] = g[i - 1] \o seqs[i]
          BY <1>5, Zenon
        <5>2. <<>> \o seqs[1] = seqs[1]
          BY <1>1, <4>1, ConcatEmptySeq
        <5>. QED BY <1>4, <4>1, <5>1, <5>2, <5>3
      <4>2. CASE i # 1
        <5>1. i - 1 \in 1 .. N /\ h[i - 1] = g[i - 1]
          BY <1>1, <4>2
        <5>. HIDE DEF h
        <5>. QED BY <1>5, <4>2, <5>1
      <4>. QED BY <4>1, <4>2
    <3>. HIDE DEF T, N, step
    <3>. QED BY <3>1
  <2>3. Is(flatten)
    <3>. HIDE DEF Is
    <3>. QED BY <2>2
  <2>. HIDE DEF flatten, N, T, step
  <2>4. \A i \in 1 .. N : flatten[i] = IF i = 1 THEN seqs[i] ELSE flatten[i - 1] \o seqs[i]
    BY <2>3
  <2>. DEFINE Good == {n \in 0 .. N : n # 0 => flatten[n] = g[n]}
  <2>5. 0 \in Good
    BY <1>1
  <2>6. ASSUME NEW n \in 1 .. N, n - 1 \in Good PROVE n \in Good
    <3>1. flatten[n] = g[n]
      <4>1. CASE n = 1
        <5>1. n - 1 = 0
          BY <4>1
        <5>3. g[n] = g[n - 1] \o seqs[n] /\ flatten[n] = seqs[n]
          BY <1>5, <2>4, <4>1, Zenon
        <5>2. <<>> \o seqs[1] = seqs[1]
          BY <1>1, <4>1, ConcatEmptySeq DEF T
        <5>. QED BY <1>4, <4>1, <5>1, <5>2, <5>3
      <4>2. CASE n # 1
        <5>1. flatten[n - 1] = g[n - 1]
          BY <1>1, <2>6, <4>2
        <5>. QED BY <1>5, <2>4, <4>2, <5>1
      <4>. QED BY <4>1, <4>2
    <3>. QED BY <1>1, <3>1
  <2>7. N \in Good
    <3>. HIDE DEF Good
    <3>. QED BY <1>1, <2>5, <2>6, UpTo, N \in 0 .. N
  <2>. QED BY <1>4, <1>5, <1>7, <2>1, <2>7 DEF N, T
<1>. QED BY <1>6, <1>7

\* A flattened list of lists is a list.
LEMMA FlattenIsList ==
  ASSUME NEW S, NEW seqs \in Seq(Seq(S))
  PROVE  FlattenSeq(seqs) \in Seq(S)
<1>1. Len(seqs) \in Nat
  BY LenProperties
<1>2. PICK g : /\ FlattenSeq(seqs) = g[Len(seqs)]
               /\ \A n \in 0 .. Len(seqs) : g[n] \in Seq(S)
  BY FlattenByList
<1>. QED BY <1>1, <1>2

\* A flattened list has the members of its lists.
LEMMA FlattenMembers ==
  ASSUME NEW S, NEW seqs \in Seq(Seq(S))
  PROVE  ToSet(FlattenSeq(seqs)) = UNION {ToSet(seqs[i]) : i \in 1 .. Len(seqs)}
<1>. DEFINE N == Len(seqs)
            Of(n) == UNION {ToSet(seqs[i]) : i \in 1 .. n}
<1>1. PICK g : /\ FlattenSeq(seqs) = g[Len(seqs)]
               /\ g[0] = <<>>
               /\ \A n \in 1 .. Len(seqs) : g[n] = g[n - 1] \o seqs[n]
               /\ \A n \in 0 .. Len(seqs) : g[n] \in Seq(S)
  BY FlattenByList
<1>2. N \in Nat /\ \A n \in 1 .. N : seqs[n] \in Seq(S)
  BY LenProperties, ElementOfSeq
<1>. DEFINE Good == {n \in 0 .. N : ToSet(g[n]) = Of(n)}
<1>3. 0 \in Good
  <2>1. ToSet(<<>>) = {}
    BY DEF ToSet
  <2>2. Of(0) = {}
    OBVIOUS
  <2>. QED BY <1>1, <1>2, <2>1, <2>2
<1>. HIDE DEF N
<1>4. ASSUME NEW n \in 1 .. N, n - 1 \in Good PROVE n \in Good
  <2>1. n \in 0 .. N /\ n - 1 \in 0 .. N
    BY <1>2
  <2>2. g[n - 1] \in Seq(S) /\ seqs[n] \in Seq(S) /\ g[n] = g[n - 1] \o seqs[n]
    BY <1>1, <1>2, <2>1 DEF N
  <2>3. ToSet(g[n]) = ToSet(g[n - 1]) \cup ToSet(seqs[n])
    BY <2>2, ConcatMembers
  <2>4. 1 .. n = (1 .. n - 1) \cup {n}
    BY <2>1
  <2>5. Of(n) = Of(n - 1) \cup ToSet(seqs[n])
    <3>. HIDE DEF ToSet
    <3>. QED BY <2>4
  <2>. QED BY <1>4, <2>1, <2>3, <2>5
<1>5. N \in Good
  <2>. HIDE DEF Good
  <2>. QED BY <1>2, <1>3, <1>4, UpTo, N \in 0 .. N
<1>. QED BY <1>1, <1>5 DEF N

\* A list without repetitions after another one without them, when they share
\* no member.
LEMMA ConcatOnce ==
  ASSUME NEW S, NEW s \in Seq(S), NEW t \in Seq(S),
         IsInjective(s), IsInjective(t), ToSet(s) \cap ToSet(t) = {}
  PROVE  IsInjective(s \o t)
<1>1. /\ Len(s) \in Nat /\ Len(t) \in Nat
      /\ DOMAIN s = 1 .. Len(s) /\ DOMAIN t = 1 .. Len(t)
  BY LenProperties
<1>2. /\ s \o t \in Seq(S) /\ Len(s \o t) = Len(s) + Len(t)
      /\ \A k \in 1 .. Len(s) + Len(t) :
           (s \o t)[k] = IF k <= Len(s) THEN s[k] ELSE t[k - Len(s)]
  BY ConcatProperties
<1>3. DOMAIN (s \o t) = 1 .. Len(s) + Len(t)
  BY <1>2, LenProperties
<1>4. \A k \in 1 .. Len(s) : s[k] \in ToSet(s)
  BY <1>1 DEF ToSet
<1>5. \A k \in 1 .. Len(t) : t[k] \in ToSet(t)
  BY <1>1 DEF ToSet
<1>7. /\ \A j, k \in 1 .. Len(s) : s[j] = s[k] => j = k
      /\ \A j, k \in 1 .. Len(t) : t[j] = t[k] => j = k
  BY <1>1, Zenon DEF IsInjective
<1>. PICK u : u = s \o t
  OBVIOUS
<1>6. ASSUME NEW j \in 1 .. Len(s) + Len(t), NEW k \in 1 .. Len(s) + Len(t), u[j] = u[k]
      PROVE  j = k
  <2>1. u[j] = IF j <= Len(s) THEN s[j] ELSE t[j - Len(s)]
    BY <1>2
  <2>2. u[k] = IF k <= Len(s) THEN s[k] ELSE t[k - Len(s)]
    BY <1>2
  <2>3. CASE j <= Len(s) /\ k <= Len(s)
    <3>1. j \in 1 .. Len(s) /\ k \in 1 .. Len(s)
      BY <1>1, <2>3
    <3>2. s[j] = s[k]
      BY ONLY <1>6, <2>1, <2>2, <2>3
    <3>. QED BY <1>7, <3>1, <3>2
  <2>4. CASE j <= Len(s) /\ ~(k <= Len(s))
    <3>1. s[j] \in ToSet(s) /\ t[k - Len(s)] \in ToSet(t)
      BY <1>1, <1>4, <1>5, <2>4
    <3>. QED BY <1>6, <2>1, <2>2, <2>4, <3>1
  <2>5. CASE ~(j <= Len(s)) /\ k <= Len(s)
    <3>1. s[k] \in ToSet(s) /\ t[j - Len(s)] \in ToSet(t)
      BY <1>1, <1>4, <1>5, <2>5
    <3>. QED BY <1>6, <2>1, <2>2, <2>5, <3>1
  <2>6. CASE ~(j <= Len(s)) /\ ~(k <= Len(s))
    <3>1. j - Len(s) \in 1 .. Len(t) /\ k - Len(s) \in 1 .. Len(t)
      BY <1>1, <2>6
    <3>2. t[j - Len(s)] = t[k - Len(s)]
      BY <1>6, <2>1, <2>2, <2>6
    <3>3. j - Len(s) = k - Len(s)
      BY <1>7, <3>1, <3>2
    <3>. QED BY <1>1, <3>3
  <2>. QED BY <2>3, <2>4, <2>5, <2>6
<1>. QED BY <1>3, <1>6 DEF IsInjective

\* A flattened list has no repetitions, when no list in it has any and no two
\* of them share a member.
LEMMA FlattenOnce ==
  ASSUME NEW S, NEW seqs \in Seq(Seq(S)),
         \A i \in 1 .. Len(seqs) : IsInjective(seqs[i]),
         \A i, j \in 1 .. Len(seqs) : i # j => ToSet(seqs[i]) \cap ToSet(seqs[j]) = {}
  PROVE  IsInjective(FlattenSeq(seqs))
<1>. DEFINE N == Len(seqs)
            Of(n) == UNION {ToSet(seqs[i]) : i \in 1 .. n}
<1>1. PICK g : /\ FlattenSeq(seqs) = g[Len(seqs)]
               /\ g[0] = <<>>
               /\ \A n \in 1 .. Len(seqs) : g[n] = g[n - 1] \o seqs[n]
               /\ \A n \in 0 .. Len(seqs) : g[n] \in Seq(S)
  BY FlattenByList
<1>2. N \in Nat /\ \A n \in 1 .. N : seqs[n] \in Seq(S)
  BY LenProperties, ElementOfSeq
<1>. DEFINE Good == {n \in 0 .. N : ToSet(g[n]) = Of(n) /\ IsInjective(g[n])}
<1>3. 0 \in Good
  <2>1. ToSet(<<>>) = {} /\ IsInjective(<<>>)
    BY DEF ToSet, IsInjective
  <2>2. Of(0) = {}
    OBVIOUS
  <2>. QED BY <1>1, <1>2, <2>1, <2>2
<1>. HIDE DEF N
<1>4. ASSUME NEW n \in 1 .. N, n - 1 \in Good PROVE n \in Good
  <2>1. n \in 0 .. N /\ n - 1 \in 0 .. N
    BY <1>2
  <2>2. g[n - 1] \in Seq(S) /\ seqs[n] \in Seq(S) /\ g[n] = g[n - 1] \o seqs[n]
    BY <1>1, <1>2, <2>1 DEF N
  <2>3. ToSet(g[n]) = ToSet(g[n - 1]) \cup ToSet(seqs[n])
    BY <2>2, ConcatMembers
  <2>4. 1 .. n = (1 .. n - 1) \cup {n}
    BY <2>1
  <2>5. Of(n) = Of(n - 1) \cup ToSet(seqs[n])
    <3>. HIDE DEF ToSet
    <3>. QED BY <2>4
  <2>6. ToSet(g[n - 1]) \cap ToSet(seqs[n]) = {}
    <3>1. ASSUME NEW i \in 1 .. n - 1 PROVE ToSet(seqs[i]) \cap ToSet(seqs[n]) = {}
      <4>1. i \in 1 .. Len(seqs) /\ n \in 1 .. Len(seqs) /\ i # n
        BY <1>2 DEF N
      <4>. QED BY <4>1, Zenon
    <3>2. ToSet(g[n - 1]) = Of(n - 1)
      BY <1>4
    <3>. HIDE DEF ToSet
    <3>. SUFFICES ASSUME NEW x \in Of(n - 1), x \in ToSet(seqs[n]) PROVE FALSE
      BY <3>2
    <3>3. PICK i \in 1 .. n - 1 : x \in ToSet(seqs[i])
      OBVIOUS
    <3>. QED BY <3>1, <3>3
  <2>7. IsInjective(g[n])
    <3>1. IsInjective(g[n - 1]) /\ IsInjective(seqs[n])
      BY <1>4 DEF N
    <3>. QED BY <2>2, <2>6, <3>1, ConcatOnce
  <2>. QED BY <1>4, <2>1, <2>3, <2>5, <2>7
<1>5. N \in Good
  <2>. HIDE DEF Good
  <2>. QED BY <1>2, <1>3, <1>4, UpTo, N \in 0 .. N
<1>. QED BY <1>1, <1>5 DEF N

-----------------------------------------------------------------------------
(***************************************************************************)
(* Sums over finite sets.                                                  *)
(***************************************************************************)

\* What the sums g of the numbers w over the subsets of S are.
Sums(g, w, S) ==
  /\ g \in [SUBSET S -> Nat]
  /\ g[{}] = 0
  /\ \A A \in SUBSET S : \A x \in A : g[A] = w[x] + g[A \ {x}]

\* SumFunction adds one member of its domain after the other, in an order that
\* does not matter.
LEMMA SumFunctionSums ==
  ASSUME NEW S, IsFiniteSet(S), NEW w \in [S -> Nat]
  PROVE  \E g : Sums(g, w, S) /\ SumFunction(w) = g[S]
<1>. DEFINE P == SUBSET S
            c(A) == CHOOSE x \in A : TRUE
            Is(g) == g = [A \in P |-> IF A = {} THEN 0 ELSE w[c(A)] + g[A \ {c(A)}]]
            iter == CHOOSE g : Is(g)
            N == Cardinality(S)
            States == [P -> Nat]
            first == [A \in P |-> 0]
            Next1(h) == [A \in P |-> IF A = {} THEN 0 ELSE w[c(A)] + h[A \ {c(A)}]]
            step == [p \in States \X (1 .. N) |-> Next1(p[1])]
<1>1. SumFunction(w) = iter[S]
  <2>1. DOMAIN w = S
    OBVIOUS
  <2>2. SumFunction(w) = SumFunctionOnSet(w, S)
    BY <2>1, Zenon DEF SumFunction
  <2>. QED BY <2>2, Zenon DEF SumFunctionOnSet, FoldFunctionOnSet, MapThenFoldSet
<1>2. N \in Nat
  BY FS_CardinalityType
<1>3. \A A \in P : A # {} => c(A) \in A
  OBVIOUS
<1>. HIDE DEF c
<1>4. ASSUME NEW h \in States PROVE Next1(h) \in States
  BY <1>3
<1>5. PICK h \in [0 .. N -> States] :
        h[0] = first /\ \A n \in 1 .. N : h[n] = Next1(h[n - 1])
  <2>1. step \in Steps(N, States)
    <3>1. ASSUME NEW p \in States \X (1 .. N) PROVE Next1(p[1]) \in States
      BY <1>4, p[1] \in States
    <3>. HIDE DEF States, Next1, N
    <3>. QED BY <3>1 DEF Steps
  <2>2. first \in States
    OBVIOUS
  <2>. HIDE DEF States, first, N, Next1
  <2>3. PICK h \in [0 .. N -> States] :
          h[0] = first /\ \A n \in 1 .. N : h[n] = step[<<h[n - 1], n>>]
    <3>. HIDE DEF step
    <3>1. Solutions(N, States, first, step) # {}
      BY <1>2, <2>1, <2>2, Recursion
    <3>. QED BY <3>1 DEF Solutions, Solves
  <2>4. ASSUME NEW n \in 1 .. N PROVE step[<<h[n - 1], n>>] = Next1(h[n - 1])
    BY <1>2, h[n - 1] \in States
  <2>. HIDE DEF step
  <2>. QED BY <2>3, <2>4
<1>6. \A A \in P : Cardinality(A) \in 0 .. N
  BY <1>2, FS_Subset, FS_CardinalityType
<1>6a. ASSUME NEW A \in P PROVE Cardinality(A) = 0 <=> A = {}
  <2>1. IsFiniteSet(A)
    BY FS_Subset
  <2>. QED BY <2>1, FS_EmptySet
<1>7. ASSUME NEW A \in P, NEW x \in A
      PROVE  A \ {x} \in P /\ Cardinality(A) \in 1 .. N
             /\ Cardinality(A \ {x}) = Cardinality(A) - 1
  <2>1. IsFiniteSet(A)
    BY FS_Subset
  <2>2. Cardinality(A \ {x}) = Cardinality(A) - 1 /\ Cardinality(A) # 0
    BY <2>1, FS_RemoveElement, FS_EmptySet
  <2>. QED BY <1>2, <1>6, <2>2
<1>8. \E g : Is(g)
  <2>. DEFINE g == [A \in P |-> h[Cardinality(A)][A]]
  <2>1. ASSUME NEW A \in P
        PROVE  g[A] = IF A = {} THEN 0 ELSE w[c(A)] + g[A \ {c(A)}]
    <3>1. CASE A = {}
      BY <1>5, <3>1, FS_EmptySet
    <3>2. CASE A # {}
      <4>. PICK x, n, B : x = c(A) /\ n = Cardinality(A) /\ B = A \ {x}
        OBVIOUS
      <4>1. x \in A /\ B \in P /\ n \in 1 .. N /\ Cardinality(B) = n - 1
        BY <1>3, <1>7, <3>2
      <4>2. h[n] = Next1(h[n - 1])
        BY <1>5, <4>1
      <4>3. g[A] = w[x] + h[n - 1][B]
        BY <3>2, <4>2
      <4>. QED BY <3>2, <4>1, <4>3
    <3>. QED BY <3>1, <3>2
  <2>2. Is(g)
    <3>. HIDE DEF P
    <3>. QED BY <2>1
  <2>. QED BY <2>2
<1>9. Is(iter)
  <2>. HIDE DEF Is
  <2>. QED BY <1>8
<1>. HIDE DEF iter
<1>10. \A A \in P : iter[A] = IF A = {} THEN 0 ELSE w[c(A)] + iter[A \ {c(A)}]
  BY <1>9, Zenon
<1>. HIDE DEF Is
<1>11. \A A \in P : iter[A] \in Nat
  <2>. DEFINE Good == {n \in 0 .. N : \A A \in P : Cardinality(A) = n => iter[A] \in Nat}
  <2>1. 0 \in Good
    <3>1. ASSUME NEW A \in P, Cardinality(A) = 0 PROVE iter[A] \in Nat
      <4>1. A = {}
        BY <1>6a, <3>1
      <4>2. iter[A] = 0
        <5>1. A \in P /\ (A = {} => IF A = {} THEN TRUE ELSE FALSE)
          OBVIOUS
        <5>. HIDE DEF P
        <5>. QED BY <1>10, <4>1, <5>1
      <4>. QED BY <4>2
    <3>. QED BY <1>2, <3>1
  <2>2. ASSUME NEW n \in 1 .. N, n - 1 \in Good PROVE n \in Good
    <3>1. ASSUME NEW A \in P, Cardinality(A) = n PROVE iter[A] \in Nat
      <4>. PICK y, B : y = c(A) /\ B = A \ {y}
        OBVIOUS
      <4>0. A # {}
        BY <1>2, <1>6a, <3>1
      <4>1. y \in A /\ B \in P /\ Cardinality(B) = n - 1 /\ iter[A] = w[y] + iter[B]
        BY <1>3, <1>7, <1>10, <3>1, <4>0
      <4>2. iter[B] \in Nat /\ w[y] \in Nat
        BY <2>2, <4>1
      <4>. QED BY <4>1, <4>2
    <3>. QED BY <1>2, <3>1
  <2>3. \A n \in 0 .. N : n \in Good
    <3>. HIDE DEF Good
    <3>. QED BY <1>2, <2>1, <2>2, UpTo
  <2>. QED BY <1>6, <2>3
<1>. DEFINE Fine(A) == \A x \in A : iter[A] = w[x] + iter[A \ {x}]
            Good == {n \in 0 .. N : \A A \in P : Cardinality(A) = n => Fine(A)}
<1>12. 0 \in Good
  <2>1. ASSUME NEW A \in P, Cardinality(A) = 0 PROVE Fine(A)
    <3>1. A = {}
      BY <1>6a, <2>1
    <3>. QED BY <3>1
  <2>. HIDE DEF Fine
  <2>. QED BY <1>2, <2>1
<1>13. ASSUME NEW n \in 1 .. N, n - 1 \in Good PROVE n \in Good
  <2>0. \A C \in P : Cardinality(C) = n - 1 => Fine(C)
    <3>. HIDE DEF Fine
    <3>. QED BY <1>13
  <2>1. ASSUME NEW A \in P, Cardinality(A) = n, NEW x \in A
        PROVE  iter[A] = w[x] + iter[A \ {x}]
    <3>. PICK y, B : y = c(A) /\ B = A \ {y}
      OBVIOUS
    <3>1. y \in A /\ B \in P /\ Cardinality(B) = n - 1 /\ iter[A] = w[y] + iter[B]
      BY <1>3, <1>7, <1>10, <2>1
    <3>2. CASE x = y
      BY <3>1, <3>2
    <3>3. CASE x # y
      <4>. PICK D, E : D = A \ {x} /\ E = B \ {x}
        OBVIOUS
      <4>1. /\ D \in P /\ Cardinality(D) = n - 1 /\ y \in D
            /\ D \ {y} = E /\ x \in B /\ E \in P
        BY <1>7, <2>1, <3>1, <3>3
      <4>2. iter[D] = w[y] + iter[E]
        BY <2>0, <4>1
      <4>3. iter[B] = w[x] + iter[E]
        <5>1. E = B \ {x} /\ x \in B /\ B \in P /\ Cardinality(B) = n - 1
          BY <3>1, <4>1
        <5>2. Fine(B)
          <6>. HIDE DEF Fine
          <6>. QED BY <2>0, <5>1
        <5>. QED BY <5>1, <5>2
      <4>4. iter[E] \in Nat /\ w[x] \in Nat /\ w[y] \in Nat
        BY <1>11, <3>1, <4>1
      <4>5. iter[A] = w[x] + iter[D]
        BY <3>1, <4>2, <4>3, <4>4
      <4>. QED BY <4>5
    <3>. QED BY <3>2, <3>3
  <2>2. ASSUME NEW A \in P, Cardinality(A) = n PROVE Fine(A)
    BY <2>1, <2>2
  <2>3. n \in 0 .. N
    BY <1>2
  <2>. HIDE DEF Fine
  <2>. QED BY <2>2, <2>3
<1>14. \A n \in 0 .. N : n \in Good
  <2>. HIDE DEF Good
  <2>. QED BY <1>2, <1>12, <1>13, UpTo
<1>15. \A A \in P : \A x \in A : iter[A] = w[x] + iter[A \ {x}]
  BY <1>6, <1>14
<1>16. iter = [A \in P |-> iter[A]]
  BY <1>9 DEF Is
<1>17. iter[{}] = 0
  BY <1>10
<1>. QED BY <1>1, <1>11, <1>15, <1>16, <1>17 DEF Sums

\* The sum of numbers does not depend on how their places are called.
LEMMA SumRenamed ==
  ASSUME NEW S, IsFiniteSet(S), NEW R, NEW b \in [S -> R],
         \A x, y \in S : b[x] = b[y] => x = y,
         R = {b[x] : x \in S},
         NEW w \in [R -> Nat]
  PROVE  SumFunction([x \in S |-> w[b[x]]]) = SumFunction(w)
<1>. DEFINE v == [x \in S |-> w[b[x]]]
            N == Cardinality(S)
            im(A) == {b[x] : x \in A}
<1>1. v \in [S -> Nat]
  OBVIOUS
<1>2. IsFiniteSet(R)
  <2>1. b \in Surjection(S, R)
    BY DEF Surjection
  <2>. QED BY <2>1, FS_Surjection
<1>3. PICK g : Sums(g, v, S) /\ SumFunction(v) = g[S]
  <2>. HIDE DEF v
  <2>. QED BY <1>1, SumFunctionSums
<1>4. PICK h : Sums(h, w, R) /\ SumFunction(w) = h[R]
  BY <1>2, SumFunctionSums
<1>5. N \in Nat
  BY FS_CardinalityType
<1>. DEFINE Good == {n \in 0 .. N :
                      \A A \in SUBSET S : Cardinality(A) = n => g[A] = h[im(A)]}
<1>6. 0 \in Good
  <2>1. ASSUME NEW A \in SUBSET S, Cardinality(A) = 0 PROVE g[A] = h[im(A)]
    <3>0. IsFiniteSet(A)
      BY FS_Subset
    <3>1. A = {} /\ im(A) = {}
      BY <2>1, <3>0, FS_EmptySet
    <3>. QED BY <1>3, <1>4, <3>1 DEF Sums
  <2>. QED BY <1>5, <2>1
<1>7. ASSUME NEW n \in 1 .. N, n - 1 \in Good PROVE n \in Good
  <2>1. ASSUME NEW A \in SUBSET S, Cardinality(A) = n PROVE g[A] = h[im(A)]
    <3>1. IsFiniteSet(A) /\ A # {}
      BY <1>5, <2>1, FS_Subset, FS_EmptySet
    <3>2. PICK x \in A : TRUE
      BY <3>1
    <3>. PICK B : B = A \ {x}
      OBVIOUS
    <3>3. B \in SUBSET S /\ Cardinality(B) = n - 1
      BY <2>1, <3>1, FS_RemoveElement
    <3>4. im(B) = im(A) \ {b[x]} /\ b[x] \in im(A) /\ im(A) \in SUBSET R
      OBVIOUS
    <3>5. g[B] = h[im(B)]
      BY <1>7, <3>3
    <3>6. g[A] = v[x] + g[B]
      <4>. HIDE DEF v
      <4>1. \A C \in SUBSET S : \A y \in C : g[C] = v[y] + g[C \ {y}]
        BY <1>3, Zenon DEF Sums
      <4>. QED BY <4>1, <3>2
    <3>. HIDE DEF im
    <3>7. h[im(A)] = w[b[x]] + h[im(B)]
      <4>1. \A C \in SUBSET R : \A y \in C : h[C] = w[y] + h[C \ {y}]
        BY <1>4, Zenon DEF Sums
      <4>. PICK C, D : C = im(A) /\ D = im(B)
        OBVIOUS
      <4>2. C \in SUBSET R /\ b[x] \in C /\ D = C \ {b[x]}
        BY <3>4
      <4>. QED BY ONLY <4>1, <4>2, C = im(A), D = im(B)
    <3>8. v[x] = w[b[x]]
      OBVIOUS
    <3>. HIDE DEF v
    <3>. QED BY <3>5, <3>6, <3>7, <3>8
  <2>. HIDE DEF im
  <2>. QED BY <1>5, <2>1
<1>8. N \in Good
  <2>. HIDE DEF Good
  <2>. QED BY <1>5, <1>6, <1>7, UpTo, N \in 0 .. N
<1>9. im(S) = R
  OBVIOUS
<1>. QED BY <1>3, <1>4, <1>8, <1>9
=============================================================================
