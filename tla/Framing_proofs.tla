--------------------------- MODULE Framing_proofs ---------------------------
(***************************************************************************)
(* Proofs about the readers of Framing, for streams and chunks of any      *)
(* length, any cap and any two tags: their types, that the framers put out *)
(* what the bytes hold, and that the stripper speaks what no block holds.  *)
(*                                                                         *)
(* What the bytes hold is defined by the places of terminators, of blank   *)
(* lines and of tags: the lemmas say what one more line, or block, adds.   *)
(* They rest on least elements of sets of numbers, not on induction over   *)
(* sequences.  Several name what they prove (JoinsAs, CutAt, Spoke): a step*)
(* that cites one need not match its parts.                                *)
(***************************************************************************)
EXTENDS Framing, FiniteSetTheorems, SequenceTheorems, TLAPS

\* Every set of naturals that is not empty has a least element.
LEMMA LeastExists ==
    ASSUME NEW S \in SUBSET Nat, S # {}
    PROVE  \E m \in S : \A k \in S : m <= k
<1>1. PICK n \in S : TRUE
    OBVIOUS
<1> DEFINE N == 0..n
           R == StrictSubsetOrdering(N)
           T == {0..k : k \in {i \in S : i <= n}}
<1>2. IsFiniteSet(N)
    BY <1>1, FS_Interval
<1>3. IsWellFoundedOn(R, SUBSET N)
    BY <1>2, FS_FiniteSubsetsOfFinite, FS_StrictSubsetOrderingWellFounded
<1>7. T \subseteq SUBSET N
    <2>1. \A k \in S : k <= n => 0..k \subseteq 0..n
        BY <1>1
    <2> QED
        BY <2>1
<1>8. T # {}
    <2>1. 0..n \in T
        BY <1>1
    <2> QED
        BY <2>1
<1>4. PICK x \in T : \A y \in T : ~(<<y, x>> \in R)
    <2> HIDE DEF N, R, T
    <2> QED
        BY <1>3, <1>7, <1>8, WFMin
<1>5. PICK m \in S : m <= n /\ x = 0..m
    BY <1>4
<1>6. ASSUME NEW k \in S, k < m
      PROVE  FALSE
    <2>1. 0..k \in T /\ 0..k \subseteq 0..m /\ 0..k # 0..m
        BY <1>5, <1>6
    <2> QED
        BY <1>4, <1>5, <1>7, <2>1 DEF StrictSubsetOrdering
<1> QED
    BY <1>5, <1>6

LEMMA LeastIsLeast ==
    ASSUME NEW S \in SUBSET Nat
    PROVE  /\ S = {} => Least(S) = 0
           /\ S # {} => Least(S) \in S /\ \A k \in S : Least(S) <= k
BY LeastExists DEF Least, Min

LEMMA MinIsLeast ==
    ASSUME NEW S \in SUBSET Nat, S # {}
    PROVE  Min(S) \in S /\ \A k \in S : Min(S) <= k
BY LeastExists DEF Min

LEMMA MaxIsGreatest ==
    ASSUME NEW n \in Nat, NEW S \in SUBSET (0..n), S # {}
    PROVE  Max(S) \in S /\ \A k \in S : k <= Max(S)
<1> DEFINE D == {d \in Nat : n - d \in S}
<1>1. D # {}
    <2>1. PICK k \in S : TRUE
        OBVIOUS
    <2>2. n - k \in Nat /\ n - (n - k) = k
        BY <2>1
    <2> QED
        BY <2>1, <2>2
<1>2. PICK d \in D : \A e \in D : d <= e
    BY <1>1, LeastExists
<1>3. ASSUME NEW k \in S
      PROVE  k <= n - d
    <2>1. k \in 0..n /\ n - k \in Nat /\ n - (n - k) = k
        OBVIOUS
    <2>2. n - k \in D
        BY <2>1
    <2> QED
        BY <1>2, <2>1, <2>2
<1>4. n - d \in S
    BY <1>2
<1> QED
    BY <1>3, <1>4 DEF Max

\* The ranks of some places number them from 1.
LEMMA Ranks ==
    ASSUME NEW n \in Nat, NEW at \in SUBSET (1..n)
    PROVE  /\ IsFiniteSet(at)
           /\ Cardinality(at) \in Nat
           /\ \A i \in at : Rank(at, i) \in 1..Cardinality(at)
           /\ \A i, j \in at : i < j => Rank(at, i) < Rank(at, j)
           /\ \A k \in 1..Cardinality(at) : \E i \in at : Rank(at, i) = k
<1> DEFINE Upto(i) == {j \in at : j <= i}
           c == Cardinality(at)
<1>1. IsFiniteSet(at) /\ c \in Nat
    <2>1. IsFiniteSet(1..n)
        BY FS_Interval
    <2> QED
        BY <2>1, FS_Subset, FS_CardinalityType
<1>2. ASSUME NEW i \in at
      PROVE  Rank(at, i) \in 1..c
    <2>1. Upto(i) \subseteq at /\ IsFiniteSet(Upto(i)) /\ Cardinality(Upto(i)) <= c
        BY <1>1, FS_Subset
    <2>2. Upto(i) # {}
        OBVIOUS
    <2>3. Cardinality(Upto(i)) \in Nat /\ Cardinality(Upto(i)) # 0
        BY <2>1, <2>2, FS_CardinalityType, FS_EmptySet
    <2> QED
        BY <1>1, <2>1, <2>3 DEF Rank
<1>3. ASSUME NEW i \in at, NEW j \in at, i < j
      PROVE  Rank(at, i) < Rank(at, j)
    <2>1. /\ \A k \in at : k <= i => k <= j
          /\ j <= j /\ ~(j <= i)
        <3>1. i \in Int /\ j \in Int /\ \A k \in at : k \in Int
            OBVIOUS
        <3> QED
            BY <1>3, <3>1
    <2>2. IsFiniteSet(Upto(j))
        BY <1>1, FS_Subset
    <2>3. Upto(i) \subseteq Upto(j) /\ j \in Upto(j) /\ j \notin Upto(i)
        BY <2>1
    <2>4. Cardinality(Upto(i)) <= Cardinality(Upto(j)) /\ Cardinality(Upto(i)) # Cardinality(Upto(j))
        BY <2>2, <2>3, FS_Subset
    <2> QED
        BY <1>2, <2>4 DEF Rank
<1>4. ASSUME NEW k \in 1..c
      PROVE  \E i \in at : Rank(at, i) = k
    <2> DEFINE f == [i \in at |-> Rank(at, i)]
    <2>1. f \in Injection(at, 1..c)
        BY <1>2, <1>3 DEF Injection, IsInjective
    <2>2. IsFiniteSet(1..c) /\ Cardinality(1..c) = c
        BY <1>1, FS_Interval
    <2>3. f \in Surjection(at, 1..c)
        BY <2>1, <2>2, FS_Injection
    <2> QED
        BY <2>3 DEF Surjection
<1> QED
    BY <1>1, <1>2, <1>3, <1>4

-----------------------------------------------------------------------------
(* The items at some places                                                *)

LEMMA PickAt ==
    ASSUME NEW n \in Nat, NEW at \in SUBSET (1..n), NEW seq
    PROVE  /\ Pick(seq, at) = [k \in 1..Cardinality(at) |-> Pick(seq, at)[k]]
           /\ \A i \in at : Pick(seq, at)[Rank(at, i)] = seq[i]
<1>1. ASSUME NEW i \in at
      PROVE  Pick(seq, at)[Rank(at, i)] = seq[i]
    <2> DEFINE k == Rank(at, i)
               c == CHOOSE j \in at : Rank(at, j) = k
    <2>1. k \in 1..Cardinality(at)
        BY Ranks
    <2>2. c \in at /\ Rank(at, c) = k
        OBVIOUS
    <2> HIDE DEF c
    <2>3. c = i
        <3>1. \A a, b \in at : a < b => Rank(at, a) < Rank(at, b)
            BY Ranks
        <3>2. c \in Int /\ i \in Int /\ k \in Int
            BY <2>1, <2>2
        <3> QED
            BY <2>2, <3>1, <3>2
    <2> QED
        BY <2>1, <2>3 DEF Pick, c
<1>2. Pick(seq, at) = [k \in 1..Cardinality(at) |-> Pick(seq, at)[k]]
    <2> DEFINE item(k) == seq[CHOOSE i \in at : Rank(at, i) = k]
    <2>1. Pick(seq, at) = [k \in 1..Cardinality(at) |-> item(k)]
        BY DEF Pick
    <2> HIDE DEF item
    <2> QED
        BY <2>1
<1> QED
    BY <1>1, <1>2

LEMMA PickSame ==
    ASSUME NEW n \in Nat, NEW at \in SUBSET (1..n), NEW s, NEW t,
           \A i \in at : s[i] = t[i]
    PROVE  Pick(s, at) = Pick(t, at)
<1>1. \A k \in 1..Cardinality(at) : Pick(s, at)[k] = Pick(t, at)[k]
    BY Ranks, PickAt
<1> QED
    BY <1>1, PickAt

LEMMA PickNone ==
    ASSUME NEW s
    PROVE  Pick(s, {}) = <<>>
BY FS_EmptySet DEF Pick

LEMMA PickType ==
    ASSUME NEW n \in Nat, NEW at \in SUBSET (1..n), NEW s, NEW A,
           \A i \in at : s[i] \in A
    PROVE  Pick(s, at) \in Seq(A) /\ Len(Pick(s, at)) = Cardinality(at)
<1>1. \A k \in 1..Cardinality(at) : Pick(s, at)[k] \in A
    BY Ranks, PickAt
<1>2. Cardinality(at) \in Nat
    BY Ranks
<1> QED
    BY <1>1, <1>2, PickAt

LEMMA PickMore ==
    ASSUME NEW n \in Nat, NEW at \in SUBSET (1..n), NEW m \in Nat, n < m, NEW s
    PROVE  Pick(s, at \cup {m}) = Append(Pick(s, at), s[m])
<1> DEFINE more == at \cup {m}
           c == Cardinality(at)
           A == {s[i] : i \in more}
<1>1. more \in SUBSET (1..m) /\ m \notin at /\ m \in more /\ \A j \in more : j <= m
    OBVIOUS
<1>2. IsFiniteSet(at) /\ c \in Nat /\ Cardinality(more) = c + 1
    BY <1>1, Ranks, FS_AddElement
<1>3. \A i \in more : Pick(s, more)[Rank(more, i)] = s[i]
    BY <1>1, PickAt, ZenonT(60)
<1>4. ASSUME NEW i \in at
      PROVE  Rank(more, i) = Rank(at, i)
    <2>1. {j \in more : j <= i} = {j \in at : j <= i}
        OBVIOUS
    <2> QED
        BY <2>1 DEF Rank
<1>5. Rank(more, m) = c + 1
    <2>1. {j \in more : j <= m} = more
        BY <1>1
    <2> QED
        BY <1>2, <2>1 DEF Rank
<1>6. ASSUME NEW k \in 1..c
      PROVE  Pick(s, more)[k] = Pick(s, at)[k]
    <2>1. PICK i \in at : Rank(at, i) = k
        BY Ranks
    <2>2. Pick(s, at)[k] = s[i]
        BY <2>1, PickAt
    <2> QED
        BY <1>3, <1>4, <2>1, <2>2
<1>7. Pick(s, more)[c + 1] = s[m]
    BY <1>1, <1>3, <1>5
<1>13. (\A i \in more : s[i] \in A) /\ (\A i \in at : s[i] \in A)
    OBVIOUS
<1> HIDE DEF more, c, A
<1>8. Pick(s, at) \in Seq(A) /\ Len(Pick(s, at)) = c
    BY <1>13, PickType DEF c
<1>9. Pick(s, more) \in Seq(A) /\ Len(Pick(s, more)) = c + 1
    BY <1>1, <1>2, <1>13, PickType
<1>10. Append(Pick(s, at), s[m]) \in Seq(A) /\ Len(Append(Pick(s, at), s[m])) = c + 1
    BY <1>1, <1>8, <1>13
<1>11. \A k \in 1..(c + 1) : Pick(s, more)[k] = Append(Pick(s, at), s[m])[k]
    BY <1>2, <1>6, <1>7, <1>8
<1>12. Pick(s, more) = Append(Pick(s, at), s[m])
    BY <1>9, <1>10, <1>11, SeqEqual
<1> QED
    BY <1>12 DEF more

\* A sequence P of n items grows to k items Q: the places T among them agree with
\* the places S so far.
Grown(n, S, P, k, T, Q) ==
    /\ n \in Nat /\ k \in Nat /\ n <= k
    /\ S \in SUBSET (1..n) /\ T \in SUBSET (1..k)
    /\ \A i \in 1..n : i \in T <=> i \in S
    /\ \A i \in S : P[i] = Q[i]

\* What is picked of it, if at most one place is new.
LEMMA PickGrown ==
    ASSUME NEW n, NEW k, NEW S, NEW T, NEW P, NEW Q, Grown(n, S, P, k, T, Q)
    PROVE  /\ (\A i \in (n + 1)..k : i \notin T) => Pick(Q, T) = Pick(P, S)
           /\ \A m \in (n + 1)..k :
                  (\A i \in (n + 1)..k : i \in T <=> i = m) => Pick(Q, T) = Append(Pick(P, S), Q[m])
<1> USE DEF Grown
<1>1. Pick(Q, S) = Pick(P, S)
    BY PickSame
<1>2. \A i \in 1..k : i \in 1..n \/ i \in (n + 1)..k
    OBVIOUS
<1>3. \A i \in 1..n : i \in 1..k /\ i \notin (n + 1)..k
    OBVIOUS
<1>4. ASSUME \A i \in (n + 1)..k : i \notin T
      PROVE  Pick(Q, T) = Pick(P, S)
    <2>1. T = S
        BY <1>2, <1>3, <1>4
    <2> QED
        BY <1>1, <2>1
<1>5. ASSUME NEW m \in (n + 1)..k, \A i \in (n + 1)..k : i \in T <=> i = m
      PROVE  Pick(Q, T) = Append(Pick(P, S), Q[m])
    <2>1. T = S \cup {m}
        BY <1>2, <1>3, <1>5
    <2>2. m \in Nat /\ n < m
        OBVIOUS
    <2>3. Pick(Q, S \cup {m}) = Append(Pick(Q, S), Q[m])
        BY <2>2, PickMore
    <2> QED
        BY <1>1, <2>1, <2>3
<1> QED
    BY <1>4, <1>5

-----------------------------------------------------------------------------
(* The items before a place                                                *)

LEMMA SubSeqKept ==
    ASSUME NEW A, NEW s \in Seq(A), NEW v \in Seq(A), NEW m \in Nat \ {0}, NEW n \in Int, n <= Len(s)
    PROVE  SubSeq(s \o v, m, n) = SubSeq(s, m, n)
<1>1. s \o v \in Seq(A) /\ Len(s \o v) = Len(s) + Len(v) /\ Len(s) \in Nat /\ Len(v) \in Nat
    BY ConcatProperties, LenProperties
<1>2. \A i \in m..n : (s \o v)[i] = s[i] /\ s[i] \in A
    BY <1>1, ConcatProperties, ElementOfSeq
<1>3. SubSeq(s, m, n) \in Seq(A) /\ SubSeq(s \o v, m, n) \in Seq(A)
    BY <1>2, SubSeqProperties
<1>4. Len(SubSeq(s, m, n)) = Len(SubSeq(s \o v, m, n))
    BY <1>2, SubSeqProperties
<1>5. \A i \in 1..Len(SubSeq(s, m, n)) : SubSeq(s, m, n)[i] = SubSeq(s \o v, m, n)[i]
    BY <1>2, SubSeqProperties
<1> QED
    BY <1>3, <1>4, <1>5, SeqEqual

LEMMA NearestBefore ==
    ASSUME NEW at \in SUBSET Nat, NEW i \in Nat \ {0}
    PROVE  /\ Nearest(at, i) \in 0..(i - 1)
           /\ Nearest(at, i) # 0 => Nearest(at, i) \in at
           /\ \A j \in at : j < i => j <= Nearest(at, i)
<1> DEFINE S == {0} \cup {j \in at : j < i}
<1>1. S \in SUBSET (0..(i - 1)) /\ S # {} /\ i - 1 \in Nat
    <2>1. i - 1 \in Nat /\ 0 \in 0..(i - 1) /\ \A j \in at : j < i => j \in 0..(i - 1)
        OBVIOUS
    <2>2. S # {} /\ \A j \in S : j \in 0..(i - 1)
        BY <2>1
    <2> QED
        BY <2>1, <2>2
<1>2. Max(S) \in S /\ \A k \in S : k <= Max(S)
    BY <1>1, MaxIsGreatest
<1> QED
    BY <1>1, <1>2 DEF Nearest

LEMMA BeforeType ==
    ASSUME NEW A, NEW s \in Seq(A), NEW at \in SUBSET Nat, NEW i \in 1..(Len(s) + 1)
    PROVE  /\ Before(s, at, i) \in Seq(A)
           /\ Len(Before(s, at, i)) = i - 1 - Nearest(at, i)
           /\ \A k \in 1..(i - 1 - Nearest(at, i)) : Before(s, at, i)[k] = s[Nearest(at, i) + k]
<1>1. Nearest(at, i) \in 0..(i - 1) /\ Len(s) \in Nat
    BY NearestBefore
<1>2. \A k \in (Nearest(at, i) + 1)..(i - 1) : s[k] \in A
    BY <1>1
<1> QED
    BY <1>1, <1>2, SubSeqProperties, SMTT(30) DEF Before

LEMMA BeforeKept ==
    ASSUME NEW A, NEW s \in Seq(A), NEW v \in Seq(A), NEW i \in 1..(Len(s) + 1),
           NEW at \in SUBSET Nat, NEW more \in SUBSET Nat,
           \A j \in 1..Len(s) : j \in at <=> j \in more,
           0 \notin at, 0 \notin more
    PROVE  Before(s \o v, more, i) = Before(s, at, i)
<1>1. {j \in more : j < i} = {j \in at : j < i}
    <2>1. \A j \in Nat : j < i /\ j # 0 => j \in 1..Len(s)
        OBVIOUS
    <2> QED
        BY <2>1
<1>2. Nearest(more, i) = Nearest(at, i)
    BY <1>1 DEF Nearest
<1>3. Nearest(at, i) + 1 \in Nat \ {0} /\ i - 1 \in Int /\ i - 1 <= Len(s)
    BY NearestBefore
<1> QED
    BY <1>2, <1>3, SubSeqKept, SMTT(30) DEF Before

LEMMA BeforeEnd ==
    ASSUME NEW A, NEW s \in Seq(A), NEW at \in SUBSET Nat, NEW a, a = Nearest(at, Len(s) + 1)
    PROVE  /\ a \in 0..Len(s)
           /\ Before(s, at, Len(s) + 1) \in Seq(A)
           /\ Len(Before(s, at, Len(s) + 1)) = Len(s) - a
           /\ \A k \in 1..(Len(s) - a) : Before(s, at, Len(s) + 1)[k] = s[a + k]
<1>1. Len(s) + 1 \in 1..(Len(s) + 1) /\ Len(s) + 1 \in Nat \ {0} /\ Len(s) + 1 - 1 = Len(s)
    OBVIOUS
<1>2. a \in 0..Len(s)
    BY <1>1, NearestBefore
<1>3. /\ Before(s, at, Len(s) + 1) \in Seq(A)
      /\ Len(Before(s, at, Len(s) + 1)) = Len(s) + 1 - 1 - Nearest(at, Len(s) + 1)
      /\ \A k \in 1..(Len(s) + 1 - 1 - Nearest(at, Len(s) + 1)) :
             Before(s, at, Len(s) + 1)[k] = s[Nearest(at, Len(s) + 1) + k]
    BY <1>1, <1>2, BeforeType
<1> QED
    BY <1>1, <1>2, <1>3

LEMMA BeforeMore ==
    ASSUME NEW A, NEW s \in Seq(A), NEW v \in Seq(A), NEW at \in SUBSET (1..Len(s))
    PROVE  Before(s \o v, at, Len(s \o v) + 1) = Before(s, at, Len(s) + 1) \o v
<1> DEFINE t == s \o v
           a == Nearest(at, Len(s) + 1)
           b == Before(s, at, Len(s) + 1)
           c == Before(t, at, Len(t) + 1)
<1>1. /\ t \in Seq(A) /\ Len(t) = Len(s) + Len(v) /\ Len(s) \in Nat /\ Len(v) \in Nat
      /\ \A i \in 1..Len(t) : t[i] = IF i <= Len(s) THEN s[i] ELSE v[i - Len(s)]
    BY ConcatProperties, LenProperties
<1>2. {j \in at : j < Len(t) + 1} = {j \in at : j < Len(s) + 1} /\ at \in SUBSET Nat
    <2>1. \A j \in at : j < Len(t) + 1 /\ j < Len(s) + 1 /\ j \in Nat
        BY <1>1
    <2> QED
        BY <2>1
<1>3. Nearest(at, Len(t) + 1) = a
    BY <1>2 DEF Nearest
<1>4. /\ a \in 0..Len(s)
      /\ b \in Seq(A) /\ Len(b) = Len(s) - a
      /\ \A k \in 1..(Len(s) - a) : b[k] = s[a + k]
    BY <1>2, BeforeEnd
<1>5. /\ c \in Seq(A) /\ Len(c) = Len(t) - a
      /\ \A k \in 1..(Len(t) - a) : c[k] = t[a + k]
    <2>1. t \in Seq(A)
        BY <1>1
    <2> HIDE DEF t, a
    <2> QED
        BY <1>2, <1>3, <2>1, BeforeEnd
<1> HIDE DEF t, a, b, c
<1>6. /\ b \o v \in Seq(A)
      /\ Len(b \o v) = Len(t) - a
      /\ \A k \in 1..(Len(t) - a) : (b \o v)[k] = IF k <= Len(b) THEN b[k] ELSE v[k - Len(b)]
    <2>1. Len(b) + Len(v) = Len(t) - a
        BY <1>1, <1>4
    <2>2. /\ b \o v \in Seq(A)
          /\ Len(b \o v) = Len(b) + Len(v)
          /\ \A k \in 1..(Len(b) + Len(v)) : (b \o v)[k] = IF k <= Len(b) THEN b[k] ELSE v[k - Len(b)]
        BY <1>4, ConcatProperties
    <2> QED
        BY <2>1, <2>2
<1>7. ASSUME NEW k \in 1..(Len(t) - a)
      PROVE  c[k] = (b \o v)[k]
    <2>1. a + k \in 1..Len(t) /\ (a + k <= Len(s) <=> k <= Len(b)) /\ a + k - Len(s) = k - Len(b)
        BY <1>1, <1>4
    <2>2. c[k] = t[a + k]
        BY <1>5
    <2>3. t[a + k] = IF a + k <= Len(s) THEN s[a + k] ELSE v[a + k - Len(s)]
        BY <1>1, <1>4, <2>1
    <2>4. k <= Len(b) => b[k] = s[a + k]
        BY <1>1, <1>4
    <2> QED
        BY <1>6, <2>1, <2>2, <2>3, <2>4
<1> QED
    BY <1>5, <1>6, <1>7, SeqEqual DEF t, b, c

LEMMA BeforeCut ==
    ASSUME NEW s, NEW at \in SUBSET Nat, NEW i \in Nat, i > 1, i - 1 \in at
    PROVE  Before(s, at, i) = <<>>
<1>1. Nearest(at, i) = i - 1
    BY NearestBefore
<1> QED
    BY <1>1, SubSeqEmpty DEF Before

-----------------------------------------------------------------------------
(* The lines of a text, as it grows                                        *)

LEMMA PlacesIn ==
    ASSUME NEW A, NEW s \in Seq(A), NEW v \in Seq(A), NEW X
    PROVE  /\ Places(s, X) \in SUBSET (1..Len(s))
           /\ \A i \in 1..Len(s) : i \in Places(s \o v, X) <=> i \in Places(s, X)
           /\ \A i \in (Len(s) + 1)..(Len(s) + Len(v)) :
                  i \in Places(s \o v, X) <=> v[i - Len(s)] \in X
           /\ Places(s \o v, X) \in SUBSET (1..(Len(s) + Len(v)))
<1>1. /\ DOMAIN s = 1..Len(s) /\ DOMAIN (s \o v) = 1..(Len(s) + Len(v))
      /\ Len(s) \in Nat /\ Len(v) \in Nat
    BY LenProperties, ConcatProperties
<1>2. \A i \in 1..(Len(s) + Len(v)) : (s \o v)[i] = IF i <= Len(s) THEN s[i] ELSE v[i - Len(s)]
    BY ConcatProperties
<1> QED
    BY <1>1, <1>2 DEF Places

\* The places that end a line which the cap spares.
FullEnds(text) == {i \in LineEnds(text) : Fits(LineBefore(text, i))}

LEMMA LineKept ==
    ASSUME NEW B, NEW t \in Seq(B), NEW v \in Seq(B), NEW i \in 1..(Len(t) + 1)
    PROVE  LineBefore(t \o v, i) = LineBefore(t, i)
<1>1. /\ Places(t, Ends) \in SUBSET Nat /\ Places(t \o v, Ends) \in SUBSET Nat
      /\ 0 \notin Places(t, Ends) /\ 0 \notin Places(t \o v, Ends)
      /\ \A j \in 1..Len(t) : j \in Places(t, Ends) <=> j \in Places(t \o v, Ends)
    BY PlacesIn
<1> QED
    BY <1>1, BeforeKept DEF LineBefore

LEMMA LinesKept ==
    ASSUME NEW B, NEW t \in Seq(B), NEW v \in Seq(B), NEW i \in 1..Len(t)
    PROVE  /\ i \in LineEnds(t \o v) <=> i \in LineEnds(t)
           /\ LineBefore(t \o v, i) = LineBefore(t, i)
           /\ i \in FullEnds(t \o v) <=> i \in FullEnds(t)
<1>1. i \in Places(t \o v, Ends) <=> i \in Places(t, Ends)
    BY PlacesIn
<1>2. (t \o v)[i] = t[i] /\ (i > 1 => (t \o v)[i - 1] = t[i - 1])
    BY ConcatProperties
<1>3. i \in LineEnds(t \o v) <=> i \in LineEnds(t)
    BY <1>1, <1>2 DEF LineEnds
<1>4. LineBefore(t \o v, i) = LineBefore(t, i)
    <2>1. i \in 1..(Len(t) + 1)
        OBVIOUS
    <2> QED
        BY <2>1, LineKept
<1> QED
    BY <1>3, <1>4 DEF FullEnds

LEMMA LineType ==
    ASSUME NEW B, NEW t \in Seq(B), NEW i \in 1..(Len(t) + 1)
    PROVE  LineBefore(t, i) \in Seq(B)
<1>1. Places(t, Ends) \in SUBSET Nat
    BY PlacesIn
<1> QED
    BY <1>1, BeforeType DEF LineBefore

LEMMA LinesType ==
    ASSUME NEW B, NEW t \in Seq(B)
    PROVE  /\ LinesOf(t) \in Seq(Seq(B))
           /\ Remainder(t) \in Seq(B)
           /\ FullEnds(t) \in SUBSET (1..Len(t))
<1>1. FullEnds(t) \in SUBSET (1..Len(t)) /\ DOMAIN t = 1..Len(t)
    BY PlacesIn DEF FullEnds, LineEnds
<1> DEFINE P == [i \in DOMAIN t |-> LineBefore(t, i)]
<1>2. \A i \in FullEnds(t) : P[i] \in Seq(B)
    BY <1>1, LineType
<1>3. Pick(P, FullEnds(t)) \in Seq(Seq(B))
    <2>1. Len(t) \in Nat
        OBVIOUS
    <2> HIDE DEF P
    <2> QED
        BY <1>1, <1>2, <2>1, PickType
<1>4. Remainder(t) \in Seq(B)
    BY LineType DEF Remainder
<1> QED
    BY <1>1, <1>3, <1>4 DEF LinesOf, FullEnds

\* What LinesOf makes of more text, if at most one of its lines is new.
LEMMA LinesMore ==
    ASSUME NEW B, NEW t \in Seq(B), NEW v \in Seq(B)
    PROVE  /\ (\A i \in (Len(t) + 1)..(Len(t) + Len(v)) : i \notin FullEnds(t \o v))
                  => LinesOf(t \o v) = LinesOf(t)
           /\ \A m \in (Len(t) + 1)..(Len(t) + Len(v)) :
                  (\A i \in (Len(t) + 1)..(Len(t) + Len(v)) : i \in FullEnds(t \o v) <=> i = m)
                      => LinesOf(t \o v) = Append(LinesOf(t), LineBefore(t \o v, m))
<1> DEFINE w == t \o v
           n == Len(t)
           k == Len(t) + Len(v)
           P == [i \in DOMAIN t |-> LineBefore(t, i)]
           Q == [i \in DOMAIN w |-> LineBefore(w, i)]
           S == FullEnds(t)
           T == FullEnds(w)
<1>1. w \in Seq(B) /\ Len(w) = k /\ n \in Nat /\ k \in Nat /\ n <= k /\ DOMAIN w = 1..k /\ DOMAIN t = 1..n
    BY ConcatProperties, LenProperties
<1>2. S \in SUBSET (1..n) /\ T \in SUBSET (1..k)
    BY <1>1, LinesType
<1>3. \A i \in 1..n : i \in T <=> i \in S
    BY LinesKept
<1>4. \A i \in S : P[i] = Q[i]
    BY <1>1, <1>2, LinesKept
<1>5. LinesOf(t) = Pick(P, S) /\ LinesOf(w) = Pick(Q, T)
    BY DEF LinesOf, FullEnds
<1>6. \A i \in 1..k : Q[i] = LineBefore(w, i)
    BY <1>1
<1> HIDE DEF w, P, Q, S, T, n, k
<1>7. /\ (\A i \in (n + 1)..k : i \notin T) => Pick(Q, T) = Pick(P, S)
      /\ \A m \in (n + 1)..k :
             (\A i \in (n + 1)..k : i \in T <=> i = m) => Pick(Q, T) = Append(Pick(P, S), Q[m])
    <2>1. Grown(n, S, P, k, T, Q)
        BY <1>1, <1>2, <1>3, <1>4 DEF Grown
    <2> QED
        BY <2>1, PickGrown
<1>8. \A m \in (n + 1)..k : m \in 1..k
    BY <1>1
<1> QED
    BY <1>5, <1>6, <1>7, <1>8 DEF w, n, k, T

\* Bytes without a terminator end no line: they belong to the last one.
LEMMA PlainBytes ==
    ASSUME NEW B, NEW t \in Seq(B), NEW v \in Seq(B), \A i \in 1..Len(v) : v[i] \notin Ends
    PROVE  LinesOf(t \o v) = LinesOf(t) /\ Remainder(t \o v) = Remainder(t) \o v
<1>1. \A i \in (Len(t) + 1)..(Len(t) + Len(v)) : i \notin Places(t \o v, Ends)
    <2> TAKE i \in (Len(t) + 1)..(Len(t) + Len(v))
    <2>1. i - Len(t) \in 1..Len(v)
        BY LenProperties
    <2> QED
        BY <2>1, PlacesIn
<1>2. LinesOf(t \o v) = LinesOf(t)
    <2>1. \A i \in (Len(t) + 1)..(Len(t) + Len(v)) : i \notin FullEnds(t \o v)
        BY <1>1 DEF FullEnds, LineEnds
    <2> QED
        BY <2>1, LinesMore
<1>3. Places(t \o v, Ends) = Places(t, Ends) /\ Places(t, Ends) \in SUBSET (1..Len(t))
    <2>1. /\ Places(t, Ends) \in SUBSET (1..Len(t))
          /\ Places(t \o v, Ends) \in SUBSET (1..(Len(t) + Len(v)))
          /\ \A i \in 1..Len(t) : i \in Places(t \o v, Ends) <=> i \in Places(t, Ends)
        BY PlacesIn
    <2>2. \A i \in 1..(Len(t) + Len(v)) : i \in 1..Len(t) \/ i \in (Len(t) + 1)..(Len(t) + Len(v))
        BY LenProperties
    <2> QED
        BY <1>1, <2>1, <2>2
<1>4. Remainder(t \o v) = Remainder(t) \o v
    BY <1>3, BeforeMore DEF Remainder, LineBefore
<1> QED
    BY <1>2, <1>4

\* After a terminator no line has begun.
LEMMA LineOver ==
    ASSUME NEW B, NEW t \in Seq(B), t # <<>>, Last(t) \in Ends
    PROVE  Remainder(t) = <<>>
<1>1. Len(t) \in Places(t, Ends) /\ Len(t) \in Nat /\ Len(t) > 0
    BY LenProperties DEF Places, Last
<1>2. Places(t, Ends) \in SUBSET Nat /\ Len(t) + 1 - 1 \in Places(t, Ends) /\ Len(t) + 1 > 1 /\ Len(t) + 1 \in Nat
    BY <1>1, PlacesIn
<1> QED
    BY <1>2, BeforeCut DEF Remainder, LineBefore

\* The LF of a CRLF ends no line of its own.
LEMMA LateLf ==
    ASSUME NEW B, NEW t \in Seq(B), "LF" \in B, t # <<>>, Last(t) = "CR"
    PROVE  LinesOf(t \o <<"LF">>) = LinesOf(t) /\ Remainder(t \o <<"LF">>) = Remainder(t)
<1> DEFINE w == t \o <<"LF">>
<1>1. /\ <<"LF">> \in Seq(B) /\ Len(<<"LF">>) = 1 /\ w \in Seq(B) /\ Len(w) = Len(t) + 1
      /\ Len(t) \in Nat /\ Len(t) > 0
    BY ConcatProperties, LenProperties
<1>2. w[Len(t) + 1] = "LF" /\ w[Len(t)] = "CR"
    BY <1>1, ConcatProperties DEF Last
<1>3. LinesOf(w) = LinesOf(t)
    <2>1. Len(t) + 1 \notin LineEnds(w)
        BY <1>1, <1>2 DEF LineEnds
    <2>2. \A i \in (Len(t) + 1)..(Len(t) + Len(<<"LF">>)) : i \notin FullEnds(w)
        BY <1>1, <2>1 DEF FullEnds
    <2> QED
        BY <1>1, <2>2, LinesMore
<1>4. Remainder(w) = <<>> /\ Remainder(t) = <<>>
    <2>1. w # <<>> /\ Last(w) \in Ends /\ Last(t) \in Ends
        BY <1>1, <1>2 DEF Last, Ends
    <2> HIDE DEF w
    <2> QED
        BY <1>1, <2>1, LineOver
<1> QED
    BY <1>3, <1>4

\* A terminator ends the last line, unless it is the LF of a CRLF.
LEMMA Terminator ==
    ASSUME NEW B, NEW t \in Seq(B), NEW x \in Ends, x \in B,
           t # <<>> /\ Last(t) = "CR" => x # "LF"
    PROVE  /\ LinesOf(t \o <<x>>) =
                  IF Fits(Remainder(t)) THEN Append(LinesOf(t), Remainder(t)) ELSE LinesOf(t)
           /\ Remainder(t \o <<x>>) = <<>>
<1> DEFINE w == t \o <<x>>
           m == Len(t) + 1
<1>1. /\ <<x>> \in Seq(B) /\ Len(<<x>>) = 1 /\ w \in Seq(B) /\ Len(w) = m
      /\ Len(t) \in Nat
    BY ConcatProperties, LenProperties
<1>2. w[m] = x /\ (Len(t) > 0 => w[Len(t)] = Last(t))
    BY <1>1, ConcatProperties DEF Last
<1>3. m \in LineEnds(w)
    <2>1. m \in Places(w, Ends)
        BY <1>1, <1>2 DEF Places
    <2>2. m > 1 => t # <<>>
        BY <1>1
    <2>3. m - 1 = Len(t)
        BY <1>1
    <2> QED
        BY <1>1, <1>2, <2>1, <2>2, <2>3 DEF LineEnds
<1>4. LineBefore(w, m) = Remainder(t)
    <2>1. m \in 1..(Len(t) + 1)
        BY <1>1
    <2> QED
        BY <1>1, <2>1, LineKept DEF Remainder
<1>5. \A i \in (Len(t) + 1)..(Len(t) + Len(<<x>>)) : i = m
    BY <1>1
<1>6. m \in (Len(t) + 1)..(Len(t) + Len(<<x>>))
    BY <1>1
<1>7. m \in FullEnds(w) <=> Fits(Remainder(t))
    BY <1>3, <1>4 DEF FullEnds
<1>8. ~Fits(Remainder(t)) => LinesOf(w) = LinesOf(t)
    BY <1>1, <1>5, <1>7, LinesMore
<1>9. Fits(Remainder(t)) => LinesOf(w) = Append(LinesOf(t), LineBefore(w, m))
    BY <1>1, <1>5, <1>6, <1>7, LinesMore
<1>10. Remainder(w) = <<>>
    <2>1. w # <<>> /\ Last(w) \in Ends
        BY <1>1, <1>2 DEF Last
    <2> HIDE DEF w
    <2> QED
        BY <1>1, <2>1, LineOver
<1> QED
    BY <1>4, <1>8, <1>9, <1>10

-----------------------------------------------------------------------------
(* The events of some lines, as they grow                                  *)

LEMMA ValuesNone ==
    ASSUME NEW field
    PROVE  Values(<<>>, field) = <<>>
<1>1. {k \in DOMAIN <<>> : Head(<<>>[k]) = field} = {}
    OBVIOUS
<1> QED
    BY <1>1, PickNone DEF Values

LEMMA ValuesMore ==
    ASSUME NEW A, NEW g \in Seq(A), NEW l \in A, NEW field
    PROVE  Values(Append(g, l), field) =
               IF Head(l) = field THEN Append(Values(g, field), Tail(l)) ELSE Values(g, field)
<1> DEFINE w == Append(g, l)
           n == Len(g)
           k == n + 1
           P == [i \in DOMAIN g |-> Tail(g[i])]
           Q == [i \in DOMAIN w |-> Tail(w[i])]
           S == {i \in DOMAIN g : Head(g[i]) = field}
           T == {i \in DOMAIN w : Head(w[i]) = field}
<1>1. /\ n \in Nat /\ k \in Nat /\ n <= k /\ DOMAIN g = 1..n /\ DOMAIN w = 1..k
      /\ (\A i \in 1..n : w[i] = g[i]) /\ w[k] = l
    BY AppendProperties, LenProperties
<1>2. Values(g, field) = Pick(P, S) /\ Values(w, field) = Pick(Q, T)
    BY DEF Values
<1>3. k \in 1..k /\ (\A i \in 1..n : i \in 1..k) /\ (\A i \in k..k : i = k)
    BY <1>1
<1> HIDE DEF w, n, k
<1>4. Q[k] = Tail(l) /\ (k \in T <=> Head(l) = field)
    BY <1>1, <1>3
<1>5. Grown(n, S, P, k, T, Q)
    BY <1>1, <1>3 DEF Grown
<1> HIDE DEF P, Q, S, T
<1>6. n + 1 = k
    BY DEF k
<1>7. /\ (\A i \in k..k : i \notin T) => Pick(Q, T) = Pick(P, S)
      /\ \A m \in k..k : (\A i \in k..k : i \in T <=> i = m) => Pick(Q, T) = Append(Pick(P, S), Q[m])
    BY <1>1, <1>5, <1>6, PickGrown
<1>8. k \in k..k
    BY <1>1
<1> QED
    BY <1>2, <1>3, <1>4, <1>7, <1>8 DEF w

\* The lines gathered since the last blank one, and the blank ones that end an event.
Gathered(lines) == GroupBefore(lines, Len(lines) + 1)
Dispatches(lines) == {k \in Places(lines, {<<>>}) : EventOf(GroupBefore(lines, k)).data # <<>>}

LEMMA GroupKept ==
    ASSUME NEW A, NEW s \in Seq(A), NEW v \in Seq(A), NEW i \in 1..(Len(s) + 1)
    PROVE  GroupBefore(s \o v, i) = GroupBefore(s, i)
<1>1. /\ Places(s, {<<>>}) \in SUBSET Nat /\ Places(s \o v, {<<>>}) \in SUBSET Nat
      /\ 0 \notin Places(s, {<<>>}) /\ 0 \notin Places(s \o v, {<<>>})
      /\ \A j \in 1..Len(s) : j \in Places(s, {<<>>}) <=> j \in Places(s \o v, {<<>>})
    BY PlacesIn
<1> QED
    BY <1>1, BeforeKept DEF GroupBefore

LEMMA EventsMore ==
    ASSUME NEW A, NEW s \in Seq(A), NEW l \in A
    PROVE  EventsIn(s \o <<l>>) =
               IF l = <<>> /\ EventOf(Gathered(s)).data # <<>>
               THEN Append(EventsIn(s), EventOf(Gathered(s))) ELSE EventsIn(s)
<1> DEFINE v == <<l>>
           w == s \o v
           n == Len(s)
           k == n + 1
           P == [i \in DOMAIN s |-> EventOf(GroupBefore(s, i))]
           Q == [i \in DOMAIN w |-> EventOf(GroupBefore(w, i))]
           S == Dispatches(s)
           T == Dispatches(w)
<1>1. v \in Seq(A) /\ Len(v) = 1 /\ v[1] = l
    OBVIOUS
<1>2. /\ n \in Nat /\ k \in Nat /\ n <= k /\ DOMAIN s = 1..n /\ DOMAIN w = 1..k
    BY <1>1, ConcatProperties, LenProperties
<1>3. EventsIn(s) = Pick(P, S) /\ EventsIn(w) = Pick(Q, T)
    BY DEF EventsIn, Dispatches
<1>4. /\ k \in 1..k /\ (\A i \in 1..n : i \in 1..k /\ i \in 1..(Len(s) + 1)) /\ (\A i \in k..k : i = k)
      /\ k \in k..k /\ k - Len(s) = 1 /\ k \in (Len(s) + 1)..(Len(s) + 1) /\ k \in 1..(Len(s) + 1)
    BY <1>2
<1>5. \A i \in 1..k : GroupBefore(w, i) = GroupBefore(s, i)
    BY <1>1, <1>2, GroupKept
<1>6. /\ Places(s, {<<>>}) \in SUBSET (1..n) /\ Places(w, {<<>>}) \in SUBSET (1..k)
      /\ \A i \in 1..n : i \in Places(w, {<<>>}) <=> i \in Places(s, {<<>>})
      /\ k \in Places(w, {<<>>}) <=> l = <<>>
    <2> HIDE DEF v
    <2>1. /\ Places(s, {<<>>}) \in SUBSET (1..n) /\ Places(w, {<<>>}) \in SUBSET (1..(Len(s) + Len(v)))
          /\ \A i \in 1..n : i \in Places(w, {<<>>}) <=> i \in Places(s, {<<>>})
          /\ \A i \in (Len(s) + 1)..(Len(s) + Len(v)) : i \in Places(w, {<<>>}) <=> v[i - Len(s)] \in {<<>>}
        BY <1>1, PlacesIn
    <2> QED
        BY <1>1, <1>4, <2>1
<1> HIDE DEF v, w, n
<1>7. \A i \in 1..n : i \in T <=> i \in S
    BY <1>4, <1>5, <1>6 DEF Dispatches
<1>8. Grown(n, S, P, k, T, Q)
    <2>1. S \in SUBSET (1..n) /\ T \in SUBSET (1..k)
        BY <1>6 DEF Dispatches
    <2>2. \A i \in S : P[i] = Q[i]
        BY <1>2, <1>4, <1>5, <2>1
    <2> HIDE DEF S, T, P, Q
    <2> QED
        BY <1>2, <1>7, <2>1, <2>2 DEF Grown
<1>9. k \in T <=> l = <<>> /\ EventOf(Gathered(s)).data # <<>>
    BY <1>4, <1>5, <1>6 DEF Dispatches, Gathered, n
<1>10. Q[k] = EventOf(Gathered(s))
    BY <1>2, <1>4, <1>5 DEF Gathered, n
<1> HIDE DEF S, T, P, Q
<1>11. /\ (\A i \in k..k : i \notin T) => Pick(Q, T) = Pick(P, S)
       /\ \A m \in k..k : (\A i \in k..k : i \in T <=> i = m) => Pick(Q, T) = Append(Pick(P, S), Q[m])
    BY <1>2, <1>8, PickGrown
<1> QED
    BY <1>3, <1>4, <1>9, <1>10, <1>11 DEF w, v

LEMMA GatheredMore ==
    ASSUME NEW A, NEW s \in Seq(A), NEW l \in A
    PROVE  Gathered(s \o <<l>>) = IF l = <<>> THEN <<>> ELSE Append(Gathered(s), l)
<1> DEFINE v == <<l>>
           w == s \o v
           at == Places(s, {<<>>})
           more == Places(w, {<<>>})
<1>1. v \in Seq(A) /\ Len(v) = 1 /\ v[1] = l
    OBVIOUS
<1>2. Len(s) \in Nat /\ w \in Seq(A) /\ Len(w) = Len(s) + 1
    BY <1>1, ConcatProperties, LenProperties
<1> HIDE DEF v
<1>3. /\ at \in SUBSET (1..Len(s)) /\ more \in SUBSET (1..(Len(s) + 1))
      /\ \A i \in 1..Len(s) : i \in more <=> i \in at
      /\ Len(s) + 1 \in more <=> l = <<>>
    <2>1. /\ at \in SUBSET (1..Len(s)) /\ more \in SUBSET (1..(Len(s) + Len(v)))
          /\ \A i \in 1..Len(s) : i \in more <=> i \in at
          /\ \A i \in (Len(s) + 1)..(Len(s) + Len(v)) : i \in more <=> v[i - Len(s)] \in {<<>>}
        BY <1>1, PlacesIn
    <2>2. Len(s) + 1 \in (Len(s) + 1)..(Len(s) + 1) /\ Len(s) + 1 - Len(s) = 1
        BY <1>2
    <2> QED
        BY <1>1, <2>1, <2>2
<1>4. CASE l = <<>>
    <2>1. more \in SUBSET Nat /\ Len(w) + 1 \in Nat /\ Len(w) + 1 > 1 /\ Len(w) + 1 - 1 \in more
        BY <1>2, <1>3, <1>4
    <2> HIDE DEF w, more
    <2>2. Before(w, more, Len(w) + 1) = <<>>
        BY <2>1, BeforeCut
    <2> QED
        BY <1>4, <2>2 DEF Gathered, GroupBefore, w, v, more
<1>5. CASE l # <<>>
    <2>1. more = at
        <3>1. \A i \in 1..(Len(s) + 1) : i \in 1..Len(s) \/ i = Len(s) + 1
            BY <1>2
        <3> QED
            BY <1>3, <1>5, <3>1
    <2>2. Before(w, at, Len(w) + 1) = Before(s, at, Len(s) + 1) \o v
        BY <1>1, <1>3, BeforeMore
    <2>3. Before(s, at, Len(s) + 1) \in Seq(A)
        BY <1>3, BeforeEnd
    <2>4. Before(s, at, Len(s) + 1) \o v = Append(Before(s, at, Len(s) + 1), l)
        BY <2>3, AppendIsConcat DEF v
    <2> QED
        BY <1>5, <2>1, <2>2, <2>4 DEF Gathered, GroupBefore, w, v
<1> QED
    BY <1>4, <1>5

-----------------------------------------------------------------------------
(* Types                                                                   *)

LEMMA FirstAt ==
    ASSUME NEW A, NEW text \in Seq(A), NEW X, NEW f, f = First(text, X)
    PROVE  /\ f \in 0..Len(text)
           /\ f = 0 => \A i \in 1..Len(text) : text[i] \notin X
           /\ f # 0 => f \in 1..Len(text) /\ text[f] \in X /\ \A i \in 1..(f - 1) : text[i] \notin X
<1> DEFINE S == {i \in DOMAIN text : text[i] \in X}
<1>1. DOMAIN text = 1..Len(text) /\ Len(text) \in Nat
    BY LenProperties
<1>2. S \in SUBSET Nat
    BY <1>1
<1>3. (S = {} => Least(S) = 0) /\ (S # {} => Least(S) \in S /\ \A k \in S : Least(S) <= k)
    BY <1>2, LeastIsLeast
<1>4. f = Least(S)
    BY DEF First
<1>5. \A i \in 1..Len(text) : i \in S <=> text[i] \in X
    BY <1>1
<1>6. S \in SUBSET (1..Len(text))
    BY <1>1
<1> HIDE DEF S
<1>7. CASE S = {}
    BY <1>1, <1>3, <1>4, <1>5, <1>7
<1>8. CASE S # {}
    <2>1. f \in 1..Len(text) /\ f \in S /\ \A k \in S : f <= k
        BY <1>3, <1>4, <1>6, <1>8
    <2>2. \A i \in 1..(f - 1) : i \in 1..Len(text) /\ ~(f <= i)
        BY <1>1, <2>1
    <2> QED
        BY <1>1, <1>5, <2>1, <2>2
<1> QED
    BY <1>7, <1>8

LEMMA Suffix ==
    ASSUME NEW A, NEW s \in Seq(A), NEW j \in Nat \ {0}
    PROVE  SubSeq(s, j, Len(s)) \in Seq(A)
<1>1. \A i \in j..Len(s) : s[i] \in A
    BY LenProperties
<1> QED
    BY <1>1, LenProperties, SubSeqProperties

LEMMA Prefix ==
    ASSUME NEW A, NEW s \in Seq(A), NEW j \in Int, j <= Len(s)
    PROVE  SubSeq(s, 1, j) \in Seq(A)
<1>1. \A i \in 1..j : s[i] \in A
    BY LenProperties
<1> QED
    BY <1>1, SubSeqProperties

LEMMA Tags ==
    ASSUME NEW tag \in {Open, Close}
    PROVE  tag \in Seq(Bytes["think"]) /\ tag # <<>> /\ Len(tag) \in Nat \ {0}
BY TagsAssumption DEF Bytes

LEMMA TagTailType ==
    ASSUME NEW A, NEW text \in Seq(A), NEW tag \in {Open, Close}, NEW h, h = TagTail(text, tag)
    PROVE  /\ h \in 0..Len(text)
           /\ h < Len(tag)
           /\ \A k \in 1..(Len(tag) - 1) :
                  /\ k <= Len(text)
                  /\ SubSeq(text, Len(text) - k + 1, Len(text)) = SubSeq(tag, 1, k)
                  => k <= h
<1> DEFINE S == {k \in 1..(Len(tag) - 1) :
                     k <= Len(text) /\ SubSeq(text, Len(text) - k + 1, Len(text)) = SubSeq(tag, 1, k)}
           T == {0} \cup S
<1>1. Len(tag) \in Nat \ {0} /\ Len(text) \in Nat
    BY Tags, LenProperties
<1>2. T \in SUBSET (0..Len(text)) /\ T # {} /\ \A k \in T : k < Len(tag)
    BY <1>1
<1>3. h = Max(T)
    BY DEF TagTail
<1>4. \A k \in S : k \in T
    OBVIOUS
<1> HIDE DEF T
<1>5. h \in T /\ \A k \in T : k <= h
    BY <1>1, <1>2, <1>3, MaxIsGreatest
<1> QED
    BY <1>2, <1>4, <1>5

\* The type invariant is inductive once it says that the stripper has no cap.
TypeInv == TypeOK /\ (reader = "think" => ~over)

LEMMA TypeFacts ==
    TypeInv <=> /\ reader \in DOMAIN Bytes
                /\ sent \in Seq(Bytes[reader]) /\ chunk \in Seq(Bytes[reader]) /\ buf \in Seq(Bytes[reader])
                /\ over \in BOOLEAN /\ cr \in BOOLEAN /\ inThink \in BOOLEAN /\ eof \in BOOLEAN
                /\ reader # "think" => Len(buf) <= MaxLine
                /\ over => buf = <<>>
                /\ data \in Seq(Seq(Bytes["sse"]))
                /\ type \in Seq(Bytes["sse"])
                /\ reader = "think" => ~over
BY DEF TypeInv, TypeOK

LEMMA MessageTyped == Message \in Seq(Bytes["sse"])
BY DEF Message, Bytes

LEMMA TypeInit == Init => TypeInv
<1> SUFFICES ASSUME Init
             PROVE  TypeInv
    OBVIOUS
<1>1. <<>> \in Seq(Bytes[reader]) /\ <<>> \in Seq(Bytes["sse"]) /\ <<>> \in Seq(Seq(Bytes["sse"]))
      /\ Len(<<>>) <= MaxLine
    BY BoundsAssumption
<1> QED
    BY <1>1, MessageTyped, TypeFacts DEF Init

LEMMA TypeStep == TypeInv /\ [Next]_vars => TypeInv'
<1> SUFFICES ASSUME TypeInv, [Next]_vars
             PROVE  TypeInv'
    OBVIOUS
<1> DEFINE B == Bytes[reader]
<1>1. /\ sent \in Seq(B) /\ chunk \in Seq(B) /\ buf \in Seq(B)
      /\ over \in BOOLEAN /\ cr \in BOOLEAN /\ inThink \in BOOLEAN /\ eof \in BOOLEAN
      /\ reader \in DOMAIN Bytes
      /\ data \in Seq(Seq(Bytes["sse"])) /\ type \in Seq(Bytes["sse"])
    BY TypeFacts
<1>2. /\ reader # "think" => Len(buf) <= MaxLine
      /\ over => buf = <<>>
      /\ reader = "think" => ~over
    BY TypeFacts
<1>3. buf \o chunk \in Seq(B) /\ <<>> \in Seq(B) /\ Len(<<>>) <= MaxLine
    BY <1>1, ConcatProperties, BoundsAssumption
<1>4. reader' = reader
    BY DEF Next, vars, Arrive, SseLine, SseRest, SseEof, NdjsonLine, NdjsonRest, NdjsonEof,
           ThinkTag, ThinkRest, ThinkEof, KeepRest
<1> SUFFICES /\ sent' \in Seq(B) /\ chunk' \in Seq(B) /\ buf' \in Seq(B)
             /\ over' \in BOOLEAN /\ cr' \in BOOLEAN /\ inThink' \in BOOLEAN /\ eof' \in BOOLEAN
             /\ data' \in Seq(Seq(Bytes["sse"])) /\ type' \in Seq(Bytes["sse"])
             /\ reader # "think" => Len(buf') <= MaxLine
             /\ over' => buf' = <<>>
             /\ reader = "think" => ~over'
    BY <1>1, <1>4 DEF TypeInv, TypeOK
<1>5. ASSUME NEW c \in Chunks(reader), Arrive(c)
      PROVE  sent' \in Seq(B) /\ chunk' \in Seq(B)
    <2>1. PICK n \in 1..MaxChunk : c \in [1..n -> B]
        BY DEF Chunks
    <2>2. c \in Seq(B) /\ c # <<>>
        BY <2>1, BoundsAssumption
    <2> QED
        BY <1>1, <1>5, <2>2, ConcatProperties, HeadTailProperties DEF Arrive
<1>6. ASSUME NEW terminators, KeepRest(terminators)
      PROVE  /\ chunk' = <<>>
             /\ over' \in BOOLEAN
             /\ buf' \in Seq(B)
             /\ over' => buf' = <<>>
             /\ Len(buf') <= MaxLine
    <2>1. Len(buf \o chunk) \in Nat
        BY <1>3, LenProperties
    <2>2. (over' <=> over \/ TooLong(buf \o chunk)) /\ over' \in BOOLEAN
        BY <1>1, <1>6 DEF KeepRest
    <2>3. buf' = IF over' THEN <<>> ELSE buf \o chunk
        BY <1>6 DEF KeepRest
    <2>4. ~over' => Len(buf \o chunk) <= MaxLine
        BY <2>1, <2>2, BoundsAssumption DEF TooLong
    <2> QED
        BY <1>3, <1>6, <2>2, <2>3, <2>4 DEF KeepRest
<1>7. ASSUME NEW X
      PROVE  /\ First(chunk, X) \in 0..Len(chunk)
             /\ First(chunk, X) # 0 => Line(X) \in Seq(B)
    <2>1. First(chunk, X) \in 0..Len(chunk)
        BY <1>1, FirstAt
    <2>2. First(chunk, X) - 1 \in Int /\ First(chunk, X) - 1 <= Len(chunk)
        BY <1>1, <2>1, LenProperties
    <2>3. SubSeq(chunk, 1, First(chunk, X) - 1) \in Seq(B)
        BY <1>1, <2>2, Prefix
    <2> QED
        BY <1>1, <2>1, <2>3, ConcatProperties DEF Line
<1>8. CASE SseLine
    <2>1. EndLength \in 1..2
        BY DEF EndLength
    <2>2. First(chunk, Ends) + EndLength \in Nat \ {0}
        BY <1>1, <1>7, <2>1, LenProperties
    <2>3. chunk' \in Seq(B)
        BY <1>1, <1>8, <2>2, Suffix DEF SseLine
    <2>4. reader = "sse" /\ First(chunk, Ends) # 0
        BY <1>8 DEF SseLine
    <2>5. Line(Ends) \in Seq(Bytes["sse"])
        BY <1>7, <2>4
    <2>6. Line(Ends) # <<>> => Tail(Line(Ends)) \in Seq(Bytes["sse"])
        BY <2>5, HeadTailProperties
    <2>7. \/ UNCHANGED <<data, type, out>>
          \/ HandleLine(Line(Ends))
        BY <1>8 DEF SseLine
    <2>8. data' \in Seq(Seq(Bytes["sse"])) /\ type' \in Seq(Bytes["sse"])
        <3>1. CASE UNCHANGED <<data, type, out>>
            BY <1>1, <3>1
        <3>2. CASE HandleLine(Line(Ends)) /\ Line(Ends) = <<>>
            BY <3>2, MessageTyped DEF HandleLine
        <3>3. CASE HandleLine(Line(Ends)) /\ Line(Ends) # <<>>
            <4> DEFINE rest == Tail(Line(Ends))
            <4>1. rest \in Seq(Bytes["sse"])
                BY <2>6, <3>3
            <4>2. /\ data' = IF Head(Line(Ends)) = "d" THEN Append(data, rest) ELSE data
                  /\ type' = IF Head(Line(Ends)) = "e" THEN rest ELSE type
                BY <3>3 DEF HandleLine
            <4> HIDE DEF rest
            <4>3. Append(data, rest) \in Seq(Seq(Bytes["sse"]))
                BY <1>1, <4>1, AppendProperties
            <4> QED
                BY <1>1, <4>1, <4>2, <4>3
        <3> QED
            BY <2>7, <3>1, <3>2, <3>3
    <2>9. /\ buf' = <<>> /\ over' = FALSE /\ cr' \in BOOLEAN
          /\ sent' = sent /\ inThink' = inThink /\ eof' = eof
        BY <1>8 DEF SseLine
    <2> QED
        BY <1>1, <1>3, <2>3, <2>8, <2>9
<1>9. CASE NdjsonLine
    <2>1. First(chunk, {"LF"}) + 1 \in Nat \ {0}
        BY <1>1, <1>7, LenProperties
    <2>2. chunk' \in Seq(B)
        BY <1>1, <1>9, <2>1, Suffix DEF NdjsonLine
    <2>3. /\ buf' = <<>> /\ over' = FALSE
          /\ sent' = sent /\ inThink' = inThink /\ eof' = eof /\ cr' = cr /\ data' = data /\ type' = type
        BY <1>9 DEF NdjsonLine
    <2> QED
        BY <1>1, <1>3, <2>2, <2>3
<1>10. CASE ThinkTag
    <2> DEFINE tag == IF inThink THEN Close ELSE Open
               text == buf \o chunk
               i == Find(text, tag)
    <2>1. Len(tag) \in Nat \ {0}
        BY Tags
    <2>2. i \in Nat
        <3>1. {j \in DOMAIN text : Occurs(text, tag, j)} \in SUBSET Nat
            BY <1>3, LenProperties
        <3> QED
            BY <3>1, LeastIsLeast DEF Find
    <2>3. chunk' = SubSeq(text, i + Len(tag), Len(text))
        BY <1>10 DEF ThinkTag
    <2>4. text \in Seq(B)
        BY <1>3
    <2> HIDE DEF tag, text, i
    <2>5. chunk' \in Seq(B)
        <3>1. i + Len(tag) \in Nat \ {0}
            BY <2>1, <2>2
        <3> QED
            BY <2>3, <2>4, <3>1, Suffix
    <2>6. /\ buf' = <<>> /\ inThink' = ~inThink /\ sent' = sent /\ over' = over /\ cr' = cr
          /\ data' = data /\ type' = type /\ eof' = eof /\ reader = "think"
        BY <1>10 DEF ThinkTag
    <2> QED
        BY <1>1, <1>2, <1>3, <2>5, <2>6
<1>11. CASE ThinkRest
    <2> DEFINE tag == IF inThink THEN Close ELSE Open
               text == buf \o chunk
               visible == Len(text) - TagTail(text, tag)
    <2>1. tag \in {Open, Close} /\ Len(text) \in Nat
        BY <1>3, LenProperties
    <2>2. TagTail(text, tag) \in 0..Len(text)
        BY <1>3, <2>1, TagTailType
    <2>3. visible + 1 \in Nat \ {0}
        BY <2>1, <2>2
    <2>4. buf' = SubSeq(text, visible + 1, Len(text))
        BY <1>11 DEF ThinkRest
    <2>5. buf' \in Seq(B)
        BY <1>3, <2>3, <2>4, Suffix
    <2>6. /\ chunk' = <<>> /\ inThink' = inThink /\ sent' = sent /\ over' = over /\ cr' = cr
          /\ data' = data /\ type' = type /\ eof' = eof /\ reader = "think"
        BY <1>11 DEF ThinkRest
    <2> QED
        BY <1>1, <1>2, <1>3, <2>5, <2>6
<1>12. CASE \E c \in Chunks(reader) : Arrive(c)
    <2>1. PICK c \in Chunks(reader) : Arrive(c)
        BY <1>12
    <2>2. /\ sent' \in Seq(B) /\ chunk' \in Seq(B)
        BY <1>5, <2>1
    <2>3. /\ cr' = FALSE /\ buf' = buf /\ over' = over /\ inThink' = inThink
          /\ eof' = eof /\ data' = data /\ type' = type
        BY <2>1 DEF Arrive
    <2> QED
        BY <1>1, <1>2, <2>2, <2>3
<1>13. CASE SseRest \/ NdjsonRest
    <2>1. PICK terminators : KeepRest(terminators) /\ reader # "think"
        BY <1>13 DEF SseRest, NdjsonRest
    <2>2. /\ sent' = sent /\ cr' = cr /\ data' = data /\ type' = type /\ inThink' = inThink /\ eof' = eof
        BY <2>1 DEF KeepRest
    <2> QED
        BY <1>1, <1>3, <1>6, <2>1, <2>2
<1>14. CASE SseEof \/ NdjsonEof \/ ThinkEof
    <2>1. /\ sent' = sent /\ chunk' = chunk /\ over' = over /\ cr' = cr /\ inThink' = inThink
          /\ eof' = TRUE /\ data' = data /\ type' = type
          /\ buf' = buf \/ buf' = <<>>
        BY <1>14 DEF SseEof, NdjsonEof, ThinkEof
    <2> QED
        BY <1>1, <1>2, <1>3, <2>1
<1>15. CASE UNCHANGED vars
    BY <1>1, <1>2, <1>15 DEF vars
<1> QED
    BY <1>8, <1>9, <1>10, <1>11, <1>12, <1>13, <1>14, <1>15 DEF Next

\* Each buffer holds text of its kind, and the framers' is never longer than the cap,
\* whatever arrives: a peer that sends no terminator costs no memory.
THEOREM TypeCorrect == Spec => []TypeOK
<1>1. TypeInv => TypeOK
    BY DEF TypeInv
<1> QED
    BY <1>1, TypeInit, TypeStep, PTL DEF Spec

-----------------------------------------------------------------------------
(* The framers                                                             *)

\* It is all the same which two of three sequences are joined first.
JoinsAs(s, t, u) == s \o (t \o u) = (s \o t) \o u

LEMMA Associates ==
    ASSUME NEW A, NEW s \in Seq(A), NEW t \in Seq(A), NEW u \in Seq(A)
    PROVE  JoinsAs(s, t, u)
BY ConcatAssociative DEF JoinsAs

LEMMA PrefixIs ==
    ASSUME NEW A, NEW t \in Seq(A), NEW c \in Seq(A)
    PROVE  SubSeq(t \o c, 1, Len(t \o c) - Len(c)) = t
<1>1. Len(t \o c) - Len(c) = Len(t) /\ Len(t) \in Nat
    BY ConcatProperties, LenProperties
<1>2. SubSeq(t \o c, 1, Len(t)) = SubSeq(t, 1, Len(t))
    BY <1>1, SubSeqKept
<1> QED
    BY <1>1, <1>2, SubSeqFull

\* A sequence cut at one of its places.
LEMMA Cut ==
    ASSUME NEW A, NEW s \in Seq(A), NEW f \in 1..Len(s)
    PROVE  /\ SubSeq(s, 1, f - 1) \in Seq(A) /\ <<s[f]>> \in Seq(A) /\ SubSeq(s, f + 1, Len(s)) \in Seq(A)
           /\ Len(SubSeq(s, 1, f - 1)) = f - 1
           /\ \A i \in 1..(f - 1) : SubSeq(s, 1, f - 1)[i] = s[i]
           /\ s = SubSeq(s, 1, f - 1) \o (<<s[f]>> \o SubSeq(s, f + 1, Len(s)))
<1>1. f - 1 \in Int /\ f - 1 <= Len(s) /\ f + 1 \in Nat \ {0} /\ f - 1 \in 0..Len(s) /\ Len(s) \in Nat
      /\ f - 1 + 1 = f /\ 1 \in 1..(Len(s) + 1) /\ Len(s) \in (f - 1)..Len(s) /\ f - 1 \in (1 - 1)..Len(s)
      /\ Len(s) \in f..Len(s)
    OBVIOUS
<1>2. SubSeq(s, 1, f - 1) \in Seq(A) /\ <<s[f]>> \in Seq(A) /\ SubSeq(s, f + 1, Len(s)) \in Seq(A)
    BY <1>1, Prefix, Suffix
<1>3. \A i \in 1..(f - 1) : s[i] \in A
    BY <1>1
<1>4. Len(SubSeq(s, 1, f - 1)) = f - 1 /\ \A i \in 1..(f - 1) : SubSeq(s, 1, f - 1)[i] = s[i]
    BY <1>1, <1>3, SubSeqProperties
<1>5. SubSeq(s, 1, f - 1) \o SubSeq(s, f, Len(s)) = s
    BY <1>1, ConcatAdjacentSubSeq, SubSeqFull
<1>6. SubSeq(s, f, Len(s)) = <<s[f]>> \o SubSeq(s, f + 1, Len(s))
    BY <1>1, SubSeqRecursiveFirst
<1> QED
    BY <1>2, <1>4, <1>5, <1>6

\* What a framer's variables say of the text t that it has taken from the stream.
Framed(t) ==
    /\ t \in Seq(Bytes[reader])
    /\ sent = t \o chunk
    /\ over <=> ~Fits(Remainder(t))
    /\ buf = IF over THEN <<>> ELSE Remainder(t)
    /\ cr <=> chunk = <<>> /\ t # <<>> /\ Last(t) = "CR"
    /\ t # <<>> /\ Last(t) = "CR" /\ chunk # <<>> => Head(chunk) # "LF"
    /\ eof => chunk = <<>>
    /\ reader = "lines" =>
           out = IF eof /\ Remainder(t) # <<>> /\ Fits(Remainder(t))
                 THEN Append(LinesOf(t), Remainder(t)) ELSE LinesOf(t)
    /\ reader = "sse" =>
           /\ out = EventsIn(LinesOf(t))
           /\ data = EventOf(Gathered(LinesOf(t))).data
           /\ type = EventOf(Gathered(LinesOf(t))).event

FramesInv == reader # "think" => \E t \in Seq(Bytes[reader]) : Framed(t)

\* The step of the framers that all depends on: a terminator z after the bytes x
\* ends the line that buf and over stand for.
LEMMA LineOut ==
    ASSUME TypeInv, NEW t, Framed(t), reader # "think",
           NEW x \in Seq(Bytes[reader]), \A i \in 1..Len(x) : x[i] \notin Ends,
           NEW z \in Ends, NEW r \in Seq(Bytes[reader]), z \in Bytes[reader],
           chunk = x \o (<<z>> \o r)
    PROVE  /\ LinesOf((t \o x) \o <<z>>) =
                  IF over \/ TooLong(buf \o x) THEN LinesOf(t) ELSE Append(LinesOf(t), buf \o x)
           /\ Remainder((t \o x) \o <<z>>) = <<>>
           /\ (t \o x) \o <<z>> \in Seq(Bytes[reader])
<1> DEFINE B == Bytes[reader]
           p == t \o x
<1>1. t \in Seq(B) /\ p \in Seq(B) /\ p \o <<z>> \in Seq(B) /\ z \in B
    <2>1. t \in Seq(B)
        BY DEF Framed
    <2>3. <<z>> \in Seq(B)
        <3> HIDE DEF B
        <3>1. z \in B
            BY DEF B
        <3> QED
            BY <3>1
    <2>2. p \in Seq(B)
        BY <2>1, ConcatProperties
    <2> QED
        BY <2>1, <2>2, <2>3, ConcatProperties
<1>2. LinesOf(p) = LinesOf(t) /\ Remainder(p) = Remainder(t) \o x
    BY <1>1, PlainBytes
<1>3. p # <<>> /\ Last(p) = "CR" => z # "LF"
    <2>1. CASE x = <<>>
        <3>1. p = t /\ chunk = <<z>> \o r
            BY <1>1, <2>1, ConcatEmptySeq, ConcatProperties
        <3>2. chunk # <<>> /\ Head(chunk) = z
            BY <1>1, <3>1
        <3> QED
            BY <3>1, <3>2 DEF Framed
    <2>2. CASE x # <<>>
        <3>1. Len(x) \in 1..Len(x) /\ Len(t) \in Nat /\ Len(x) \in Nat
            BY <1>1, <2>2, EmptySeq, LenProperties
        <3>2. Len(p) = Len(t) + Len(x) /\ p[Len(t) + Len(x)] = x[Len(x)]
            BY <1>1, <3>1, ConcatProperties
        <3> QED
            BY <3>1, <3>2 DEF Last, Ends
    <2> QED
        BY <2>1, <2>2
<1>4. /\ LinesOf(p \o <<z>>) = IF Fits(Remainder(p)) THEN Append(LinesOf(p), Remainder(p)) ELSE LinesOf(p)
      /\ Remainder(p \o <<z>>) = <<>>
    <2> HIDE DEF p
    <2> QED
        BY <1>1, <1>3, Terminator
<1>5. Remainder(t) \in Seq(B) /\ Len(Remainder(t)) \in Nat /\ Len(x) \in Nat
    BY <1>1, LinesType, LenProperties
<1>6. CASE over
    <2>1. Len(Remainder(t)) > MaxLine
        BY <1>5, <1>6, BoundsAssumption DEF Framed, Fits
    <2>2. Len(Remainder(p)) = Len(Remainder(t)) + Len(x)
        BY <1>2, <1>5, ConcatProperties
    <2>3. ~Fits(Remainder(p))
        BY <1>5, <2>1, <2>2, BoundsAssumption DEF Fits
    <2> QED
        BY <1>1, <1>2, <1>4, <1>6, <2>3
<1>7. CASE ~over
    <2>1. buf = Remainder(t)
        BY <1>7 DEF Framed
    <2>2. Len(Remainder(p)) \in Nat
        BY <1>2, <1>5, ConcatProperties
    <2>3. Fits(Remainder(p)) <=> ~TooLong(buf \o x)
        BY <1>2, <2>1, <2>2, BoundsAssumption DEF Fits, TooLong
    <2> QED
        BY <1>1, <1>2, <1>4, <1>7, <2>1, <2>3
<1> QED
    BY <1>6, <1>7

\* The events dispatched and the fields gathered, once another line is handled.
LEMMA Handled ==
    ASSUME NEW A, NEW s \in Seq(A), NEW line \in A, HandleLine(line),
           out = EventsIn(s),
           data = EventOf(Gathered(s)).data,
           type = EventOf(Gathered(s)).event
    PROVE  /\ out' = EventsIn(Append(s, line))
           /\ data' = EventOf(Gathered(Append(s, line))).data
           /\ type' = EventOf(Gathered(Append(s, line))).event
<1> DEFINE g == Gathered(s)
           w == Append(s, line)
<1>1. w = s \o <<line>>
    BY AppendIsConcat
<1>2. EventsIn(w) = IF line = <<>> /\ EventOf(g).data # <<>> THEN Append(EventsIn(s), EventOf(g)) ELSE EventsIn(s)
    BY <1>1, EventsMore
<1>3. Gathered(w) = IF line = <<>> THEN <<>> ELSE Append(g, line)
    BY <1>1, GatheredMore
<1>4. EventOf(g) = [event |-> type, data |-> data]
    BY DEF EventOf
<1> HIDE DEF w
<1>5. CASE line = <<>>
    <2>1. EventOf(<<>>).data = <<>> /\ EventOf(<<>>).event = Message
        BY ValuesNone DEF EventOf
    <2> QED
        BY <1>2, <1>3, <1>4, <1>5, <2>1 DEF HandleLine, w
<1>6. CASE line # <<>>
    <2> HIDE DEF g
    <2>1. g \in Seq(A)
        <3>1. Places(s, {<<>>}) \in SUBSET Nat
            BY PlacesIn
        <3> QED
            BY <3>1, BeforeEnd DEF g, Gathered, GroupBefore
    <2>2. \A field : Values(Append(g, line), field) =
              IF Head(line) = field THEN Append(Values(g, field), Tail(line)) ELSE Values(g, field)
        BY <2>1, ValuesMore
    <2>3. EventOf(Gathered(w)).data = data'
        <3>1. data' = IF Head(line) = "d" THEN Append(data, Tail(line)) ELSE data
            BY <1>6 DEF HandleLine
        <3>2. data = Values(g, "d")
            BY DEF EventOf, g
        <3> QED
            BY <1>3, <1>6, <2>2, <3>1, <3>2 DEF EventOf
    <2>4. EventOf(Gathered(w)).event = type'
        <3> DEFINE e == Values(g, "e")
                   C == {Tail(a) : a \in A}
        <3>1. type' = IF Head(line) = "e" THEN Tail(line) ELSE type
            BY <1>6 DEF HandleLine
        <3>2. type = IF e = <<>> THEN Message ELSE Last(e)
            BY DEF EventOf, g
        <3>3. Values(Append(g, line), "e") = IF Head(line) = "e" THEN Append(e, Tail(line)) ELSE e
            BY <2>2
        <3>4. EventOf(Gathered(w)).event =
                  IF Values(Append(g, line), "e") = <<>> THEN Message ELSE Last(Values(Append(g, line), "e"))
            BY <1>3, <1>6 DEF EventOf
        <3>5. e \in Seq(C)
            <4> DEFINE P == [k \in DOMAIN g |-> Tail(g[k])]
                       at == {k \in DOMAIN g : Head(g[k]) = "e"}
            <4>1. at \in SUBSET (1..Len(g)) /\ Len(g) \in Nat /\ \A k \in at : P[k] \in C
                BY <2>1, LenProperties
            <4>2. e = Pick(P, at)
                BY DEF Values
            <4> HIDE DEF P, at, C
            <4> QED
                BY <4>1, <4>2, PickType
        <3>6. Tail(line) \in C
            OBVIOUS
        <3> HIDE DEF e, C
        <3>7. Append(e, Tail(line)) # <<>> /\ Last(Append(e, Tail(line))) = Tail(line)
            BY <3>5, <3>6, AppendProperties DEF Last
        <3> QED
            BY <3>1, <3>2, <3>3, <3>4, <3>7
    <2> QED
        BY <1>2, <1>6, <2>3, <2>4 DEF HandleLine, w
<1> QED
    BY <1>5, <1>6

LEMMA ArriveFrames ==
    ASSUME TypeInv, FramesInv, reader # "think", NEW c \in Chunks(reader), Arrive(c)
    PROVE  FramesInv'
<1> DEFINE B == Bytes[reader]
<1>1. PICK t \in Seq(B) : Framed(t)
    BY DEF FramesInv
<1>2. c \in Seq(B) /\ c # <<>> /\ Len(c) \in Nat
    <2>1. PICK n \in 1..MaxChunk : c \in [1..n -> B]
        BY DEF Chunks
    <2> QED
        BY <2>1, BoundsAssumption
<1>3. /\ chunk = <<>> /\ ~eof /\ ~eof' /\ reader' = reader /\ cr' = FALSE
      /\ sent' = sent \o c /\ buf' = buf /\ over' = over /\ out' = out /\ data' = data /\ type' = type
      /\ chunk' = IF cr /\ Head(c) = "LF" THEN Tail(c) ELSE c
    BY DEF Arrive, Waits
<1>4. sent = t
    BY <1>1, <1>3, ConcatEmptySeq DEF Framed
<1>5. CASE cr /\ Head(c) = "LF"
    <2> DEFINE u == t \o <<"LF">>
    <2>1. t # <<>> /\ Last(t) = "CR"
        BY <1>1, <1>5 DEF Framed
    <2>2. "LF" \in B /\ <<"LF">> \in Seq(B) /\ Tail(c) \in Seq(B)
        <3>1. Head(c) \in B /\ Tail(c) \in Seq(B)
            BY <1>2, HeadTailProperties
        <3> HIDE DEF B
        <3> QED
            BY <1>5, <3>1
    <2>3. LinesOf(u) = LinesOf(t) /\ Remainder(u) = Remainder(t)
        BY <2>1, <2>2, LateLf
    <2>4. c = <<"LF">> \o Tail(c)
        <3>1. 1 \in 1..Len(c) /\ Len(c) \in 1..Len(c) /\ Head(c) = c[1]
            BY <1>2, EmptySeq
        <3>2. SubSeq(c, 1, Len(c)) = <<c[1]>> \o SubSeq(c, 1 + 1, Len(c))
            BY <1>2, <3>1, SubSeqRecursiveFirst
        <3>3. Tail(c) = SubSeq(c, 2, Len(c)) /\ c = SubSeq(c, 1, Len(c))
            BY <1>2, TailIsSubSeq, SubSeqFull
        <3> QED
            BY <1>5, <3>1, <3>2, <3>3
    <2>5. u \in Seq(B) /\ sent' = u \o chunk'
        <3>1. u \in Seq(B)
            BY <2>2, ConcatProperties
        <3>2. (t \o <<"LF">>) \o Tail(c) = t \o (<<"LF">> \o Tail(c))
            <4> DEFINE lf == <<"LF">>
            <4>1. lf \in Seq(B)
                BY <2>2
            <4> HIDE DEF lf
            <4>2. Tail(c) \in Seq(B)
                BY <2>2
            <4> HIDE DEF B
            <4>3. JoinsAs(t, lf, Tail(c))
                BY <1>1, <4>1, <4>2, Associates
            <4> QED
                BY <4>3 DEF lf, JoinsAs
        <3>3. sent' = t \o c /\ chunk' = Tail(c)
            BY <1>3, <1>4, <1>5
        <3> QED
            BY <2>4, <3>1, <3>2, <3>3
    <2>6. u # <<>> /\ Last(u) = "LF"
        <3>1. Len(t) \in Nat /\ Len(u) = Len(t) + 1 /\ u[Len(t) + 1] = "LF"
            BY <1>1, <2>2, ConcatProperties, LenProperties
        <3> QED
            BY <3>1 DEF Last
    <2> HIDE DEF u
    <2>7. Framed(u)'
        BY <1>1, <1>3, <2>3, <2>5, <2>6 DEF Framed
    <2> QED
        BY <1>3, <2>5, <2>7 DEF FramesInv
<1>6. CASE ~(cr /\ Head(c) = "LF")
    <2>1. Framed(t)'
        BY <1>1, <1>2, <1>3, <1>4, <1>6 DEF Framed
    <2> QED
        BY <1>1, <1>3, <2>1 DEF FramesInv
<1> QED
    BY <1>5, <1>6

LEMMA RestFrames ==
    ASSUME TypeInv, FramesInv, reader # "think", NEW terminators, KeepRest(terminators),
           \A i \in 1..Len(chunk) : chunk[i] \notin Ends
    PROVE  FramesInv'
<1> DEFINE B == Bytes[reader]
<1>1. PICK t \in Seq(B) : Framed(t)
    BY DEF FramesInv
<1>2. PICK x \in Seq(B) : x = chunk
    BY TypeFacts
<1> DEFINE u == t \o x
<1>3. /\ x # <<>> /\ chunk' = <<>> /\ ~eof /\ ~eof' /\ reader' = reader /\ sent' = sent
      /\ cr' = cr /\ ~cr /\ out' = out /\ data' = data /\ type' = type
    BY <1>1, <1>2 DEF KeepRest, Framed
<1>4. /\ over' <=> over \/ TooLong(buf \o x)
      /\ buf' = IF over' THEN <<>> ELSE buf \o x
    BY <1>2 DEF KeepRest
<1>5. u \in Seq(B) /\ sent' = u \o chunk'
    BY <1>1, <1>2, <1>3, ConcatEmptySeq, ConcatProperties DEF Framed
<1>6. LinesOf(u) = LinesOf(t) /\ Remainder(u) = Remainder(t) \o x
    BY <1>1, <1>2, PlainBytes
<1>7. Last(u) # "CR"
    <2>1. Len(x) \in 1..Len(x) /\ Len(t) \in Nat /\ Len(x) \in Nat
        BY <1>2, <1>3, EmptySeq, LenProperties
    <2>2. Len(u) = Len(t) + Len(x) /\ u[Len(t) + Len(x)] = x[Len(x)]
        BY <1>1, <2>1, ConcatProperties
    <2> QED
        BY <1>2, <2>1, <2>2 DEF Last, Ends
<1>8. (over' <=> ~Fits(Remainder(u))) /\ (buf' = IF over' THEN <<>> ELSE Remainder(u))
    <2>1. Remainder(t) \in Seq(B) /\ Len(Remainder(t)) \in Nat /\ Len(x) \in Nat
        BY LinesType, LenProperties
    <2>2. Len(Remainder(u)) = Len(Remainder(t)) + Len(x)
        BY <1>6, <2>1, ConcatProperties
    <2>3. CASE over
        <3>1. Len(Remainder(t)) > MaxLine
            BY <1>1, <2>1, <2>3, BoundsAssumption DEF Framed, Fits
        <3> QED
            BY <1>4, <2>1, <2>2, <2>3, <3>1, BoundsAssumption DEF Fits
    <2>4. CASE ~over
        <3>1. buf = Remainder(t)
            BY <1>1, <2>4 DEF Framed
        <3> QED
            BY <1>4, <1>6, <2>1, <2>2, <2>4, <3>1, BoundsAssumption DEF Fits, TooLong
    <2> QED
        BY <2>3, <2>4
<1> HIDE DEF u
<1>9. Framed(u)'
    BY <1>1, <1>3, <1>5, <1>6, <1>7, <1>8 DEF Framed
<1> QED
    BY <1>3, <1>5, <1>9 DEF FramesInv

LEMMA NdjsonLineFrames ==
    ASSUME TypeInv, FramesInv, NdjsonLine
    PROVE  FramesInv'
<1> DEFINE B == Bytes[reader]
           f == First(chunk, {"LF"})
<1>1. reader = "lines" /\ f # 0
    BY DEF NdjsonLine
<1>2. PICK t \in Seq(B) : Framed(t)
    BY <1>1 DEF FramesInv
<1>3. chunk \in Seq(B) /\ B = {"LF", "x"}
    BY <1>1, TypeFacts DEF Bytes
<1>4. f \in 1..Len(chunk) /\ chunk[f] = "LF" /\ \A i \in 1..(f - 1) : chunk[i] \notin {"LF"}
    BY <1>1, <1>3, FirstAt
<1>5. PICK x \in Seq(B), r \in Seq(B) :
          /\ x = SubSeq(chunk, 1, f - 1) /\ r = SubSeq(chunk, f + 1, Len(chunk))
          /\ chunk = x \o (<<"LF">> \o r)
          /\ \A i \in 1..Len(x) : x[i] \notin Ends
    <2> HIDE DEF f
    <2>1. /\ SubSeq(chunk, 1, f - 1) \in Seq(B) /\ SubSeq(chunk, f + 1, Len(chunk)) \in Seq(B)
          /\ Len(SubSeq(chunk, 1, f - 1)) = f - 1
          /\ \A i \in 1..(f - 1) : SubSeq(chunk, 1, f - 1)[i] = chunk[i]
          /\ chunk = SubSeq(chunk, 1, f - 1) \o (<<chunk[f]>> \o SubSeq(chunk, f + 1, Len(chunk)))
        <3>1. chunk \in Seq(B) /\ f \in 1..Len(chunk)
            BY <1>3, <1>4
        <3> HIDE DEF B
        <3> QED
            BY <3>1, Cut
    <2>2. \A i \in 1..(f - 1) : chunk[i] \notin Ends
        <3>1. \A i \in 1..(f - 1) : i \in 1..Len(chunk)
            BY <1>3, <1>4, LenProperties
        <3> QED
            BY <1>3, <1>4, <3>1 DEF Ends
    <2> QED
        BY <1>4, <2>1, <2>2
<1> DEFINE u == (t \o x) \o <<"LF">>
<1>6. /\ LinesOf(u) = IF over \/ TooLong(buf \o x) THEN LinesOf(t) ELSE Append(LinesOf(t), buf \o x)
      /\ Remainder(u) = <<>>
      /\ u \in Seq(B)
    <2>1. "LF" \in Ends /\ "LF" \in B /\ reader # "think"
        BY <1>1, <1>3 DEF Ends
    <2> HIDE DEF u
    <2> QED
        BY <1>2, <1>5, <2>1, LineOut DEF u
<1>7. /\ ~eof /\ reader' = reader /\ sent' = sent /\ buf' = <<>> /\ ~over' /\ cr' = cr
      /\ eof' = eof /\ chunk' = r /\ chunk # <<>>
      /\ out' = IF over \/ TooLong(buf \o x) THEN out ELSE Append(out, buf \o x)
    <2>1. chunk # <<>>
        BY <1>3, <1>4, EmptySeq
    <2> QED
        BY <1>2, <1>5, <2>1 DEF NdjsonLine, Line, Framed
<1>8. sent' = u \o chunk'
    <2>1. <<"LF">> \in Seq(B) /\ t \o x \in Seq(B)
        BY <1>3, ConcatProperties
    <2>2. <<"LF">> \o r \in Seq(B)
        BY <2>1, ConcatProperties
    <2>3. t \o (x \o (<<"LF">> \o r)) = (t \o x) \o (<<"LF">> \o r)
        <3> DEFINE y == <<"LF">> \o r
        <3>1. y \in Seq(B)
            BY <2>2
        <3> HIDE DEF y
        <3>2. JoinsAs(t, x, y)
            BY <3>1, Associates
        <3> QED
            BY <3>2 DEF y, JoinsAs
    <2>4. (t \o x) \o (<<"LF">> \o r) = ((t \o x) \o <<"LF">>) \o r
        <3> DEFINE y == t \o x
                   z == <<"LF">>
        <3>1. y \in Seq(B) /\ z \in Seq(B)
            BY <2>1
        <3> HIDE DEF y, z
        <3>2. JoinsAs(y, z, r)
            BY <3>1, Associates
        <3> QED
            BY <3>2 DEF y, z, JoinsAs
    <2> QED
        BY <1>2, <1>5, <1>7, <2>3, <2>4 DEF Framed
<1>9. Last(u) = "LF" /\ u # <<>>
    <2>1. t \o x \in Seq(B) /\ <<"LF">> \in Seq(B) /\ Len(<<"LF">>) = 1 /\ <<"LF">>[1] = "LF"
        BY <1>3, ConcatProperties
    <2> DEFINE p == t \o x
    <2>2. Len(p) \in Nat /\ p \in Seq(B)
        BY <2>1, LenProperties
    <2> HIDE DEF p
    <2>3. Len(p \o <<"LF">>) = Len(p) + 1 /\ (p \o <<"LF">>)[Len(p) + 1] = "LF"
        BY <2>1, <2>2, ConcatProperties
    <2> QED
        BY <2>2, <2>3 DEF Last, p
<1>10. ~cr
    BY <1>2, <1>7 DEF Framed
<1> HIDE DEF u
<1>11. Fits(Remainder(u))
    BY <1>6, BoundsAssumption DEF Fits
<1>12. out = LinesOf(t)
    BY <1>1, <1>2, <1>7 DEF Framed
<1>13. Framed(u)'
    BY <1>1, <1>6, <1>7, <1>8, <1>9, <1>10, <1>11, <1>12 DEF Framed
<1> QED
    BY <1>6, <1>7, <1>13 DEF FramesInv

\* The rest of a sequence from one of its places on.
LEMMA SuffixAt ==
    ASSUME NEW A, NEW s \in Seq(A), NEW j \in 1..(Len(s) + 1)
    PROVE  /\ SubSeq(s, j, Len(s)) \in Seq(A)
           /\ Len(SubSeq(s, j, Len(s))) = Len(s) - j + 1
           /\ SubSeq(s, j, Len(s)) = <<>> <=> j = Len(s) + 1
           /\ j <= Len(s) => Head(SubSeq(s, j, Len(s))) = s[j]
<1>1. Len(s) \in Nat /\ j \in Int /\ Len(s) \in Int /\ \A i \in j..Len(s) : s[i] \in A
    BY LenProperties
<1> DEFINE w == SubSeq(s, j, Len(s))
<1>2. /\ w \in Seq(A) /\ Len(w) = (IF j <= Len(s) THEN Len(s) - j + 1 ELSE 0)
      /\ \A i \in 1..(Len(s) - j + 1) : w[i] = s[j + i - 1]
    BY <1>1, SubSeqProperties
<1>3. w = <<>> <=> Len(w) = 0
    BY <1>2, EmptySeq
<1>4. j <= Len(s) => w[1] = s[j]
    BY <1>1, <1>2
<1> HIDE DEF w
<1>5. Head(w) = w[1]
    OBVIOUS
<1> QED
    BY <1>1, <1>2, <1>3, <1>4, <1>5 DEF w

LEMMA OneMore ==
    ASSUME NEW A, NEW s \in Seq(A), NEW z \in A
    PROVE  /\ s \o <<z>> \in Seq(A) /\ s \o <<z>> # <<>> /\ Last(s \o <<z>>) = z
           /\ Len(s \o <<z>>) = Len(s) + 1
<1>1. s \o <<z>> = Append(s, z)
    BY AppendIsConcat
<1>2. /\ Append(s, z) \in Seq(A) /\ Append(s, z) # <<>> /\ Len(Append(s, z)) = Len(s) + 1
      /\ Append(s, z)[Len(s) + 1] = z
    BY AppendProperties
<1> QED
    BY <1>1, <1>2 DEF Last

\* What taking a chunk's first terminator, e bytes at place f, leaves of the chunk.
TakesEnd(B, p, c, x, f, e) ==
    LET u == (p \o x) \o <<c[f]>>
        v == IF e = 1 THEN u ELSE u \o <<"LF">>
        w == SubSeq(c, f + e, Len(c))
    IN /\ e = IF c[f] = "CR" /\ f < Len(c) /\ c[f + 1] = "LF" THEN 2 ELSE 1
       /\ c = x \o (<<c[f]>> \o SubSeq(c, f + 1, Len(c)))
       => /\ v \in Seq(B) /\ v # <<>> /\ w \in Seq(B)
          /\ p \o c = v \o w
          /\ e = 2 => "LF" \in B /\ u \in Seq(B) /\ u # <<>> /\ Last(u) = "CR"
          /\ (w = <<>> /\ Last(c) = "CR") <=> (w = <<>> /\ Last(v) = "CR")
          /\ Last(v) = "CR" /\ w # <<>> => Head(w) # "LF"

LEMMA TakesTerminator ==
    ASSUME NEW B
    PROVE  \A p, c, x \in Seq(B) : \A f \in 1..Len(c) : \A e : TakesEnd(B, p, c, x, f, e)
<1> TAKE p, c, x \in Seq(B)
<1> TAKE f \in 1..Len(c)
<1> TAKE e
<1> DEFINE u == (p \o x) \o <<c[f]>>
           v == IF e = 1 THEN u ELSE u \o <<"LF">>
           w == SubSeq(c, f + e, Len(c))
           z == <<c[f]>>
           r == SubSeq(c, f + 1, Len(c))
           l == <<"LF">>
<1>1. SUFFICES ASSUME e = (IF c[f] = "CR" /\ f < Len(c) /\ c[f + 1] = "LF" THEN 2 ELSE 1),
                      c = x \o (z \o r)
               PROVE  /\ v \in Seq(B) /\ v # <<>> /\ w \in Seq(B)
                      /\ p \o c = v \o w
                      /\ e = 2 => "LF" \in B /\ u \in Seq(B) /\ u # <<>> /\ Last(u) = "CR"
                      /\ (w = <<>> /\ Last(c) = "CR") <=> (w = <<>> /\ Last(v) = "CR")
                      /\ Last(v) = "CR" /\ w # <<>> => Head(w) # "LF"
    BY DEF TakesEnd
<1>2. f \in Nat /\ Len(c) \in Nat /\ f <= Len(c) /\ f + 1 \in 1..(Len(c) + 1)
    OBVIOUS
<1>3. c[f] \in B /\ z \in Seq(B) /\ p \o x \in Seq(B)
    BY <1>2, ConcatProperties
<1>4. /\ r \in Seq(B) /\ (r = <<>> <=> f = Len(c)) /\ (f < Len(c) => Head(r) = c[f + 1])
    BY <1>2, SuffixAt, SMTT(30)
<1>5. u \in Seq(B) /\ u # <<>> /\ Last(u) = c[f]
    BY <1>3, OneMore
<1> HIDE DEF r
<1>6. p \o c = u \o r
    <2> HIDE DEF z
    <2>1. p \o c = ((p \o x) \o z) \o r
        <3>1. p \o (x \o (z \o r)) = ((p \o x) \o z) \o r
            <4>1. z \in Seq(B) /\ r \in Seq(B)
                BY <1>3, <1>4
            <4> HIDE DEF z
            <4> DEFINE y == z \o r
                       q == p \o x
            <4>2. y \in Seq(B) /\ q \in Seq(B)
                BY <1>3, <4>1, ConcatProperties
            <4> HIDE DEF y, q, u, v, w, l
            <4>3. p \o (x \o y) = (p \o x) \o y
                <5>1. JoinsAs(p, x, y)
                    BY <4>2, Associates
                <5> QED
                    BY <5>1 DEF JoinsAs
            <4>5. q \o (z \o r) = (q \o z) \o r
                <5>1. JoinsAs(q, z, r)
                    BY <4>1, <4>2, Associates
                <5> QED
                    BY <5>1 DEF JoinsAs
            <4> QED
                BY <4>3, <4>5 DEF y, q
        <3>2. c = x \o (z \o r)
            BY <1>1 DEF z, r
        <3> QED
            BY <3>1, <3>2, Zenon
    <2> QED
        BY <2>1 DEF z
<1>7. CASE e = 1
    <2>1. w = r /\ v = u
        BY <1>7 DEF r
    <2> HIDE DEF u, v, w
    <2> QED
        BY <1>1, <1>2, <1>4, <1>5, <1>6, <1>7, <2>1 DEF Last
<1>8. CASE e = 2
    <2>1. c[f] = "CR" /\ f < Len(c) /\ c[f + 1] = "LF" /\ "LF" \in B /\ f + 2 \in 1..(Len(c) + 1)
        <3>1. c[f] = "CR" /\ f < Len(c) /\ c[f + 1] = "LF"
            BY <1>1, <1>8
        <3> QED
            BY <1>2, <3>1
    <2>2. w = SubSeq(c, f + 2, Len(c)) /\ v = u \o l
        BY <1>8
    <2>3. w \in Seq(B) /\ (w = <<>> => Len(c) = f + 1)
        <3>1. SubSeq(c, f + 2, Len(c)) \in Seq(B) /\ (SubSeq(c, f + 2, Len(c)) = <<>> <=> f + 2 = Len(c) + 1)
            BY <2>1, SuffixAt
        <3> HIDE DEF w
        <3> QED
            BY <1>2, <2>2, <3>1
    <2>4. v \in Seq(B) /\ v # <<>> /\ Last(v) = "LF" /\ l \in Seq(B)
        <3>1. l \in Seq(B)
            <4>1. PICK y \in B : y = "LF"
                BY <2>1
            <4> QED
                BY <4>1
        <3> HIDE DEF u, v, w
        <3>2. u \o <<"LF">> \in Seq(B) /\ u \o <<"LF">> # <<>> /\ Last(u \o <<"LF">>) = "LF"
            BY <1>5, <2>1, OneMore
        <3> QED
            BY <2>2, <3>1, <3>2
    <2>5. r = l \o w
        <3>1. f + 1 \in 1..Len(c) /\ Len(c) \in (f + 1)..Len(c) /\ (f + 1) + 1 = f + 2
            BY <1>2, <2>1
        <3>2. SubSeq(c, f + 1, Len(c)) = <<c[f + 1]>> \o SubSeq(c, (f + 1) + 1, Len(c))
            BY <3>1, SubSeqRecursiveFirst
        <3> QED
            BY <2>1, <2>2, <3>1, <3>2 DEF r
    <2> HIDE DEF u, v, w, l
    <2>6. p \o c = v \o w
        <3>1. u \o (l \o w) = (u \o l) \o w
            <4>1. u \in Seq(B) /\ l \in Seq(B) /\ w \in Seq(B)
                BY <1>5, <2>3, <2>4
            <4>2. JoinsAs(u, l, w)
                BY <4>1, Associates
            <4> QED
                BY <4>2 DEF JoinsAs
        <3> QED
            BY <1>6, <2>2, <2>5, <3>1
    <2> QED
        BY <1>1, <1>2, <1>5, <1>8, <2>1, <2>3, <2>4, <2>6 DEF Last
<1> QED
    BY <1>1, <1>7, <1>8

LEMMA SseLineFrames ==
    ASSUME TypeInv, FramesInv, SseLine
    PROVE  FramesInv'
<1> DEFINE B == Bytes[reader]
           f == First(chunk, Ends)
<1>1. reader = "sse" /\ reader' = reader /\ f # 0
    BY DEF SseLine
<1>2. PICK t \in Seq(B) : Framed(t)
    BY <1>1 DEF FramesInv
<1>3. chunk \in Seq(B) /\ Ends \subseteq B
    BY <1>1, TypeFacts DEF Bytes, Ends
<1>4. f \in 1..Len(chunk) /\ chunk[f] \in Ends /\ \A i \in 1..(f - 1) : chunk[i] \notin Ends
    BY <1>1, <1>3, FirstAt
<1>5. PICK x \in Seq(B), r \in Seq(B) :
          /\ x = SubSeq(chunk, 1, f - 1) /\ r = SubSeq(chunk, f + 1, Len(chunk))
          /\ chunk = x \o (<<chunk[f]>> \o r)
          /\ \A i \in 1..Len(x) : x[i] \notin Ends
    <2> HIDE DEF f
    <2>1. /\ SubSeq(chunk, 1, f - 1) \in Seq(B) /\ SubSeq(chunk, f + 1, Len(chunk)) \in Seq(B)
          /\ Len(SubSeq(chunk, 1, f - 1)) = f - 1
          /\ \A i \in 1..(f - 1) : SubSeq(chunk, 1, f - 1)[i] = chunk[i]
          /\ chunk = SubSeq(chunk, 1, f - 1) \o (<<chunk[f]>> \o SubSeq(chunk, f + 1, Len(chunk)))
        <3>1. chunk \in Seq(B) /\ f \in 1..Len(chunk)
            BY <1>3, <1>4
        <3> HIDE DEF B
        <3> QED
            BY <3>1, Cut
    <2> QED
        BY <1>4, <2>1
<1> DEFINE e == EndLength
           u == (t \o x) \o <<chunk[f]>>
           v == IF e = 1 THEN u ELSE u \o <<"LF">>
           w == SubSeq(chunk, f + e, Len(chunk))
<1>6. /\ LinesOf(u) = IF over \/ TooLong(buf \o x) THEN LinesOf(t) ELSE Append(LinesOf(t), buf \o x)
      /\ Remainder(u) = <<>>
      /\ u \in Seq(B)
    <2>1. PICK y \in Ends : y = chunk[f]
        BY <1>4
    <2>2. y \in B /\ reader # "think"
        BY <1>1, <1>3, <2>1
    <2>3. chunk = x \o (<<y>> \o r) /\ u = (t \o x) \o <<y>>
        BY <1>5, <2>1
    <2> HIDE DEF u, f
    <2> QED
        BY <1>2, <1>5, <2>2, <2>3, LineOut
<1>7. /\ v \in Seq(B) /\ v # <<>> /\ w \in Seq(B)
      /\ t \o chunk = v \o w
      /\ e = 2 => "LF" \in B /\ u \in Seq(B) /\ u # <<>> /\ Last(u) = "CR"
      /\ (w = <<>> /\ Last(chunk) = "CR") <=> (w = <<>> /\ Last(v) = "CR")
      /\ Last(v) = "CR" /\ w # <<>> => Head(w) # "LF"
    <2>1. e = IF chunk[f] = "CR" /\ f < Len(chunk) /\ chunk[f + 1] = "LF" THEN 2 ELSE 1
        BY DEF EndLength
    <2>2. chunk = x \o (<<chunk[f]>> \o SubSeq(chunk, f + 1, Len(chunk)))
        BY <1>5
    <2>3. t \in Seq(B) /\ chunk \in Seq(B) /\ x \in Seq(B) /\ f \in 1..Len(chunk)
        BY <1>3, <1>4
    <2> HIDE DEF B, e, f
    <2>4. TakesEnd(B, t, chunk, x, f, e)
        BY <2>3, TakesTerminator
    <2> QED
        BY <2>1, <2>2, <2>4 DEF TakesEnd
<1>8. e \in {1, 2}
    BY DEF EndLength
<1>9. LinesOf(v) = LinesOf(u) /\ Remainder(v) = Remainder(u)
    <2> HIDE DEF e, u, B
    <2>1. CASE e = 2
        BY <1>7, <2>1, LateLf
    <2> QED
        BY <1>8, <2>1
<1>10. /\ ~eof /\ ~eof' /\ sent' = sent /\ buf' = <<>> /\ ~over' /\ chunk' = w
       /\ cr' <=> w = <<>> /\ Last(chunk) = "CR"
       /\ IF over \/ TooLong(buf \o x) THEN UNCHANGED <<data, type, out>> ELSE HandleLine(buf \o x)
    <2>1. chunk # <<>>
        BY <1>3, <1>4, EmptySeq
    <2>2. Line(Ends) = buf \o x
        BY <1>5 DEF Line
    <2>3. ~eof
        BY <1>2, <2>1 DEF Framed
    <2> QED
        BY <2>2, <2>3 DEF SseLine
<1>11. /\ out = EventsIn(LinesOf(t))
       /\ data = EventOf(Gathered(LinesOf(t))).data
       /\ type = EventOf(Gathered(LinesOf(t))).event
    BY <1>1, <1>2 DEF Framed
<1>12. /\ out' = EventsIn(LinesOf(v))
       /\ data' = EventOf(Gathered(LinesOf(v))).data
       /\ type' = EventOf(Gathered(LinesOf(v))).event
    <2> HIDE DEF u, v
    <2>1. CASE over \/ TooLong(buf \o x)
        BY <1>6, <1>9, <1>10, <1>11, <2>1
    <2>2. CASE ~(over \/ TooLong(buf \o x))
        <3>1. PICK line \in Seq(B) : line = buf \o x
            BY <1>5, TypeFacts, ConcatProperties
        <3>2. HandleLine(line)
            BY <1>10, <2>2, <3>1
        <3>3. LinesOf(t) \in Seq(Seq(B))
            BY LinesType
        <3>4. LinesOf(v) = Append(LinesOf(t), line)
            BY <1>6, <1>9, <2>2, <3>1
        <3> HIDE DEF B
        <3> QED
            BY <1>11, <3>2, <3>3, <3>4, Handled
    <2> QED
        BY <2>1, <2>2
<1>13. sent' = v \o w
    BY <1>2, <1>7, <1>10 DEF Framed
<1>14. Fits(Remainder(v)) /\ Remainder(v) = <<>>
    BY <1>6, <1>9, BoundsAssumption DEF Fits
<1> HIDE DEF u, v, w, e, f
<1>15. PICK y \in Seq(B) : y = v
    BY <1>7
<1>16. Framed(y)'
    BY <1>1, <1>7, <1>10, <1>12, <1>13, <1>14, <1>15 DEF Framed
<1> QED
    BY <1>1, <1>15, <1>16 DEF FramesInv

LEMMA EofFrames ==
    ASSUME TypeInv, FramesInv, SseEof \/ NdjsonEof
    PROVE  FramesInv'
<1>1. /\ reader # "think" /\ chunk = <<>> /\ ~eof /\ eof' /\ UNCHANGED <<reader, sent, chunk, buf, over, cr, data, type>>
      /\ reader = "sse" => out' = out
      /\ reader = "lines" => out' = IF buf = <<>> THEN out ELSE Append(out, buf)
    BY DEF SseEof, NdjsonEof, Waits
<1>2. PICK t \in Seq(Bytes[reader]) : Framed(t)
    BY <1>1 DEF FramesInv
<1>3. reader = "lines" =>
          out' = IF Remainder(t) # <<>> /\ Fits(Remainder(t)) THEN Append(LinesOf(t), Remainder(t)) ELSE LinesOf(t)
    BY <1>1, <1>2 DEF Framed
<1>4. Framed(t)'
    BY <1>1, <1>2, <1>3 DEF Framed
<1> QED
    BY <1>1, <1>2, <1>4 DEF FramesInv

\* No byte of a chunk without a terminator for its reader is one.
LEMMA NoTerminator ==
    ASSUME TypeInv, NEW terminators, First(chunk, terminators) = 0,
           (reader = "sse" /\ terminators = Ends) \/ (reader = "lines" /\ terminators = {"LF"})
    PROVE  \A i \in 1..Len(chunk) : chunk[i] \notin Ends
<1>1. chunk \in Seq(Bytes[reader])
    BY TypeFacts
<1>2. \A i \in 1..Len(chunk) : chunk[i] \notin terminators
    BY <1>1, FirstAt
<1>3. CASE reader = "lines"
    <2>1. \A i \in 1..Len(chunk) : chunk[i] \in {"LF", "x"}
        BY <1>1, <1>3 DEF Bytes
    <2> QED
        BY <1>2, <1>3, <2>1 DEF Ends
<1> QED
    BY <1>2, <1>3

LEMMA FramesStep == TypeInv /\ FramesInv /\ [Next]_vars => FramesInv'
<1> SUFFICES ASSUME TypeInv, FramesInv, [Next]_vars
             PROVE  FramesInv'
    OBVIOUS
<1>1. reader' = reader
    BY DEF Next, vars, Arrive, SseLine, SseRest, SseEof, NdjsonLine, NdjsonRest, NdjsonEof, KeepRest,
           ThinkTag, ThinkRest, ThinkEof
<1>2. CASE reader = "think"
    BY <1>1, <1>2 DEF FramesInv
<1>3. CASE reader # "think"
    <2>1. CASE \E c \in Chunks(reader) : Arrive(c)
        BY <1>3, <2>1, ArriveFrames
    <2>2. CASE SseRest
        <3>1. reader = "sse" /\ KeepRest(Ends) /\ First(chunk, Ends) = 0
            BY <2>2 DEF SseRest, KeepRest
        <3>2. \A i \in 1..Len(chunk) : chunk[i] \notin Ends
            BY <3>1, NoTerminator
        <3> QED
            BY <1>3, <3>1, <3>2, RestFrames
    <2>5. CASE NdjsonRest
        <3>1. reader = "lines" /\ KeepRest({"LF"}) /\ First(chunk, {"LF"}) = 0
            BY <2>5 DEF NdjsonRest, KeepRest
        <3>2. \A i \in 1..Len(chunk) : chunk[i] \notin Ends
            BY <3>1, NoTerminator
        <3> QED
            BY <1>3, <3>1, <3>2, RestFrames
    <2>3. CASE UNCHANGED vars
        <3>1. PICK t \in Seq(Bytes[reader]) : Framed(t)
            BY <1>3 DEF FramesInv
        <3>2. Framed(t)'
            BY <2>3, <3>1 DEF Framed, vars
        <3> QED
            BY <1>1, <3>1, <3>2 DEF FramesInv
    <2>4. ~ThinkTag /\ ~ThinkRest /\ ~ThinkEof
        BY <1>3 DEF ThinkTag, ThinkRest, ThinkEof
    <2> QED
        BY <2>1, <2>2, <2>3, <2>4, <2>5, SseLineFrames, NdjsonLineFrames, EofFrames DEF Next
<1> QED
    BY <1>2, <1>3

LEMMA NothingFramed ==
    LinesOf(<<>>) = <<>> /\ Remainder(<<>>) = <<>> /\ EventsIn(<<>>) = <<>> /\ Gathered(<<>>) = <<>>
<1>1. Len(<<>>) = 0 /\ DOMAIN <<>> = {} /\ <<>> \in Seq({})
    OBVIOUS
<1>2. \A items : Places(<<>>, items) = {}
    BY <1>1 DEF Places
<1>3. {i \in LineEnds(<<>>) : Fits(LineBefore(<<>>, i))} = {}
    BY <1>2 DEF LineEnds
<1>4. {k \in Places(<<>>, {<<>>}) : EventOf(GroupBefore(<<>>, k)).data # <<>>} = {}
    BY <1>2
<1>5. \A at \in SUBSET Nat : Before(<<>>, at, 1) = <<>>
    <2> SUFFICES ASSUME NEW at \in SUBSET Nat
                 PROVE  Before(<<>>, at, 1) = <<>>
        OBVIOUS
    <2>1. Nearest(at, 1) \in 0..(1 - 1)
        BY NearestBefore
    <2>2. Nearest(at, 1) + 1 = 1 /\ 1 - 1 = 0
        BY <2>1
    <2>3. SubSeq(<<>>, 1, 0) = <<>>
        BY SubSeqEmpty
    <2> QED
        BY <2>2, <2>3 DEF Before
<1>6. LinesOf(<<>>) = <<>>
    BY <1>3, PickNone DEF LinesOf
<1>7. EventsIn(<<>>) = <<>>
    BY <1>4, PickNone DEF EventsIn
<1>8. Before(<<>>, {}, 1) = <<>>
    BY <1>5
<1>9. Remainder(<<>>) = <<>> /\ Gathered(<<>>) = <<>>
    <2>1. Len(<<>>) + 1 = 1
        BY <1>1
    <2> QED
        BY <1>2, <1>8, <2>1 DEF Remainder, Gathered, LineBefore, GroupBefore
<1> QED
    BY <1>6, <1>7, <1>9

\* "Boundaries need not align with lines, CRLFs, or events", for streams of any
\* bytes, cut into any chunks, under any cap: once a chunk is taken, what the framer
\* put out is what the bytes that arrived hold.
THEOREM Frames == Spec => []FramesTheBytes
<1>1. Init => TypeInv /\ FramesInv
    <2> SUFFICES ASSUME Init
                 PROVE  TypeInv /\ FramesInv
        OBVIOUS
    <2>1. TypeInv /\ <<>> \in Seq(Bytes[reader])
        BY TypeInit
    <2>2. /\ LinesOf(<<>>) = <<>> /\ Remainder(<<>>) = <<>> /\ Fits(<<>>)
          /\ EventsIn(<<>>) = <<>> /\ Gathered(<<>>) = <<>>
        BY BoundsAssumption, NothingFramed DEF Fits
    <2>3. EventOf(<<>>).data = <<>> /\ EventOf(<<>>).event = Message
        BY ValuesNone DEF EventOf
    <2>4. <<>> \o <<>> = <<>> /\ <<>> \in Seq(Bytes[reader])
        BY ConcatEmptySeq
    <2>5. Framed(<<>>)
        BY <2>2, <2>3, <2>4 DEF Framed, Init
    <2> QED
        BY <2>1, <2>4, <2>5 DEF FramesInv
<1>2. TypeInv /\ FramesInv => FramesTheBytes
    <2> SUFFICES ASSUME TypeInv, FramesInv, reader # "think", chunk = <<>>
                 PROVE  FramesTheBytes
        BY DEF FramesTheBytes
    <2>1. PICK t \in Seq(Bytes[reader]) : Framed(t)
        BY DEF FramesInv
    <2>2. sent = t
        BY <2>1, ConcatEmptySeq DEF Framed
    <2> QED
        BY <2>1, <2>2 DEF Framed, FramesTheBytes, EventsOf
<1> QED
    BY <1>1, <1>2, TypeStep, FramesStep, PTL DEF Spec

-----------------------------------------------------------------------------
(* The think stripper                                                      *)

\* The first n items of a sequence.
Upto(s, n) == SubSeq(s, 1, n)

\* A tag may begin at a place of a text: no item that the text has says otherwise.
MayBegin(text, tag, i) == \A k \in 1..Len(tag) : i + k - 1 <= Len(text) => text[i + k - 1] = tag[k]

OutsideOf(text, opens) == {i \in DOMAIN text : \A o \in opens : i < o \/ BlockEnd(text, o) < i}

LEMMA Span ==
    ASSUME NEW A, NEW s \in Seq(A), NEW m \in Nat \ {0}, NEW n \in 0..Len(s), m <= n + 1
    PROVE  /\ SubSeq(s, m, n) \in Seq(A)
           /\ Len(SubSeq(s, m, n)) = n - m + 1
           /\ \A k \in 1..(n - m + 1) : SubSeq(s, m, n)[k] = s[m + k - 1]
<1>1. Len(s) \in Nat /\ m \in Int /\ n \in Int /\ \A i \in m..n : s[i] \in A
    BY LenProperties
<1> QED
    BY <1>1, SubSeqProperties

LEMMA UptoIs ==
    ASSUME NEW A, NEW s \in Seq(A), NEW n \in 0..Len(s)
    PROVE  /\ Upto(s, n) \in Seq(A) /\ Len(Upto(s, n)) = n /\ DOMAIN Upto(s, n) = 1..n
           /\ \A k \in 1..n : Upto(s, n)[k] = s[k]
<1>1. n - 1 + 1 = n /\ \A k \in 1..n : 1 + k - 1 = k
    OBVIOUS
<1>2. /\ SubSeq(s, 1, n) \in Seq(A)
      /\ Len(SubSeq(s, 1, n)) = n - 1 + 1
      /\ \A k \in 1..(n - 1 + 1) : SubSeq(s, 1, n)[k] = s[1 + k - 1]
    BY Span
<1> QED
    BY <1>1, <1>2, LenProperties DEF Upto

LEMMA SpanOfSpan ==
    ASSUME NEW A, NEW s \in Seq(A), NEW n \in 0..Len(s), NEW i \in Nat \ {0}, NEW j \in Nat,
           i <= j + 1, n + j <= Len(s)
    PROVE  SubSeq(SubSeq(s, n + 1, Len(s)), i, j) = SubSeq(s, n + i, n + j)
<1> DEFINE a == SubSeq(s, n + 1, Len(s))
           b == SubSeq(a, i, j)
           c == SubSeq(s, n + i, n + j)
<1>1. /\ Len(s) \in Nat /\ n + 1 \in Nat \ {0} /\ n + 1 <= Len(s) + 1 /\ Len(s) \in 0..Len(s)
      /\ n + i \in Nat \ {0} /\ n + j \in 0..Len(s) /\ n + i <= (n + j) + 1
      /\ (n + j) - (n + i) + 1 = j - i + 1 /\ Len(s) - (n + 1) + 1 = Len(s) - n /\ j \in 0..(Len(s) - n)
    BY LenProperties
<1>2. a \in Seq(A) /\ Len(a) = Len(s) - n /\ \A k \in 1..(Len(s) - n) : a[k] = s[(n + 1) + k - 1]
    <2> DEFINE m == n + 1
               l == Len(s)
    <2>1. m \in Nat \ {0} /\ l \in 0..Len(s) /\ m <= l + 1 /\ l - m + 1 = Len(s) - n /\ l = Len(s)
        BY <1>1
    <2> HIDE DEF m, l
    <2>2. /\ SubSeq(s, m, l) \in Seq(A) /\ Len(SubSeq(s, m, l)) = l - m + 1
          /\ \A k \in 1..(l - m + 1) : SubSeq(s, m, l)[k] = s[m + k - 1]
        BY <2>1, Span
    <2> QED
        BY <2>1, <2>2 DEF m, l
<1>3. /\ c \in Seq(A) /\ Len(c) = j - i + 1
      /\ \A k \in 1..(j - i + 1) : c[k] = s[(n + i) + k - 1]
    <2> DEFINE m == n + i
               l == n + j
    <2>1. m \in Nat \ {0} /\ l \in 0..Len(s) /\ m <= l + 1 /\ l - m + 1 = j - i + 1
        BY <1>1
    <2> HIDE DEF m, l
    <2>2. /\ SubSeq(s, m, l) \in Seq(A) /\ Len(SubSeq(s, m, l)) = l - m + 1
          /\ \A k \in 1..(l - m + 1) : SubSeq(s, m, l)[k] = s[m + k - 1]
        BY <2>1, Span
    <2> QED
        BY <2>1, <2>2 DEF m, l
<1> HIDE DEF a
<1>4. j \in 0..Len(a)
    BY <1>1, <1>2
<1>5. b \in Seq(A) /\ Len(b) = j - i + 1 /\ \A k \in 1..(j - i + 1) : b[k] = a[i + k - 1]
    BY <1>2, <1>4, Span
<1> HIDE DEF b, c
<1>6. \A k \in 1..(j - i + 1) : i + k - 1 \in 1..(Len(s) - n) /\ (n + 1) + (i + k - 1) - 1 = (n + i) + k - 1
    BY <1>1
<1>7. \A k \in 1..(j - i + 1) : b[k] = c[k]
    BY <1>2, <1>3, <1>5, <1>6
<1>8. b = c
    BY <1>3, <1>5, <1>7, SeqEqual
<1> QED
    BY <1>8 DEF a, b, c

LEMMA OccursIs ==
    ASSUME NEW text \in Seq(Letters), NEW tag \in {Open, Close}, NEW i \in Nat \ {0}
    PROVE  Occurs(text, tag, i) <=> i + Len(tag) - 1 <= Len(text) /\ MayBegin(text, tag, i)
<1>1. tag \in Seq(Letters) /\ Len(tag) \in Nat \ {0} /\ Len(text) \in Nat
    BY TagsAssumption, LenProperties
<1>2. CASE ~(i + Len(tag) - 1 <= Len(text))
    BY <1>2 DEF Occurs
<1>3. CASE i + Len(tag) - 1 <= Len(text)
    <2> DEFINE e == i + Len(tag) - 1
               w == SubSeq(text, i, e)
    <2>1. e \in 0..Len(text) /\ i <= e + 1 /\ e - i + 1 = Len(tag)
        BY <1>1, <1>3
    <2> HIDE DEF e
    <2>2. w \in Seq(Letters) /\ Len(w) = Len(tag) /\ \A k \in 1..Len(tag) : w[k] = text[i + k - 1]
        BY <2>1, Span
    <2>3. \A k \in 1..Len(tag) : i + k - 1 <= Len(text)
        BY <1>1, <1>3
    <2> HIDE DEF w
    <2>4. w = tag <=> \A k \in 1..Len(tag) : w[k] = tag[k]
        BY <1>1, <2>2, SeqEqual
    <2>5. w = tag <=> MayBegin(text, tag, i)
        BY <2>2, <2>3, <2>4 DEF MayBegin
    <2> QED
        BY <1>3, <2>5 DEF Occurs, w, e
<1> QED
    BY <1>2, <1>3

\* A tag occurs in the first n items of a text if it does in more of them and ends there.
LEMMA OccursUpto ==
    ASSUME NEW s \in Seq(Letters), NEW m \in 0..Len(s), NEW n \in 0..m, NEW tag \in {Open, Close},
           NEW i \in Nat \ {0}
    PROVE  Occurs(Upto(s, n), tag, i) <=> i + Len(tag) - 1 <= n /\ Occurs(Upto(s, m), tag, i)
<1>1. Len(tag) \in Nat \ {0} /\ Len(s) \in Nat /\ n \in 0..Len(s)
    BY Tags, LenProperties
<1>2. /\ Upto(s, n) \in Seq(Letters) /\ Len(Upto(s, n)) = n /\ \A k \in 1..n : Upto(s, n)[k] = s[k]
      /\ Upto(s, m) \in Seq(Letters) /\ Len(Upto(s, m)) = m /\ \A k \in 1..m : Upto(s, m)[k] = s[k]
    BY <1>1, UptoIs
<1>3. /\ Occurs(Upto(s, n), tag, i) <=> i + Len(tag) - 1 <= n /\ MayBegin(Upto(s, n), tag, i)
      /\ Occurs(Upto(s, m), tag, i) <=> i + Len(tag) - 1 <= m /\ MayBegin(Upto(s, m), tag, i)
    BY <1>2, OccursIs
<1>4. ASSUME i + Len(tag) - 1 <= n
      PROVE  MayBegin(Upto(s, n), tag, i) <=> MayBegin(Upto(s, m), tag, i)
    <2>1. \A k \in 1..Len(tag) : /\ i + k - 1 <= n /\ i + k - 1 <= m
                                 /\ Upto(s, n)[i + k - 1] = s[i + k - 1]
                                 /\ Upto(s, m)[i + k - 1] = s[i + k - 1]
        <3>1. \A k \in 1..Len(tag) : i + k - 1 \in 1..n /\ i + k - 1 \in 1..m
            BY <1>1, <1>4
        <3> QED
            BY <1>2, <3>1
    <2> QED
        BY <1>2, <2>1 DEF MayBegin
<1>5. i + Len(tag) - 1 <= n => i + Len(tag) - 1 <= m
    BY <1>1
<1> QED
    BY <1>3, <1>4, <1>5
\* The blocks of a text, as more of it is known: where one ends is settled when its
\* closing tag is, and until then it reaches to the end of what is known.
LEMMA Blocks ==
    ASSUME NEW s \in Seq(Letters), NEW m \in 0..Len(s), NEW n \in 0..m, NEW o \in 1..n
    PROVE  /\ BlockEnd(Upto(s, n), o) \in o..n
           /\ Closings(Upto(s, n), o) # {} =>
                  /\ Closings(Upto(s, m), o) # {}
                  /\ BlockEnd(Upto(s, m), o) = BlockEnd(Upto(s, n), o)
           /\ Closings(Upto(s, n), o) = {} => BlockEnd(Upto(s, n), o) = n
<1> DEFINE c == Len(Close)
           a == Closings(Upto(s, n), o)
           b == Closings(Upto(s, m), o)
<1>1. c \in Nat \ {0} /\ Len(Open) \in Nat \ {0} /\ Len(s) \in Nat /\ n \in 0..Len(s)
    BY Tags, LenProperties
<1>2. /\ DOMAIN Upto(s, n) = 1..n /\ Len(Upto(s, n)) = n /\ DOMAIN Upto(s, m) = 1..m /\ Len(Upto(s, m)) = m
    BY <1>1, UptoIs
<1>3. \A j \in 1..m : Occurs(Upto(s, n), Close, j) <=> j + c - 1 <= n /\ Occurs(Upto(s, m), Close, j)
    BY OccursUpto
<1>4. /\ \A j : j \in a <=> j \in 1..n /\ o + Len(Open) <= j /\ Occurs(Upto(s, n), Close, j)
      /\ \A j : j \in b <=> j \in 1..m /\ o + Len(Open) <= j /\ Occurs(Upto(s, m), Close, j)
    BY <1>2 DEF Closings
<1>5. /\ a = {} => BlockEnd(Upto(s, n), o) = n
      /\ a # {} => BlockEnd(Upto(s, n), o) = Min(a) + c - 1
      /\ b # {} => BlockEnd(Upto(s, m), o) = Min(b) + c - 1
    BY <1>2 DEF BlockEnd
<1> HIDE DEF a, b, c
<1>6. a \in SUBSET Nat /\ b \in SUBSET Nat
    BY <1>4
<1>7. \A j : j \in a <=> j \in b /\ j + c - 1 <= n
    <2>1. \A j : j \in 1..m /\ j + c - 1 <= n => j \in 1..n
        BY <1>1
    <2>2. \A j : j \in 1..n => j \in 1..m
        BY <1>1
    <2> QED
        BY <1>3, <1>4, <2>1, <2>2
<1>8. CASE a = {}
    BY <1>5, <1>8 DEF a
<1>9. CASE a # {}
    <2>1. b # {}
        BY <1>7, <1>9
    <2>2. /\ Min(a) \in a /\ \A k \in a : Min(a) <= k
          /\ Min(b) \in b /\ \A k \in b : Min(b) <= k
        BY <1>6, <1>9, <2>1, MinIsLeast
    <2> DEFINE x == Min(a)
               y == Min(b)
    <2>3. x \in Nat /\ y \in Nat /\ x \in b /\ x + c - 1 <= n /\ y \in b
        BY <1>6, <1>7, <2>2
    <2>4. Min(a) = Min(b)
        <3>1. /\ \A k \in a : x <= k
              /\ \A k \in b : y <= k
            BY <2>2
        <3> HIDE DEF x, y
        <3>2. y <= x
            BY <2>3, <3>1
        <3>3. y + c - 1 <= n
            BY <1>1, <2>3, <3>2
        <3>4. y \in a
            BY <1>7, <2>3, <3>3
        <3>5. x <= y
            BY <3>1, <3>4
        <3> QED
            BY <2>3, <3>2, <3>5 DEF x, y
    <2>5. Min(a) + c - 1 \in o..n
        BY <1>1, <1>4, <1>7, <2>2
    <2> QED
        BY <1>5, <1>9, <2>1, <2>4, <2>5 DEF a, b
<1> QED
    BY <1>8, <1>9

\* A text has but one set of openings.
LEMMA OpeningsAre ==
    ASSUME NEW text \in Seq(Letters), NEW P \in SUBSET (DOMAIN text), OpensAt(text, P)
    PROVE  Openings(text) = P
<1>1. ASSUME NEW Q \in SUBSET (DOMAIN text), OpensAt(text, Q), Q # P
      PROVE  FALSE
    <2> DEFINE D == {i \in DOMAIN text : ~(i \in P <=> i \in Q)}
    <2>1. D # {} /\ D \in SUBSET Nat
        <3>1. DOMAIN text \in SUBSET Nat
            BY LenProperties
        <3>2. (\A i \in DOMAIN text : i \in P <=> i \in Q) => P = Q
            BY <1>1
        <3> QED
            BY <1>1, <3>1, <3>2
    <2>2. PICK d \in D : \A i \in D : d <= i
        BY <2>1, LeastExists
    <2>3. d \in DOMAIN text /\ d \in Nat /\ DOMAIN text \in SUBSET Nat
        BY <2>2
    <2>4. \A o \in DOMAIN text : o < d => (o \in P <=> o \in Q)
        BY <2>2, <2>3
    <2>5. (\A o \in P : o < d => BlockEnd(text, o) < d) <=> (\A o \in Q : o < d => BlockEnd(text, o) < d)
        BY <1>1, <2>4
    <2>6. /\ d \in P <=> Occurs(text, Open, d) /\ \A o \in P : o < d => BlockEnd(text, o) < d
          /\ d \in Q <=> Occurs(text, Open, d) /\ \A o \in Q : o < d => BlockEnd(text, o) < d
        BY <1>1, <2>3 DEF OpensAt
    <2> QED
        BY <2>2, <2>5, <2>6
<1>2. Openings(text) \in SUBSET (DOMAIN text) /\ OpensAt(text, Openings(text))
    BY DEF Openings
<1> QED
    BY <1>1, <1>2

\* What is known of a text's blocks when its first n items are.
LEMMA Known ==
    ASSUME NEW s \in Seq(Letters), NEW n \in 0..Len(s), NEW P
    PROVE  /\ OpensAt(Upto(s, n), P) <=>
                  \A i \in 1..n : i \in P <=> /\ Occurs(Upto(s, n), Open, i)
                                             /\ \A o \in P : o < i => BlockEnd(Upto(s, n), o) < i
           /\ \A i : i \in OutsideOf(Upto(s, n), P) <=>
                  /\ i \in 1..n
                  /\ \A o \in P : i < o \/ BlockEnd(Upto(s, n), o) < i
<1>1. DOMAIN Upto(s, n) = 1..n
    BY UptoIs
<1> QED
    BY <1>1 DEF OpensAt, OutsideOf

\* Text is spoken as long as every block is closed and no tag opens another.
LEMMA Speak ==
    ASSUME NEW s \in Seq(Letters), NEW m \in 0..Len(s), NEW n \in 0..m, NEW P \in SUBSET (1..n),
           OpensAt(Upto(s, n), P),
           \A o \in P : Closings(Upto(s, n), o) # {},
           \A i \in OutsideOf(Upto(s, n), P) : ~Occurs(Upto(s, m), Open, i),
           \A i \in (n + 1)..m : ~Occurs(Upto(s, m), Open, i)
    PROVE  /\ OpensAt(Upto(s, m), P)
           /\ \A o \in P : Closings(Upto(s, m), o) # {}
           /\ OutsideOf(Upto(s, m), P) = OutsideOf(Upto(s, n), P) \cup (n + 1)..m
<1>1. n \in 0..Len(s) /\ Len(s) \in Nat /\ Len(Open) \in Nat \ {0}
    BY Tags, LenProperties
<1>2. \A o \in P : /\ Closings(Upto(s, m), o) # {}
                   /\ BlockEnd(Upto(s, m), o) = BlockEnd(Upto(s, n), o)
                   /\ BlockEnd(Upto(s, n), o) \in o..n
    <2> SUFFICES ASSUME NEW o \in P
                 PROVE  /\ Closings(Upto(s, m), o) # {}
                        /\ BlockEnd(Upto(s, m), o) = BlockEnd(Upto(s, n), o)
                        /\ BlockEnd(Upto(s, n), o) \in o..n
        OBVIOUS
    <2>1. o \in 1..n /\ Closings(Upto(s, n), o) # {}
        OBVIOUS
    <2> QED
        BY <2>1, Blocks
<1>3. \A i \in 1..n : Occurs(Upto(s, n), Open, i) <=> i + Len(Open) - 1 <= n /\ Occurs(Upto(s, m), Open, i)
    BY OccursUpto
<1>4. \A i : i \in 1..m <=> i \in 1..n \/ i \in (n + 1)..m
    BY <1>1
<1>5. /\ \A i \in 1..n : i \in P <=> /\ Occurs(Upto(s, n), Open, i)
                                    /\ \A o \in P : o < i => BlockEnd(Upto(s, n), o) < i
      /\ \A i : i \in OutsideOf(Upto(s, n), P) <=>
                  /\ i \in 1..n
                  /\ \A o \in P : i < o \/ BlockEnd(Upto(s, n), o) < i
    BY <1>1, Known
<1>6. ASSUME NEW i \in 1..m
      PROVE  i \in P <=> /\ Occurs(Upto(s, m), Open, i)
                         /\ \A o \in P : o < i => BlockEnd(Upto(s, m), o) < i
    <2>1. CASE i \in (n + 1)..m
        BY <1>1, <2>1
    <2>2. CASE i \in 1..n
        <3>1. (\A o \in P : o < i => BlockEnd(Upto(s, m), o) < i)
              <=> (\A o \in P : o < i => BlockEnd(Upto(s, n), o) < i)
            BY <1>2
        <3>2. i \in P => Occurs(Upto(s, m), Open, i)
            BY <1>3, <1>5, <2>2
        <3>3. ASSUME Occurs(Upto(s, m), Open, i), \A o \in P : o < i => BlockEnd(Upto(s, n), o) < i, i \notin P
              PROVE  FALSE
            <4>1. \A o \in P : o \in 1..n /\ o # i
                BY <3>3
            <4>2. \A o \in P : i < o \/ o < i
                BY <2>2, <4>1
            <4>3. i \in OutsideOf(Upto(s, n), P)
                BY <1>5, <2>2, <3>3, <4>2
            <4> QED
                BY <3>3, <4>3
        <3> QED
            BY <1>5, <2>2, <3>1, <3>2, <3>3
    <2> QED
        BY <1>4, <2>1, <2>2
<1>7. OpensAt(Upto(s, m), P)
    BY <1>6, Known
<1>8. OutsideOf(Upto(s, m), P) = OutsideOf(Upto(s, n), P) \cup (n + 1)..m
    <2>1. \A i : i \in OutsideOf(Upto(s, m), P) <=>
                    /\ i \in 1..m
                    /\ \A o \in P : i < o \/ BlockEnd(Upto(s, m), o) < i
        BY Known
    <2>2. \A i \in 1..n : i \in OutsideOf(Upto(s, m), P) <=> i \in OutsideOf(Upto(s, n), P)
        BY <1>2, <1>4, <1>5, <2>1
    <2>3. \A i \in (n + 1)..m : i \in OutsideOf(Upto(s, m), P)
        <3>1. \A i \in (n + 1)..m : \A o \in P : BlockEnd(Upto(s, m), o) < i
            BY <1>1, <1>2
        <3> QED
            BY <1>4, <2>1, <3>1
    <2> QED
        BY <1>4, <1>5, <2>1, <2>2, <2>3
<1> QED
    BY <1>2, <1>7, <1>8

\* A block opens at the next place.
Opened(s, n, m, P) ==
    /\ OpensAt(Upto(s, m), P \cup {n + 1})
    /\ Closings(Upto(s, m), n + 1) = {}
    /\ OutsideOf(Upto(s, m), P \cup {n + 1}) = OutsideOf(Upto(s, n), P)

LEMMA OpenBlock ==
    ASSUME NEW s \in Seq(Letters), NEW n \in Nat, NEW m, m = n + Len(Open), m <= Len(s), NEW P \in SUBSET (1..n),
           OpensAt(Upto(s, n), P),
           \A o \in P : Closings(Upto(s, n), o) # {},
           \A i \in OutsideOf(Upto(s, n), P) : ~Occurs(Upto(s, m), Open, i),
           Occurs(Upto(s, m), Open, n + 1)
    PROVE  Opened(s, n, m, P)
<1> DEFINE q == n + 1
           Q == P \cup {q}
<1>1. /\ Len(s) \in Nat /\ Len(Open) \in Nat \ {0} /\ m \in 0..Len(s) /\ n \in 0..m /\ q \in 1..m /\ n \in 0..Len(s)
    BY Tags, LenProperties
<1>2. \A o \in P : /\ BlockEnd(Upto(s, m), o) = BlockEnd(Upto(s, n), o)
                   /\ BlockEnd(Upto(s, n), o) \in o..n
    BY <1>1, Blocks
<1>3. \A i \in 1..n : Occurs(Upto(s, n), Open, i) <=> i + Len(Open) - 1 <= n /\ Occurs(Upto(s, m), Open, i)
    BY <1>1, OccursUpto
<1>4. \A i : i \in 1..m <=> i \in 1..n \/ i = q \/ (i \in 1..m /\ i > q)
    BY <1>1
<1>5. /\ \A i \in 1..n : i \in P <=> /\ Occurs(Upto(s, n), Open, i)
                                    /\ \A o \in P : o < i => BlockEnd(Upto(s, n), o) < i
      /\ \A i : i \in OutsideOf(Upto(s, n), P) <=>
                  /\ i \in 1..n
                  /\ \A o \in P : i < o \/ BlockEnd(Upto(s, n), o) < i
    BY <1>1, Known
<1>6. Closings(Upto(s, m), q) = {}
    <2>1. DOMAIN Upto(s, m) = 1..m
        BY <1>1, UptoIs
    <2> QED
        BY <1>1, <2>1 DEF Closings
<1>7. BlockEnd(Upto(s, m), q) = m
    <2>1. m \in 0..m
        BY <1>1
    <2> HIDE DEF q
    <2> QED
        BY <1>1, <1>6, <2>1, Blocks
<1> HIDE DEF q
<1>8. /\ \A i \in 1..n : i \in Q <=> i \in P
      /\ \A i \in 1..n : ~(q < i) /\ i < q /\ i # q
      /\ q \notin P
      /\ \A o : o \in Q <=> o \in P \/ o = q
    BY <1>1 DEF q
<1> HIDE DEF Q
<1>9. ASSUME NEW i \in 1..m
      PROVE  i \in Q <=> /\ Occurs(Upto(s, m), Open, i)
                         /\ \A o \in Q : o < i => BlockEnd(Upto(s, m), o) < i
    <2>1. CASE i > q
        <3>1. q \in Q /\ q < i /\ ~(BlockEnd(Upto(s, m), q) < i) /\ i \notin P /\ i # q
            BY <1>1, <1>7, <1>8, <2>1 DEF q
        <3> QED
            BY <1>8, <3>1
    <2>2. CASE i = q
        <3>1. \A o \in P : BlockEnd(Upto(s, m), o) < q
            BY <1>1, <1>2 DEF q
        <3>2. Occurs(Upto(s, m), Open, i) /\ ~(q < q)
            BY <1>1, <2>2 DEF q
        <3> QED
            BY <1>8, <2>2, <3>1, <3>2
    <2>3. CASE i \in 1..n
        <3>1. (\A o \in Q : o < i => BlockEnd(Upto(s, m), o) < i)
              <=> (\A o \in P : o < i => BlockEnd(Upto(s, n), o) < i)
            BY <1>2, <1>8, <2>3
        <3>2. i \in P => Occurs(Upto(s, m), Open, i)
            BY <1>3, <1>5, <2>3
        <3>3. ASSUME Occurs(Upto(s, m), Open, i), \A o \in P : o < i => BlockEnd(Upto(s, n), o) < i, i \notin P
              PROVE  FALSE
            <4>1. \A o \in P : o \in 1..n /\ o # i
                BY <3>3
            <4>2. \A o \in P : i < o \/ o < i
                BY <2>3, <4>1
            <4>3. i \in OutsideOf(Upto(s, n), P)
                BY <1>5, <2>3, <3>3, <4>2
            <4> QED
                BY <3>3, <4>3
        <3> QED
            BY <1>5, <1>8, <2>3, <3>1, <3>2, <3>3
    <2> QED
        BY <1>4, <2>1, <2>2, <2>3
<1>10. OpensAt(Upto(s, m), Q)
    BY <1>1, <1>9, Known
<1>11. OutsideOf(Upto(s, m), Q) = OutsideOf(Upto(s, n), P)
    <2>1. \A i : i \in OutsideOf(Upto(s, m), Q) <=>
                    /\ i \in 1..m
                    /\ \A o \in Q : i < o \/ BlockEnd(Upto(s, m), o) < i
        BY <1>1, Known
    <2>2. \A i \in 1..n : i \in OutsideOf(Upto(s, m), Q) <=> i \in OutsideOf(Upto(s, n), P)
        BY <1>2, <1>4, <1>5, <1>8, <2>1, ZenonT(60)
    <2>3. \A i \in 1..m : i \notin 1..n => i \notin OutsideOf(Upto(s, m), Q)
        <3>1. \A i \in 1..m : i \notin 1..n => ~(i < q) /\ ~(m < i)
            BY <1>1 DEF q
        <3> QED
            BY <1>7, <1>8, <2>1, <3>1
    <2> QED
        BY <1>4, <1>5, <2>1, <2>2, <2>3
<1> QED
    BY <1>6, <1>10, <1>11 DEF Opened, q, Q

\* Nothing is spoken as long as a block reaches to the end of what is known.
LEMMA Inside ==
    ASSUME NEW s \in Seq(Letters), NEW m \in 0..Len(s), NEW n \in 0..m, NEW P \in SUBSET (1..n),
           OpensAt(Upto(s, n), P),
           NEW q \in P, q + Len(Open) <= n + 1, Closings(Upto(s, n), q) = {}, BlockEnd(Upto(s, m), q) = m
    PROVE  /\ OpensAt(Upto(s, m), P)
           /\ \A o \in P : o # q => Closings(Upto(s, m), o) # {}
           /\ OutsideOf(Upto(s, m), P) = OutsideOf(Upto(s, n), P)
<1>1. n \in 0..Len(s) /\ Len(s) \in Nat /\ Len(Open) \in Nat \ {0} /\ q \in 1..n
    BY Tags, LenProperties
<1>2. /\ \A i \in 1..n : i \in P <=> /\ Occurs(Upto(s, n), Open, i)
                                    /\ \A o \in P : o < i => BlockEnd(Upto(s, n), o) < i
      /\ \A i : i \in OutsideOf(Upto(s, n), P) <=>
                  /\ i \in 1..n
                  /\ \A o \in P : i < o \/ BlockEnd(Upto(s, n), o) < i
    BY <1>1, Known
<1>3. BlockEnd(Upto(s, n), q) = n
    BY <1>1, Blocks
<1>4. ASSUME NEW o \in P, o # q
      PROVE  /\ Closings(Upto(s, m), o) # {}
             /\ BlockEnd(Upto(s, m), o) = BlockEnd(Upto(s, n), o)
    <2>1. o \in 1..n
        OBVIOUS
    <2>2. ~(q < o)
        BY <1>2, <1>3, <2>1
    <2>3. o < q
        BY <1>1, <1>4, <2>1, <2>2
    <2>4. BlockEnd(Upto(s, n), o) < q
        BY <1>1, <1>2, <2>3
    <2>5. Closings(Upto(s, n), o) # {}
        <3>1. Closings(Upto(s, n), o) = {} => BlockEnd(Upto(s, n), o) = n
            BY <2>1, Blocks
        <3> QED
            BY <1>1, <2>4, <3>1
    <2> QED
        BY <2>1, <2>5, Blocks, SMTT(30)
<1>5. \A i \in 1..n : Occurs(Upto(s, n), Open, i) <=> i + Len(Open) - 1 <= n /\ Occurs(Upto(s, m), Open, i)
    BY OccursUpto
<1>6. \A i : i \in 1..m <=> i \in 1..n \/ i \in (n + 1)..m
    BY <1>1
<1>7. \A i \in 1..n : \A o \in P : BlockEnd(Upto(s, m), o) < i <=> BlockEnd(Upto(s, n), o) < i
    <2> SUFFICES ASSUME NEW i \in 1..n, NEW o \in P
                 PROVE  BlockEnd(Upto(s, m), o) < i <=> BlockEnd(Upto(s, n), o) < i
        OBVIOUS
    <2>1. CASE o = q
        BY <1>1, <1>3, <2>1
    <2> QED
        BY <1>4, <2>1
<1>8. \A i \in (n + 1)..m : q < i /\ ~(BlockEnd(Upto(s, m), q) < i)
    BY <1>1
<1>9. ASSUME NEW i \in 1..m
      PROVE  i \in P <=> /\ Occurs(Upto(s, m), Open, i)
                         /\ \A o \in P : o < i => BlockEnd(Upto(s, m), o) < i
    <2>1. CASE i \in (n + 1)..m
        BY <1>1, <1>8, <2>1
    <2>2. CASE i \in 1..n
        <3>1. (\A o \in P : o < i => BlockEnd(Upto(s, m), o) < i)
              <=> (\A o \in P : o < i => BlockEnd(Upto(s, n), o) < i)
            BY <1>7, <2>2
        <3>2. i \in P => Occurs(Upto(s, m), Open, i)
            BY <1>2, <1>5, <2>2
        <3>3. ASSUME Occurs(Upto(s, m), Open, i), \A o \in P : o < i => BlockEnd(Upto(s, n), o) < i, i \notin P
              PROVE  FALSE
            <4>1. ~(i + Len(Open) - 1 <= n)
                BY <1>2, <1>5, <2>2, <3>3
            <4>2. q < i
                BY <1>1, <2>2, <4>1
            <4>3. BlockEnd(Upto(s, n), q) < i
                BY <3>3, <4>2
            <4> QED
                BY <1>1, <1>3, <2>2, <4>3
        <3> QED
            BY <1>2, <2>2, <3>1, <3>2, <3>3
    <2> QED
        BY <1>6, <2>1, <2>2
<1>10. OpensAt(Upto(s, m), P)
    BY <1>9, Known
<1>11. OutsideOf(Upto(s, m), P) = OutsideOf(Upto(s, n), P)
    <2>1. \A i : i \in OutsideOf(Upto(s, m), P) <=>
                    /\ i \in 1..m
                    /\ \A o \in P : i < o \/ BlockEnd(Upto(s, m), o) < i
        BY Known
    <2>2. \A i \in 1..n : i \in OutsideOf(Upto(s, m), P) <=> i \in OutsideOf(Upto(s, n), P)
        BY <1>2, <1>6, <1>7, <2>1
    <2>3. \A i \in (n + 1)..m : i \notin OutsideOf(Upto(s, m), P)
        <3>1. \A i \in (n + 1)..m : ~(i < q)
            BY <1>1
        <3> QED
            BY <1>8, <2>1, <3>1
    <2> QED
        BY <1>2, <1>6, <2>1, <2>2, <2>3
<1> QED
    BY <1>4, <1>10, <1>11

LEMMA SpanMore ==
    ASSUME NEW A, NEW s \in Seq(A), NEW n \in Nat, NEW i \in (n + 1)..Len(s)
    PROVE  SubSeq(s, n + 1, i) = Append(SubSeq(s, n + 1, i - 1), s[i])
<1>1. /\ n + 1 \in Nat \ {0} /\ i \in 0..Len(s) /\ n + 1 <= i + 1 /\ i - 1 \in 0..Len(s) /\ n + 1 <= (i - 1) + 1
      /\ Len(s) \in Nat /\ s[i] \in A
    BY LenProperties
<1> DEFINE a == SubSeq(s, n + 1, i)
           b == SubSeq(s, n + 1, i - 1)
           m == n + 1
           j == i - 1
<1>2. m \in Nat \ {0} /\ i \in 0..Len(s) /\ m <= i + 1 /\ j \in 0..Len(s) /\ m <= j + 1
    BY <1>1
<1> HIDE DEF m, j
<1>3. SubSeq(s, m, i) \in Seq(A) /\ Len(SubSeq(s, m, i)) = i - m + 1
      /\ \A k \in 1..(i - m + 1) : SubSeq(s, m, i)[k] = s[m + k - 1]
    BY <1>2, Span
<1>4. SubSeq(s, m, j) \in Seq(A) /\ Len(SubSeq(s, m, j)) = j - m + 1
      /\ \A k \in 1..(j - m + 1) : SubSeq(s, m, j)[k] = s[m + k - 1]
    BY <1>2, Span
<1>5. /\ a \in Seq(A) /\ Len(a) = i - n /\ \A k \in 1..(i - n) : a[k] = s[n + k]
      /\ b \in Seq(A) /\ Len(b) = i - 1 - n /\ \A k \in 1..(i - 1 - n) : b[k] = s[n + k]
    <2>1. i - m + 1 = i - n /\ j - m + 1 = i - 1 - n /\ \A k \in 1..(i - n) : m + k - 1 = n + k
        BY <1>1 DEF m, j
    <2>2. \A k \in 1..(i - 1 - n) : k \in 1..(i - n)
        BY <1>1
    <2> QED
        BY <1>3, <1>4, <2>1, <2>2 DEF m, j
<1> HIDE DEF a, b
<1>6. /\ Append(b, s[i]) \in Seq(A) /\ Len(Append(b, s[i])) = i - n
      /\ \A k \in 1..(i - n) : Append(b, s[i])[k] = s[n + k]
    <2>1. /\ Append(b, s[i]) \in Seq(A) /\ Len(Append(b, s[i])) = Len(b) + 1
          /\ \A k \in 1..Len(b) : Append(b, s[i])[k] = b[k]
          /\ Append(b, s[i])[Len(b) + 1] = s[i]
        BY <1>1, <1>5, AppendProperties
    <2>2. Len(b) + 1 = i - n /\ n + (Len(b) + 1) = i
        BY <1>1, <1>5
    <2>3. \A k \in 1..(i - n) : k \in 1..Len(b) \/ k = Len(b) + 1
        BY <1>1, <1>5
    <2> QED
        BY <1>5, <2>1, <2>2, <2>3
<1>7. a = Append(b, s[i])
    BY <1>5, <1>6, SeqEqual
<1> QED
    BY <1>7 DEF a, b

Appends(A) == \A p, v \in Seq(A) : \A x \in A : Append(p \o v, x) = p \o Append(v, x)

LEMMA AppendJoin == ASSUME NEW A PROVE Appends(A)
<1> SUFFICES ASSUME NEW p \in Seq(A), NEW v \in Seq(A), NEW x \in A
             PROVE  Append(p \o v, x) = p \o Append(v, x)
    BY DEF Appends
<1>1. p \o v \in Seq(A) /\ Append(p \o v, x) = (p \o v) \o <<x>>
    BY ConcatProperties, AppendIsConcat
<1>2. Append(v, x) = v \o <<x>>
    BY AppendIsConcat
<1> DEFINE z == <<x>>
<1>3. z \in Seq(A)
    OBVIOUS
<1> HIDE DEF z
<1>4. p \o (v \o z) = (p \o v) \o z
    <2>1. JoinsAs(p, v, z)
        BY <1>3, Associates
    <2> QED
        BY <2>1 DEF JoinsAs
<1> QED
    BY <1>1, <1>2, <1>4 DEF z

\* What is picked, if all places after some of them are picked as well.
LEMMA PickRest ==
    ASSUME NEW A, NEW s \in Seq(A), NEW n \in Nat, NEW m \in Nat, n <= m, m <= Len(s), NEW S \in SUBSET (1..n)
    PROVE  Pick(s, S \cup (n + 1)..m) = Pick(s, S) \o SubSeq(s, n + 1, m)
<1>0. Appends(A)
    BY AppendJoin
<1> DEFINE T(i) == S \cup (n + 1)..i
           p == Pick(s, S)
           Good(i) == Pick(s, T(i)) = p \o SubSeq(s, n + 1, i)
           Bad == {i \in n..m : ~Good(i)}
<1>1. Len(s) \in Nat /\ p \in Seq(A)
    <2>1. \A i \in S : s[i] \in A
        BY LenProperties
    <2> QED
        BY <2>1, PickType, LenProperties
<1>2. Good(n)
    <2>1. T(n) = S
        OBVIOUS
    <2>2. SubSeq(s, n + 1, n) = <<>>
        BY SubSeqEmpty
    <2> HIDE DEF T, p
    <2> QED
        BY <1>1, <2>1, <2>2, ConcatEmptySeq DEF p
<1>3. ASSUME NEW i \in (n + 1)..m, Good(i - 1)
      PROVE  Good(i)
    <2> DEFINE j == i - 1
               Tj == T(j)
               v == SubSeq(s, n + 1, j)
    <2>1. j \in n..m /\ j < i /\ j \in Nat /\ i \in Nat /\ i \in (n + 1)..Len(s)
        BY <1>1
    <2>2. T(i) = Tj \cup {i} /\ Tj \in SUBSET (1..j)
        BY <2>1
    <2>3. Pick(s, Tj) = p \o v
        BY <1>3
    <2>4. SubSeq(s, n + 1, i) = Append(v, s[i])
        BY <2>1, SpanMore
    <2>5. v \in Seq(A) /\ s[i] \in A
        <3>1. n + 1 \in Nat \ {0} /\ j \in 0..Len(s) /\ n + 1 <= j + 1
            BY <1>1, <2>1
        <3> HIDE DEF j
        <3> QED
            BY <2>1, <3>1, Span
    <2> HIDE DEF T, Tj, p, v, j
    <2>6. Pick(s, Tj \cup {i}) = Append(Pick(s, Tj), s[i])
        BY <2>1, <2>2, PickMore
    <2>7. Append(p \o v, s[i]) = p \o Append(v, s[i])
        <3> DEFINE x == s[i]
        <3>1. p \in Seq(A) /\ v \in Seq(A) /\ x \in A
            BY <1>1, <2>5
        <3> HIDE DEF x
        <3>2. Append(p \o v, x) = p \o Append(v, x)
            BY <1>0, <3>1 DEF Appends
        <3> QED
            BY <3>2 DEF x
    <2> QED
        BY <2>2, <2>3, <2>4, <2>6, <2>7
<1> HIDE DEF Good
<1>4. ASSUME Bad # {}
      PROVE  FALSE
    <2>1. Bad \in SUBSET Nat
        OBVIOUS
    <2>2. PICK i \in Bad : \A k \in Bad : i <= k
        BY <1>4, <2>1, LeastExists
    <2>3. i \in n..m /\ ~Good(i)
        OBVIOUS
    <2>4. i \in (n + 1)..m /\ i - 1 \in n..m /\ ~(i <= i - 1)
        BY <1>2, <2>3
    <2>5. Good(i - 1)
        BY <2>2, <2>4
    <2> QED
        BY <1>3, <2>3, <2>4, <2>5
<1>5. Good(m)
    <2>1. m \in n..m
        OBVIOUS
    <2> QED
        BY <1>4, <2>1
<1> QED
    BY <1>5 DEF Good

\* A tag occurs in the first n items of a text if it occurs in the text and ends there.
LEMMA OccursWithin ==
    ASSUME NEW s \in Seq(Letters), NEW n \in 0..Len(s), NEW tag \in {Open, Close}, NEW i \in Nat \ {0}
    PROVE  /\ Occurs(Upto(s, n), tag, i) <=> i + Len(tag) - 1 <= n /\ Occurs(s, tag, i)
           /\ Occurs(s, tag, i) => MayBegin(s, tag, i) /\ i + Len(tag) - 1 <= Len(s)
           /\ MayBegin(s, tag, i) /\ i + Len(tag) - 1 <= Len(s) => Occurs(s, tag, i)
<1>1. Upto(s, Len(s)) = s
    BY SubSeqFull DEF Upto
<1>2. Len(s) \in 0..Len(s) /\ Len(s) \in Nat
    BY LenProperties
<1>3. Occurs(Upto(s, n), tag, i) <=> i + Len(tag) - 1 <= n /\ Occurs(Upto(s, Len(s)), tag, i)
    BY <1>2, OccursUpto
<1>4. Occurs(s, tag, i) <=> i + Len(tag) - 1 <= Len(s) /\ MayBegin(s, tag, i)
    BY OccursIs
<1> QED
    BY <1>1, <1>3, <1>4

LEMMA SpeakTo ==
    ASSUME NEW s \in Seq(Letters), NEW m \in 0..Len(s), NEW n \in 0..m, NEW P \in SUBSET (1..n),
           OpensAt(Upto(s, n), P),
           \A o \in P : Closings(Upto(s, n), o) # {},
           \A i \in OutsideOf(Upto(s, n), P) : ~MayBegin(s, Open, i),
           \A i \in (n + 1)..m : ~Occurs(s, Open, i)
    PROVE  /\ OpensAt(Upto(s, m), P)
           /\ \A o \in P : Closings(Upto(s, m), o) # {}
           /\ OutsideOf(Upto(s, m), P) = OutsideOf(Upto(s, n), P) \cup (n + 1)..m
           /\ Pick(s, OutsideOf(Upto(s, m), P)) = Pick(s, OutsideOf(Upto(s, n), P)) \o SubSeq(s, n + 1, m)
<1> DEFINE S == OutsideOf(Upto(s, n), P)
<1>1. n \in 0..Len(s) /\ Len(s) \in Nat /\ n \in Nat /\ m \in Nat /\ n <= m /\ m <= Len(s)
    BY LenProperties
<1>2. S \in SUBSET (1..n)
    BY <1>1, Known
<1>3. \A i \in S : ~Occurs(Upto(s, m), Open, i)
    <2>1. \A i \in S : i \in Nat \ {0}
        BY <1>2
    <2> QED
        BY <2>1, OccursWithin
<1>4. \A i \in (n + 1)..m : ~Occurs(Upto(s, m), Open, i)
    <2>1. \A i \in (n + 1)..m : i \in Nat \ {0}
        BY <1>1
    <2> QED
        BY <2>1, OccursWithin
<1>5. /\ OpensAt(Upto(s, m), P)
      /\ \A o \in P : Closings(Upto(s, m), o) # {}
      /\ OutsideOf(Upto(s, m), P) = S \cup (n + 1)..m
    BY <1>3, <1>4, Speak
<1> HIDE DEF S
<1>6. Pick(s, S \cup (n + 1)..m) = Pick(s, S) \o SubSeq(s, n + 1, m)
    BY <1>1, <1>2, PickRest
<1> QED
    BY <1>5, <1>6 DEF S

\* The closings of a block that is open in the first n items of a text lie after them.
LEMMA ClosingsAfter ==
    ASSUME NEW s \in Seq(Letters), NEW m \in 0..Len(s), NEW n \in 0..m, NEW q \in 1..n,
           q + Len(Open) <= n + 1,
           \A i \in (q + Len(Open))..n : ~MayBegin(s, Close, i)
    PROVE  \A j : j \in Closings(Upto(s, m), q) <=>
                  j \in (n + 1)..m /\ j + Len(Close) - 1 <= m /\ Occurs(s, Close, j)
<1>1. /\ Len(Open) \in Nat \ {0} /\ Len(Close) \in Nat \ {0} /\ Len(s) \in Nat
      /\ DOMAIN Upto(s, m) = 1..m
    BY Tags, UptoIs, LenProperties
<1>2. \A j \in 1..m : /\ Occurs(Upto(s, m), Close, j) <=> j + Len(Close) - 1 <= m /\ Occurs(s, Close, j)
                      /\ Occurs(s, Close, j) => MayBegin(s, Close, j)
    BY OccursWithin
<1>3. \A j : j \in Closings(Upto(s, m), q) <=>
                  j \in 1..m /\ q + Len(Open) <= j /\ Occurs(Upto(s, m), Close, j)
    BY <1>1 DEF Closings
<1>4. \A j \in 1..m : q + Len(Open) <= j <=> j \in (q + Len(Open))..n \/ j \in (n + 1)..m
    BY <1>1
<1>5. \A j : j \in (n + 1)..m => j \in 1..m
    BY <1>1
<1> QED
    BY <1>2, <1>3, <1>4, <1>5

LEMMA InsideTo ==
    ASSUME NEW s \in Seq(Letters), NEW m \in 0..Len(s), NEW n \in 0..m, NEW P \in SUBSET (1..n),
           OpensAt(Upto(s, n), P),
           NEW q \in P, q + Len(Open) <= n + 1, Closings(Upto(s, n), q) = {},
           \A i \in (q + Len(Open))..n : ~MayBegin(s, Close, i),
           \A j \in (n + 1)..m : j + Len(Close) - 1 <= m => ~Occurs(s, Close, j)
    PROVE  /\ OpensAt(Upto(s, m), P)
           /\ Closings(Upto(s, m), q) = {}
           /\ OutsideOf(Upto(s, m), P) = OutsideOf(Upto(s, n), P)
<1>1. q \in 1..n /\ q \in 1..m /\ m \in 0..m
    OBVIOUS
<1>2. Closings(Upto(s, m), q) = {}
    BY <1>1, ClosingsAfter
<1>3. BlockEnd(Upto(s, m), q) = m
    BY <1>1, <1>2, Blocks
<1> QED
    BY <1>2, <1>3, Inside

\* A block closes with a tag at place j.
\* The block that was open at n closes at m.
Closed(s, n, m, P) ==
    /\ OpensAt(Upto(s, m), P)
    /\ \A o \in P : Closings(Upto(s, m), o) # {}
    /\ OutsideOf(Upto(s, m), P) = OutsideOf(Upto(s, n), P)

LEMMA CloseBlock ==
    ASSUME NEW s \in Seq(Letters), NEW m \in 0..Len(s), NEW n \in 0..m, NEW P \in SUBSET (1..n),
           OpensAt(Upto(s, n), P),
           NEW q \in P, q + Len(Open) <= n + 1, Closings(Upto(s, n), q) = {},
           \A i \in (q + Len(Open))..n : ~MayBegin(s, Close, i),
           NEW j \in (n + 1)..m, m = j + Len(Close) - 1, Occurs(s, Close, j),
           \A i \in (n + 1)..(j - 1) : ~Occurs(s, Close, i)
    PROVE  Closed(s, n, m, P)
<1>1. q \in 1..n /\ q \in 1..m /\ m \in 0..m /\ Len(Close) \in Nat \ {0} /\ Len(s) \in Nat
    BY Tags, LenProperties
<1>2. \A i : i \in Closings(Upto(s, m), q) <=>
                  i \in (n + 1)..m /\ i + Len(Close) - 1 <= m /\ Occurs(s, Close, i)
    <2>1. q \in 1..n
        BY <1>1
    <2> QED
        BY <2>1, ClosingsAfter
<1>3. Closings(Upto(s, m), q) = {j}
    <2>1. \A i \in (n + 1)..m : i + Len(Close) - 1 <= m => i = j \/ i \in (n + 1)..(j - 1)
        BY <1>1
    <2>2. j + Len(Close) - 1 <= m
        BY <1>1
    <2> QED
        BY <1>2, <2>1, <2>2
<1>4. Min({j}) = j
    <2>1. {j} \in SUBSET Nat /\ {j} # {}
        BY <1>1
    <2> QED
        BY <2>1, MinIsLeast
<1>5. BlockEnd(Upto(s, m), q) = m
    BY <1>3, <1>4 DEF BlockEnd
<1>6. /\ OpensAt(Upto(s, m), P)
      /\ \A o \in P : o # q => Closings(Upto(s, m), o) # {}
      /\ OutsideOf(Upto(s, m), P) = OutsideOf(Upto(s, n), P)
    BY <1>5, Inside
<1> QED
    BY <1>3, <1>6 DEF Closed

\* The text that the stripper looks at is the end of what has arrived.
LEMMA TextIs ==
    ASSUME NEW s \in Seq(Letters), NEW n \in 0..Len(s), NEW text, text = SubSeq(s, n + 1, Len(s))
    PROVE  /\ text \in Seq(Letters) /\ Len(text) = Len(s) - n
           /\ \A k \in 1..(Len(s) - n) : text[k] = s[n + k]
<1> DEFINE m == n + 1
           l == Len(s)
<1>1. m \in Nat \ {0} /\ l \in 0..Len(s) /\ m <= l + 1 /\ l - m + 1 = Len(s) - n /\ l = Len(s)
      /\ \A k \in 1..(Len(s) - n) : m + k - 1 = n + k
    BY LenProperties
<1> HIDE DEF m, l
<1>2. /\ SubSeq(s, m, l) \in Seq(Letters) /\ Len(SubSeq(s, m, l)) = l - m + 1
      /\ \A k \in 1..(l - m + 1) : SubSeq(s, m, l)[k] = s[m + k - 1]
    BY <1>1, Span
<1> QED
    BY <1>1, <1>2 DEF m, l

LEMMA PlaceInText ==
    ASSUME NEW s \in Seq(Letters), NEW n \in 0..Len(s), NEW text, text = SubSeq(s, n + 1, Len(s)),
           NEW tag \in {Open, Close}, NEW k \in Nat \ {0}
    PROVE  /\ MayBegin(text, tag, k) <=> MayBegin(s, tag, n + k)
           /\ Occurs(text, tag, k) <=> Occurs(s, tag, n + k)
<1>1. text \in Seq(Letters) /\ Len(text) = Len(s) - n /\ \A j \in 1..(Len(s) - n) : text[j] = s[n + j]
    BY TextIs
<1>2. Len(tag) \in Nat \ {0} /\ Len(s) \in Nat /\ n + k \in Nat \ {0}
    BY Tags, LenProperties
<1>3. \A j \in 1..Len(tag) : /\ k + j - 1 <= Len(text) <=> (n + k) + j - 1 <= Len(s)
                             /\ k + j - 1 <= Len(text) => text[k + j - 1] = s[(n + k) + j - 1]
    <2> SUFFICES ASSUME NEW j \in 1..Len(tag)
                 PROVE  /\ k + j - 1 <= Len(text) <=> (n + k) + j - 1 <= Len(s)
                        /\ k + j - 1 <= Len(text) => text[k + j - 1] = s[(n + k) + j - 1]
        OBVIOUS
    <2>1. k + j - 1 <= Len(text) <=> (n + k) + j - 1 <= Len(s)
        BY <1>1, <1>2
    <2>2. CASE k + j - 1 <= Len(text)
        <3>1. k + j - 1 \in 1..(Len(s) - n) /\ n + (k + j - 1) = (n + k) + j - 1
            BY <1>1, <1>2, <2>2
        <3> QED
            BY <1>1, <2>1, <3>1
    <2> QED
        BY <2>1, <2>2
<1>4. MayBegin(text, tag, k) <=> MayBegin(s, tag, n + k)
    BY <1>3 DEF MayBegin
<1>5. /\ Occurs(text, tag, k) <=> k + Len(tag) - 1 <= Len(text) /\ MayBegin(text, tag, k)
      /\ Occurs(s, tag, n + k) <=> (n + k) + Len(tag) - 1 <= Len(s) /\ MayBegin(s, tag, n + k)
    BY <1>1, <1>2, OccursIs
<1>6. k + Len(tag) - 1 <= Len(text) <=> (n + k) + Len(tag) - 1 <= Len(s)
    BY <1>1, <1>2
<1> QED
    BY <1>4, <1>5, <1>6

\* The first occurrence of a tag after place n of a text is i places further on.
FoundFrom(s, n, tag, i) ==
    /\ i \in 0..(Len(s) - n)
    /\ i = 0 => \A j \in (n + 1)..Len(s) : ~Occurs(s, tag, j)
    /\ i # 0 => /\ Occurs(s, tag, n + i)
                /\ n + i + Len(tag) - 1 <= Len(s)
                /\ \A j \in (n + 1)..(n + i - 1) : ~Occurs(s, tag, j)

LEMMA FoundAt ==
    ASSUME NEW s \in Seq(Letters), NEW n \in 0..Len(s), NEW text, text = SubSeq(s, n + 1, Len(s)),
           NEW tag \in {Open, Close}, NEW i, i = Find(text, tag)
    PROVE  FoundFrom(s, n, tag, i)
<1> DEFINE S == {k \in DOMAIN text : Occurs(text, tag, k)}
<1>1. text \in Seq(Letters) /\ Len(text) = Len(s) - n /\ DOMAIN text = 1..(Len(s) - n) /\ Len(s) \in Nat
    BY TextIs, LenProperties
<1>2. \A k : k \in S <=> k \in 1..(Len(s) - n) /\ Occurs(s, tag, n + k)
    <2>1. \A k \in 1..(Len(s) - n) : Occurs(text, tag, k) <=> Occurs(s, tag, n + k)
        <3>1. \A k \in 1..(Len(s) - n) : k \in Nat \ {0}
            OBVIOUS
        <3> QED
            BY <3>1, PlaceInText
    <2> QED
        BY <1>1, <2>1
<1>3. S \in SUBSET Nat /\ i = Least(S)
    BY <1>1 DEF Find
<1> HIDE DEF S
<1>4. (S = {} => i = 0) /\ (S # {} => i \in S /\ \A k \in S : i <= k)
    BY <1>3, LeastIsLeast
<1>5. \A j \in (n + 1)..Len(s) : Occurs(s, tag, j) <=> j - n \in S
    <2>1. \A j \in (n + 1)..Len(s) : j - n \in 1..(Len(s) - n) /\ n + (j - n) = j
        BY <1>1
    <2> QED
        BY <1>2, <2>1
<1>6. CASE S = {}
    BY <1>1, <1>4, <1>5, <1>6 DEF FoundFrom
<1>7. CASE S # {}
    <2>1. i \in 1..(Len(s) - n) /\ Occurs(s, tag, n + i) /\ n + i \in Nat \ {0}
        BY <1>1, <1>2, <1>4, <1>7
    <2>2. n + i + Len(tag) - 1 <= Len(s)
        <3>1. Len(s) \in 0..Len(s)
            BY <1>1
        <3> QED
            BY <2>1, <3>1, OccursWithin
    <2>3. \A j \in (n + 1)..(n + i - 1) : j \in (n + 1)..Len(s) /\ ~(i <= j - n)
        BY <1>1, <2>1
    <2>4. \A j \in (n + 1)..(n + i - 1) : ~Occurs(s, tag, j)
        BY <1>4, <1>5, <1>7, <2>3
    <2> QED
        BY <1>1, <2>1, <2>2, <2>4 DEF FoundFrom
<1> QED
    BY <1>6, <1>7

LEMMA TailAt ==
    ASSUME NEW s \in Seq(Letters), NEW n \in 0..Len(s), NEW text, text = SubSeq(s, n + 1, Len(s)),
           NEW tag \in {Open, Close}, Find(text, tag) = 0, NEW h, h = TagTail(text, tag)
    PROVE  /\ h \in 0..(Len(s) - n)
           /\ h < Len(tag)
           /\ \A j \in (n + 1)..(Len(s) - h) : ~MayBegin(s, tag, j)
<1>1. text \in Seq(Letters) /\ Len(text) = Len(s) - n /\ Len(s) \in Nat /\ Len(tag) \in Nat \ {0}
      /\ tag \in Seq(Letters)
    BY TextIs, LenProperties, TagsAssumption
<1>2. /\ h \in 0..Len(text) /\ h < Len(tag)
      /\ \A k \in 1..(Len(tag) - 1) :
             k <= Len(text) /\ SubSeq(text, Len(text) - k + 1, Len(text)) = SubSeq(tag, 1, k) => k <= h
    BY <1>1, TagTailType
<1>3. \A j \in (n + 1)..Len(s) : ~Occurs(s, tag, j)
    <2> DEFINE i == Find(text, tag)
    <2>1. i = 0
        OBVIOUS
    <2> HIDE DEF i
    <2> QED
        <3>1. FoundFrom(s, n, tag, i)
            BY FoundAt DEF i
        <3> QED
            BY <2>1, <3>1 DEF FoundFrom
<1>4. ASSUME NEW j \in (n + 1)..(Len(s) - h), MayBegin(s, tag, j)
      PROVE  FALSE
    <2> DEFINE k == j - n
               m == Len(s) - j + 1
    <2>1. /\ k \in Nat \ {0} /\ n + k = j /\ m \in Nat \ {0} /\ m <= Len(text) /\ m > h
          /\ Len(text) - m + 1 = k /\ j \in (n + 1)..Len(s) /\ j \in Nat \ {0}
        BY <1>1, <1>2
    <2>2. ~(j + Len(tag) - 1 <= Len(s))
        <3>1. Len(s) \in 0..Len(s)
            BY <1>1
        <3> QED
            BY <1>3, <1>4, <2>1, <3>1, OccursWithin
    <2>3. m \in 1..(Len(tag) - 1)
        BY <1>1, <2>1, <2>2
    <2>4. MayBegin(text, tag, k)
        <3> HIDE DEF k
        <3> QED
            BY <1>4, <2>1, PlaceInText
    <2> HIDE DEF k
    <2>5. SubSeq(text, k, Len(text)) = SubSeq(tag, 1, m)
        <3>1. /\ Len(text) \in 0..Len(text) /\ k <= Len(text) + 1 /\ Len(text) - k + 1 = m
              /\ m \in 0..Len(tag) /\ 1 <= m + 1 /\ m - 1 + 1 = m /\ \A l \in 1..m : 1 + l - 1 = l
            <4> HIDE DEF m
            <4>1. Len(text) \in Nat /\ Len(tag) \in Nat
                BY <1>1
            <4>2. Len(text) \in 0..Len(text) /\ k <= Len(text) + 1 /\ Len(text) - k + 1 = m
                BY <2>1, <4>1
            <4>3. m \in 0..Len(tag) /\ 1 <= m + 1 /\ m - 1 + 1 = m /\ \A l \in 1..m : 1 + l - 1 = l
                BY <2>1, <2>3, <4>1
            <4> QED
                BY <4>2, <4>3
        <3> HIDE DEF m
        <3>2. /\ SubSeq(text, k, Len(text)) \in Seq(Letters) /\ Len(SubSeq(text, k, Len(text))) = m
              /\ \A l \in 1..m : SubSeq(text, k, Len(text))[l] = text[k + l - 1]
            <4>1. PICK y \in Seq(Letters) : y = text
                BY <1>1
            <4> DEFINE e == Len(y)
            <4>2. e \in 0..Len(y) /\ k \in Nat \ {0} /\ k <= e + 1 /\ e - k + 1 = m
                BY <2>1, <3>1, <4>1
            <4> HIDE DEF e
            <4>3. /\ SubSeq(y, k, e) \in Seq(Letters)
                  /\ Len(SubSeq(y, k, e)) = e - k + 1
                  /\ \A l \in 1..(e - k + 1) : SubSeq(y, k, e)[l] = y[k + l - 1]
                BY <4>2, Span
            <4> QED
                BY <4>1, <4>2, <4>3 DEF e
        <3>3. /\ SubSeq(tag, 1, m) \in Seq(Letters) /\ Len(SubSeq(tag, 1, m)) = m
              /\ \A l \in 1..m : SubSeq(tag, 1, m)[l] = tag[l]
            <4>1. /\ Upto(tag, m) \in Seq(Letters) /\ Len(Upto(tag, m)) = m
                  /\ \A l \in 1..m : Upto(tag, m)[l] = tag[l]
                <5>1. tag \in Seq(Letters) /\ m \in 0..Len(tag)
                    BY <1>1, <3>1
                <5> QED
                    BY <5>1, UptoIs
            <4> QED
                BY <4>1 DEF Upto
        <3>4. \A l \in 1..m : l \in 1..Len(tag) /\ k + l - 1 <= Len(text)
            BY <1>1, <2>1, <2>3, <3>1
        <3>5. \A l \in 1..m : text[k + l - 1] = tag[l]
            BY <2>4, <3>4 DEF MayBegin
        <3> QED
            <4> DEFINE a == SubSeq(text, k, Len(text))
                       b == SubSeq(tag, 1, m)
            <4>1. /\ a \in Seq(Letters) /\ b \in Seq(Letters) /\ Len(a) = Len(b)
                  /\ \A l \in 1..Len(a) : a[l] = b[l]
                BY <3>2, <3>3, <3>5
            <4> HIDE DEF a, b
            <4>2. a = b
                BY <4>1, SeqEqual
            <4> QED
                BY <4>2 DEF a, b
    <2> HIDE DEF m
    <2>6. m <= h
        BY <1>2, <2>1, <2>3, <2>5
    <2> QED
        BY <1>2, <2>1, <2>6
<1> QED
    BY <1>1, <1>2, <1>4

-----------------------------------------------------------------------------
(* The think stripper: steps                                               *)

\* The stripper has settled the first n bytes that arrived and holds the rest back,
\* less of it than the tag it waits for once the chunk is taken.
HeldBack(n) ==
    /\ n \in 0..Len(sent)
    /\ buf \o chunk = SubSeq(sent, n + 1, Len(sent))
    /\ chunk = <<>> => Len(buf) < Len(IF inThink THEN Close ELSE Open)
    /\ eof => chunk = <<>> /\ buf = <<>>
    /\ ~cr

\* The blocks of what is settled open at P, and what lies outside them is spoken.
\* What may still arrive opens none there, nor does it close the open one before n.
Settled(n, P) ==
    /\ P \in SUBSET (1..n)
    /\ OpensAt(Upto(sent, n), P)
    /\ out = Pick(sent, OutsideOf(Upto(sent, n), P))
    /\ ~eof => \A i \in OutsideOf(Upto(sent, n), P) : ~MayBegin(sent, Open, i)
    /\ ~eof /\ inThink =>
           \E q \in P : /\ q + Len(Open) <= n + 1
                        /\ Closings(Upto(sent, n), q) = {}
                        /\ \A i \in (q + Len(Open))..n : ~MayBegin(sent, Close, i)
    /\ ~eof /\ ~inThink => \A o \in P : Closings(Upto(sent, n), o) # {}

ThinkInv == reader = "think" => \E n \in Nat : \E P \in SUBSET (1..n) : HeldBack(n) /\ Settled(n, P)

LEMMA ThinkFacts ==
    ASSUME TypeInv, reader = "think", NEW n, HeldBack(n)
    PROVE  /\ sent \in Seq(Letters) /\ buf \in Seq(Letters) /\ chunk \in Seq(Letters)
           /\ n \in Nat /\ Len(sent) \in Nat /\ n \in 0..Len(sent)
           /\ chunk # <<>> => ~eof
           /\ chunk = <<>> => buf = SubSeq(sent, n + 1, Len(sent)) /\ Len(buf) = Len(sent) - n
<1>1. sent \in Seq(Letters) /\ buf \in Seq(Letters) /\ chunk \in Seq(Letters)
    BY TypeFacts DEF Bytes
<1>2. n \in Nat /\ Len(sent) \in Nat /\ n \in 0..Len(sent)
    BY <1>1, LenProperties DEF HeldBack
<1>3. chunk = <<>> => buf = SubSeq(sent, n + 1, Len(sent)) /\ Len(buf) = Len(sent) - n
    <2>1. buf \o <<>> = buf
        BY <1>1, ConcatEmptySeq
    <2>2. chunk = <<>> => buf = SubSeq(sent, n + 1, Len(sent))
        BY <2>1 DEF HeldBack
    <2> QED
        BY <1>1, <1>2, <2>2, TextIs
<1> QED
    BY <1>1, <1>2, <1>3 DEF HeldBack

\* What is held back when the stripper waits is too short to be the tag it waits for.
LEMMA AllSettled ==
    ASSUME TypeInv, reader = "think", NEW n, NEW P, HeldBack(n), Settled(n, P), chunk = <<>>
    PROVE  /\ OpensAt(sent, P)
           /\ P \in SUBSET (DOMAIN sent)
           /\ out \o (IF inThink THEN <<>> ELSE buf) = Pick(sent, OutsideOf(sent, P))
<1> DEFINE N == Len(sent)
<1>1. /\ sent \in Seq(Letters) /\ n \in Nat /\ N \in Nat /\ n \in 0..N /\ N \in 0..N /\ P \in SUBSET (1..n)
      /\ buf = SubSeq(sent, n + 1, N) /\ Len(buf) = N - n /\ Upto(sent, N) = sent /\ DOMAIN sent = 1..N
    BY ThinkFacts, SubSeqFull, LenProperties DEF Settled, Upto
<1>2. sent \in Seq(Letters) /\ n \in Nat /\ Len(sent) \in Nat /\ n <= Len(sent) /\ DOMAIN sent = 1..Len(sent)
    <2>1. sent \in Seq(Letters) /\ n \in Nat /\ n \in 0..Len(sent)
        BY ThinkFacts
    <2> QED
        BY <2>1, LenProperties
<1>3. Len(Open) \in Nat \ {0} /\ Len(Close) \in Nat \ {0}
    BY Tags
<1>4. Len(buf) = Len(sent) - n
    BY <1>1
<1>5. out \in Seq(Letters)
    <2>1. OutsideOf(Upto(sent, n), P) \in SUBSET (1..n)
        BY <1>1, Known
    <2>2. \A i \in 1..n : sent[i] \in Letters
        <3>1. \A i \in 1..n : i \in 1..Len(sent)
            BY <1>2
        <3> QED
            BY <1>2, <3>1
    <2> QED
        BY <1>2, <2>1, <2>2, PickType DEF Settled
<1>6. out \o <<>> = out
    BY <1>5, ConcatEmptySeq
<1>7. P \in SUBSET (DOMAIN sent)
    <2>1. P \in SUBSET (1..n) /\ \A i \in 1..n : i \in 1..Len(sent)
        BY <1>2 DEF Settled
    <2> QED
        BY <1>2, <2>1
<1>8. CASE eof
    <2>1. buf = <<>>
        BY <1>8 DEF HeldBack
    <2>2. n = N
        <3>1. \A a, b \in Nat : b - a = 0 => a = b
            OBVIOUS
        <3>2. Len(sent) - n = 0
            <4>1. Len(<<>>) = 0
                OBVIOUS
            <4> QED
                BY <1>4, <2>1, <4>1
        <3>3. n \in Nat /\ Len(sent) \in Nat
            BY <1>2
        <3>4. n = Len(sent)
            BY <3>1, <3>2, <3>3, Zenon
        <3> QED
            BY <3>4
    <2> QED
        BY <1>1, <1>6, <1>7, <2>1, <2>2 DEF Settled
<1>9. CASE ~eof /\ ~inThink
    <2>1. \A i \in (n + 1)..N : ~Occurs(sent, Open, i)
        <3>1. \A i \in (n + 1)..N : i \in Nat \ {0} /\ ~(i + Len(Open) - 1 <= N)
            <4>1. Len(buf) < Len(Open)
                BY <1>9 DEF HeldBack
            <4> QED
                BY <1>2, <1>3, <1>4, <4>1
        <3> QED
            BY <1>1, <3>1, OccursWithin
    <2>2. /\ OpensAt(Upto(sent, N), P)
          /\ Pick(sent, OutsideOf(Upto(sent, N), P)) = Pick(sent, OutsideOf(Upto(sent, n), P)) \o SubSeq(sent, n + 1, N)
        <3> HIDE DEF N
        <3> QED
            BY <1>1, <1>9, <2>1, SpeakTo DEF Settled, N
    <2> QED
        BY <1>1, <1>7, <1>9, <2>2 DEF Settled
<1>10. CASE ~eof /\ inThink
    <2>1. PICK q \in P : /\ q + Len(Open) <= n + 1
                         /\ Closings(Upto(sent, n), q) = {}
                         /\ \A i \in (q + Len(Open))..n : ~MayBegin(sent, Close, i)
        BY <1>10 DEF Settled
    <2>2. \A j \in (n + 1)..N : ~(j + Len(Close) - 1 <= N)
        <3>1. Len(buf) < Len(Close)
            BY <1>10 DEF HeldBack
        <3> QED
            BY <1>2, <1>3, <1>4, <3>1
    <2>3. OpensAt(Upto(sent, N), P) /\ OutsideOf(Upto(sent, N), P) = OutsideOf(Upto(sent, n), P)
        <3>1. OpensAt(Upto(sent, n), P)
            BY DEF Settled
        <3>2. N \in 0..Len(sent) /\ n \in 0..N /\ sent \in Seq(Letters) /\ P \in SUBSET (1..n)
            BY <1>1
        <3> HIDE DEF N
        <3> QED
            <4>1. PICK s \in Seq(Letters) : s = sent
                BY <3>2
            <4>2. /\ N \in 0..Len(s) /\ n \in 0..N /\ OpensAt(Upto(s, n), P)
                  /\ Closings(Upto(s, n), q) = {} /\ \A i \in (q + Len(Open))..n : ~MayBegin(s, Close, i)
                  /\ \A j \in (n + 1)..N : j + Len(Close) - 1 <= N => ~Occurs(s, Close, j)
                BY <2>1, <2>2, <3>1, <3>2, <4>1
            <4> QED
                BY <2>1, <3>2, <4>1, <4>2, InsideTo
    <2> QED
        BY <1>1, <1>6, <1>7, <1>10, <2>3 DEF Settled
<1> QED
    BY <1>8, <1>9, <1>10

LEMMA ThinkArrive ==
    ASSUME TypeInv, ThinkInv, reader = "think", NEW c \in Chunks(reader), Arrive(c)
    PROVE  ThinkInv'
<1>1. PICK n \in Nat : \E P \in SUBSET (1..n) : HeldBack(n) /\ Settled(n, P)
    BY DEF ThinkInv
<1>2. PICK P \in SUBSET (1..n) : HeldBack(n) /\ Settled(n, P)
    BY <1>1
<1>3. /\ sent \in Seq(Letters) /\ buf \in Seq(Letters) /\ n \in 0..Len(sent) /\ Len(sent) \in Nat
      /\ buf = SubSeq(sent, n + 1, Len(sent))
    BY <1>2, ThinkFacts DEF Arrive, Waits
<1>4. c \in Seq(Letters) /\ c # <<>> /\ Len(c) \in Nat
    <2>1. PICK k \in 1..MaxChunk : c \in [1..k -> Letters]
        BY DEF Chunks, Bytes
    <2> QED
        BY <2>1, BoundsAssumption
<1>5. /\ ~cr /\ ~cr' /\ ~eof /\ ~eof' /\ reader' = reader /\ inThink' = inThink /\ out' = out /\ buf' = buf
      /\ sent' = sent \o c /\ chunk' = c
    BY <1>2 DEF Arrive, Waits, HeldBack
<1>6. /\ sent' \in Seq(Letters) /\ Len(sent') = Len(sent) + Len(c)
      /\ \A i \in 1..Len(sent) : sent'[i] = sent[i]
    BY <1>3, <1>4, <1>5, ConcatProperties
<1>7. Upto(sent', n) = Upto(sent, n)
    <2>1. n \in Int /\ n <= Len(sent) /\ 1 \in Nat \ {0}
        BY <1>3
    <2>2. SubSeq(sent \o c, 1, n) = SubSeq(sent, 1, n)
        BY <1>3, <1>4, <2>1, SubSeqKept
    <2> QED
        BY <1>5, <2>2 DEF Upto
<1>8. HeldBack(n)'
    <2>1. buf' \o chunk' = SubSeq(sent', n + 1, Len(sent'))
        <3>1. /\ n \in 0..Len(sent') /\ Len(sent) \in 0..Len(sent') /\ Len(sent) \in n..Len(sent')
              /\ Len(sent') \in Len(sent)..Len(sent') /\ n + 1 \in 1..(Len(sent') + 1)
              /\ Len(sent) \in ((n + 1) - 1)..Len(sent')
            BY <1>3, <1>4, <1>6
        <3>2. SubSeq(sent', n + 1, Len(sent)) \o SubSeq(sent', Len(sent) + 1, Len(sent')) = SubSeq(sent', n + 1, Len(sent'))
            BY <1>6, <3>1, ConcatAdjacentSubSeq
        <3>3. SubSeq(sent', n + 1, Len(sent)) = buf
            <4>1. n + 1 \in Nat \ {0} /\ Len(sent) \in Int /\ Len(sent) <= Len(sent)
                BY <1>3
            <4>2. SubSeq(sent \o c, n + 1, Len(sent)) = SubSeq(sent, n + 1, Len(sent))
                BY <1>3, <1>4, <4>1, SubSeqKept
            <4> QED
                BY <1>3, <1>5, <4>2
        <3>4. SubSeq(sent', Len(sent) + 1, Len(sent')) = c
            <4> DEFINE w == SubSeq(sent', Len(sent) + 1, Len(sent'))
            <4>1. w \in Seq(Letters) /\ Len(w) = Len(sent') - Len(sent)
                  /\ \A k \in 1..(Len(sent') - Len(sent)) : w[k] = sent'[Len(sent) + k]
                BY <1>6, <3>1, TextIs
            <4>2. \A k \in 1..Len(c) : sent'[Len(sent) + k] = c[k]
                BY <1>3, <1>4, <1>5, ConcatProperties
            <4>3. Len(sent') - Len(sent) = Len(c)
                BY <1>3, <1>4, <1>6
            <4> HIDE DEF w
            <4>4. w = c
                BY <1>4, <4>1, <4>2, <4>3, SeqEqual
            <4> QED
                BY <4>4 DEF w
        <3> QED
            BY <1>5, <3>2, <3>3, <3>4
    <2>2. n \in 0..Len(sent')
        BY <1>3, <1>4, <1>6
    <2> QED
        BY <1>4, <1>5, <2>1, <2>2 DEF HeldBack
<1>9. ASSUME NEW tag \in {Open, Close}, NEW i \in Nat \ {0}, ~MayBegin(sent, tag, i)
      PROVE  ~MayBegin(sent', tag, i)
    <2>1. PICK k \in 1..Len(tag) : i + k - 1 <= Len(sent) /\ sent[i + k - 1] # tag[k]
        BY <1>9 DEF MayBegin
    <2>2. i + k - 1 \in 1..Len(sent) /\ i + k - 1 <= Len(sent')
        BY <1>3, <1>4, <1>6, <2>1, Tags
    <2> QED
        BY <1>6, <2>1, <2>2 DEF MayBegin
<1>10. Settled(n, P)'
    <2>1. OutsideOf(Upto(sent, n), P) \in SUBSET (1..n)
        BY <1>3, Known
    <2>2. Pick(sent', OutsideOf(Upto(sent, n), P)) = Pick(sent, OutsideOf(Upto(sent, n), P))
        <3>1. \A i \in OutsideOf(Upto(sent, n), P) : sent'[i] = sent[i]
            BY <1>3, <1>6, <2>1, SMTT(30)
        <3> QED
            BY <2>1, <3>1, PickSame
    <2>3. \A i \in OutsideOf(Upto(sent, n), P) : ~MayBegin(sent', Open, i)
        BY <1>2, <1>5, <1>9, <2>1 DEF Settled
    <2>4. inThink =>
           \E q \in P : /\ q + Len(Open) <= n + 1
                        /\ Closings(Upto(sent, n), q) = {}
                        /\ \A i \in (q + Len(Open))..n : ~MayBegin(sent', Close, i)
        <3> SUFFICES ASSUME inThink
                     PROVE  \E q \in P : /\ q + Len(Open) <= n + 1
                                         /\ Closings(Upto(sent, n), q) = {}
                                         /\ \A i \in (q + Len(Open))..n : ~MayBegin(sent', Close, i)
            OBVIOUS
        <3>1. PICK q \in P : /\ q + Len(Open) <= n + 1
                             /\ Closings(Upto(sent, n), q) = {}
                             /\ \A i \in (q + Len(Open))..n : ~MayBegin(sent, Close, i)
            BY <1>2, <1>5 DEF Settled
        <3>2. \A i \in (q + Len(Open))..n : i \in Nat \ {0}
            BY Tags
        <3>3. \A i \in (q + Len(Open))..n : ~MayBegin(sent', Close, i)
            BY <1>9, <3>1, <3>2
        <3> QED
            BY <3>1, <3>3
    <2> QED
        BY <1>2, <1>5, <1>7, <2>2, <2>3, <2>4 DEF Settled
<1> QED
    BY <1>5, <1>8, <1>10 DEF ThinkInv

\* The text from n to l is spoken, and a block opens after it.
Spoke(s, n, l, m, P) ==
    /\ OpensAt(Upto(s, m), P \cup {l + 1})
    /\ Closings(Upto(s, m), l + 1) = {}
    /\ Pick(s, OutsideOf(Upto(s, m), P \cup {l + 1}))
           = Pick(s, OutsideOf(Upto(s, n), P)) \o SubSeq(s, n + 1, l)
    /\ \A i \in OutsideOf(Upto(s, m), P \cup {l + 1}) : ~MayBegin(s, Open, i)

LEMMA TagOpens ==
    ASSUME NEW s \in Seq(Letters), NEW n \in 0..Len(s), NEW P \in SUBSET (1..n),
           OpensAt(Upto(s, n), P),
           \A o \in P : Closings(Upto(s, n), o) # {},
           \A i \in OutsideOf(Upto(s, n), P) : ~MayBegin(s, Open, i),
           NEW l \in n..Len(s), NEW m, m = l + Len(Open), m <= Len(s),
           Occurs(s, Open, l + 1),
           \A j \in (n + 1)..l : ~Occurs(s, Open, j)
    PROVE  Spoke(s, n, l, m, P)
<1>1. /\ Len(s) \in Nat /\ Len(Open) \in Nat \ {0} /\ n \in Nat /\ l \in Nat /\ m \in Nat
      /\ l \in 0..Len(s) /\ n \in 0..l /\ m \in 0..Len(s) /\ P \in SUBSET (1..l)
    <2>1. Len(s) \in Nat /\ Len(Open) \in Nat \ {0} /\ n \in Nat /\ l \in Nat /\ m \in Nat
        BY Tags, LenProperties
    <2>2. l \in 0..Len(s) /\ n \in 0..l /\ m \in 0..Len(s) /\ \A k \in 1..n : k \in 1..l
        BY <2>1
    <2> QED
        BY <2>1, <2>2
<1>2. /\ OpensAt(Upto(s, l), P)
      /\ \A o \in P : Closings(Upto(s, l), o) # {}
      /\ OutsideOf(Upto(s, l), P) = OutsideOf(Upto(s, n), P) \cup (n + 1)..l
      /\ Pick(s, OutsideOf(Upto(s, l), P)) = Pick(s, OutsideOf(Upto(s, n), P)) \o SubSeq(s, n + 1, l)
    BY <1>1, SpeakTo
<1>3. ASSUME NEW i \in OutsideOf(Upto(s, l), P)
      PROVE  ~MayBegin(s, Open, i) /\ i \in Nat \ {0}
    <2>1. i \in 1..l
        BY <1>1, Known
    <2>2. i \in Nat \ {0} /\ (i \in (n + 1)..l => i + Len(Open) - 1 <= Len(s))
        BY <1>1, <2>1
    <2>3. CASE i \in (n + 1)..l
        <3>1. ~Occurs(s, Open, i)
            BY <2>3
        <3> QED
            BY <1>1, <2>2, <2>3, <3>1, OccursWithin
    <2>4. CASE i \in OutsideOf(Upto(s, n), P)
        BY <2>2, <2>4
    <2> QED
        BY <1>2, <2>3, <2>4
<1>4. \A i \in OutsideOf(Upto(s, l), P) : ~Occurs(Upto(s, m), Open, i)
    BY <1>1, <1>3, OccursWithin
<1>5. Occurs(Upto(s, m), Open, l + 1)
    <2>1. l + 1 \in Nat \ {0} /\ (l + 1) + Len(Open) - 1 <= m
        BY <1>1
    <2> QED
        BY <1>1, <2>1, OccursWithin
<1>6. /\ OpensAt(Upto(s, m), P \cup {l + 1})
      /\ Closings(Upto(s, m), l + 1) = {}
      /\ OutsideOf(Upto(s, m), P \cup {l + 1}) = OutsideOf(Upto(s, l), P)
    <2>1. /\ OpensAt(Upto(s, l), P)
          /\ \A o \in P : Closings(Upto(s, l), o) # {}
          /\ l \in Nat /\ P \in SUBSET (1..l)
        BY <1>1, <1>2
    <2>2. Opened(s, l, m, P)
        BY <1>4, <1>5, <2>1, OpenBlock
    <2> QED
        BY <2>2 DEF Opened
<1> QED
    BY <1>2, <1>3, <1>6 DEF Spoke

\* The text after n is cut in two, k items further on.
CutAt(s, n, text, k) ==
    /\ SubSeq(text, 1, k) = SubSeq(s, n + 1, n + k)
    /\ SubSeq(text, k + 1, Len(text)) = SubSeq(s, n + k + 1, Len(s))

LEMMA CutText ==
    ASSUME NEW s \in Seq(Letters), NEW n \in 0..Len(s), NEW text, text = SubSeq(s, n + 1, Len(s)),
           NEW k \in 0..(Len(s) - n)
    PROVE  CutAt(s, n, text, k)
<1>1. Len(text) = Len(s) - n /\ Len(s) \in Nat /\ k \in Nat /\ n + k <= Len(s)
    BY TextIs, LenProperties
<1>2. SubSeq(SubSeq(s, n + 1, Len(s)), 1, k) = SubSeq(s, n + 1, n + k)
    <2>1. 1 \in Nat \ {0} /\ 1 <= k + 1 /\ n + k <= Len(s)
        BY <1>1
    <2> QED
        BY <1>1, <2>1, SpanOfSpan
<1>3. SubSeq(SubSeq(s, n + 1, Len(s)), k + 1, Len(text)) = SubSeq(s, n + k + 1, Len(s))
    <2> DEFINE l == Len(text)
               i == k + 1
    <2>1. i \in Nat \ {0} /\ l \in Nat /\ i <= l + 1 /\ n + l <= Len(s) /\ n + i = n + k + 1 /\ n + l = Len(s)
        BY <1>1
    <2> HIDE DEF l, i
    <2>2. SubSeq(SubSeq(s, n + 1, Len(s)), i, l) = SubSeq(s, n + i, n + l)
        BY <2>1, SpanOfSpan
    <2> QED
        BY <2>1, <2>2 DEF l, i
<1> QED
    BY <1>2, <1>3 DEF CutAt

\* What the stripper has taken and what it keeps are all that has arrived.
LEMMA Taken ==
    ASSUME NEW s \in Seq(Letters), NEW n \in 0..Len(s)
    PROVE  SubSeq(s, n + 1, Len(s)) \o <<>> = SubSeq(s, n + 1, Len(s))
           /\ <<>> \o SubSeq(s, n + 1, Len(s)) = SubSeq(s, n + 1, Len(s))
<1>1. SubSeq(s, n + 1, Len(s)) \in Seq(Letters)
    BY TextIs
<1> QED
    BY <1>1, ConcatEmptySeq

LEMMA ThinkTagStep ==
    ASSUME TypeInv, ThinkInv, ThinkTag
    PROVE  ThinkInv'
<1>1. reader = "think" /\ chunk # <<>> /\ reader' = reader /\ sent' = sent /\ eof' = eof /\ cr' = cr
      /\ buf' = <<>> /\ inThink' = ~inThink
    BY DEF ThinkTag
<1>2. PICK n : n \in Nat /\ \E P \in SUBSET (1..n) : HeldBack(n) /\ Settled(n, P)
    BY <1>1 DEF ThinkInv
<1>3. PICK P \in SUBSET (1..n) : HeldBack(n) /\ Settled(n, P)
    BY <1>2
<1>4. PICK s \in Seq(Letters) : s = sent
    BY <1>1, <1>3, ThinkFacts
<1>5. PICK tag \in {Open, Close} : tag = IF inThink THEN Close ELSE Open
    OBVIOUS
<1>6. PICK text : text = SubSeq(s, n + 1, Len(s))
    OBVIOUS
<1>7. PICK i : i = Find(text, tag)
    OBVIOUS
<1>8. /\ i # 0
      /\ out' = IF inThink THEN out ELSE out \o SubSeq(text, 1, i - 1)
      /\ chunk' = SubSeq(text, i + Len(tag), Len(text))
    <2>1. buf \o chunk = text
        BY <1>3, <1>4, <1>6 DEF HeldBack
    <2> QED
        BY <1>5, <1>7, <2>1 DEF ThinkTag
<1>9. n \in 0..Len(s) /\ Len(s) \in Nat /\ Len(tag) \in Nat \ {0} /\ ~eof /\ ~cr /\ Len(<<>>) = 0
    BY <1>1, <1>3, <1>4, ThinkFacts, Tags DEF HeldBack
<1>10. /\ i \in 0..(Len(s) - n)
       /\ Occurs(s, tag, n + i)
       /\ n + i + Len(tag) - 1 <= Len(s)
       /\ \A j \in (n + 1)..(n + i - 1) : ~Occurs(s, tag, j)
    <2>1. n \in 0..Len(s) /\ i # 0
        BY <1>8, <1>9
    <2>2. FoundFrom(s, n, tag, i)
        BY <1>6, <1>7, <2>1, FoundAt
    <2> QED
        BY <2>1, <2>2 DEF FoundFrom
<1>11. PICK l : l = n + i - 1
    OBVIOUS
<1>12. PICK m : m = l + Len(tag)
    OBVIOUS
<1>13. /\ l \in n..Len(s) /\ l + 1 = n + i /\ m \in 0..Len(s) /\ m <= Len(s) /\ i - 1 \in Nat /\ l = n + (i - 1)
       /\ m = n + (i + Len(tag) - 1) /\ i + Len(tag) - 1 \in Nat /\ (i + Len(tag) - 1) + 1 = i + Len(tag)
       /\ n + i \in (n + 1)..m /\ m = (n + i) + Len(tag) - 1 /\ n \in 0..m /\ m \in Nat
    BY <1>8, <1>9, <1>10, <1>11, <1>12
<1>14. SubSeq(text, 1, i - 1) = SubSeq(s, n + 1, l)
    <2>1. PICK k : k = i - 1 /\ k \in Nat
        BY <1>13
    <2>2. l = n + k /\ k \in 0..(Len(s) - n) /\ n \in 0..Len(s)
        BY <1>9, <1>13, <2>1
    <2>3. CutAt(s, n, text, k)
        BY <1>6, <2>1, <2>2, CutText
    <2> QED
        BY <2>1, <2>2, <2>3 DEF CutAt
<1>15. SubSeq(text, i + Len(tag), Len(text)) = SubSeq(s, m + 1, Len(s))
    <2>1. PICK k : k = i + Len(tag) - 1 /\ k \in Nat
        BY <1>13
    <2>2. m = n + k /\ k \in 0..(Len(s) - n) /\ n \in 0..Len(s) /\ k + 1 = i + Len(tag)
        BY <1>9, <1>13, <2>1
    <2>3. CutAt(s, n, text, k)
        BY <1>6, <2>1, <2>2, CutText
    <2> QED
        BY <2>2, <2>3 DEF CutAt
<1>16. HeldBack(m)'
    <2>1. m \in 0..Len(sent')
        BY <1>1, <1>4, <1>13
    <2>2. buf' \o chunk' = SubSeq(sent', m + 1, Len(sent'))
        BY <1>1, <1>4, <1>8, <1>13, <1>15, Taken
    <2>3. chunk' = <<>> => Len(buf') < Len(IF inThink' THEN Close ELSE Open)
        BY <1>1, <1>9, Tags
    <2> QED
        BY <1>1, <1>9, <2>1, <2>2, <2>3 DEF HeldBack
<1>17. CASE ~inThink
    <2>1. PICK Q : Q = P \cup {l + 1}
        OBVIOUS
    <2>2. /\ OpensAt(Upto(s, n), P)
          /\ out = Pick(s, OutsideOf(Upto(s, n), P))
          /\ \A o \in P : Closings(Upto(s, n), o) # {}
          /\ \A j \in OutsideOf(Upto(s, n), P) : ~MayBegin(s, Open, j)
        BY <1>3, <1>4, <1>9, <1>17 DEF Settled
    <2>3. Occurs(s, Open, l + 1) /\ \A j \in (n + 1)..l : ~Occurs(s, Open, j)
        BY <1>5, <1>10, <1>11, <1>13, <1>17
    <2>4. /\ OpensAt(Upto(s, m), P \cup {l + 1})
          /\ Closings(Upto(s, m), l + 1) = {}
          /\ Pick(s, OutsideOf(Upto(s, m), P \cup {l + 1}))
                 = Pick(s, OutsideOf(Upto(s, n), P)) \o SubSeq(s, n + 1, l)
          /\ \A j \in OutsideOf(Upto(s, m), P \cup {l + 1}) : ~MayBegin(s, Open, j)
        <3>1. m = l + Len(Open)
            BY <1>5, <1>12, <1>17
        <3>2. n \in 0..Len(s) /\ l \in n..Len(s) /\ m <= Len(s)
            BY <1>9, <1>13
        <3> QED
            <4>1. Spoke(s, n, l, m, P)
                BY <2>2, <2>3, <3>1, <3>2, TagOpens
            <4> QED
                BY <4>1 DEF Spoke
    <2>5. Q \in SUBSET (1..m) /\ l + 1 \in Q /\ (l + 1) + Len(Open) <= m + 1 /\ ~((l + 1) + Len(Open) <= m)
          /\ \A j \in ((l + 1) + Len(Open))..m : FALSE
        <3>1. m = l + Len(Open)
            BY <1>5, <1>12, <1>17
        <3>2. Len(Open) \in Nat \ {0} /\ l \in Nat /\ n <= l
            BY <1>9, <1>13, Tags
        <3>3. l + 1 \in 1..m /\ \A j \in 1..n : j \in 1..m
            <4>1. n \in Nat /\ m \in Nat /\ n <= m /\ l + 1 <= m /\ 1 <= l + 1
                BY <1>13, <3>1, <3>2
            <4> QED
                BY <3>2, <4>1
        <3>4. /\ (l + 1) + Len(Open) <= m + 1 /\ ~((l + 1) + Len(Open) <= m)
              /\ \A j \in ((l + 1) + Len(Open))..m : FALSE
            BY <3>1, <3>2
        <3> QED
            BY <2>1, <3>3, <3>4
    <2>6. out' = Pick(s, OutsideOf(Upto(s, m), Q))
        BY <1>8, <1>14, <1>17, <2>1, <2>2, <2>4
    <2>7. Settled(m, Q)'
        BY <1>1, <1>4, <1>17, <2>1, <2>4, <2>5, <2>6 DEF Settled
    <2> QED
        BY <1>1, <1>13, <1>16, <2>5, <2>7 DEF ThinkInv
<1>18. CASE inThink
    <2>1. PICK q \in P : /\ q + Len(Open) <= n + 1
                         /\ Closings(Upto(s, n), q) = {}
                         /\ \A j \in (q + Len(Open))..n : ~MayBegin(s, Close, j)
        BY <1>3, <1>4, <1>9, <1>18 DEF Settled
    <2>2. /\ OpensAt(Upto(s, n), P)
          /\ out = Pick(s, OutsideOf(Upto(s, n), P))
          /\ \A j \in OutsideOf(Upto(s, n), P) : ~MayBegin(s, Open, j)
        BY <1>3, <1>4, <1>9 DEF Settled
    <2>3. PICK e : e = n + i
        OBVIOUS
    <2>4. /\ e \in (n + 1)..m /\ m = e + Len(Close) - 1 /\ Occurs(s, Close, e)
          /\ \A j \in (n + 1)..(e - 1) : ~Occurs(s, Close, j)
        BY <1>5, <1>10, <1>13, <1>18, <2>3
    <2>5. /\ OpensAt(Upto(s, m), P)
          /\ \A o \in P : Closings(Upto(s, m), o) # {}
          /\ OutsideOf(Upto(s, m), P) = OutsideOf(Upto(s, n), P)
        <3>1. m \in 0..Len(s) /\ n \in 0..m
            BY <1>13
        <3>2. OpensAt(Upto(s, n), P)
            BY <2>2
        <3> QED
            <4>1. Closed(s, n, m, P)
                BY <2>1, <2>4, <3>1, <3>2, CloseBlock
            <4> QED
                BY <4>1 DEF Closed
    <2>6. P \in SUBSET (1..m)
        <3>1. \A j \in 1..n : j \in 1..m
            BY <1>13
        <3> QED
            BY <3>1
    <2>7. Settled(m, P)'
        BY <1>1, <1>4, <1>8, <1>18, <2>2, <2>5, <2>6 DEF Settled
    <2> QED
        BY <1>1, <1>13, <1>16, <2>6, <2>7 DEF ThinkInv
<1> QED
    BY <1>17, <1>18

LEMMA ThinkRestStep ==
    ASSUME TypeInv, ThinkInv, ThinkRest
    PROVE  ThinkInv'
<1>1. reader = "think" /\ chunk # <<>> /\ reader' = reader /\ sent' = sent /\ eof' = eof /\ cr' = cr
      /\ chunk' = <<>> /\ inThink' = inThink
    BY DEF ThinkRest
<1>2. PICK n : n \in Nat /\ \E P \in SUBSET (1..n) : HeldBack(n) /\ Settled(n, P)
    BY <1>1 DEF ThinkInv
<1>3. PICK P \in SUBSET (1..n) : HeldBack(n) /\ Settled(n, P)
    BY <1>2
<1>4. PICK s \in Seq(Letters) : s = sent
    BY <1>1, <1>3, ThinkFacts
<1>5. PICK tag \in {Open, Close} : tag = IF inThink THEN Close ELSE Open
    OBVIOUS
<1>6. PICK text : text = SubSeq(s, n + 1, Len(s))
    OBVIOUS
<1>7. PICK h : h = TagTail(text, tag)
    OBVIOUS
<1>8. PICK k : k = Len(text) - h
    OBVIOUS
<1>9. /\ Find(text, tag) = 0
      /\ out' = IF inThink THEN out ELSE out \o SubSeq(text, 1, k)
      /\ buf' = SubSeq(text, k + 1, Len(text))
    <2>1. buf \o chunk = text
        BY <1>3, <1>4, <1>6 DEF HeldBack
    <2> QED
        BY <1>5, <1>7, <1>8, <2>1 DEF ThinkRest
<1>10. /\ n \in 0..Len(s) /\ Len(s) \in Nat /\ Len(tag) \in Nat \ {0} /\ ~eof /\ ~cr /\ n \in Nat
       /\ Len(text) = Len(s) - n
    BY <1>1, <1>3, <1>4, <1>6, ThinkFacts, Tags, TextIs DEF HeldBack
<1>11. /\ h \in 0..(Len(s) - n)
       /\ h < Len(tag)
       /\ \A j \in (n + 1)..(Len(s) - h) : ~MayBegin(s, tag, j)
    BY <1>6, <1>7, <1>9, <1>10, TailAt
<1>12. PICK m : m = n + k
    OBVIOUS
<1>13. /\ m = Len(s) - h /\ k \in 0..(Len(s) - n) /\ m \in 0..Len(s) /\ n \in 0..m /\ m \in Nat
       /\ Len(s) - m = h /\ \A j \in (n + 1)..m : j \in (n + 1)..Len(s) /\ j \in (n + 1)..(Len(s) - h)
       /\ \A j \in 1..n : j \in 1..m
    BY <1>8, <1>10, <1>11, <1>12
<1>14. \A j \in (n + 1)..m : ~Occurs(s, tag, j) /\ ~MayBegin(s, tag, j)
    <2>1. PICK i : i = Find(text, tag)
        OBVIOUS
    <2>2. FoundFrom(s, n, tag, i)
        BY <1>6, <1>10, <2>1, FoundAt
    <2> QED
        BY <1>9, <1>11, <1>13, <2>1, <2>2 DEF FoundFrom
<1>15. SubSeq(text, 1, k) = SubSeq(s, n + 1, m) /\ SubSeq(text, k + 1, Len(text)) = SubSeq(s, m + 1, Len(s))
    <2>1. CutAt(s, n, text, k)
        BY <1>6, <1>10, <1>13, CutText
    <2> QED
        BY <1>12, <2>1 DEF CutAt
<1>16. HeldBack(m)'
    <2>1. m \in 0..Len(sent')
        BY <1>1, <1>4, <1>13
    <2>2. buf' \o chunk' = SubSeq(sent', m + 1, Len(sent'))
        BY <1>1, <1>4, <1>9, <1>13, <1>15, Taken
    <2>3. Len(buf') = h
        <3>1. Len(SubSeq(s, m + 1, Len(s))) = Len(s) - m
            BY <1>13, TextIs
        <3> QED
            BY <1>9, <1>13, <1>15, <3>1
    <2>4. Len(buf') < Len(IF inThink' THEN Close ELSE Open)
        BY <1>1, <1>5, <1>11, <2>3
    <2> QED
        BY <1>1, <1>10, <2>1, <2>2, <2>4 DEF HeldBack
<1>17. P \in SUBSET (1..m)
    BY <1>13
<1>18. CASE ~inThink
    <2>1. /\ OpensAt(Upto(s, n), P)
          /\ out = Pick(s, OutsideOf(Upto(s, n), P))
          /\ \A o \in P : Closings(Upto(s, n), o) # {}
          /\ \A j \in OutsideOf(Upto(s, n), P) : ~MayBegin(s, Open, j)
        BY <1>3, <1>4, <1>10, <1>18 DEF Settled
    <2>2. tag = Open /\ m \in 0..Len(s) /\ n \in 0..m /\ \A j \in (n + 1)..m : ~Occurs(s, Open, j)
        BY <1>5, <1>13, <1>14, <1>18
    <2>3. /\ OpensAt(Upto(s, m), P)
          /\ \A o \in P : Closings(Upto(s, m), o) # {}
          /\ OutsideOf(Upto(s, m), P) = OutsideOf(Upto(s, n), P) \cup (n + 1)..m
          /\ Pick(s, OutsideOf(Upto(s, m), P)) = Pick(s, OutsideOf(Upto(s, n), P)) \o SubSeq(s, n + 1, m)
        BY <2>1, <2>2, SpeakTo
    <2>4. out' = Pick(s, OutsideOf(Upto(s, m), P))
        BY <1>9, <1>15, <1>18, <2>1, <2>3
    <2>5. \A j \in OutsideOf(Upto(s, m), P) : ~MayBegin(s, Open, j)
        BY <1>14, <2>1, <2>2, <2>3
    <2>6. Settled(m, P)'
        BY <1>1, <1>4, <1>17, <1>18, <2>3, <2>4, <2>5 DEF Settled
    <2> QED
        BY <1>1, <1>13, <1>16, <1>17, <2>6 DEF ThinkInv
<1>19. CASE inThink
    <2>1. PICK q \in P : /\ q + Len(Open) <= n + 1
                         /\ Closings(Upto(s, n), q) = {}
                         /\ \A j \in (q + Len(Open))..n : ~MayBegin(s, Close, j)
        BY <1>3, <1>4, <1>10, <1>19 DEF Settled
    <2>2. /\ OpensAt(Upto(s, n), P)
          /\ out = Pick(s, OutsideOf(Upto(s, n), P))
          /\ \A j \in OutsideOf(Upto(s, n), P) : ~MayBegin(s, Open, j)
        BY <1>3, <1>4, <1>10 DEF Settled
    <2>3. /\ m \in 0..Len(s) /\ n \in 0..m
          /\ \A j \in (n + 1)..m : ~Occurs(s, Close, j) /\ ~MayBegin(s, Close, j)
        BY <1>5, <1>13, <1>14, <1>19
    <2>4. /\ OpensAt(Upto(s, m), P)
          /\ Closings(Upto(s, m), q) = {}
          /\ OutsideOf(Upto(s, m), P) = OutsideOf(Upto(s, n), P)
        BY <2>1, <2>2, <2>3, InsideTo
    <2>5. q + Len(Open) <= m + 1 /\ \A j \in (q + Len(Open))..m : ~MayBegin(s, Close, j)
        <3>1. q \in 1..n /\ Len(Open) \in Nat /\ n \in Nat /\ m \in Nat /\ n <= m
            BY <1>10, <1>13, Tags
        <3>2. q + Len(Open) <= m + 1
            BY <2>1, <3>1
        <3>3. \A j \in (q + Len(Open))..m : j \in (q + Len(Open))..n \/ j \in (n + 1)..m
            BY <3>1
        <3> QED
            BY <2>1, <2>3, <3>2, <3>3
    <2>6. Settled(m, P)'
        BY <1>1, <1>4, <1>9, <1>17, <1>19, <2>1, <2>2, <2>4, <2>5 DEF Settled
    <2> QED
        BY <1>1, <1>13, <1>16, <1>17, <2>6 DEF ThinkInv
<1> QED
    BY <1>18, <1>19

LEMMA ThinkEofStep ==
    ASSUME TypeInv, ThinkInv, ThinkEof
    PROVE  ThinkInv'
<1>1. reader = "think" /\ chunk = <<>> /\ reader' = reader /\ sent' = sent /\ eof' /\ cr' = cr
      /\ chunk' = <<>> /\ buf' = <<>> /\ inThink' = inThink
      /\ out' = IF inThink THEN out ELSE out \o buf
    BY DEF ThinkEof, Waits
<1>2. PICK n : n \in Nat /\ \E P \in SUBSET (1..n) : HeldBack(n) /\ Settled(n, P)
    BY <1>1 DEF ThinkInv
<1>3. PICK P \in SUBSET (1..n) : HeldBack(n) /\ Settled(n, P)
    BY <1>2
<1>4. PICK s \in Seq(Letters) : s = sent
    BY <1>1, <1>3, ThinkFacts
<1>5. PICK m : m = Len(s)
    OBVIOUS
<1>6. /\ m \in Nat /\ m \in 0..Len(s) /\ Upto(s, m) = s /\ DOMAIN s = 1..m /\ ~cr
    BY <1>3, <1>5, LenProperties, SubSeqFull DEF HeldBack, Upto
<1>7. /\ OpensAt(Upto(s, m), P)
      /\ P \in SUBSET (1..m)
      /\ out \o (IF inThink THEN <<>> ELSE buf) = Pick(s, OutsideOf(Upto(s, m), P))
    BY <1>1, <1>3, <1>4, <1>6, AllSettled
<1>8. out' = Pick(s, OutsideOf(Upto(s, m), P))
    <2>1. out \o <<>> = out
        <3>1. OutsideOf(Upto(s, n), P) \in SUBSET (1..n) /\ n \in 0..Len(s) /\ Len(s) \in Nat
            BY <1>1, <1>3, <1>4, ThinkFacts, Known
        <3>2. \A i \in 1..n : s[i] \in Letters
            BY <3>1
        <3>3. out \in Seq(Letters)
            BY <1>2, <1>3, <1>4, <3>1, <3>2, PickType DEF Settled
        <3> QED
            BY <3>3, ConcatEmptySeq
    <2> QED
        BY <1>1, <1>7, <2>1
<1>9. HeldBack(m)'
    <2>1. SubSeq(sent', m + 1, Len(sent')) = <<>>
        <3>1. SubSeq(s, m + 1, Len(s)) \in Seq(Letters) /\ Len(SubSeq(s, m + 1, Len(s))) = Len(s) - m
            BY <1>6, TextIs
        <3>2. Len(s) - m = 0
            BY <1>5, <1>6
        <3> QED
            BY <1>1, <1>4, <3>1, <3>2, EmptySeq
    <2>2. buf' \o chunk' = <<>>
        BY <1>1, ConcatEmptySeq
    <2>3. Len(<<>>) < Len(Open) /\ Len(<<>>) < Len(Close)
        BY Tags
    <2> QED
        BY <1>1, <1>4, <1>6, <2>1, <2>2, <2>3 DEF HeldBack
<1>10. Settled(m, P)'
    BY <1>1, <1>4, <1>7, <1>8 DEF Settled
<1> QED
    BY <1>1, <1>6, <1>7, <1>9, <1>10 DEF ThinkInv

LEMMA ThinkInit ==
    ASSUME Init
    PROVE  ThinkInv
<1>1. /\ sent = <<>> /\ chunk = <<>> /\ buf = <<>> /\ ~inThink /\ out = <<>> /\ ~eof /\ ~cr
    BY DEF Init
<1>2. Len(sent) = 0 /\ <<>> \in Seq(Letters)
    BY <1>1
<1>3. HeldBack(0)
    <2>1. SubSeq(sent, 0 + 1, Len(sent)) = <<>>
        BY <1>1, <1>2
    <2>2. buf \o chunk = <<>>
        BY <1>1, ConcatEmptySeq
    <2> QED
        BY <1>1, <1>2, <2>1, <2>2, Tags DEF HeldBack
<1>4. {} \in SUBSET (1..0)
    OBVIOUS
<1>5. Settled(0, {})
    <2>1. /\ Upto(sent, 0) \in Seq(Letters)
          /\ OpensAt(Upto(sent, 0), {}) <=> \A i \in 1..0 : i \in {} <=> Occurs(Upto(sent, 0), Open, i)
          /\ \A i : i \in OutsideOf(Upto(sent, 0), {}) <=> i \in 1..0
        <3>1. 0 \in 0..Len(sent) /\ sent \in Seq(Letters)
            BY <1>1, <1>2
        <3> QED
            BY <3>1, UptoIs, Known
    <2>2. OutsideOf(Upto(sent, 0), {}) = {}
        BY <2>1
    <2>3. out = Pick(sent, {})
        BY <1>1, FS_EmptySet DEF Pick
    <2> QED
        BY <1>1, <1>4, <2>1, <2>2, <2>3 DEF Settled
<1> QED
    BY <1>3, <1>4, <1>5 DEF ThinkInv

LEMMA ThinkStep ==
    ASSUME TypeInv, ThinkInv, [Next]_vars
    PROVE  ThinkInv'
<1>1. CASE reader' # "think"
    BY <1>1 DEF ThinkInv
<1>2. CASE reader = "think"
    <2>1. ASSUME NEW c \in Chunks(reader), Arrive(c)
          PROVE  ThinkInv'
        BY <1>2, <2>1, ThinkArrive
    <2>2. CASE ThinkTag
        BY <2>2, ThinkTagStep
    <2>3. CASE ThinkRest
        BY <2>3, ThinkRestStep
    <2>4. CASE ThinkEof
        BY <2>4, ThinkEofStep
    <2>5. ~SseLine /\ ~SseRest /\ ~SseEof /\ ~NdjsonLine /\ ~NdjsonRest /\ ~NdjsonEof
        BY <1>2 DEF SseLine, SseRest, SseEof, NdjsonLine, NdjsonRest, NdjsonEof
    <2>6. CASE UNCHANGED vars
        BY <2>6 DEF vars, ThinkInv, HeldBack, Settled
    <2> QED
        BY <2>1, <2>2, <2>3, <2>4, <2>5, <2>6 DEF Next
<1>3. reader' = reader
    BY DEF Next, vars, Arrive, SseLine, SseRest, SseEof, NdjsonLine, NdjsonRest, NdjsonEof,
           ThinkTag, ThinkRest, ThinkEof, KeepRest
<1> QED
    BY <1>1, <1>2, <1>3

\* However the deltas cut a text, what was put out and what is held back are the
\* text outside its blocks of reasoning (_ThinkStripper: "correctly handling multiple
\* blocks and tags split across deltas/chunks").
THEOREM Stripped == Spec => []ReasoningIsStripped
<1>1. Init => ThinkInv
    BY ThinkInit
<1>2. TypeInv /\ ThinkInv /\ [Next]_vars => ThinkInv'
    BY ThinkStep
<1>3. TypeInv /\ ThinkInv => ReasoningIsStripped
    <2> SUFFICES ASSUME TypeInv, ThinkInv, reader = "think", chunk = <<>>
                 PROVE  out \o (IF inThink THEN <<>> ELSE buf) = Spoken(sent)
        BY DEF ReasoningIsStripped
    <2>1. PICK n : n \in Nat /\ \E P \in SUBSET (1..n) : HeldBack(n) /\ Settled(n, P)
        BY DEF ThinkInv
    <2>2. PICK P \in SUBSET (1..n) : HeldBack(n) /\ Settled(n, P)
        BY <2>1
    <2>3. /\ OpensAt(sent, P)
          /\ P \in SUBSET (DOMAIN sent)
          /\ out \o (IF inThink THEN <<>> ELSE buf) = Pick(sent, OutsideOf(sent, P))
        BY <2>2, AllSettled
    <2>4. sent \in Seq(Letters)
        BY <2>2, ThinkFacts
    <2>5. Openings(sent) = P
        BY <2>3, <2>4, OpeningsAre
    <2> QED
        BY <2>3, <2>5 DEF Spoken, Outside, OutsideOf
<1> QED
    BY <1>1, <1>2, <1>3, TypeInit, TypeStep, PTL DEF Spec

=============================================================================
