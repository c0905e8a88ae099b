--------------------------- MODULE Queues_proofs ---------------------------
(***************************************************************************)
(* What a queue without repetitions holds after an element was added or    *)
(* some of them left it, for any elements.                                 *)
(***************************************************************************)
EXTENDS Queues, Functions, SequenceTheorems, FiniteSetTheorems, TLAPS

\* A function on 1 .. n is a sequence.
LEMMA FunctionIsSeq ==
    ASSUME NEW S, NEW n \in Nat, NEW f \in [1 .. n -> S]
    PROVE  f \in Seq(S) /\ Len(f) = n /\ DOMAIN f = 1 .. n
<1>1. f \in Seq(S) BY SeqDef
<1> QED BY <1>1, LenProperties

\* How many elements of a set of numbers are below i.
Rank(left, i) == Cardinality({j \in left : j < i})

\* The elements of a finite set of numbers are its first, second, ... last.
LEMMA Ranks ==
    ASSUME NEW m \in Nat, NEW left \in SUBSET (1 .. m)
    PROVE  /\ Cardinality(left) \in Nat
           /\ \A i \in left : Rank(left, i) \in 0 .. Cardinality(left) - 1
           /\ \A i, j \in left : Rank(left, i) = Rank(left, j) => i = j
           /\ \A k \in 0 .. Cardinality(left) - 1 : \E i \in left : Rank(left, i) = k
<1>1. IsFiniteSet(left) /\ Cardinality(left) \in Nat
  <2>1. IsFiniteSet(1 .. m) BY FS_Interval
  <2> QED BY <2>1, FS_Subset, FS_CardinalityType
<1> DEFINE Below(i) == {j \in left : j < i}
<1>2. ASSUME NEW i \in left
      PROVE  IsFiniteSet(Below(i)) /\ Rank(left, i) \in 0 .. Cardinality(left) - 1
  <2>1. Below(i) \in SUBSET left /\ Below(i) # left BY <1>2
  <2>2. IsFiniteSet(Below(i)) /\ Cardinality(Below(i)) <= Cardinality(left)
        /\ Cardinality(Below(i)) # Cardinality(left)
    BY <1>1, <2>1, FS_Subset
  <2>3. Cardinality(Below(i)) \in Nat BY <2>2, FS_CardinalityType
  <2> QED BY <1>1, <2>2, <2>3 DEF Rank
<1>3. ASSUME NEW i \in left, NEW j \in left, i < j PROVE Rank(left, i) # Rank(left, j)
  <2>1. \A k \in left : k \in Int OBVIOUS
  <2>2. \A k \in left : k < i => k < j BY <1>3, <2>1
  <2>3. i \in Below(j) /\ i \notin Below(i) BY <1>3, <2>1
  <2>4. Below(i) \in SUBSET Below(j) BY <2>2
  <2>5. Below(i) # Below(j) BY <2>3
  <2>6. Cardinality(Below(i)) # Cardinality(Below(j)) BY <1>2, <2>4, <2>5, FS_Subset
  <2> QED BY <2>6 DEF Rank
<1>4. \A i, j \in left : Rank(left, i) = Rank(left, j) => i = j
  <2>1. \A i, j \in left : i = j \/ i < j \/ j < i OBVIOUS
  <2> QED BY <1>3, <2>1
<1>5. ASSUME NEW k \in 0 .. Cardinality(left) - 1 PROVE \E i \in left : Rank(left, i) = k
  <2> DEFINE f == [i \in left |-> Rank(left, i)]
             ranks == 0 .. Cardinality(left) - 1
  <2>1. f \in Injection(left, ranks) BY <1>2, <1>4 DEF Injection, IsInjective
  <2>2. IsFiniteSet(ranks) /\ Cardinality(ranks) = Cardinality(left) BY <1>1, FS_Interval
  <2>3. f \in Surjection(left, ranks) BY <2>1, <2>2, FS_Injection
  <2> QED BY <2>3 DEF Surjection
<1> QED BY <1>1, <1>2, <1>4, <1>5

\* Exactly those gone leave a queue.
LEMMA RemainingQueue ==
    ASSUME NEW S, NEW q \in Seq(S), IsInjective(q), NEW gone
    PROVE  /\ Remaining(q, gone) \in Seq(S) /\ IsInjective(Remaining(q, gone))
           /\ Range(Remaining(q, gone)) = Range(q) \ gone
<1> DEFINE left == {i \in DOMAIN q : q[i] \notin gone}
           Kth(k) == CHOOSE i \in left : Rank(left, i) = k - 1
           d == [k \in 1 .. Cardinality(left) |-> q[Kth(k)]]
<1>1. Len(q) \in Nat /\ DOMAIN q = 1 .. Len(q) /\ \A i \in 1 .. Len(q) : q[i] \in S
  BY LenProperties
<1>2. left \in SUBSET (1 .. Len(q)) BY <1>1
<1> HIDE DEF left
<1>3. /\ Cardinality(left) \in Nat
      /\ \A i \in left : Rank(left, i) \in 0 .. Cardinality(left) - 1
      /\ \A i, j \in left : Rank(left, i) = Rank(left, j) => i = j
      /\ \A k \in 0 .. Cardinality(left) - 1 : \E i \in left : Rank(left, i) = k
  BY <1>1, <1>2, Ranks
<1>4. ASSUME NEW k \in 1 .. Cardinality(left) PROVE Kth(k) \in left /\ Rank(left, Kth(k)) = k - 1
  <2>1. k - 1 \in 0 .. Cardinality(left) - 1 BY <1>3
  <2> QED BY <1>3, <2>1
<1>5. ASSUME NEW i \in left
      PROVE  Rank(left, i) + 1 \in 1 .. Cardinality(left) /\ Kth(Rank(left, i) + 1) = i
  <2>1. Rank(left, i) + 1 \in 1 .. Cardinality(left) /\ (Rank(left, i) + 1) - 1 = Rank(left, i)
    BY <1>3
  <2>2. Kth(Rank(left, i) + 1) \in left /\ Rank(left, Kth(Rank(left, i) + 1)) = Rank(left, i)
    BY <1>4, <2>1
  <2> QED BY <1>3, <2>1, <2>2
<1>6. Remaining(q, gone) = d BY DEF Remaining, Rank, left
<1> HIDE DEF Kth
<1>7. d \in [1 .. Cardinality(left) -> S] BY <1>1, <1>2, <1>4
<1>8. d \in Seq(S) /\ DOMAIN d = 1 .. Cardinality(left) BY <1>3, <1>7, FunctionIsSeq
<1>9. ASSUME NEW k \in DOMAIN d, NEW l \in DOMAIN d, d[k] = d[l] PROVE k = l
  <2>1. k \in 1 .. Cardinality(left) /\ l \in 1 .. Cardinality(left) BY <1>8
  <2>2. q[Kth(k)] = q[Kth(l)] /\ Kth(k) \in DOMAIN q /\ Kth(l) \in DOMAIN q
    BY <1>1, <1>2, <1>4, <1>9, <2>1
  <2>3. Kth(k) = Kth(l) BY <2>2 DEF IsInjective
  <2>4. k - 1 = l - 1 BY <1>4, <2>1, <2>3
  <2> QED BY <1>3, <2>1, <2>4
<1>10. ASSUME NEW x \in Range(q) \ gone PROVE x \in Range(d)
  <2>1. PICK i \in DOMAIN q : q[i] = x BY DEF Range
  <2>2. i \in left BY <2>1 DEF left
  <2>3. d[Rank(left, i) + 1] = x /\ Rank(left, i) + 1 \in DOMAIN d BY <1>5, <1>8, <2>1, <2>2
  <2> QED BY <2>3 DEF Range
<1>11. ASSUME NEW x \in Range(d) PROVE x \in Range(q) \ gone
  <2>1. PICK k \in DOMAIN d : d[k] = x BY DEF Range
  <2>2. k \in 1 .. Cardinality(left) /\ x = q[Kth(k)] BY <1>8, <2>1
  <2>3. Kth(k) \in DOMAIN q /\ q[Kth(k)] \notin gone BY <1>4, <2>2 DEF left
  <2> QED BY <2>2, <2>3 DEF Range
<1> QED BY <1>6, <1>8, <1>9, <1>10, <1>11 DEF IsInjective

\* The rest of a queue behind its first.
LEMMA RestOfQueue ==
    ASSUME NEW S, NEW q \in Seq(S), IsInjective(q), q # <<>>
    PROVE  /\ 1 \in DOMAIN q /\ q[1] \in S
           /\ SubSeq(q, 2, Len(q)) \in Seq(S) /\ IsInjective(SubSeq(q, 2, Len(q)))
           /\ Range(SubSeq(q, 2, Len(q))) = Range(q) \ {q[1]}
<1> DEFINE s == SubSeq(q, 2, Len(q))
<1>1. Len(q) \in Nat \ {0} /\ DOMAIN q = 1 .. Len(q) /\ \A i \in 1 .. Len(q) : q[i] \in S
  BY LenProperties, EmptySeq
<1>2. s \in Seq(S) /\ Len(s) = Len(q) - 1 /\ \A i \in 1 .. Len(q) - 1 : s[i] = q[i + 1]
  <2>1. \A i \in 2 .. Len(q) : q[i] \in S BY <1>1
  <2>2. /\ s \in Seq(S) /\ Len(s) = IF 2 <= Len(q) THEN Len(q) - 2 + 1 ELSE 0
        /\ \A i \in 1 .. Len(q) - 2 + 1 : s[i] = q[2 + i - 1]
    BY <1>1, <2>1, SubSeqProperties
  <2>3. \A i \in 1 .. Len(q) - 1 : s[i] = q[i + 1]
    <3> TAKE i \in 1 .. Len(q) - 1
    <3>1. i \in 1 .. Len(q) - 2 + 1 /\ 2 + i - 1 = i + 1 BY <1>1
    <3> QED BY <2>2, <3>1
  <2> QED BY <1>1, <2>2, <2>3
<1>3. DOMAIN s = 1 .. Len(q) - 1 BY <1>2, LenProperties
<1> HIDE DEF s
<1>4. ASSUME NEW i \in DOMAIN s, NEW j \in DOMAIN s, s[i] = s[j] PROVE i = j
  <2>1. i + 1 \in DOMAIN q /\ j + 1 \in DOMAIN q /\ q[i + 1] = q[j + 1] BY <1>1, <1>2, <1>3, <1>4
  <2>2. i + 1 = j + 1 BY <2>1 DEF IsInjective
  <2> QED BY <1>1, <1>3, <2>2
<1>5. ASSUME NEW x \in Range(s) PROVE x \in Range(q) \ {q[1]}
  <2>1. PICK i \in DOMAIN s : s[i] = x BY DEF Range
  <2>2. i + 1 \in DOMAIN q /\ q[i + 1] = x /\ i + 1 # 1 /\ 1 \in DOMAIN q BY <1>1, <1>2, <1>3, <2>1
  <2>3. q[i + 1] # q[1] BY <2>2 DEF IsInjective
  <2> QED BY <2>2, <2>3 DEF Range
<1>6. ASSUME NEW x \in Range(q) \ {q[1]} PROVE x \in Range(s)
  <2>1. PICK i \in DOMAIN q : q[i] = x BY DEF Range
  <2>2. i # 1 BY <1>6, <2>1
  <2>3. i - 1 \in DOMAIN s /\ s[i - 1] = x
    <3>1. i - 1 \in 1 .. Len(q) - 1 /\ (i - 1) + 1 = i BY <1>1, <2>1, <2>2
    <3> QED BY <1>2, <1>3, <2>1, <3>1
  <2> QED BY <2>3 DEF Range
<1>7. 1 \in DOMAIN q /\ q[1] \in S BY <1>1
<1>8. IsInjective(s) BY <1>4 DEF IsInjective
<1>9. Range(s) = Range(q) \ {q[1]} BY <1>5, <1>6
<1> QED BY <1>2, <1>7, <1>8, <1>9 DEF s

\* A queue that gets one more.
LEMMA LongerQueue ==
    ASSUME NEW S, NEW q \in Seq(S), IsInjective(q), NEW n \in S, n \notin Range(q)
    PROVE  /\ Append(q, n) \in Seq(S) /\ IsInjective(Append(q, n))
           /\ Range(Append(q, n)) = Range(q) \cup {n}
<1> DEFINE s == Append(q, n)
<1>1. Len(q) \in Nat /\ DOMAIN q = 1 .. Len(q) BY LenProperties
<1>2. /\ s \in Seq(S) /\ Len(s) = Len(q) + 1 /\ \A i \in 1 .. Len(q) : s[i] = q[i]
      /\ s[Len(q) + 1] = n
  BY AppendProperties
<1>3. DOMAIN s = 1 .. Len(q) + 1 BY <1>2, LenProperties
<1> HIDE DEF s
<1>4. \A i \in DOMAIN q : q[i] # n BY DEF Range
<1>5. ASSUME NEW i \in DOMAIN s, NEW j \in DOMAIN s, s[i] = s[j] PROVE i = j
  <2>1. \A k \in DOMAIN s : k \in DOMAIN q \/ k = Len(q) + 1 BY <1>1, <1>3
  <2>2. CASE i \in DOMAIN q /\ j \in DOMAIN q BY <1>1, <1>2, <1>5, <2>2 DEF IsInjective
  <2>3. CASE i = Len(q) + 1 \/ j = Len(q) + 1 BY <1>1, <1>2, <1>4, <1>5, <2>1, <2>3
  <2> QED BY <2>1, <2>2, <2>3
<1>6. Range(s) = Range(q) \cup {n}
  <2>1. ASSUME NEW x \in Range(s) PROVE x \in Range(q) \cup {n}
    <3>1. PICK i \in DOMAIN s : s[i] = x BY <2>1 DEF Range
    <3>2. i \in DOMAIN q \/ i = Len(q) + 1 BY <1>1, <1>3, <3>1
    <3> QED BY <1>1, <1>2, <3>1, <3>2 DEF Range
  <2>2. ASSUME NEW x \in Range(q) PROVE x \in Range(s)
    <3>1. PICK i \in DOMAIN q : q[i] = x BY <2>2 DEF Range
    <3>2. i \in DOMAIN s /\ s[i] = x BY <1>1, <1>2, <1>3, <3>1
    <3> QED BY <3>2 DEF Range
  <2>3. n \in Range(s)
    <3>1. Len(q) + 1 \in DOMAIN s BY <1>1, <1>3
    <3> QED BY <1>2, <3>1 DEF Range
  <2> QED BY <2>1, <2>2, <2>3
<1> QED BY <1>2, <1>5, <1>6 DEF s, IsInjective
=============================================================================
