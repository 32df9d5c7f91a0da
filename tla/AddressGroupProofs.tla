-------------------------- MODULE AddressGroupProofs --------------------------
(***************************************************************************)
(* What holds of an address group for all sets of addresses, all pushes,   *)
(* all statistics and all settings: what its state is made of, that only   *)
(* addresses in use count as faulty, that the elastic pool has its size,   *)
(* that the round robin reaches a connected address, that neither ready()  *)
(* nor the retry loop waits for nothing, and which weights recover.        *)
(***************************************************************************)
EXTENDS AddressGroup, FiniteSetTheorems, TLAPS

-----------------------------------------------------------------------------
(* Sequences without repetitions *)

LEMMA FunctionIsSequence ==
  ASSUME NEW S, NEW n \in Nat, NEW s \in [1..n -> S]
  PROVE  s \in Seq(S) /\ Len(s) = n
OBVIOUS

LEMMA PrefixFacts ==
  ASSUME NEW S, NEW s \in Seq(S), IsInjective(s), NEW m \in 0..Len(s)
  PROVE  /\ SubSeq(s, 1, m) \in Seq(S)
         /\ Len(SubSeq(s, 1, m)) = m
         /\ IsInjective(SubSeq(s, 1, m))
<1>1. /\ SubSeq(s, 1, m) \in Seq(S) /\ Len(SubSeq(s, 1, m)) = m
      /\ \A i \in 1..m : SubSeq(s, 1, m)[i] = s[i]
  OBVIOUS
<1>2. DOMAIN SubSeq(s, 1, m) = 1..m /\ 1..m \subseteq DOMAIN s
  BY <1>1
<1> QED
  BY <1>1, <1>2 DEF IsInjective

LEMMA ReverseFacts ==
  ASSUME NEW S, NEW s \in Seq(S), IsInjective(s)
  PROVE  /\ Reverse(s) \in Seq(S)
         /\ Len(Reverse(s)) = Len(s)
         /\ IsInjective(Reverse(s))
<1>1. \A i \in 1..Len(s) : Len(s) - i + 1 \in 1..Len(s) /\ Reverse(s)[i] = s[Len(s) - i + 1]
  BY DEF Reverse
<1>2. DOMAIN Reverse(s) = 1..Len(s) /\ DOMAIN s = 1..Len(s)
  BY DEF Reverse
<1>3. Reverse(s) \in [1..Len(s) -> S]
  BY <1>1 DEF Reverse
<1>4. ASSUME NEW i \in 1..Len(s), NEW j \in 1..Len(s), Reverse(s)[i] = Reverse(s)[j]
      PROVE  i = j
  <2>1. Len(s) - i + 1 = Len(s) - j + 1
    BY <1>1, <1>2, <1>4 DEF IsInjective
  <2> QED
    BY <2>1
<1>5. Reverse(s) \in Seq(S) /\ Len(Reverse(s)) = Len(s)
  BY <1>2, <1>3
<1> QED
  BY <1>2, <1>4, <1>5 DEF IsInjective

LEMMA ConcatFacts ==
  ASSUME NEW S, NEW s \in Seq(S), IsInjective(s),
         NEW T, NEW t \in Seq(T), IsInjective(t), S \cap T = {}
  PROVE  /\ s \o t \in Seq(S \cup T)
         /\ Len(s \o t) = Len(s) + Len(t)
         /\ IsInjective(s \o t)
<1>0. s \in Seq(S \cup T) /\ t \in Seq(S \cup T)
  OBVIOUS
<1>1. /\ s \o t \in Seq(S \cup T) /\ Len(s \o t) = Len(s) + Len(t)
      /\ \A i \in 1..Len(s) + Len(t) :
           (s \o t)[i] = IF i <= Len(s) THEN s[i] ELSE t[i - Len(s)]
  BY <1>0
<1>2. /\ DOMAIN (s \o t) = 1..(Len(s) + Len(t))
      /\ DOMAIN s = 1..Len(s) /\ DOMAIN t = 1..Len(t)
  BY <1>1
<1>3. ASSUME NEW i \in 1..(Len(s) + Len(t)), NEW j \in 1..(Len(s) + Len(t)),
             (s \o t)[i] = (s \o t)[j]
      PROVE  i = j
  <2>1. CASE i <= Len(s) /\ j <= Len(s)
    BY <1>1, <1>2, <1>3, <2>1 DEF IsInjective
  <2>2. CASE i > Len(s) /\ j > Len(s)
    <3>1. i - Len(s) \in 1..Len(t) /\ j - Len(s) \in 1..Len(t)
      BY <2>2
    <3>2. t[i - Len(s)] = t[j - Len(s)]
      BY <1>1, <1>3, <2>2
    <3>3. i - Len(s) = j - Len(s)
      BY <1>2, <3>1, <3>2 DEF IsInjective
    <3> QED
      BY <3>3
  <2>3. ASSUME NEW k \in 1..Len(s), NEW l \in 1..(Len(s) + Len(t)), l > Len(s)
        PROVE  (s \o t)[k] # (s \o t)[l]
    <3>1. (s \o t)[k] = s[k] /\ s[k] \in S
      BY <1>1
    <3>2. (s \o t)[l] = t[l - Len(s)] /\ l - Len(s) \in 1..Len(t)
      BY <1>1, <2>3
    <3> QED
      BY <3>1, <3>2
  <2> QED
    BY <1>3, <2>1, <2>2, <2>3
<1> QED
  BY <1>1, <1>2, <1>3 DEF IsInjective

LEMMA DistinctCount ==
  ASSUME NEW S, NEW s \in Seq(S), IsInjective(s), NEW T
  PROVE  /\ IsFiniteSet(ToSet(s))
         /\ Cardinality(ToSet(s)) = Len(s)
         /\ Cardinality({j \in 1..Len(s) : s[j] \in T}) = Cardinality(ToSet(s) \cap T)
<1>1. DOMAIN s = 1..Len(s) /\ Len(s) \in Nat
  OBVIOUS
<1>2. IsFiniteSet(1..Len(s)) /\ Cardinality(1..Len(s)) = Len(s)
  BY <1>1, FS_Interval
<1>3. ASSUME NEW J \in SUBSET (1..Len(s)), NEW I, I = {s[j] : j \in J}
      PROVE  IsFiniteSet(I) /\ Cardinality(I) = Cardinality(J)
  <2>1. IsFiniteSet(J)
    BY <1>2, FS_Subset
  <2> DEFINE f == [j \in J |-> s[j]]
  <2>2. f \in Bijection(J, I)
    BY <1>1, <1>3 DEF IsInjective, Bijection, Injection, Surjection
  <2>3. ExistsBijection(J, I)
    BY <2>2 DEF ExistsBijection
  <2> QED
    BY <2>1, <2>3, FS_Bijection
<1>4. ToSet(s) = {s[j] : j \in 1..Len(s)}
  BY <1>1 DEF ToSet
<1>5. ToSet(s) \cap T = {s[j] : j \in {k \in 1..Len(s) : s[k] \in T}}
  BY <1>4
<1> QED
  BY <1>2, <1>3, <1>4, <1>5

-----------------------------------------------------------------------------
(* Filtering: Among *)

\* How many of the first i elements are in T.
Rank(s, T, i) == Cardinality({j \in 1..i : s[j] \in T})

LEMMA RankStep ==
  ASSUME NEW S, NEW s \in Seq(S), NEW T
  PROVE  /\ \A i \in 0..Len(s) : Rank(s, T, i) \in Nat
         /\ Rank(s, T, 0) = 0
         /\ \A i \in 1..Len(s) :
              Rank(s, T, i) = Rank(s, T, i - 1) + (IF s[i] \in T THEN 1 ELSE 0)
<1> DEFINE R(i) == {j \in 1..i : s[j] \in T}
<1>1. ASSUME NEW i \in 0..Len(s)
      PROVE  IsFiniteSet(R(i)) /\ Cardinality(R(i)) \in Nat
  <2>1. IsFiniteSet(1..i)
    BY FS_Interval
  <2>2. R(i) \in SUBSET (1..i)
    OBVIOUS
  <2>3. IsFiniteSet(R(i))
    BY <2>1, <2>2, FS_Subset
  <2> QED
    BY <2>3, FS_CardinalityType
<1>2. R(0) = {}
  OBVIOUS
<1>3. ASSUME NEW i \in 1..Len(s)
      PROVE  Rank(s, T, i) = Rank(s, T, i - 1) + (IF s[i] \in T THEN 1 ELSE 0)
  <2>1. i - 1 \in 0..Len(s) /\ i \notin R(i - 1)
    OBVIOUS
  <2>2. R(i) = IF s[i] \in T THEN R(i - 1) \cup {i} ELSE R(i - 1)
    OBVIOUS
  <2>3. Cardinality(R(i - 1) \cup {i}) = Cardinality(R(i - 1)) + 1
    BY <1>1, <2>1, FS_AddElement
  <2>4. Rank(s, T, i) = Cardinality(R(i)) /\ Rank(s, T, i - 1) = Cardinality(R(i - 1))
    BY DEF Rank
  <2>5. Cardinality(R(i - 1)) \in Nat
    BY <1>1, <2>1
  <2> HIDE DEF R
  <2> QED
    BY <2>2, <2>3, <2>4, <2>5
<1> QED
  BY <1>1, <1>2, <1>3, FS_EmptySet DEF Rank

\* A set of natural numbers has a least element.
LEMMA LeastElement ==
  ASSUME NEW H \in SUBSET Nat, H # {}
  PROVE  \E i \in H : \A j \in H : i <= j
<1> DEFINE R == OpToRel(<, Nat)
<1>1. IsWellFoundedOn(R, Nat)
  BY NatLessThanWellFounded, Zenon
<1>2. \A i, j \in Nat : j < i => <<j, i>> \in R
  BY Zenon DEF OpToRel
<1> HIDE DEF R
<1>3. PICK i \in H : \A j \in H : ~ (<<j, i>> \in R)
  BY <1>1, WFMin
<1>4. \A j \in H : ~ (j < i)
  BY <1>2, <1>3
<1> QED
  BY <1>4

LEMMA RankReached ==
  ASSUME NEW S, NEW s \in Seq(S), NEW T, NEW k \in 1..Rank(s, T, Len(s))
  PROVE  \E i \in 1..Len(s) : s[i] \in T /\ Rank(s, T, i) = k
<1> DEFINE H == {i \in 0..Len(s) : Rank(s, T, i) >= k}
<1>0. /\ \A i \in 0..Len(s) : Rank(s, T, i) \in Nat
      /\ Rank(s, T, 0) = 0
      /\ \A i \in 1..Len(s) :
           Rank(s, T, i) = Rank(s, T, i - 1) + (IF s[i] \in T THEN 1 ELSE 0)
  BY RankStep
<1>1. Len(s) \in 0..Len(s) /\ Rank(s, T, Len(s)) \in Nat
  BY <1>0
<1>2. Len(s) \in H /\ H \in SUBSET Nat
  BY <1>1
<1>3. PICK i \in H : \A j \in H : i <= j
  BY <1>2, LeastElement
<1> HIDE DEF H
<1>4. i \in 0..Len(s) /\ Rank(s, T, i) >= k /\ Rank(s, T, i) \in Nat /\ k \in Nat \ {0}
  BY <1>0, <1>1, <1>3 DEF H
<1>5. i \in 1..Len(s)
  BY <1>4, <1>0
<1>6. i - 1 \in 0..Len(s) /\ i - 1 \notin H
  BY <1>3, <1>5 DEF H
<1>7. Rank(s, T, i - 1) < k /\ Rank(s, T, i - 1) \in Nat
  BY <1>4, <1>6, <1>0 DEF H
<1>8. Rank(s, T, i) = Rank(s, T, i - 1) + (IF s[i] \in T THEN 1 ELSE 0)
  BY <1>5, <1>0
<1> QED
  BY <1>4, <1>5, <1>7, <1>8

\* Among keeps the elements that are in T, each once, and nothing else.
LEMMA AmongFacts ==
  ASSUME NEW S, NEW s \in Seq(S), IsInjective(s), NEW T
  PROVE  /\ Among(s, T) \in Seq(ToSet(s) \cap T)
         /\ Len(Among(s, T)) = Cardinality(ToSet(s) \cap T)
         /\ IsInjective(Among(s, T))
<1> DEFINE n == Rank(s, T, Len(s))
           At_(k) == CHOOSE i \in 1..Len(s) : s[i] \in T /\ Rank(s, T, i) = k
<1>0. \A i \in 0..Len(s) : Rank(s, T, i) \in Nat
  BY RankStep
<1>1. n \in Nat /\ n = Cardinality(ToSet(s) \cap T)
  <2>1. Cardinality({j \in 1..Len(s) : s[j] \in T}) = Cardinality(ToSet(s) \cap T)
    BY DistinctCount
  <2>2. Len(s) \in 0..Len(s)
    OBVIOUS
  <2> QED
    BY <1>0, <2>1, <2>2 DEF Rank
<1>2. Among(s, T) = [k \in 1..n |-> s[At_(k)]]
  BY DEF Among, Rank
<1>3. ASSUME NEW k \in 1..n
      PROVE  At_(k) \in 1..Len(s) /\ s[At_(k)] \in T /\ Rank(s, T, At_(k)) = k
  BY RankReached
<1> HIDE DEF At_, n
<1>4. DOMAIN s = 1..Len(s)
  OBVIOUS
<1>5. ASSUME NEW k \in 1..n PROVE Among(s, T)[k] \in ToSet(s) \cap T
  BY <1>2, <1>3, <1>4 DEF ToSet
<1>6. Among(s, T) \in [1..n -> ToSet(s) \cap T]
  BY <1>2, <1>5
<1>7. Among(s, T) \in Seq(ToSet(s) \cap T) /\ Len(Among(s, T)) = n
  BY <1>1, <1>6, FunctionIsSequence
<1>8. ASSUME NEW k \in 1..n, NEW l \in 1..n, Among(s, T)[k] = Among(s, T)[l]
      PROVE  k = l
  <2>1. At_(k) = At_(l)
    BY <1>2, <1>3, <1>4, <1>8 DEF IsInjective
  <2> QED
    BY <1>3, <2>1
<1>9. DOMAIN Among(s, T) = 1..n
  BY <1>2
<1> QED
  BY <1>1, <1>7, <1>8, <1>9 DEF IsInjective

-----------------------------------------------------------------------------
(* Choosing addresses *)

\* What the chosen addresses number when `size` is the pool's size and n all.
ChosenLen(n, size) ==
  IF ~ NeedElasticControl(n) \/ size > n THEN n ELSE Least(size, MaxAddressCount)

\* The stack is used up from its top; its bottom are the bad addresses.
StackedUp(g, taken) ==
  LET rest == ToSet(g.all) \ ToSet(taken)
  IN Reverse(Reverse(Among(g.all, rest \cap Bad(g))) \o Among(g.all, rest \ Bad(g)))

LEMMA StackFacts ==
  ASSUME NEW g, g.all \in Seq(Address), IsInjective(g.all),
         NEW taken \in Seq(ToSet(g.all)), IsInjective(taken)
  PROVE  /\ StackedUp(g, taken) \in Seq(ToSet(g.all) \ ToSet(taken))
         /\ IsInjective(StackedUp(g, taken))
         /\ Len(StackedUp(g, taken)) = Len(g.all) - Len(taken)
<1> DEFINE A == ToSet(g.all)
           rest == A \ ToSet(taken)
           low == rest \cap Bad(g)
           high == rest \ Bad(g)
           bads == Among(g.all, low)
           goods == Among(g.all, high)
<1>1. /\ IsFiniteSet(A) /\ Cardinality(A) = Len(g.all)
      /\ Cardinality(ToSet(taken)) = Len(taken)
  BY DistinctCount
<1>2. ToSet(taken) \subseteq A
  BY DEF ToSet
<1>3. A \cap low = low /\ A \cap high = high /\ low \cap high = {} /\ low \cup high = rest
  OBVIOUS
<1>4. bads \in Seq(low) /\ Len(bads) = Cardinality(low) /\ IsInjective(bads)
  BY <1>3, AmongFacts
<1>5. goods \in Seq(high) /\ Len(goods) = Cardinality(high) /\ IsInjective(goods)
  BY <1>3, AmongFacts
<1>6. /\ Cardinality(low) + Cardinality(high) = Cardinality(rest)
      /\ Cardinality(rest) = Len(g.all) - Len(taken)
  <2>1. IsFiniteSet(rest) /\ Cardinality(rest) = Cardinality(A) - Cardinality(A \cap ToSet(taken))
    BY <1>1, FS_Difference
  <2>2. A \cap ToSet(taken) = ToSet(taken)
    BY <1>2
  <2>3. IsFiniteSet(low) /\ IsFiniteSet(high)
    BY <2>1, <1>3, FS_Subset
  <2>4. Cardinality(low \cup high) = Cardinality(low) + Cardinality(high) - Cardinality(low \cap high)
    BY <2>3, FS_Union
  <2>5. Cardinality(low) \in Nat /\ Cardinality(high) \in Nat /\ Cardinality({}) = 0
    BY <2>3, FS_CardinalityType, FS_EmptySet
  <2>6. Len(g.all) \in Nat /\ Len(taken) \in Nat
    OBVIOUS
  <2>7. Cardinality(low \cup high) = Cardinality(rest) /\ Cardinality(low \cap high) = 0
    BY <1>3, <2>5
  <2>8. Cardinality(rest) = Len(g.all) - Len(taken)
    BY <1>1, <2>1, <2>2
  <2> HIDE DEF low, high, rest
  <2> QED
    BY <2>4, <2>5, <2>6, <2>7, <2>8
<1> HIDE DEF bads, goods, low, high
<1>7. Reverse(bads) \in Seq(low) /\ Len(Reverse(bads)) = Len(bads) /\ IsInjective(Reverse(bads))
  BY <1>4, ReverseFacts
<1>8. /\ Reverse(bads) \o goods \in Seq(low \cup high)
      /\ Len(Reverse(bads) \o goods) = Len(Reverse(bads)) + Len(goods)
      /\ IsInjective(Reverse(bads) \o goods)
  BY <1>3, <1>5, <1>7, ConcatFacts
<1>9. Reverse(bads) \o goods \in Seq(rest)
  BY <1>3, <1>8
<1>10. /\ Reverse(Reverse(bads) \o goods) \in Seq(rest)
       /\ Len(Reverse(Reverse(bads) \o goods)) = Len(Reverse(bads) \o goods)
       /\ IsInjective(Reverse(Reverse(bads) \o goods))
  BY <1>8, <1>9, ReverseFacts
<1>11. StackedUp(g, taken) = Reverse(Reverse(bads) \o goods)
  BY DEF StackedUp, bads, goods, low, high
<1> QED
  BY <1>4, <1>5, <1>6, <1>7, <1>8, <1>10, <1>11

LEMMA ChooseFacts ==
  ASSUME NEW g, g.all \in Seq(Address), IsInjective(g.all), g.poolSize \in Nat, NEW fresh
  PROVE  /\ ChooseAddresses(g, fresh) \in Seq(ToSet(g.all))
         /\ IsInjective(ChooseAddresses(g, fresh))
         /\ Len(ChooseAddresses(g, fresh)) = ChosenLen(Len(g.all), g.poolSize)
<1> DEFINE left == Least(g.poolSize, MaxAddressCount)
           first == Among(g.all, FirstChoice(g, fresh))
           taken == SubSeq(first, 1, Least(left, Len(first)))
           up == StackedUp(g, taken)
           more == SubSeq(up, 1, left - Len(taken))
<1>1. g.all \in Seq(ToSet(g.all))
  <2>1. Len(g.all) \in Nat /\ g.all \in [1..Len(g.all) -> ToSet(g.all)]
    BY DEF ToSet
  <2> QED
    BY <2>1, FunctionIsSequence
<1>2. CASE ~ NeedElasticControl(Len(g.all)) \/ g.poolSize > Len(g.all)
  BY <1>1, <1>2 DEF ChooseAddresses, ChosenLen
<1>3. CASE ~ (~ NeedElasticControl(Len(g.all)) \/ g.poolSize > Len(g.all))
  <2>1. left \in Nat /\ left <= g.poolSize /\ g.poolSize <= Len(g.all) /\ Len(g.all) \in Nat
    BY <1>3, PoolAssumption DEF Least
  <2>2. first \in Seq(ToSet(g.all) \cap FirstChoice(g, fresh)) /\ IsInjective(first)
    BY AmongFacts
  <2>3. first \in Seq(ToSet(g.all)) /\ Len(first) \in Nat
    BY <2>2
  <2> HIDE DEF first, left
  <2>4. Least(left, Len(first)) \in 0..Len(first) /\ Least(left, Len(first)) <= left
    BY <2>1, <2>3 DEF Least
  <2>5. /\ taken \in Seq(ToSet(g.all)) /\ Len(taken) = Least(left, Len(first))
        /\ IsInjective(taken)
    BY <2>2, <2>3, <2>4, PrefixFacts
  <2> HIDE DEF taken
  <2>6. /\ up \in Seq(ToSet(g.all) \ ToSet(taken)) /\ IsInjective(up)
        /\ Len(up) = Len(g.all) - Len(taken)
    BY <2>5, StackFacts
  <2> HIDE DEF up
  <2>7. left - Len(taken) \in 0..Len(up)
    BY <2>1, <2>4, <2>5, <2>6
  <2>8. /\ more \in Seq(ToSet(g.all) \ ToSet(taken)) /\ Len(more) = left - Len(taken)
        /\ IsInjective(more)
    BY <2>6, <2>7, PrefixFacts
  <2> HIDE DEF more
  <2>9. taken \in Seq(ToSet(taken)) /\ ToSet(taken) \subseteq ToSet(g.all)
    <3>1. /\ Len(taken) \in Nat /\ taken \in [1..Len(taken) -> ToSet(taken)]
          /\ ToSet(taken) \subseteq ToSet(g.all)
      BY <2>5 DEF ToSet
    <3> QED
      BY <3>1, FunctionIsSequence
  <2> DEFINE P == ToSet(taken)
             Q == ToSet(g.all) \ P
  <2>10. P \cap Q = {}
    OBVIOUS
  <2>11. /\ taken \in Seq(P) /\ IsInjective(taken)
         /\ more \in Seq(Q) /\ IsInjective(more)
    BY <2>5, <2>8, <2>9
  <2> HIDE DEF P, Q
  <2>12. /\ taken \o more \in Seq(P \cup Q)
         /\ Len(taken \o more) = Len(taken) + Len(more)
         /\ IsInjective(taken \o more)
    BY <2>10, <2>11, ConcatFacts
  <2>13. /\ taken \o more \in Seq(ToSet(taken) \cup (ToSet(g.all) \ ToSet(taken)))
         /\ Len(taken \o more) = Len(taken) + Len(more)
         /\ IsInjective(taken \o more)
    BY <2>12 DEF P, Q
  <2>14. ToSet(taken) \cup (ToSet(g.all) \ ToSet(taken)) = ToSet(g.all)
    BY <2>9
  <2>15. ChooseAddresses(g, fresh) = taken \o more
    BY <1>3 DEF ChooseAddresses, StackedUp, taken, more, up, first, left
  <2>16. Len(taken) + Len(more) = left
    BY <2>1, <2>5, <2>8
  <2>17. ChosenLen(Len(g.all), g.poolSize) = left
    BY <1>3 DEF ChosenLen, left
  <2> QED
    BY <2>13, <2>14, <2>15, <2>16, <2>17
<1> QED
  BY <1>2, <1>3

-----------------------------------------------------------------------------
(* The state of a group *)

Weightings == UNION {[A -> 0..DefaultWeight] : A \in SUBSET Address}

GroupType ==
  [all : Seq(Address), list : Seq(Address), weight : Weightings,
   fault : SUBSET Address, degradeEnable : BOOLEAN, poolSize : Nat,
   conn : [Address -> {"none", "connecting", "up"}],
   awaited : SUBSET Address, asked : SUBSET Address]

(* Whatever is known of an address is known of an address in use, and none  *)
(* is in use twice (address_group.js:129-145).                              *)
GroupOK(g) ==
  /\ g \in GroupType
  /\ IsInjective(g.all) /\ IsInjective(g.list)
  /\ DOMAIN g.weight = ToSet(g.list)
  /\ g.fault \subseteq ToSet(g.list)

(* The pool holds all addresses or as many as it should; not to be relied   *)
(* on between a new size and the refresh() that follows.                    *)
Filled(g) ==
  \/ Len(g.list) = Len(g.all)
  \/ /\ NeedElasticControl(Len(g.all)) /\ g.poolSize <= Len(g.all)
     /\ Len(g.list) = Least(g.poolSize, MaxAddressCount)

LEMMA TypeOfSet ==
  ASSUME NEW S, NEW s \in Seq(S)
  PROVE  ToSet(s) \subseteq S /\ Len(s) \in Nat /\ DOMAIN s = 1..Len(s)
BY DEF ToSet

LEMMA AssignOK ==
  ASSUME NEW g, GroupOK(g), NEW fresh
  PROVE  /\ GroupOK(Assign(g, fresh)) /\ Filled(Assign(g, fresh))
         /\ Len(Assign(g, fresh).list) = ChosenLen(Len(g.all), g.poolSize)
         /\ Assign(g, fresh).all = g.all /\ Assign(g, fresh).poolSize = g.poolSize
<1> DEFINE chosen == ChooseAddresses(g, fresh)
           h == Assign(g, fresh)
           weights == [a \in ToSet(chosen) |->
                         IF a \in DOMAIN g.weight THEN g.weight[a] ELSE DefaultWeight]
           conns == [a \in Address |->
                       IF a \in ToSet(chosen) /\ g.conn[a] = "none"
                       THEN "connecting" ELSE g.conn[a]]
<1>1. /\ g \in GroupType /\ IsInjective(g.all)
      /\ DOMAIN g.weight = ToSet(g.list) /\ g.fault \subseteq ToSet(g.list)
  BY DEF GroupOK
<1>2. g.all \in Seq(Address) /\ g.poolSize \in Nat
  BY <1>1 DEF GroupType
<1>3. /\ chosen \in Seq(ToSet(g.all)) /\ IsInjective(chosen)
      /\ Len(chosen) = ChosenLen(Len(g.all), g.poolSize)
  BY <1>1, <1>2, ChooseFacts
<1>4. ToSet(chosen) \subseteq Address /\ chosen \in Seq(Address)
  BY <1>2, <1>3, TypeOfSet
<1>5. \A a \in DOMAIN g.weight : g.weight[a] \in 0..DefaultWeight
  BY <1>1 DEF GroupType, Weightings
<1>6. weights \in [ToSet(chosen) -> 0..DefaultWeight]
  BY <1>5, WeightsAssumption
<1>7. conns \in [Address -> {"none", "connecting", "up"}]
  BY <1>1 DEF GroupType
<1>8. h = [g EXCEPT !.list = chosen, !.weight = weights, !.fault = g.fault \cap ToSet(chosen),
                    !.degradeEnable = TRUE, !.conn = conns, !.asked = g.asked \cup ToSet(chosen)]
  BY DEF Assign
<1> HIDE DEF chosen, weights, conns, h
<1>9. weights \in Weightings /\ DOMAIN weights = ToSet(chosen)
  BY <1>4, <1>6 DEF Weightings
<1>10. h \in GroupType
  BY <1>1, <1>4, <1>7, <1>8, <1>9 DEF GroupType
<1>11. /\ h.all = g.all /\ h.list = chosen /\ h.poolSize = g.poolSize
       /\ h.weight = weights /\ h.fault = g.fault \cap ToSet(chosen)
  BY <1>1, <1>8 DEF GroupType
<1>12. Len(g.all) \in Nat
  BY <1>2
<1>13. Filled(h)
  BY <1>2, <1>3, <1>11, <1>12 DEF Filled, ChosenLen
<1>14. GroupOK(h)
  BY <1>1, <1>3, <1>9, <1>10, <1>11 DEF GroupOK
<1> QED
  BY <1>3, <1>11, <1>13, <1>14 DEF h

LEMMA FilledFits ==
  ASSUME NEW g, GroupOK(g), Filled(g)
  PROVE  Len(g.list) <= Len(g.all) /\ Len(g.list) \in Nat /\ Len(g.all) \in Nat
BY PoolAssumption DEF GroupOK, GroupType, Filled, Least

\* refresh() leaves a filled pool of any size it finds.
LEMMA refreshOK ==
  ASSUME NEW g, GroupOK(g), Len(g.list) <= Len(g.all)
  PROVE  /\ GroupOK(refresh(g)) /\ Filled(refresh(g))
         /\ refresh(g).all = g.all /\ refresh(g).poolSize = g.poolSize
<1>1. CASE Len(g.all) > Len(g.list)
  BY <1>1, AssignOK DEF refresh
<1>2. CASE ~ (Len(g.all) > Len(g.list))
  <2>1. Len(g.all) \in Nat /\ Len(g.list) \in Nat
    BY DEF GroupOK, GroupType
  <2>2. Len(g.list) = Len(g.all)
    BY <1>2, <2>1
  <2> QED
    BY <1>2, <2>2 DEF refresh, Filled
<1> QED
  BY <1>1, <1>2

LEMMA AdjustOK ==
  ASSUME NEW g, GroupOK(g), Filled(g), NEW requests \in Nat
  PROVE  /\ GroupOK(AdjustConnectionPoolSize(g, requests))
         /\ Filled(AdjustConnectionPoolSize(g, requests))
<1> DEFINE need == Least(Most(CeilDiv(requests, CapacityPerConnection), MinAddressCount),
                         MaxAddressCount)
           h == [g EXCEPT !.poolSize = need]
<1>1. need \in Nat
  BY PoolAssumption DEF Least, Most, CeilDiv
<1> HIDE DEF need
<1>2. GroupOK(h)
  BY <1>1 DEF GroupOK, GroupType
<1>3. Len(h.list) <= Len(h.all)
  BY FilledFits DEF GroupOK, GroupType
<1>4. GroupOK(refresh(h)) /\ Filled(refresh(h))
  BY <1>2, <1>3, refreshOK
<1> QED
  BY <1>4 DEF AdjustConnectionPoolSize, need

LEMMA ConnectedOK ==
  ASSUME NEW g, GroupOK(g), Filled(g), NEW a \in Address, NEW ok
  PROVE  GroupOK(Connected(g, a, ok)) /\ Filled(Connected(g, a, ok))
<1>1. /\ g \in GroupType /\ DOMAIN g.weight = ToSet(g.list)
      /\ g.fault \subseteq ToSet(g.list)
  BY DEF GroupOK
<1>2. CASE ok
  <2> DEFINE h == [g EXCEPT !.fault = @ \ {a}]
  <2>1. h \in GroupType /\ h.fault \subseteq ToSet(g.list)
    BY <1>1 DEF GroupType
  <2> QED
    BY <1>1, <1>2, <2>1 DEF Connected, GroupOK, Filled, GroupType
<1>3. CASE ~ ok /\ a \in DOMAIN g.weight
  <2> DEFINE h == [g EXCEPT !.weight[a] = 0, !.fault = @ \cup {a}]
  <2>1. h.weight \in Weightings /\ DOMAIN h.weight = DOMAIN g.weight
    <3>1. PICK A \in SUBSET Address : g.weight \in [A -> 0..DefaultWeight]
      BY <1>1 DEF GroupType, Weightings
    <3>2. 0 \in 0..DefaultWeight
      BY WeightsAssumption
    <3>3. [g.weight EXCEPT ![a] = 0] \in [A -> 0..DefaultWeight]
      BY <3>1, <3>2
    <3>4. h.weight = [g.weight EXCEPT ![a] = 0]
      BY <1>1 DEF GroupType
    <3> QED
      BY <3>1, <3>3, <3>4 DEF Weightings
  <2>2. h \in GroupType /\ h.fault \subseteq ToSet(g.list)
    BY <1>1, <1>3, <2>1 DEF GroupType
  <2>3. h.all = g.all /\ h.list = g.list /\ h.poolSize = g.poolSize
    BY <1>1 DEF GroupType
  <2>4. Connected(g, a, ok) = h
    BY <1>3 DEF Connected
  <2> HIDE DEF h
  <2> QED
    BY <1>1, <2>1, <2>2, <2>3, <2>4 DEF GroupOK, Filled
<1>4. CASE ~ ok /\ a \notin DOMAIN g.weight
  BY <1>4 DEF Connected
<1> QED
  BY <1>2, <1>3, <1>4

LEMMA NextWeightType ==
  ASSUME NEW g, GroupOK(g), NEW a \in DOMAIN g.weight, NEW verdict
  PROVE  NextWeight(g, a, verdict) \in 0..DefaultWeight
<1>1. g.weight[a] \in 0..DefaultWeight
  BY DEF GroupOK, GroupType, Weightings
<1> DEFINE w == g.weight[a]
<1> HIDE DEF w
<1>2. w \in 0..DefaultWeight
  BY <1>1 DEF w
<1>3. Degraded(w) \in 0..DefaultWeight
  <2>1. w * WeightDegradePercent \in Nat /\ w * WeightDegradePercent <= w * 100
    BY <1>2, WeightsAssumption
  <2>2. (w * WeightDegradePercent) \div 100 \in 0..w
    BY <1>2, <2>1
  <2> QED
    BY <1>2, <2>2, WeightsAssumption DEF Degraded, Most
<1>4. Recovered(w) \in 0..DefaultWeight
  <2>1. w * WeightRecoverRate \in Nat
    BY <1>2, WeightsAssumption
  <2> QED
    BY <2>1, WeightsAssumption DEF Recovered, Least
<1> QED
  BY <1>2, <1>3, <1>4, WeightsAssumption DEF NextWeight, w

LEMMA RegulateOK ==
  ASSUME NEW g, GroupOK(g), Filled(g), NEW verdict
  PROVE  GroupOK(Regulate(g, verdict)) /\ Filled(Regulate(g, verdict))
<1> DEFINE weights == [a \in ToSet(g.list) |-> NextWeight(g, a, verdict[a])]
           faults == g.fault \cup {a \in ToSet(g.list) : g.conn[a] # "up"}
           h == [g EXCEPT !.weight = weights, !.fault = faults]
<1>1. /\ g \in GroupType /\ DOMAIN g.weight = ToSet(g.list)
      /\ g.fault \subseteq ToSet(g.list) /\ ToSet(g.list) \subseteq Address
  BY TypeOfSet DEF GroupOK, GroupType
<1>2. weights \in Weightings /\ DOMAIN weights = ToSet(g.list)
  <2>1. weights \in [ToSet(g.list) -> 0..DefaultWeight]
    BY <1>1, NextWeightType
  <2> QED
    BY <1>1, <2>1 DEF Weightings
<1>3. faults \subseteq ToSet(g.list) /\ faults \subseteq Address
  BY <1>1
<1>4. Regulate(g, verdict) = h
  BY <1>1 DEF Regulate, GroupType
<1> HIDE DEF weights, faults
<1>5. h \in GroupType
  BY <1>1, <1>2, <1>3 DEF GroupType
<1>6. /\ h.all = g.all /\ h.list = g.list /\ h.poolSize = g.poolSize
      /\ h.weight = weights /\ h.fault = faults
  BY <1>1 DEF GroupType
<1> HIDE DEF h
<1> QED
  BY <1>2, <1>3, <1>4, <1>5, <1>6 DEF GroupOK, Filled

LEMMA GuardOK ==
  ASSUME NEW g, GroupOK(g), Filled(g)
  PROVE  GroupOK(Guard(g)) /\ Filled(Guard(g))
<1> DEFINE h(b) == [g EXCEPT !.degradeEnable = b]
<1>1. ASSUME NEW b \in BOOLEAN
      PROVE  /\ GroupOK(h(b)) /\ Filled(h(b))
             /\ Len(h(b).list) <= Len(h(b).all)
  <2>1. GroupOK(h(b)) /\ Filled(h(b))
    BY DEF GroupOK, GroupType, Filled
  <2> QED
    BY <2>1, FilledFits
<1>2. GroupOK(refresh(h(FALSE))) /\ Filled(refresh(h(FALSE)))
  BY <1>1, refreshOK
<1> QED
  BY <1>1, <1>2 DEF Guard

-----------------------------------------------------------------------------
(* Type correctness, the faults and the pool *)

(* The inductive invariant: the group is as GroupOK and Filled say between  *)
(* any two events.                                                          *)
IInv ==
  /\ GroupOK(Group) /\ Filled(Group)
  /\ inited \in BOOLEAN /\ closed \in BOOLEAN
  /\ inits \subseteq SUBSET Address
  /\ retry \in {"off", "sleeping", "connecting"}
  /\ retry # "off" => inited
  /\ retries \subseteq Address

LEMMA BecomeOK ==
  ASSUME NEW g, GroupOK(g), Filled(g), Become(g)
  PROVE  GroupOK(Group)' /\ Filled(Group)'
<1>1. /\ all' = g.all /\ list' = g.list /\ weight' = g.weight /\ poolSize' = g.poolSize
      /\ fault' \subseteq g.fault /\ degradeEnable' = g.degradeEnable /\ conn' = g.conn
      /\ awaited' \subseteq g.awaited \cup g.asked
  BY DEF Become
<1>2. Group' \in GroupType
  BY <1>1 DEF GroupOK, GroupType, Group
<1> QED
  BY <1>1, <1>2 DEF GroupOK, Filled, Group

LEMMA BecomeReadyOK ==
  ASSUME IInv, NEW open \in SUBSET SUBSET Address, BecomeReady(open)
  PROVE  /\ inited' \in BOOLEAN /\ inits' \subseteq SUBSET Address
         /\ retry' \in {"off", "sleeping", "connecting"}
         /\ retry' # "off" => inited'
BY DEF IInv, BecomeReady

LEMMA RetriedOK ==
  ASSUME IInv, NEW g, GroupOK(g), Filled(g), NEW left \in SUBSET Address, Retried(g, left)
  PROVE  /\ GroupOK(Group)' /\ Filled(Group)' /\ retries' \subseteq Address
         /\ retry' \in {"off", "sleeping", "connecting"}
         /\ retry' # "off" => inited
<1>1. GroupOK(refresh(g)) /\ Filled(refresh(g))
  BY FilledFits, refreshOK
<1>2. CASE Become(g)
  BY <1>2, BecomeOK DEF Retried, IInv
<1>3. CASE Become(refresh(g))
  BY <1>1, <1>3, BecomeOK DEF Retried, IInv
<1> QED
  BY <1>2, <1>3 DEF Retried

\* A list that is pushed has no address twice.
LEMMA PushedIsSequence ==
  ASSUME NEW s \in Pushes, NEW pushed \in SetToSeqs(s)
  PROVE  pushed \in Seq(Address) /\ IsInjective(pushed)
<1>1. s \subseteq Address /\ IsFiniteSet(s)
  BY InputsAssumption
<1>2. Cardinality(s) \in Nat
  BY <1>1, FS_CardinalityType
<1>3. pushed \in [1..Cardinality(s) -> Address] /\ IsInjective(pushed)
  BY <1>1 DEF SetToSeqs, IsInjective
<1> QED
  BY <1>2, <1>3, FunctionIsSequence

LEMMA PushOK == ASSUME IInv, Push PROVE IInv'
<1>1. PICK s \in Pushes : \E pushed \in SetToSeqs(s) :
        LET g == Assign([Group EXCEPT !.all = pushed], s \ ToSet(all)) IN
        /\ Become(g)
        /\ BecomeReady(inits \cup {{a \in g.asked : g.conn[a] # "up"}}
                          \cup (IF WaitConnect THEN {} ELSE {{}}))
        /\ UNCHANGED <<closed, retries>>
  BY DEF Push
<1>2. PICK pushed \in SetToSeqs(s) :
        LET g == Assign([Group EXCEPT !.all = pushed], s \ ToSet(all)) IN
        /\ Become(g)
        /\ BecomeReady(inits \cup {{a \in g.asked : g.conn[a] # "up"}}
                          \cup (IF WaitConnect THEN {} ELSE {{}}))
        /\ UNCHANGED <<closed, retries>>
  BY <1>1
<1> DEFINE f == [Group EXCEPT !.all = pushed]
           g == Assign(f, s \ ToSet(all))
           open == inits \cup {{a \in g.asked : g.conn[a] # "up"}}
                         \cup (IF WaitConnect THEN {} ELSE {{}})
<1>3. pushed \in Seq(Address) /\ IsInjective(pushed)
  BY PushedIsSequence
<1>4. GroupOK(f)
  BY <1>3 DEF IInv, GroupOK, GroupType, Group
<1> HIDE DEF f
<1>5. GroupOK(g) /\ Filled(g)
  BY <1>4, AssignOK
<1>6. open \in SUBSET SUBSET Address
  <2>1. g.asked \subseteq Address
    BY <1>5 DEF GroupOK, GroupType
  <2>2. {a \in g.asked : g.conn[a] # "up"} \subseteq Address
    BY <2>1
  <2> HIDE DEF g
  <2> QED
    BY <2>2 DEF IInv
<1>7. Become(g) /\ BecomeReady(open) /\ UNCHANGED <<closed, retries>>
  BY <1>2 DEF f
<1> HIDE DEF g, open
<1>8. GroupOK(Group)' /\ Filled(Group)'
  BY <1>5, <1>7, BecomeOK
<1>9. /\ inited' \in BOOLEAN /\ inits' \subseteq SUBSET Address
      /\ retry' \in {"off", "sleeping", "connecting"}
      /\ retry' # "off" => inited'
  BY <1>6, <1>7, BecomeReadyOK
<1> QED
  BY <1>7, <1>8, <1>9 DEF IInv

LEMMA SettleOK ==
  ASSUME IInv, NEW a \in Address, NEW ok \in BOOLEAN, Settle(a, ok) PROVE IInv'
<1> DEFINE g == [Group EXCEPT !.conn[a] = IF ok THEN "up" ELSE "none", !.awaited = @ \ {a}]
           h == IF a \in awaited THEN Connected(g, a, ok) ELSE g
<1>1. GroupOK(g) /\ Filled(g)
  BY DEF IInv, GroupOK, GroupType, Filled, Group
<1> HIDE DEF g
<1>2. GroupOK(h) /\ Filled(h)
  BY <1>1, ConnectedOK
<1> HIDE DEF h
<1>3. CASE inited
  <2>1. Retried(h, retries \ {a}) /\ UNCHANGED <<inited, inits, closed>>
    BY <1>3 DEF Settle, g, h
  <2>2. retries \ {a} \in SUBSET Address
    BY DEF IInv
  <2>3. /\ GroupOK(Group)' /\ Filled(Group)' /\ retries' \subseteq Address
        /\ retry' \in {"off", "sleeping", "connecting"}
        /\ retry' # "off" => inited
    BY <1>2, <2>1, <2>2, RetriedOK
  <2> QED
    BY <2>1, <2>3 DEF IInv
<1>4. CASE ~ inited
  <2> DEFINE left == {open \ {a} : open \in inits}
  <2>1. Become(h) /\ BecomeReady(left) /\ UNCHANGED <<closed, retries>>
    BY <1>4 DEF Settle, g, h
  <2>2. left \in SUBSET SUBSET Address
    BY DEF IInv
  <2> HIDE DEF left
  <2>3. GroupOK(Group)' /\ Filled(Group)'
    BY <1>2, <2>1, BecomeOK
  <2>4. /\ inited' \in BOOLEAN /\ inits' \subseteq SUBSET Address
        /\ retry' \in {"off", "sleeping", "connecting"}
        /\ retry' # "off" => inited'
    BY <2>1, <2>2, BecomeReadyOK
  <2> QED
    BY <2>1, <2>3, <2>4 DEF IInv
<1> QED
  BY <1>3, <1>4

LEMMA RetryFaultsOK == ASSUME IInv, RetryFaults PROVE IInv'
<1> DEFINE g == [Group EXCEPT !.asked = fault,
                              !.conn = [a \in Address |->
                                          IF a \in fault /\ conn[a] = "none"
                                          THEN "connecting" ELSE conn[a]]]
           left == {a \in fault : conn[a] # "up"}
<1>1. GroupOK(g) /\ Filled(g)
  BY DEF IInv, GroupOK, GroupType, Filled, Group
<1>2. left \subseteq Address
  BY DEF IInv, GroupOK, GroupType, Group
<1>3. /\ Become(g) /\ retries' = left /\ retry' \in {"sleeping", "connecting"}
      /\ retry # "off" /\ UNCHANGED <<inited, closed, inits>>
  BY DEF RetryFaults
<1> HIDE DEF g, left
<1>4. GroupOK(Group)' /\ Filled(Group)'
  BY <1>1, <1>3, BecomeOK
<1> QED
  BY <1>2, <1>3, <1>4 DEF IInv

LEMMA AtInUse ==
  ASSUME list \in Seq(Address), Len(list) > 1, NEW o \in 1..Len(list), NEW i \in 1..Len(list)
  PROVE  At(o, i) \in ToSet(list)
<1>1. Len(list) \in Nat \ {0} /\ o + i - 2 \in Nat
  OBVIOUS
<1>2. (o + i - 2) % Len(list) \in 0..(Len(list) - 1)
  BY <1>1
<1>3. ((o + i - 2) % Len(list)) + 1 \in DOMAIN list
  BY <1>2
<1> QED
  BY <1>3 DEF At, ToSet

\* What is selected and what is visited is in use.
LEMMA SelectionsInUse ==
  ASSUME list \in Seq(Address), NEW s \in Selections
  PROVE  s.visited \subseteq ToSet(list) /\ s.answer \in ToSet(list)
<1>0. Len(list) \in Nat
  OBVIOUS
<1>1. Len(list) # 0
  BY DEF Selections
<1>2. CASE Len(list) = 1
  <2>1. s = [visited |-> {}, answer |-> list[1]] /\ 1 \in DOMAIN list
    BY <1>2 DEF Selections
  <2> QED
    BY <2>1 DEF ToSet
<1>3. CASE Len(list) # 1
  <2>0. Len(list) > 1
    <3>1. \A n \in Nat : n # 0 /\ n # 1 => n > 1
      OBVIOUS
    <3> QED
      BY ONLY <1>0, <1>1, <1>3, <3>1
  <2>1. s \in RoundRobin \/ s \in RandomWeighted \/ s \in ConsistentHash
    BY <1>1, <1>3, LoadBalancerAssumption, Zenon DEF Selections
  <2>2. CASE s \in RoundRobin
    <3>1. \A o, i \in 1..Len(list) : At(o, i) \in ToSet(list)
      BY <2>0, AtInUse
    <3>2. \A o \in 1..Len(list), k \in 1..Len(list) :
            {At(o, i) : i \in 1..k} \subseteq ToSet(list)
      BY <3>1
    <3>3. 1 \in 1..Len(list)
      BY <1>0, <2>0
    <3> QED
      BY <2>2, <3>1, <3>2, <3>3 DEF RoundRobin
  <2>3. CASE s \in RandomWeighted
    BY <2>3 DEF RandomWeighted
  <2>4. CASE s \in ConsistentHash
    BY <2>4 DEF ConsistentHash
  <2> QED
    BY <2>1, <2>2, <2>3, <2>4
<1> QED
  BY <1>2, <1>3

LEMMA GetConnectionOK == ASSUME IInv, GetConnection PROVE IInv'
<1>1. PICK s \in Selections :
        /\ fault' = fault \cup {a \in s.visited : conn[a] # "up"}
        /\ conn' = [conn EXCEPT ![s.answer] = IF @ = "none" THEN "connecting" ELSE @]
  BY DEF GetConnection
<1>2. UNCHANGED <<all, list, weight, degradeEnable, poolSize, awaited,
                  inited, closed, inits, retry, retries>>
  BY DEF GetConnection
<1>3. /\ Group \in GroupType /\ list \in Seq(Address) /\ ToSet(list) \subseteq Address
      /\ fault \subseteq ToSet(list)
  BY TypeOfSet DEF IInv, GroupOK, GroupType, Group
<1>4. s.visited \subseteq ToSet(list) /\ s.answer \in ToSet(list)
  BY <1>3, SelectionsInUse
<1>5. fault' \subseteq ToSet(list) /\ fault' \subseteq Address
  BY <1>1, <1>3, <1>4
<1>6. conn' \in [Address -> {"none", "connecting", "up"}]
  BY <1>1, <1>3 DEF GroupType, Group
<1>7. Group' \in GroupType
  BY <1>2, <1>3, <1>5, <1>6 DEF GroupType, Group
<1> QED
  BY <1>2, <1>5, <1>7 DEF IInv, GroupOK, Filled, Group

LEMMA OnNextOK == ASSUME IInv, OnNext PROVE IInv'
<1>1. PICK avg \in Counts :
        LET g == AdjustConnectionPoolSize(Group, avg.total) IN
        \E verdict \in [ToSet(g.list) -> Verdicts[avg]] :
          Become(IF RegulationEffective THEN Guard(Regulate(g, verdict)) ELSE g)
  BY DEF OnNext
<1> DEFINE g == AdjustConnectionPoolSize(Group, avg.total)
<1>2. PICK verdict : Become(IF RegulationEffective THEN Guard(Regulate(g, verdict)) ELSE g)
  BY <1>1
<1>3. GroupOK(g) /\ Filled(g)
  BY AdjustOK, InputsAssumption DEF IInv
<1> HIDE DEF g
<1>4. GroupOK(Guard(Regulate(g, verdict))) /\ Filled(Guard(Regulate(g, verdict)))
  BY <1>3, RegulateOK, GuardOK
<1>5. GroupOK(Group)' /\ Filled(Group)'
  BY <1>2, <1>3, <1>4, BecomeOK
<1>6. UNCHANGED <<inited, closed, inits, retry, retries>>
  BY DEF OnNext
<1> QED
  BY <1>5, <1>6 DEF IInv

LEMMA CloseOK == ASSUME IInv, Close PROVE IInv'
<1>1. /\ all' = <<>> /\ list' = <<>> /\ fault' = {} /\ closed' = TRUE
      /\ weight' = [a \in {} |-> DefaultWeight]
      /\ UNCHANGED <<degradeEnable, poolSize, conn, awaited, inited, inits, retry, retries>>
  BY DEF Close
<1>2. /\ <<>> \in Seq(Address) /\ IsInjective(<<>>) /\ ToSet(<<>>) = {}
  BY DEF IsInjective, ToSet
<1>3. weight' \in Weightings /\ DOMAIN weight' = {}
  BY <1>1 DEF Weightings
<1>4. Group' \in GroupType
  BY <1>1, <1>2, <1>3 DEF IInv, GroupOK, GroupType, Group
<1>5. GroupOK(Group)'
  BY <1>1, <1>2, <1>3, <1>4 DEF GroupOK, Group
<1>6. Filled(Group)'
  BY <1>1 DEF Filled, Group
<1> QED
  BY <1>1, <1>5, <1>6 DEF IInv

(* The group stays as GroupOK and Filled say through every event, for all   *)
(* pushes, statistics and settings (address_group.js:129-366).              *)
THEOREM Invariance == Spec => []IInv
<1>1. Init => IInv
  <2> SUFFICES ASSUME Init PROVE IInv
    OBVIOUS
  <2>1. /\ <<>> \in Seq(Address) /\ IsInjective(<<>>) /\ ToSet(<<>>) = {}
    BY DEF IsInjective, ToSet
  <2>2. weight \in Weightings /\ DOMAIN weight = {}
    BY DEF Init, Weightings
  <2>3. Group \in GroupType
    BY <2>1, <2>2, PoolAssumption DEF Init, GroupType, Group
  <2>4. GroupOK(Group) /\ Filled(Group)
    BY <2>1, <2>2, <2>3 DEF Init, GroupOK, Filled, Group
  <2> QED
    BY <2>4 DEF Init, IInv
<1>2. IInv /\ [Next]_vars => IInv'
  <2> SUFFICES ASSUME IInv, [Next]_vars PROVE IInv'
    OBVIOUS
  <2>1. ASSUME NEW a \in Address, Drop(a) PROVE IInv'
    BY <2>1 DEF IInv, GroupOK, GroupType, Filled, Group, Drop
  <2>2. CASE EndRetry
    BY <2>2 DEF IInv, GroupOK, GroupType, Filled, Group, EndRetry, groupVars
  <2>3. CASE UNCHANGED vars
    BY <2>3 DEF IInv, GroupOK, GroupType, Filled, Group, vars, groupVars
  <2> QED
    BY <2>1, <2>2, <2>3, PushOK, SettleOK, RetryFaultsOK, GetConnectionOK, OnNextOK, CloseOK
       DEF Next
<1> QED
  BY <1>1, <1>2, PTL DEF Spec

(* Type correctness: what is kept of the addresses in use, weights between  *)
(* 0 and DEFAULT_WEIGHT included (address_group.js:187-305).                *)
THEOREM TypeCorrect == Spec => []TypeOK
<1>1. IInv => TypeOK
  BY DEF IInv, TypeOK, GroupOK, GroupType, Group, Weightings
<1> QED
  BY <1>1, Invariance, PTL

(* Only addresses in use are regarded as faulty, for all inputs             *)
(* (address_group.js:129-145, 291-305, 354-358).                            *)
THEOREM FaultsStayInUse == Spec => []FaultsAreInUse
<1>1. IInv => FaultsAreInUse
  BY DEF IInv, FaultsAreInUse, GroupOK, Group
<1> QED
  BY <1>1, Invariance, PTL

(* An elastic pool has the size asked for, without repetitions              *)
(* (base.js:57-71, 93-142; address_group.js:180-184).                       *)
THEOREM PoolStaysFilled == Spec => []PoolIsFilled
<1>1. IInv => PoolIsFilled
  <2> SUFFICES ASSUME IInv PROVE PoolIsFilled
    OBVIOUS
  <2>1. list \in Seq(Address) /\ IsInjective(list)
    BY DEF IInv, GroupOK, GroupType, Group
  <2>2. Cardinality(ToSet(list)) = Len(list)
    BY <2>1, DistinctCount
  <2> QED
    BY <2>2 DEF IInv, Filled, Group, PoolIsFilled
<1> QED
  BY <1>1, Invariance, PTL

-----------------------------------------------------------------------------
(* Routing *)

LEMMA CycleFacts ==
  ASSUME NEW n \in Nat \ {0}, NEW k \in 0..(n - 1)
  PROVE  k % n = k /\ (k + n) % n = k
OBVIOUS

\* A whole cycle passes every address.
LEMMA CycleReachesAll ==
  ASSUME list \in Seq(Address), NEW n \in Nat \ {0}, Len(list) = n,
         NEW o \in 1..n, NEW a \in ToSet(list)
  PROVE  \E i \in 1..n : At(o, i) = a
<1>1. PICK j \in 1..n : list[j] = a
  BY DEF ToSet
<1>2. CASE j >= o
  <2>1. j - o + 1 \in 1..n /\ o + (j - o + 1) - 2 = j - 1 /\ j - 1 \in 0..(n - 1)
    BY <1>2
  <2>2. (j - 1) % n = j - 1
    BY <2>1, CycleFacts
  <2>3. At(o, j - o + 1) = list[(j - 1) + 1]
    BY <2>1, <2>2 DEF At
  <2> QED
    BY <1>1, <2>1, <2>3
<1>3. CASE j < o
  <2>1. /\ j - o + 1 + n \in 1..n /\ o + (j - o + 1 + n) - 2 = (j - 1) + n
        /\ j - 1 \in 0..(n - 1)
    BY <1>3
  <2>2. ((j - 1) + n) % n = j - 1
    BY <2>1, CycleFacts
  <2>3. At(o, j - o + 1 + n) = list[(j - 1) + 1]
    BY <2>1, <2>2 DEF At
  <2> QED
    BY <1>1, <2>1, <2>3
<1> QED
  BY <1>2, <1>3

LEMMA WeightsOfConnections ==
  ASSUME IInv, NEW a \in ToSet(list)
  PROVE  /\ conn[a] # "up" => Weights(a) = {0}
         /\ conn[a] = "up" => \A w \in Weights(a) : w \in Nat /\ w > 0
<1>1. weight[a] \in 0..DefaultWeight /\ DefaultWeight \in Nat /\ DefaultWeight > 0
  BY WeightsAssumption DEF IInv, GroupOK, GroupType, Weightings, Group
<1> QED
  BY <1>1 DEF Weights

(* Both weighted load balancers route to a connected address whenever they  *)
(* can be sure of one (weight_rr.js:18-38, random.js:8-36).                 *)
THEOREM RoutesReachConnected == Spec => []RoutesToConnected
<1>1. IInv => RoutesToConnected
  <2> SUFFICES ASSUME IInv, Len(list) > 1 PROVE RoutesToConnected
    BY DEF RoutesToConnected
  <2>1. list \in Seq(Address) /\ Len(list) \in Nat \ {0}
    BY DEF IInv, GroupOK, GroupType, Group
  <2>2. ASSUME NEW a \in ToSet(list), ~ CanSkip(a), NEW s \in RoundRobin
        PROVE  conn[s.answer] = "up"
    <3>1. \A o, i \in 1..Len(list) : At(o, i) \in ToSet(list)
      BY <2>1, AtInUse
    <3>2. ASSUME NEW o \in 1..Len(list), NEW k \in 1..Len(list), CanTake(At(o, k)),
                 s.answer = At(o, k)
          PROVE  conn[s.answer] = "up"
      <4>1. At(o, k) \in ToSet(list)
        BY <3>1
      <4>2. \E w \in Weights(At(o, k)) : w > 0
        BY <3>2 DEF CanTake
      <4> QED
        BY <3>2, <4>1, <4>2, WeightsOfConnections
    <3>3. ASSUME NEW o \in 1..Len(list)
          PROVE  ~ \A i \in 1..Len(list) : CanSkip(At(o, i))
      BY <2>1, <2>2, CycleReachesAll
    <3>4. \/ \E o, k \in 1..Len(list) : CanTake(At(o, k)) /\ s.answer = At(o, k)
          \/ \E o \in 1..Len(list) : \A i \in 1..Len(list) : CanSkip(At(o, i))
      BY <2>2 DEF RoundRobin
    <3> QED
      BY <3>2, <3>3, <3>4
  <2>3. ASSUME NEW a \in ToSet(list), conn[a] = "up", NEW s \in RandomWeighted
        PROVE  conn[s.answer] = "up"
    <3>1. PICK w : /\ \A b \in ToSet(list) : w[b] \in Weights(b)
                   /\ s.answer \in ToSet(list)
                   /\ \/ \A b, c \in ToSet(list) : w[b] = w[c]
                      \/ w[s.answer] > 0
      BY DEF RandomWeighted
    <3>2. w[a] > 0 /\ w[a] \in Nat
      BY <2>3, <3>1, WeightsOfConnections
    <3>3. w[s.answer] > 0
      BY <3>1, <3>2
    <3>4. w[s.answer] # 0
      BY <3>3
    <3> QED
      BY <3>1, <3>4, WeightsOfConnections
  <2> QED
    BY <2>2, <2>3 DEF RoutesToConnected
<1> QED
  BY <1>1, Invariance, PTL

-----------------------------------------------------------------------------
(* The guard against an avalanche *)

LEMMA GuardEffect ==
  ASSUME NEW g, GroupOK(g), Filled(g), Len(Guard(g).list) = Len(Guard(g).all),
         Guard(g).degradeEnable
  PROVE  DegradeCount(Guard(g)) <= MaxIsolatedNum(Len(Guard(g).list))
<1> DEFINE h(b) == [g EXCEPT !.degradeEnable = b]
<1>1. ASSUME NEW b \in BOOLEAN
      PROVE  /\ h(b).all = g.all /\ h(b).list = g.list /\ h(b).weight = g.weight
             /\ h(b).poolSize = g.poolSize /\ h(b).degradeEnable = b
  BY DEF GroupOK, GroupType
<1>2. CASE DegradeCount(g) <= MaxIsolatedNum(Len(g.list))
  <2>1. Guard(g) = h(TRUE)
    BY <1>2 DEF Guard
  <2> QED
    BY <1>1, <1>2, <2>1 DEF DegradeCount
<1>3. CASE ~ (DegradeCount(g) <= MaxIsolatedNum(Len(g.list)))
  <2>1. Guard(g) = refresh(h(FALSE))
    BY <1>3 DEF Guard
  <2>2. Len(g.list) \in Nat /\ Len(g.all) \in Nat /\ Len(g.list) <= Len(g.all)
    BY FilledFits
  <2>3. CASE Len(g.all) > Len(g.list)
    <3>1. Guard(g) = Assign(h(FALSE), {})
      BY <1>1, <2>1, <2>3 DEF refresh
    <3>2. GroupOK(h(FALSE))
      BY DEF GroupOK, GroupType
    <3>3. /\ Len(Guard(g).list) = ChosenLen(Len(g.all), g.poolSize)
          /\ Guard(g).all = g.all
      <4> DEFINE f == h(FALSE)
      <4>1. GroupOK(f) /\ f.all = g.all /\ f.poolSize = g.poolSize /\ Guard(g) = Assign(f, {})
        BY <1>1, <3>1, <3>2
      <4> HIDE DEF f
      <4> QED
        BY <4>1, AssignOK
    <3>4. ChosenLen(Len(g.all), g.poolSize) = Len(g.list)
      BY <2>2, <2>3 DEF Filled, ChosenLen, GroupOK, GroupType
    <3>5. Len(g.list) = Len(g.all)
      BY ONLY <3>3, <3>4, Len(Guard(g).list) = Len(Guard(g).all)
    <3> QED
      BY <2>2, <2>3, <3>5
  <2>4. CASE ~ (Len(g.all) > Len(g.list))
    BY <1>1, <2>1, <2>4 DEF refresh
  <2> QED
    BY <2>3, <2>4
<1> QED
  BY <1>2, <1>3

(* No window ends with too many addresses degraded and the weights still in *)
(* force, while every address is in use (address_group.js:282-288).         *)
THEOREM AvalancheIsGuarded ==
  ASSUME RegulationEffective
  PROVE  Spec => AvalancheGuardedWithoutSpares
<1>1. ASSUME IInv, OnNext, TooManyDegraded', degradeEnable', Len(all') = Len(list')
      PROVE  FALSE
  <2>1. PICK avg \in Counts :
          LET g == AdjustConnectionPoolSize(Group, avg.total) IN
          \E verdict \in [ToSet(g.list) -> Verdicts[avg]] :
            Become(Guard(Regulate(g, verdict)))
    BY <1>1 DEF OnNext
  <2> DEFINE g == AdjustConnectionPoolSize(Group, avg.total)
  <2>2. PICK verdict : Become(Guard(Regulate(g, verdict)))
    BY <2>1
  <2>3. GroupOK(g) /\ Filled(g)
    BY <1>1, AdjustOK, InputsAssumption DEF IInv
  <2> HIDE DEF g
  <2> DEFINE h == Regulate(g, verdict)
  <2>4. GroupOK(h) /\ Filled(h)
    BY <2>3, RegulateOK
  <2> HIDE DEF h
  <2>5. Become(Guard(h))
    BY <2>2 DEF h
  <2>6. /\ all' = Guard(h).all /\ list' = Guard(h).list /\ weight' = Guard(h).weight
        /\ degradeEnable' = Guard(h).degradeEnable
    BY <2>5 DEF Become
  <2>7. DegradeCount(Guard(h)) <= MaxIsolatedNum(Len(Guard(h).list))
    BY <1>1, <2>4, <2>6, GuardEffect
  <2>8. DegradeCount(Group)' = DegradeCount(Guard(h))
    BY <2>6 DEF DegradeCount, Group
  <2>9. GroupOK(Guard(h))
    BY <2>4, GuardOK
  <2>10. /\ DegradeCount(Guard(h)) \in Int
         /\ MaxIsolatedNum(Len(Guard(h).list)) \in Int
    <3>1. /\ Guard(h).list \in Seq(Address) /\ IsInjective(Guard(h).list)
          /\ DOMAIN Guard(h).weight = ToSet(Guard(h).list)
      BY <2>9 DEF GroupOK, GroupType
    <3> DEFINE f == Guard(h).list
    <3>2. IsFiniteSet(DOMAIN Guard(h).weight) /\ Len(Guard(h).list) \in Nat
      <4>1. f \in Seq(Address) /\ IsInjective(f) /\ DOMAIN Guard(h).weight = ToSet(f)
        BY <3>1
      <4> HIDE DEF f
      <4>2. IsFiniteSet(ToSet(f))
        BY ONLY <4>1, DistinctCount
      <4>3. Len(f) \in Nat
        BY ONLY <4>1
      <4> QED
        BY <4>1, <4>2, <4>3 DEF f
    <3>3. Cardinality({a \in DOMAIN Guard(h).weight : Guard(h).weight[a] < DefaultWeight}) \in Nat
      BY <3>2, FS_Subset, FS_CardinalityType
    <3> QED
      BY <3>2, <3>3, WeightsAssumption DEF DegradeCount, MaxIsolatedNum, CeilDiv
  <2> QED
    BY <1>1, <2>6, <2>7, <2>8, <2>10 DEF TooManyDegraded
<1>2. IInv => (TooManyDegraded' /\ degradeEnable' /\ Len(all') = Len(list') => ~ OnNext)
  BY <1>1
<1> QED
  BY <1>2, Invariance, PTL DEF AvalancheGuardedWithoutSpares

-----------------------------------------------------------------------------
(* Replacing bad addresses *)

LEMMA AmongReaches ==
  ASSUME NEW S, NEW s \in Seq(S), IsInjective(s), NEW T
  PROVE  ToSet(Among(s, T)) = ToSet(s) \cap T
<1> DEFINE E == ToSet(s) \cap T
           u == Among(s, T)
<1>1. u \in Seq(E) /\ Len(u) = Cardinality(E) /\ IsInjective(u)
  BY AmongFacts
<1>2. IsFiniteSet(E)
  BY DistinctCount, FS_Subset
<1> HIDE DEF u, E
<1>3. ToSet(u) \in SUBSET E
  BY <1>1, TypeOfSet
<1>4. Cardinality(ToSet(u)) = Len(u)
  BY ONLY <1>1, DistinctCount
<1>5. ToSet(u) = E
  BY <1>1, <1>2, <1>3, <1>4, FS_Subset
<1> QED
  BY <1>5 DEF u, E

\* The first n of the stack are all that are not known to be bad.
LEMMA StackOrder ==
  ASSUME NEW g, g.all \in Seq(Address), IsInjective(g.all), NEW taken
  PROVE  \E n \in Nat :
           /\ \A i \in 1..Len(StackedUp(g, taken)) :
                i <= n => StackedUp(g, taken)[i] \notin Bad(g)
           /\ n <= Len(StackedUp(g, taken))
           /\ \A b \in ToSet(g.all) \ ToSet(taken) :
                b \notin Bad(g) => \E i \in 1..n : StackedUp(g, taken)[i] = b
<1> DEFINE rest == ToSet(g.all) \ ToSet(taken)
           low == rest \cap Bad(g)
           high == rest \ Bad(g)
           bads == Among(g.all, low)
           goods == Among(g.all, high)
           stack == Reverse(bads) \o goods
           n == Len(goods)
           m == Len(Reverse(bads))
<1>1. bads \in Seq(ToSet(g.all) \cap low) /\ IsInjective(bads)
  BY AmongFacts
<1>2. goods \in Seq(ToSet(g.all) \cap high) /\ ToSet(goods) = ToSet(g.all) \cap high
  BY AmongFacts, AmongReaches
<1>3. ToSet(g.all) \cap high = high
  OBVIOUS
<1> HIDE DEF bads, goods
<1>4. Reverse(bads) \in Seq(ToSet(g.all) \cap low) /\ m \in Nat
  BY <1>1, ReverseFacts
<1>5. n \in Nat /\ Len(stack) = m + n /\ stack \in Seq(ToSet(g.all))
  BY <1>2, <1>4
<1>6. \A j \in 1..n : stack[m + j] = goods[j]
  BY <1>2, <1>4, <1>5
<1> HIDE DEF stack, m, n
<1>7. StackedUp(g, taken) = Reverse(stack)
  BY DEF StackedUp, stack, bads, goods
<1>8. Len(Reverse(stack)) = m + n
  BY <1>5 DEF Reverse
<1>9. \A i \in 1..n : Reverse(stack)[i] = goods[n - i + 1]
  <2>1. ASSUME NEW i \in 1..n PROVE Reverse(stack)[i] = goods[n - i + 1]
    <3>1. i \in 1..Len(stack) /\ n - i + 1 \in 1..n /\ Len(stack) - i + 1 = m + (n - i + 1)
      BY <1>4, <1>5
    <3> QED
      BY <1>6, <3>1 DEF Reverse
  <2> QED
    BY <2>1
<1>10. \A i \in 1..n : goods[i] \in high
  BY <1>2, <1>3 DEF n
<1>11. ASSUME NEW i \in 1..(m + n), i <= n PROVE Reverse(stack)[i] \notin Bad(g)
  <2>1. i \in 1..n /\ n - i + 1 \in 1..n
    BY <1>4, <1>5, <1>11
  <2> QED
    BY <1>9, <1>10, <2>1
<1>12. ASSUME NEW b \in high PROVE \E i \in 1..n : Reverse(stack)[i] = b
  <2>1. PICK j \in 1..n : goods[j] = b
    BY <1>2, <1>3 DEF ToSet, n
  <2>2. n - j + 1 \in 1..n /\ n - (n - j + 1) + 1 = j
    BY <1>5
  <2>3. Reverse(stack)[n - j + 1] = goods[j]
    BY <1>9, <2>2
  <2> QED
    BY <2>1, <2>2, <2>3
<1>13. n <= m + n
  BY <1>4, <1>5
<1> QED
  BY <1>5, <1>7, <1>8, <1>11, <1>12, <1>13

\* While an address that is known to be bad is chosen, only such are left out.
LEMMA BadChosenLast ==
  ASSUME NEW g, g.all \in Seq(Address), IsInjective(g.all), g.poolSize \in Nat,
         NEW a \in ToSet(ChooseAddresses(g, {})), a \in Bad(g),
         NEW b \in ToSet(g.all) \ ToSet(ChooseAddresses(g, {}))
  PROVE  b \in Bad(g)
<1> DEFINE left == Least(g.poolSize, MaxAddressCount)
           first == Among(g.all, FirstChoice(g, {}))
           taken == SubSeq(first, 1, Least(left, Len(first)))
           up == StackedUp(g, taken)
           more == SubSeq(up, 1, left - Len(taken))
<1>1. NeedElasticControl(Len(g.all)) /\ ~ (g.poolSize > Len(g.all))
  BY DEF ChooseAddresses
<1>2. ChooseAddresses(g, {}) = taken \o more
  BY <1>1 DEF ChooseAddresses, StackedUp
<1>3. left \in Nat /\ left <= g.poolSize /\ g.poolSize <= Len(g.all) /\ Len(g.all) \in Nat
  BY <1>1, PoolAssumption DEF Least
<1>4. first \in Seq(ToSet(g.all) \cap FirstChoice(g, {})) /\ IsInjective(first)
  BY AmongFacts
<1>5. ToSet(g.all) \cap FirstChoice(g, {}) \cap Bad(g) = {}
  BY DEF FirstChoice, Bad, Healthy
<1> HIDE DEF first, left
<1>6. Least(left, Len(first)) \in 0..Len(first) /\ Least(left, Len(first)) <= left
  BY <1>3, <1>4 DEF Least
<1>7. /\ taken \in Seq(ToSet(g.all) \cap FirstChoice(g, {})) /\ IsInjective(taken)
      /\ Len(taken) = Least(left, Len(first))
  BY <1>4, <1>6, PrefixFacts
<1>8. taken \in Seq(ToSet(g.all))
  BY <1>7
<1> HIDE DEF taken
<1>9. /\ up \in Seq(ToSet(g.all) \ ToSet(taken)) /\ Len(up) = Len(g.all) - Len(taken)
      /\ IsInjective(up)
  BY <1>7, <1>8, StackFacts
<1>10. PICK n \in Nat :
         /\ \A i \in 1..Len(up) : i <= n => up[i] \notin Bad(g)
         /\ n <= Len(up)
         /\ \A c \in ToSet(g.all) \ ToSet(taken) :
              c \notin Bad(g) => \E i \in 1..n : up[i] = c
  BY StackOrder
<1> DEFINE m == left - Len(taken)
<1>11. m \in 0..Len(up) /\ Len(taken) \in Nat
  BY <1>3, <1>6, <1>7, <1>9
<1> HIDE DEF up
<1>12. /\ more \in Seq(ToSet(g.all) \ ToSet(taken)) /\ Len(more) = m
       /\ \A i \in 1..m : more[i] = up[i]
  BY <1>9, <1>11
<1> HIDE DEF more, m
<1>13. ToSet(taken \o more) = ToSet(taken) \cup ToSet(more)
  <2> DEFINE A == ToSet(g.all)
  <2>1. taken \in Seq(A) /\ more \in Seq(A)
    BY <1>8, <1>12
  <2> HIDE DEF A
  <2>2. /\ DOMAIN taken = 1..Len(taken) /\ DOMAIN more = 1..Len(more)
        /\ DOMAIN (taken \o more) = 1..(Len(taken) + Len(more))
        /\ Len(taken) \in Nat /\ Len(more) \in Nat
        /\ \A i \in 1..(Len(taken) + Len(more)) :
             (taken \o more)[i] = IF i <= Len(taken) THEN taken[i] ELSE more[i - Len(taken)]
    BY <2>1
  <2>3. \A i \in 1..Len(taken) : taken[i] = (taken \o more)[i]
    BY <2>2
  <2>4. \A i \in 1..Len(more) : /\ Len(taken) + i \in 1..(Len(taken) + Len(more))
                                /\ more[i] = (taken \o more)[Len(taken) + i]
    BY <2>2
  <2>5. ToSet(taken \o more) \subseteq ToSet(taken) \cup ToSet(more)
    BY <2>2 DEF ToSet
  <2>6. ASSUME NEW x \in ToSet(taken) PROVE x \in ToSet(taken \o more)
    <3>1. PICK i \in 1..Len(taken) : x = taken[i]
      BY <2>2 DEF ToSet
    <3>2. i \in DOMAIN (taken \o more) /\ x = (taken \o more)[i]
      BY <2>2, <2>3, <3>1
    <3> QED
      BY <3>2 DEF ToSet
  <2>7. ASSUME NEW x \in ToSet(more) PROVE x \in ToSet(taken \o more)
    <3>1. PICK i \in 1..Len(more) : x = more[i]
      BY <2>2 DEF ToSet
    <3>2. Len(taken) + i \in DOMAIN (taken \o more) /\ x = (taken \o more)[Len(taken) + i]
      BY <2>2, <2>4, <3>1
    <3> QED
      BY <3>2 DEF ToSet
  <2> QED
    BY <2>5, <2>6, <2>7
<1>14. a \notin ToSet(taken)
  BY <1>5, <1>7, TypeOfSet
<1>15. PICK k \in 1..m : a = up[k]
  <2>1. a \in ToSet(more)
    BY <1>2, <1>13, <1>14
  <2>2. DOMAIN more = 1..m
    BY <1>12
  <2>3. PICK k \in 1..m : a = more[k]
    BY <2>1, <2>2 DEF ToSet
  <2> QED
    BY <1>12, <2>3
<1>16. k > n
  BY <1>10, <1>11, <1>15
<1>17. ASSUME b \notin Bad(g) PROVE FALSE
  <2>1. b \in ToSet(g.all) \ ToSet(taken)
    BY <1>2, <1>13
  <2>2. PICK i \in 1..n : up[i] = b
    BY <1>10, <1>17, <2>1
  <2>3. i \in 1..m
    BY <1>11, <1>16, <2>2
  <2>4. b \in ToSet(more)
    BY <1>12, <2>2, <2>3 DEF ToSet
  <2> QED
    BY <1>2, <1>13, <2>4
<1> QED
  BY <1>17

(* When others replace the faulty addresses after a retry, a bad address    *)
(* stays only if every address not known to be bad is in use                *)
(* (base.js:112-134, address_group.js:318-320).                             *)
THEOREM BadAddressesAreReplaced == Spec => ReplacesBadAddresses
<1> DEFINE Replaced ==
      retry = "connecting" /\ retry' = "sleeping" /\ list' # list =>
        \A a \in ToSet(list') \cap fault', b \in ToSet(all) \ ToSet(list') :
          Unhealthy(Group, b) \/ (conn[b] = "connecting" /\ conn'[b] = "none")
<1>1. ASSUME IInv, NEW c \in Address, NEW ok \in BOOLEAN, Settle(c, ok),
             retry = "connecting", retry' = "sleeping", list' # list,
             NEW a \in ToSet(list') \cap fault', NEW b \in ToSet(all) \ ToSet(list')
      PROVE  Unhealthy(Group, b) \/ (conn[b] = "connecting" /\ conn'[b] = "none")
  <2> DEFINE g == [Group EXCEPT !.conn[c] = IF ok THEN "up" ELSE "none", !.awaited = @ \ {c}]
             h == IF c \in awaited THEN Connected(g, c, ok) ELSE g
  <2>1. inited /\ Retried(h, retries \ {c}) /\ conn[c] = "connecting"
    BY <1>1 DEF Settle, IInv
  <2>2. Group \in GroupType
    BY <1>1 DEF IInv, GroupOK
  <2>3. /\ GroupOK(g) /\ Filled(g) /\ g.all = all /\ g.list = list /\ g.fault = fault
        /\ g.weight = weight /\ g.conn = [conn EXCEPT ![c] = IF ok THEN "up" ELSE "none"]
    BY <1>1 DEF IInv, GroupOK, GroupType, Filled, Group
  <2> HIDE DEF g
  <2>4. GroupOK(h) /\ Filled(h) /\ h.all = all /\ h.list = list /\ h.conn = g.conn
    <3>1. GroupOK(h) /\ Filled(h)
      BY <2>3, ConnectedOK
    <3> QED
      BY <2>3, <3>1 DEF Connected, GroupOK, GroupType
  <2>5. b \in Bad(h) => Unhealthy(Group, b) \/ (b = c /\ ~ ok)
    <3>1. h.fault \subseteq g.fault \/ (~ ok /\ h.fault \subseteq g.fault \cup {c})
      BY <2>3 DEF Connected, GroupOK, GroupType
    <3>2. /\ DOMAIN h.weight = DOMAIN g.weight
          /\ \A d \in DOMAIN g.weight : h.weight[d] = g.weight[d] \/ (d = c /\ ~ ok)
      <4>1. CASE h = g
        BY <4>1
      <4>2. CASE ok
        BY <2>3, <4>2 DEF Connected, GroupOK, GroupType
      <4>3. CASE ~ ok /\ h # g
        <5>1. h = [g EXCEPT !.weight[c] = 0, !.fault = @ \cup {c}]
          BY <4>3 DEF Connected
        <5>2. h.weight = [g.weight EXCEPT ![c] = 0]
          BY <2>3, <5>1 DEF GroupOK, GroupType
        <5>3. PICK A : g.weight \in [A -> 0..DefaultWeight]
          BY <2>3 DEF GroupOK, GroupType, Weightings
        <5> QED
          BY <4>3, <5>2, <5>3
      <4> QED
        BY <4>1, <4>2, <4>3
    <3> HIDE DEF h
    <3> QED
      BY <2>3, <3>1, <3>2 DEF Bad, Unhealthy, Group
  <2> HIDE DEF h
  <2>6. Become(refresh(h)) /\ list' = refresh(h).list
    BY <1>1, <2>1, <2>4 DEF Retried, Become
  <2>7. refresh(h) = Assign(h, {})
    BY <1>1, <2>4, <2>6 DEF refresh
  <2>8. /\ list' = ChooseAddresses(h, {})
        /\ fault' \subseteq h.fault
        /\ conn' = [d \in Address |-> IF d \in ToSet(list') /\ h.conn[d] = "none"
                                      THEN "connecting" ELSE h.conn[d]]
    BY <2>4, <2>6, <2>7 DEF Become, Assign, GroupOK, GroupType
  <2>9. h.all \in Seq(Address) /\ IsInjective(h.all) /\ h.poolSize \in Nat
    BY <2>4 DEF GroupOK, GroupType
  <2>10. a \in ToSet(h.all) /\ a \in Bad(h)
    <3>1. ChooseAddresses(h, {}) \in Seq(ToSet(h.all))
      BY <2>9, ChooseFacts
    <3>2. a \in ToSet(h.all)
      BY <2>8, <3>1, TypeOfSet
    <3> QED
      BY <2>8, <3>2 DEF Bad, Unhealthy
  <2>11. b \in Bad(h)
    BY <2>4, <2>8, <2>9, <2>10, BadChosenLast
  <2>12. CASE b = c /\ ~ ok
    BY <2>1, <2>3, <2>4, <2>8, <2>12 DEF GroupType, GroupOK, Group
  <2> QED
    BY <2>5, <2>11, <2>12
<1>2. ASSUME IInv, [Next]_vars PROVE Replaced
  <2> SUFFICES ASSUME retry = "connecting", retry' = "sleeping" PROVE Replaced
    OBVIOUS
  <2>1. inited /\ ~ UNCHANGED vars
    BY <1>2 DEF IInv, vars
  <2>2. PICK c \in Address : Settle(c, TRUE) \/ Settle(c, FALSE)
    BY <1>2, <2>1
       DEF Next, Push, BecomeReady, Close, Drop, RetryFaults, EndRetry, GetConnection, OnNext
  <2> QED
    BY <1>1, <1>2, <2>2
<1> QED
  BY <1>2, Invariance, PTL DEF Spec, ReplacesBadAddresses

-----------------------------------------------------------------------------
(* Whoever waits waits for something: the safety half of GroupBecomesReady  *)
(* and FaultsAreRetried.                                                    *)

Connecting == {a \in Address : conn[a] = "connecting"}

(* What ready() waits for, and what the retry loop waits for, are addresses *)
(* that connect; the loop runs from ready() to close().                     *)
WaitsGoOn ==
  /\ awaited \subseteq Connecting
  /\ \A open \in inits : open # {} /\ open \subseteq Connecting
  /\ inited => inits = {}
  /\ ~ inited /\ all # <<>> => inits # {}
  /\ retries \subseteq Connecting
  /\ retry = "connecting" <=> retries # {}
  /\ inited /\ ~ closed => retry # "off"

\* What connects in g connects in h as well, and nothing else is awaited.
Keeps(g, h) ==
  /\ h.awaited = g.awaited
  /\ \A a \in Address : g.conn[a] = "connecting" => h.conn[a] = "connecting"

\* The addresses of a new list are asked for.
LEMMA AssignKeeps ==
  ASSUME NEW g, GroupOK(g), NEW fresh
  PROVE  /\ Keeps(g, Assign(g, fresh))
         /\ \A a \in Assign(g, fresh).asked :
              a \in g.asked \/ Assign(g, fresh).conn[a] # "none"
<1> DEFINE chosen == ChooseAddresses(g, fresh)
<1>1. g \in GroupType
  BY DEF GroupOK
<1>2. /\ Assign(g, fresh).awaited = g.awaited
      /\ Assign(g, fresh).asked = g.asked \cup ToSet(chosen)
      /\ Assign(g, fresh).conn = [a \in Address |->
                                    IF a \in ToSet(chosen) /\ g.conn[a] = "none"
                                    THEN "connecting" ELSE g.conn[a]]
  BY <1>1 DEF Assign, GroupType
<1>3. ToSet(chosen) \subseteq Address
  <2>1. chosen \in Seq(ToSet(g.all)) /\ ToSet(g.all) \subseteq Address
    BY ChooseFacts, TypeOfSet DEF GroupOK, GroupType
  <2> HIDE DEF chosen
  <2> QED BY <2>1, TypeOfSet
<1> HIDE DEF chosen
<1> QED BY <1>2, <1>3 DEF Keeps

LEMMA refreshKeeps ==
  ASSUME NEW g, GroupOK(g) PROVE Keeps(g, refresh(g))
<1>1. Keeps(g, g)
  BY DEF Keeps
<1> QED BY <1>1, AssignKeeps DEF refresh

LEMMA WindowKeeps ==
  ASSUME NEW g, GroupOK(g), Filled(g), NEW requests \in Nat, NEW verdict
  PROVE  LET h == AdjustConnectionPoolSize(g, requests)
         IN Keeps(g, h) /\ Keeps(g, Guard(Regulate(h, verdict)))
<1> DEFINE need == Least(Most(CeilDiv(requests, CapacityPerConnection), MinAddressCount),
                         MaxAddressCount)
           f == [g EXCEPT !.poolSize = need]
           h == AdjustConnectionPoolSize(g, requests)
           r == Regulate(h, verdict)
           off == [r EXCEPT !.degradeEnable = FALSE]
<1>1. need \in Nat
  BY PoolAssumption DEF Least, Most, CeilDiv
<1>2. GroupOK(f) /\ Keeps(g, f) /\ Keeps(g, g)
  <2> HIDE DEF need
  <2> QED BY <1>1 DEF GroupOK, GroupType, Keeps
<1>3. h = g \/ h = refresh(f)
  BY DEF AdjustConnectionPoolSize
<1> HIDE DEF f
<1>4. Keeps(g, h)
  BY <1>2, <1>3, refreshKeeps DEF Keeps
<1>5. GroupOK(h) /\ Filled(h)
  BY AdjustOK
<1> HIDE DEF h
<1>6. GroupOK(r) /\ Filled(r)
  BY <1>5, RegulateOK
<1>7. Keeps(g, r)
  <2>1. r.awaited = h.awaited /\ r.conn = h.conn
    BY <1>5 DEF Regulate, GroupOK, GroupType
  <2> QED BY <1>4, <2>1 DEF Keeps
<1> HIDE DEF r
<1>8. GroupOK(off) /\ Keeps(g, off) /\ Keeps(g, [r EXCEPT !.degradeEnable = TRUE])
  BY <1>6, <1>7 DEF GroupOK, GroupType, Keeps
<1>9. Guard(r) = [r EXCEPT !.degradeEnable = TRUE] \/ Guard(r) = refresh(off)
  BY DEF Guard
<1> HIDE DEF off
<1>10. Keeps(g, Guard(r))
  BY <1>8, <1>9, refreshKeeps DEF Keeps
<1> QED BY <1>4, <1>10 DEF h, r

LEMMA ConnectedKeeps ==
  ASSUME NEW g, GroupOK(g), NEW a, NEW ok
  PROVE  Connected(g, a, ok).awaited = g.awaited /\ Connected(g, a, ok).conn = g.conn
BY DEF Connected, GroupOK, GroupType

\* What the variables of a group keep of its connections.
LEMMA BecomeKeeps ==
  ASSUME NEW g, Become(g), NEW S, S \subseteq Address, g.awaited \subseteq S,
         \A a \in S : g.conn[a] = "connecting", g.asked \subseteq Address
  PROVE  S \subseteq Connecting' /\ awaited' \subseteq Connecting'
BY DEF Become, Connecting

LEMMA PushGoesOn == ASSUME IInv, WaitsGoOn, Push PROVE WaitsGoOn'
<1>1. PICK s \in Pushes : \E pushed \in SetToSeqs(s) :
        LET g == Assign([Group EXCEPT !.all = pushed], s \ ToSet(all)) IN
        /\ Become(g)
        /\ BecomeReady(inits \cup {{a \in g.asked : g.conn[a] # "up"}}
                          \cup (IF WaitConnect THEN {} ELSE {{}}))
        /\ UNCHANGED <<closed, retries>>
  BY DEF Push
<1>2. PICK pushed \in SetToSeqs(s) :
        LET g == Assign([Group EXCEPT !.all = pushed], s \ ToSet(all)) IN
        /\ Become(g)
        /\ BecomeReady(inits \cup {{a \in g.asked : g.conn[a] # "up"}}
                          \cup (IF WaitConnect THEN {} ELSE {{}}))
        /\ UNCHANGED <<closed, retries>>
  BY <1>1
<1> DEFINE f == [Group EXCEPT !.all = pushed]
           g == Assign(f, s \ ToSet(all))
           due == {a \in g.asked : g.conn[a] # "up"}
           open == inits \cup {due} \cup (IF WaitConnect THEN {} ELSE {{}})
<1>3. GroupOK(f)
  BY PushedIsSequence DEF IInv, GroupOK, GroupType, Group
<1>4. f.conn = conn /\ f.awaited = awaited /\ f.asked = {}
  BY DEF Group
<1>5. Become(g) /\ BecomeReady(open) /\ UNCHANGED <<closed, retries>>
  BY <1>2
<1> HIDE DEF f
<1>6. GroupOK(g) /\ Keeps(f, g) /\ \A a \in g.asked : g.conn[a] # "none"
  BY <1>3, <1>4, AssignOK, AssignKeeps
<1> HIDE DEF g
<1>7. /\ g.asked \subseteq Address /\ g.conn \in [Address -> {"none", "connecting", "up"}]
      /\ conn' = g.conn
  BY <1>5, <1>6 DEF GroupOK, GroupType, Become
<1>8. Connecting \subseteq Connecting' /\ awaited' \subseteq Connecting'
  <2>1. Connecting \subseteq Address /\ \A a \in Connecting : g.conn[a] = "connecting"
    BY <1>4, <1>6 DEF Keeps, Connecting
  <2>2. g.awaited \subseteq Connecting
    BY <1>4, <1>6 DEF Keeps, WaitsGoOn
  <2> QED BY <1>5, <1>7, <2>1, <2>2, BecomeKeeps
<1>9. due \subseteq Connecting'
  BY <1>6, <1>7 DEF Connecting
<1> HIDE DEF due
<1>10. open # {} /\ \A o \in open : o \subseteq Connecting'
  BY <1>8, <1>9 DEF WaitsGoOn
<1> HIDE DEF open
<1> QED BY <1>5, <1>8, <1>10 DEF WaitsGoOn, BecomeReady, IInv

LEMMA SettleGoesOn ==
  ASSUME IInv, WaitsGoOn, NEW a \in Address, NEW ok \in BOOLEAN, Settle(a, ok)
  PROVE  WaitsGoOn'
<1> DEFINE g == [Group EXCEPT !.conn[a] = IF ok THEN "up" ELSE "none", !.awaited = @ \ {a}]
           h == IF a \in awaited THEN Connected(g, a, ok) ELSE g
           S == Connecting \ {a}
<1>1. /\ GroupOK(g) /\ Filled(g) /\ g.awaited = awaited \ {a} /\ g.asked = {}
      /\ \A b \in S : g.conn[b] = "connecting"
  BY DEF IInv, GroupOK, GroupType, Filled, Group, Connecting
<1> HIDE DEF g
<1>2. /\ GroupOK(h) /\ h.awaited = awaited \ {a} /\ \A b \in S : h.conn[b] = "connecting"
  BY <1>1, ConnectedOK, ConnectedKeeps
<1> HIDE DEF h
<1>3. ASSUME NEW k, k = h \/ k = refresh(h), Become(k)
      PROVE  S \subseteq Connecting' /\ awaited' \subseteq Connecting'
  <2>1. GroupOK(k) /\ Keeps(h, k)
    <3>1. Len(h.list) <= Len(h.all)
      BY <1>1, ConnectedOK, FilledFits DEF h
    <3> QED BY <1>2, <1>3, <3>1, refreshOK, refreshKeeps DEF Keeps
  <2>2. k.awaited \subseteq S /\ (\A b \in S : k.conn[b] = "connecting") /\ S \subseteq Address
    BY <1>2, <2>1 DEF Keeps, WaitsGoOn, Connecting
  <2>3. k.asked \subseteq Address
    BY <2>1 DEF GroupOK, GroupType
  <2> QED BY <1>3, <2>2, <2>3, BecomeKeeps
<1>4. CASE inited
  <2>1. Retried(h, retries \ {a}) /\ UNCHANGED <<inited, inits, closed>>
    BY <1>4 DEF Settle, g, h
  <2>2. S \subseteq Connecting' /\ awaited' \subseteq Connecting'
    <3>1. PICK k : (k = h \/ k = refresh(h)) /\ Become(k)
      BY <2>1 DEF Retried
    <3> QED BY <1>3, <3>1
  <2> QED BY <1>4, <2>1, <2>2 DEF WaitsGoOn, Retried
<1>5. CASE ~ inited
  <2> DEFINE open == {o \ {a} : o \in inits}
  <2>1. Become(h) /\ BecomeReady(open) /\ UNCHANGED <<closed, retries>>
    BY <1>5 DEF Settle, g, h
  <2>2. S \subseteq Connecting' /\ awaited' \subseteq Connecting'
    BY <1>3, <2>1
  <2>3. retries = {} /\ retry = "off"
    BY <1>5 DEF WaitsGoOn, IInv
  <2>4. all' = all
    <3>1. h.all = all
      BY DEF h, g, Connected, Group
    <3> QED BY <2>1, <3>1 DEF Become
  <2>5. /\ \A o \in open : o \subseteq Connecting'
        /\ all # <<>> => open # {}
    BY <1>5, <2>2 DEF WaitsGoOn
  <2> HIDE DEF open
  <2> QED BY <1>5, <2>1, <2>2, <2>3, <2>4, <2>5 DEF WaitsGoOn, BecomeReady
<1> QED BY <1>4, <1>5

LEMMA RetryFaultsGoesOn == ASSUME IInv, WaitsGoOn, RetryFaults PROVE WaitsGoOn'
<1> DEFINE conns == [a \in Address |-> IF a \in fault /\ conn[a] = "none"
                                       THEN "connecting" ELSE conn[a]]
           g == [Group EXCEPT !.asked = fault, !.conn = conns]
           left == {a \in fault : conn[a] # "up"}
<1>1. /\ Become(g) /\ retries' = left /\ retry = "sleeping"
      /\ retry' = (IF left = {} THEN "sleeping" ELSE "connecting")
      /\ UNCHANGED <<inited, closed, inits>>
  BY DEF RetryFaults
<1>2. fault \subseteq Address /\ conn \in [Address -> {"none", "connecting", "up"}]
  BY DEF IInv, GroupOK, GroupType, Group
<1>3. g.conn = conns /\ g.awaited = awaited /\ g.asked = fault /\ g.all = all
  BY DEF Group
<1>4. left \subseteq Address /\ \A a \in Connecting \cup left : conns[a] = "connecting"
  BY <1>2 DEF Connecting
<1>5. Connecting \cup left \subseteq Connecting' /\ awaited' \subseteq Connecting'
  <2>1. Connecting \cup left \subseteq Address /\ g.awaited \subseteq Connecting \cup left
    BY <1>3, <1>4 DEF Connecting, WaitsGoOn
  <2> HIDE DEF g, conns, left
  <2> QED BY <1>1, <1>2, <1>3, <1>4, <2>1, BecomeKeeps
<1>6. all' = all
  BY <1>1, <1>3 DEF Become
<1> HIDE DEF g, conns, left
<1> QED BY <1>1, <1>5, <1>6 DEF WaitsGoOn

LEMMA OnNextGoesOn == ASSUME IInv, WaitsGoOn, OnNext PROVE WaitsGoOn'
<1>1. PICK avg \in Counts :
        LET g == AdjustConnectionPoolSize(Group, avg.total) IN
        \E verdict \in [ToSet(g.list) -> Verdicts[avg]] :
          Become(IF RegulationEffective THEN Guard(Regulate(g, verdict)) ELSE g)
  BY DEF OnNext
<1> DEFINE g == AdjustConnectionPoolSize(Group, avg.total)
<1>2. PICK verdict : Become(IF RegulationEffective THEN Guard(Regulate(g, verdict)) ELSE g)
  BY <1>1
<1> DEFINE k == IF RegulationEffective THEN Guard(Regulate(g, verdict)) ELSE g
<1>3. GroupOK(Group) /\ Filled(Group) /\ avg.total \in Nat
  BY InputsAssumption DEF IInv
<1>4. GroupOK(g) /\ Filled(g) /\ Keeps(Group, g) /\ Keeps(Group, Guard(Regulate(g, verdict)))
  BY <1>3, AdjustOK, WindowKeeps
<1>5. Become(k)
  BY <1>2
<1> HIDE DEF g
<1>6. GroupOK(k) /\ Keeps(Group, k)
  BY <1>4, RegulateOK, GuardOK
<1> HIDE DEF k
<1>7. Connecting \subseteq Connecting' /\ awaited' \subseteq Connecting'
  <2>1. Group.conn = conn /\ Group.awaited = awaited
    BY DEF Group
  <2>2. k.awaited \subseteq Connecting /\ \A a \in Connecting : k.conn[a] = "connecting"
    BY <1>6, <2>1 DEF Keeps, Connecting, WaitsGoOn
  <2>3. k.asked \subseteq Address /\ Connecting \subseteq Address
    BY <1>6 DEF GroupOK, GroupType, Connecting
  <2> QED BY <1>5, <2>2, <2>3, BecomeKeeps
<1>8. inited /\ UNCHANGED <<inited, closed, inits, retry, retries>>
  BY DEF OnNext
<1> QED BY <1>7, <1>8 DEF WaitsGoOn

LEMMA WaitsGoOnStep == IInv /\ WaitsGoOn /\ [Next]_vars => WaitsGoOn'
<1> SUFFICES ASSUME IInv, WaitsGoOn, [Next]_vars PROVE WaitsGoOn'
  OBVIOUS
<1>1. ASSUME UNCHANGED <<awaited, inited, inits, retry, retries>>,
             Connecting \subseteq Connecting', all' = all \/ all' = <<>>,
             closed' = closed \/ closed'
      PROVE  WaitsGoOn'
  BY <1>1 DEF WaitsGoOn
<1>2. CASE Close
  <2>1. /\ UNCHANGED <<awaited, inited, inits, retry, retries, conn>>
        /\ all' = <<>> /\ closed'
    BY <1>2 DEF Close
  <2> QED BY <1>1, <2>1 DEF Connecting
<1>3. ASSUME NEW a \in Address, Drop(a) PROVE WaitsGoOn'
  <2>1. Connecting \subseteq Connecting'
    BY <1>3 DEF Drop, Connecting, IInv, GroupOK, GroupType, Group
  <2> QED BY <1>1, <1>3, <2>1 DEF Drop
<1>4. CASE EndRetry
  <2>1. UNCHANGED <<groupVars, inited, closed, inits, retries>> /\ closed
          /\ retry = "sleeping" /\ retry' = "off"
    BY <1>4 DEF EndRetry
  <2> QED BY <2>1 DEF groupVars, WaitsGoOn, Connecting
<1>5. CASE GetConnection
  <2>1. PICK answer : conn' = [conn EXCEPT ![answer] = IF @ = "none" THEN "connecting" ELSE @]
    BY <1>5 DEF GetConnection
  <2>2. Connecting \subseteq Connecting'
    BY <2>1 DEF Connecting, IInv, GroupOK, GroupType, Group
  <2> QED BY <1>1, <1>5, <2>2 DEF GetConnection
<1>6. CASE UNCHANGED vars
  BY <1>1, <1>6 DEF vars, groupVars, Connecting
<1> QED BY <1>2, <1>3, <1>4, <1>5, <1>6, PushGoesOn, SettleGoesOn, RetryFaultsGoesOn,
           OnNextGoesOn DEF Next

GroupHasItsEvent ==
  /\ awaited \subseteq Connecting
  /\ all # <<>> /\ ~ inited => \E open \in inits : open # {} /\ open \subseteq Connecting
  /\ inited /\ ~ closed =>
       retry = "sleeping" \/ (retries # {} /\ retries \subseteq Connecting)

(* Neither ready() nor the retry loop hangs on nothing: after the first     *)
(* push and before ready() some _connectAll() awaits addresses that         *)
(* connect, all of them; from ready() to close() the retry loop sleeps or   *)
(* awaits such addresses, whatever pushes, windows, other callers and lost  *)
(* connections did meanwhile (address_group.js:96-112, 153-157, 307-326).   *)
THEOREM GroupNeverHangs == Spec => []GroupHasItsEvent
<1>1. Init => WaitsGoOn
  BY DEF Init, WaitsGoOn
<1>2. IInv /\ WaitsGoOn => GroupHasItsEvent
  BY DEF IInv, WaitsGoOn, GroupHasItsEvent
<1> QED BY <1>1, <1>2, WaitsGoOnStep, Invariance, PTL DEF Spec

-----------------------------------------------------------------------------
WeightlessStay ==
  \A a \in ToSet(list) :
    Degrading(degradeEnable) /\ conn[a] = "up" /\ weight[a] < DefaultWeight =>
      (NextWeight(Group, a, "recover") > weight[a] <=> weight[a] # 0)

(* The exact limit of GoodWindowRestoresWeight, which the code does not     *)
(* keep: if weightRecoverRate is at least 2, a good window gives a          *)
(* connected address more weight unless it has none, and then it gets none  *)
(* in any window (address_group.js:262-280).                                *)
THEOREM RecoveryNeedsWeight ==
  ASSUME WeightRecoverRate >= 2
  PROVE  Spec => []WeightlessStay
<1>1. ASSUME NEW w \in 0..DefaultWeight, w < DefaultWeight
      PROVE  Recovered(w) > w <=> w # 0
  <2>1. CASE w = 0
    <3>1. w * WeightRecoverRate = 0
      BY <2>1, WeightsAssumption
    <3> QED BY <2>1, <3>1, WeightsAssumption DEF Recovered, Least
  <2>2. CASE w # 0
    <3>1. w * WeightRecoverRate >= w * 2
      BY <1>1, WeightsAssumption
    <3>2. w * 2 > w /\ w * 2 \in Nat /\ w * WeightRecoverRate \in Nat
      BY <1>1, <2>2, WeightsAssumption
    <3> DEFINE r == w * WeightRecoverRate
    <3>3. r > w /\ r \in Nat
      BY <1>1, <3>1, <3>2, WeightsAssumption
    <3> HIDE DEF r
    <3>4. Least(r, DefaultWeight) > w
      BY <1>1, <3>3, WeightsAssumption DEF Least
    <3> QED BY <2>2, <3>4 DEF Recovered, r
  <2> QED BY <2>1, <2>2
<1>2. IInv => WeightlessStay
  <2> SUFFICES ASSUME IInv, NEW a \in ToSet(list), Degrading(degradeEnable),
                      conn[a] = "up", weight[a] < DefaultWeight
               PROVE  NextWeight(Group, a, "recover") > weight[a] <=> weight[a] # 0
    BY DEF WeightlessStay
  <2>1. weight[a] \in 0..DefaultWeight
    BY DEF IInv, GroupOK, GroupType, Weightings, Group
  <2>2. NextWeight(Group, a, "recover") = Recovered(weight[a])
    BY DEF NextWeight, Group
  <2> QED BY <1>1, <2>1, <2>2
<1> QED BY <1>2, Invariance, PTL
=============================================================================
