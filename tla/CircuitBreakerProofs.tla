------------------------- MODULE CircuitBreakerProofs -------------------------
(***************************************************************************)
(* What holds of the circuit breaker for every size of the window, every   *)
(* threshold, every sleep window and every choice of forced modes; and,    *)
(* with the history of CircuitBreakerHistory, of logs of any length.  The  *)
(* middle part is about sums over finite sets.                             *)
(***************************************************************************)
EXTENDS CircuitBreakerHistory, FiniteSetTheorems, NaturalsInduction,
        WellFoundedInduction, TLAPS

(* The window stays a window: the operations of the counter keep its type. *)
LEMMA RecordType ==
  ASSUME CounterTypeOK, NEW code, NEW rt \in RTs, Record(code, rt), UNCHANGED isClosed
  PROVE  CounterTypeOK'
<1> USE NumBucketsAssumption, RTsAssumption DEF CounterTypeOK, Record
<1>1. CASE isClosed
  BY <1>1
<1>2. CASE ~ isClosed
  <2>1. buckets \in [1..NumBuckets -> Bucket] /\ NumBuckets \in 1..NumBuckets
    BY <1>2
  <2>2. Added(buckets[NumBuckets], code, rt) \in Bucket
    BY <2>1 DEF Added, Bucket
  <2>3. buckets' \in [1..NumBuckets -> Bucket]
    BY <1>2, <2>1, <2>2
  <2> QED BY <2>3
<1> QED BY <1>1, <1>2 DEF CounterTypeOK

LEMMA ClearType ==
  ASSUME CounterTypeOK, Clear, UNCHANGED isClosed
  PROVE  CounterTypeOK'
BY DEF CounterTypeOK, Clear, EmptyWindow, EmptyBucket, Bucket

LEMMA RollType ==
  ASSUME CounterTypeOK, Roll, UNCHANGED isClosed
  PROVE  CounterTypeOK'
<1>1. buckets \in [1..NumBuckets -> Bucket]
  BY DEF CounterTypeOK, Roll
<1>2. Shifted(buckets) \in [1..NumBuckets -> Bucket]
  BY <1>1, NumBucketsAssumption DEF Shifted, EmptyBucket, Bucket
<1> QED BY <1>2 DEF CounterTypeOK, Roll

-----------------------------------------------------------------------------
(* update() in one place: what MarkSuccess and MarkNonSuccess do to the     *)
(* counter is either to record the call or to wipe the window.              *)
LEMMA UpdateType ==
  ASSUME CounterTypeOK, NEW code, NEW rt \in RTs, Update(code, rt)
  PROVE  CounterTypeOK'
<1>1. UNCHANGED isClosed /\ (Clear \/ Record("00", rt) \/ Record(code, rt))
  BY DEF Update, MarkSuccess, MarkNonSuccess
<1> QED BY <1>1, RecordType, ClearType

(* Every variable of the breaker keeps its type; in particular openedFor    *)
(* stays within the sleep window plus one.                                  *)
THEOREM TypeCorrect == Spec => []TypeOK
<1>1. Init => TypeOK
  <2>1. CounterInit => CounterTypeOK
    <3>1. EmptyWindow \in [1..NumBuckets -> Bucket]
      BY DEF EmptyWindow, EmptyBucket, Bucket
    <3> QED BY <3>1, Zenon DEF CounterInit, CounterTypeOK
  <2> QED BY <2>1, SleepWindowAssumption DEF Init, TypeOK, Statuses
<1>2. TypeOK /\ [Next]_breakerVars => TypeOK'
  <2> SUFFICES ASSUME TypeOK, [Next]_breakerVars PROVE TypeOK'
    OBVIOUS
  <2> USE SleepWindowAssumption
  <2>1. CASE Admit \/ AdmitTest \/ Refuse
    BY <2>1 DEF Admit, AdmitTest, Refuse, breakerVars, counterVars, TypeOK,
                CounterTypeOK, Statuses
  <2>2. ASSUME NEW code \in Codes, NEW rt \in RTs, Update(code, rt)
        PROVE  TypeOK'
    <3>1. CounterTypeOK'
      BY <2>2, UpdateType DEF TypeOK
    <3>2. (status \in Statuses /\ openedFor \in -1..(SleepWindow + 1))'
      BY <2>2 DEF Update, MarkSuccess, MarkNonSuccess, stateVars, TypeOK, Statuses
    <3> QED BY <2>2, <3>1, <3>2 DEF Update, TypeOK
  <2>3. CASE Tick
    <3>1. CounterTypeOK'
      BY <2>3, RollType DEF Tick, TypeOK
    <3>2. DOMAIN hc' = {"total", "error", "rt"}
      BY <2>3 DEF Tick, Reduce
    <3>3. (status \in Statuses /\ openedFor \in -1..(SleepWindow + 1))'
      BY <2>3 DEF Tick, stateVars, TypeOK, Statuses
    <3> QED BY <2>3, <3>1, <3>2, <3>3 DEF Tick, TypeOK
  <2>4. CASE Reset
    BY <2>4, ClearType DEF Reset, TypeOK
  <2>5. CASE Close
    BY <2>5 DEF Close, CloseCounter, TypeOK, CounterTypeOK
  <2>6. CASE Elapse
    BY <2>6 DEF Elapse, counterVars, TypeOK, CounterTypeOK
  <2>7. CASE Configure
    BY <2>7 DEF Configure, counterVars, TypeOK, CounterTypeOK
  <2>8. CASE UNCHANGED breakerVars
    BY <2>8 DEF breakerVars, TypeOK, CounterTypeOK
  <2> QED BY <2>1, <2>2, <2>3, <2>4, <2>5, <2>6, <2>7, <2>8 DEF Next
<1> QED BY <1>1, <1>2, PTL DEF Spec

-----------------------------------------------------------------------------
(* status and _circuitOpened never drift apart.  The invariant is inductive *)
(* together with the type of openedFor, which rules out that a timestamp is *)
(* mistaken for -1.                                                         *)
THEOREM StatusAgrees == Spec => []StatusAgreesWithTime
<1>1. Init => StatusAgreesWithTime
  BY DEF Init, StatusAgreesWithTime
<1>2. TypeOK /\ StatusAgreesWithTime /\ [Next]_breakerVars => StatusAgreesWithTime'
  <2> SUFFICES ASSUME TypeOK, StatusAgreesWithTime, [Next]_breakerVars
               PROVE  StatusAgreesWithTime'
    OBVIOUS
  <2> USE SleepWindowAssumption DEF TypeOK, StatusAgreesWithTime
  <2>1. CASE Admit \/ Refuse \/ UNCHANGED breakerVars
    BY <2>1 DEF Admit, Refuse, breakerVars
  <2>2. CASE AdmitTest
    BY <2>2 DEF AdmitTest
  <2>3. ASSUME NEW code \in Codes, NEW rt \in RTs, Update(code, rt)
        PROVE  StatusAgreesWithTime'
    BY <2>3 DEF Update, MarkSuccess, MarkNonSuccess, stateVars
  <2>4. CASE Tick
    BY <2>4 DEF Tick, stateVars
  <2>5. CASE Reset \/ Close \/ Configure
    BY <2>5 DEF Reset, Close, Configure
  <2>6. CASE Elapse
    BY <2>6 DEF Elapse
  <2> QED BY <2>1, <2>2, <2>3, <2>4, <2>5, <2>6 DEF Next
<1> QED BY <1>1, <1>2, TypeCorrect, PTL DEF Spec

(* A circuit that has tripped has counts to print in its refusals: no call  *)
(* of a connection can throw for the lack of them unless the circuit is     *)
(* forced open.                                                             *)
THEOREM TrippedHasCounts == Spec => []OpenHasCounts
<1>1. Init => OpenHasCounts
  BY DEF Init, OpenHasCounts
<1>2. /\ TypeOK /\ StatusAgreesWithTime
      /\ OpenHasCounts
      /\ [Next]_breakerVars
      => OpenHasCounts'
  <2> SUFFICES ASSUME TypeOK, StatusAgreesWithTime, OpenHasCounts,
                      [Next]_breakerVars
               PROVE  OpenHasCounts'
    OBVIOUS
  <2>1. CASE Tick
    <3>1. DOMAIN hc' = {"total", "error", "rt"}
      BY <2>1 DEF Tick, Reduce
    <3>2. DOMAIN NoHealth = {}
      BY DEF NoHealth
    <3> QED BY <3>1, <3>2 DEF OpenHasCounts
  <2>2. ASSUME NEW code \in Codes, NEW rt \in RTs, Update(code, rt)
        PROVE  OpenHasCounts'
    <3>1. hc' = hc /\ (openedFor' # -1 => openedFor # -1)
      BY <2>2 DEF Update, MarkSuccess, MarkNonSuccess, stateVars, StatusAgreesWithTime
    <3> QED BY <3>1 DEF OpenHasCounts
  <2>3. CASE Elapse
    <3>1. hc' = hc /\ openedFor # -1
      BY <2>3 DEF Elapse
    <3> QED BY <3>1 DEF OpenHasCounts
  <2>4. CASE Admit \/ AdmitTest \/ Refuse \/ Reset \/ Close \/ Configure
    BY <2>4 DEF Admit, AdmitTest, Refuse, Reset, Close, Configure, breakerVars,
                OpenHasCounts
  <2>5. CASE UNCHANGED breakerVars
    BY <2>5 DEF breakerVars, OpenHasCounts
  <2> QED BY <2>1, <2>2, <2>3, <2>4, <2>5 DEF Next
<1> QED BY <1>1, <1>2, TypeCorrect, StatusAgrees, PTL DEF Spec

-----------------------------------------------------------------------------
(* While the single test is out the sleep window is over: the clock does    *)
(* nothing that the users of the circuit could see.                         *)
TestedIsRested == status = "HALF_OPEN" => isAfterSleepWindow

LEMMA TestFollowsRest == Spec => []TestedIsRested
<1> USE DEF TestedIsRested, isAfterSleepWindow
<1>1. Init => TestedIsRested
  BY DEF Init
<1>2. TypeOK /\ TestedIsRested /\ [Next]_breakerVars => TestedIsRested'
  <2> SUFFICES ASSUME TypeOK, TestedIsRested, [Next]_breakerVars
               PROVE  TestedIsRested'
    OBVIOUS
  <2> USE SleepWindowAssumption
  <2>1. CASE Admit \/ AdmitTest \/ Refuse \/ Reset \/ Close \/ Configure
    BY <2>1 DEF Admit, AdmitTest, Refuse, Reset, Close, Configure, breakerVars
  <2>2. ASSUME NEW code \in Codes, NEW rt \in RTs, Update(code, rt)
        PROVE  TestedIsRested'
    BY <2>2 DEF Update, MarkSuccess, MarkNonSuccess, stateVars
  <2>3. CASE Tick
    BY <2>3 DEF Tick, stateVars
  <2>4. CASE Elapse
    BY <2>4 DEF Elapse, TypeOK
  <2>5. CASE UNCHANGED breakerVars
    BY <2>5 DEF breakerVars
  <2> QED BY <2>1, <2>2, <2>3, <2>4, <2>5 DEF Next
<1> QED BY <1>1, <1>2, TypeCorrect, PTL DEF Spec

(* The refinement.  A circuit whose status agrees with its time maps each   *)
(* outcome of allowRequest(), each report and each trip to the step of the  *)
(* same name, and the clock to Rest when the sleep window ends.             *)
THEOREM CircuitImplementsBreaker == Spec => ImplementsBreaker
<1> USE DEF isAfterSleepWindow
<1>1. Init => Abstract!Init
  BY SleepWindowAssumption DEF Init, Abstract!Init
<1>2. TypeOK /\ StatusAgreesWithTime /\ TestedIsRested /\ [Next]_breakerVars
        => [Abstract!Next]_Abstract!vars
  <2> SUFFICES ASSUME TypeOK, StatusAgreesWithTime, TestedIsRested, [Next]_breakerVars
               PROVE  [Abstract!Next]_Abstract!vars
    OBVIOUS
  <2> USE SleepWindowAssumption DEF Abstract!vars
  <2>0. /\ status \in Statuses
        /\ openedFor \in -1..(SleepWindow + 1)
        /\ (status = "CLOSED") <=> (openedFor = -1)
    BY DEF TypeOK, StatusAgreesWithTime
  <2>1. CASE Admit \/ Refuse \/ Reset \/ Close \/ Configure \/ UNCHANGED breakerVars
    BY <2>1 DEF Admit, Refuse, Reset, Close, Configure, breakerVars
  <2>2. CASE AdmitTest
    <3>1. Abstract!AdmitTest
      BY <2>0, <2>2 DEF AdmitTest, Abstract!AdmitTest, Statuses
    <3> QED BY <3>1 DEF Abstract!Next
  <2>3. ASSUME NEW code \in Codes, NEW rt \in RTs, Update(code, rt)
        PROVE  [Abstract!Next]_Abstract!vars
    <3>1. CASE status # "HALF_OPEN"
      BY <2>3, <3>1 DEF Update, MarkSuccess, MarkNonSuccess, stateVars
    <3>2. CASE status = "HALF_OPEN" /\ code = "00"
      <4>1. Abstract!Report("00")
        BY <2>3, <3>2 DEF Update, MarkSuccess, Abstract!Report
      <4> QED BY <4>1 DEF Abstract!Next
    <3>3. CASE status = "HALF_OPEN" /\ code # "00"
      <4>1. Abstract!Report("03")
        BY <2>3, <3>3 DEF Update, MarkNonSuccess, Abstract!Report
      <4> QED BY <4>1 DEF Abstract!Next
    <3> QED BY <3>1, <3>2, <3>3
  <2>4. CASE Tick
    <3>1. CASE status' # status
      <4>1. Abstract!Trip
        BY <2>0, <2>4, <3>1 DEF Tick, stateVars, Abstract!Trip
      <4> QED BY <4>1 DEF Abstract!Next
    <3>2. CASE status' = status
      BY <2>0, <2>4, <3>2 DEF Tick, stateVars
    <3> QED BY <3>1, <3>2
  <2>5. CASE Elapse
    <3>1. CASE openedFor' <= SleepWindow
      BY <2>0, <2>5, <3>1 DEF Elapse
    <3>2. CASE openedFor' > SleepWindow /\ status = "OPEN"
      <4>1. Abstract!Rest
        BY <2>0, <2>5, <3>2 DEF Elapse, Abstract!Rest
      <4> QED BY <4>1 DEF Abstract!Next
    <3>3. CASE openedFor' > SleepWindow /\ status = "HALF_OPEN"
      BY <2>0, <2>5, <3>3 DEF Elapse, TestedIsRested
    <3> QED BY <2>0, <2>5, <3>1, <3>2, <3>3 DEF Elapse, Statuses
  <2> QED BY <2>1, <2>2, <2>3, <2>4, <2>5 DEF Next
<1> QED BY <1>1, <1>2, TypeCorrect, StatusAgrees, TestFollowsRest, PTL DEF Spec,
          ImplementsBreaker,
          Abstract!Spec

-----------------------------------------------------------------------------
(* Sums over finite sets.  What SumFunctionOnSet is depends on nothing but  *)
(* the values: not on the order in which its recursion takes the elements.  *)

\* The element that the recursion of the sum takes first, and the recursion.
Pick(s) == CHOOSE x \in s : TRUE

IsFold(g, f, S) ==
  g = [s \in SUBSET S |-> IF s = {} THEN 0 ELSE f[Pick(s)] + g[s \ {Pick(s)}]]

LEMMA SumIsFold ==
  ASSUME NEW f, NEW S
  PROVE  SumFunctionOnSet(f, S) = (CHOOSE g : IsFold(g, f, S))[S]
BY DEF SumFunctionOnSet, FoldFunctionOnSet, MapThenFoldSet, IsFold, Pick

\* A set of natural numbers has a least element.
LEMMA LeastElement ==
  ASSUME NEW H \in SUBSET Nat, H # {}
  PROVE  \E i \in H : \A j \in H : i <= j
<1> DEFINE R == OpToRel(<, Nat)
<1>1. IsWellFoundedOn(R, Nat)
  BY NatLessThanWellFounded, Zenon
<1>2. \A i, j \in Nat : j < i => <<j, i>> \in R
  BY Zenon DEF OpToRel
<1> HIDE DEF R
<1>3. PICK i \in H : \A j \in H : ~ (<<j, i>> \in R)
  BY <1>1, WFMin
<1>4. \A j \in H : ~ (j < i)
  BY <1>2, <1>3
<1> QED BY <1>4

\* One element less.
LEMMA TakeOut ==
  ASSUME NEW s, IsFiniteSet(s), NEW x \in s
  PROVE  /\ IsFiniteSet(s \ {x})
         /\ Cardinality(s \ {x}) = Cardinality(s) - 1
         /\ Cardinality(s) \in Nat \ {0} /\ Cardinality(s \ {x}) \in Nat
<1>1. IsFiniteSet(s \ {x}) /\ Cardinality(s \ {x}) = Cardinality(s) - 1
  BY FS_RemoveElement
<1> QED BY <1>1, FS_CardinalityType

LEMMA PickIn == ASSUME NEW s, s # {} PROVE Pick(s) \in s
BY DEF Pick

(* Induction over the subsets of a finite set: of those that are an         *)
(* exception to something, one loses this with any of its elements.         *)
LEMMA SmallestException ==
  ASSUME NEW S, IsFiniteSet(S), NEW C \in SUBSET (SUBSET S), C # {}, {} \notin C
  PROVE  \E s \in C : IsFiniteSet(s) /\ Pick(s) \in s /\ \A x \in s : s \ {x} \notin C
<1> DEFINE H == {Cardinality(s) : s \in C}
<1>1. \A s \in C : IsFiniteSet(s)
  BY FS_Subset
<1>2. H \in SUBSET Nat /\ H # {}
  BY <1>1, FS_CardinalityType
<1>3. PICK i \in H : \A j \in H : i <= j
  <2> HIDE DEF H
  <2> QED BY <1>2, LeastElement
<1>4. PICK s \in C : \A t \in C : Cardinality(s) <= Cardinality(t)
  BY <1>3
<1>5. \A x \in s : s \ {x} \notin C
  <2> SUFFICES ASSUME NEW x \in s PROVE ~ (Cardinality(s) <= Cardinality(s \ {x}))
    BY <1>4
  <2>1. Cardinality(s \ {x}) = Cardinality(s) - 1 /\ Cardinality(s) \in Nat
    BY <1>1, TakeOut
  <2> QED BY <2>1
<1> QED BY <1>1, <1>5, PickIn

(* The recursion of the sum has a solution on the subsets of at most n      *)
(* elements, for every n.                                                   *)
Small(S, n) == {s \in SUBSET S : Cardinality(s) <= n}
IsFoldTo(g, f, S, n) ==
  g = [s \in Small(S, n) |-> IF s = {} THEN 0 ELSE f[Pick(s)] + g[s \ {Pick(s)}]]

LEMMA FoldsToAny ==
  ASSUME NEW f, NEW S, IsFiniteSet(S), NEW n \in Nat
  PROVE  \E g : IsFoldTo(g, f, S, n)
<1> DEFINE H == {k \in Nat : ~ \E g : IsFoldTo(g, f, S, k)}
<1> SUFFICES H = {}
  OBVIOUS
<1> SUFFICES ASSUME H # {} PROVE FALSE
  OBVIOUS
<1>1. PICK k \in H : \A j \in H : k <= j
  <2>1. H \in SUBSET Nat
    OBVIOUS
  <2> HIDE DEF H
  <2> QED BY <2>1, LeastElement
<1>0. \A s \in SUBSET S : IsFiniteSet(s) /\ Cardinality(s) \in Nat
  BY FS_Subset, FS_CardinalityType
<1>2. CASE k = 0
  <2> DEFINE g == [s \in Small(S, 0) |-> 0]
  <2>1. \A s \in Small(S, 0) : s = {}
    <3> SUFFICES ASSUME NEW s \in SUBSET S, Cardinality(s) <= 0 PROVE s = {}
      BY DEF Small
    <3>1. Cardinality(s) = 0
      BY <1>0
    <3> QED BY <1>0, <3>1, FS_EmptySet
  <2>2. IsFoldTo(g, f, S, 0)
    BY <2>1 DEF IsFoldTo
  <2> QED BY <1>2, <2>2
<1>3. CASE k # 0
  <2>1. k - 1 \in Nat /\ k - 1 \notin H
    BY <1>1, <1>3
  <2>2. PICK g : IsFoldTo(g, f, S, k - 1)
    BY <2>1
  <2> DEFINE h == [s \in Small(S, k) |->
                     IF s = {} THEN 0 ELSE f[Pick(s)] + g[s \ {Pick(s)}]]
  <2>3. \A s \in Small(S, k - 1) : s \in Small(S, k) /\ h[s] = g[s]
    <3>1. Small(S, k - 1) \subseteq Small(S, k)
      BY <1>0, <2>1 DEF Small
    <3> QED BY <2>2, <3>1 DEF IsFoldTo
  <2>4. \A s \in Small(S, k) : s # {} => s \ {Pick(s)} \in Small(S, k - 1)
    <3> SUFFICES ASSUME NEW s \in Small(S, k), s # {}
                 PROVE  s \ {Pick(s)} \in Small(S, k - 1)
      OBVIOUS
    <3>1. Pick(s) \in s /\ IsFiniteSet(s) /\ s \in SUBSET S /\ Cardinality(s) <= k
      BY <1>0, PickIn DEF Small
    <3>2. Cardinality(s \ {Pick(s)}) = Cardinality(s) - 1 /\ Cardinality(s) \in Nat
      BY <3>1, TakeOut
    <3>3. Cardinality(s \ {Pick(s)}) <= k - 1
      BY <2>1, <3>1, <3>2
    <3> QED BY <3>1, <3>3 DEF Small
  <2>5. \A s \in Small(S, k) : s # {} => h[s \ {Pick(s)}] = g[s \ {Pick(s)}]
    BY <2>3, <2>4
  <2>6. h = [s \in Small(S, k) |-> IF s = {} THEN 0 ELSE f[Pick(s)] + h[s \ {Pick(s)}]]
    <3>1. \A s \in Small(S, k) :
            (IF s = {} THEN 0 ELSE f[Pick(s)] + g[s \ {Pick(s)}])
              = (IF s = {} THEN 0 ELSE f[Pick(s)] + h[s \ {Pick(s)}])
      BY <2>5
    <3> DEFINE r(s) == IF s = {} THEN 0 ELSE f[Pick(s)] + h[s \ {Pick(s)}]
               q(s) == IF s = {} THEN 0 ELSE f[Pick(s)] + g[s \ {Pick(s)}]
    <3>2. \A s \in Small(S, k) : q(s) = r(s)
      BY <3>1
    <3>3. h = [s \in Small(S, k) |-> q(s)]
      OBVIOUS
    <3> HIDE DEF h, r, q
    <3>4. h = [s \in Small(S, k) |-> r(s)]
      BY <3>2, <3>3
    <3> QED BY <3>4 DEF r
  <2>7. IsFoldTo(h, f, S, k)
    <3> HIDE DEF h
    <3> QED BY <2>6 DEF IsFoldTo
  <2> QED BY <1>1, <2>7
<1> QED BY <1>2, <1>3

\* A finite set has no larger subsets than itself, so the sum has its recursion.
LEMMA FoldExists ==
  ASSUME NEW f, NEW S, IsFiniteSet(S)
  PROVE  \E g : IsFold(g, f, S)
<1>1. Cardinality(S) \in Nat
  BY FS_CardinalityType
<1>2. PICK g : IsFoldTo(g, f, S, Cardinality(S))
  BY <1>1, FoldsToAny
<1>3. Small(S, Cardinality(S)) = SUBSET S
  BY FS_Subset DEF Small
<1> QED BY <1>2, <1>3 DEF IsFold, IsFoldTo

\* The recursion has one solution, whatever the set of which u is a subset.
LEMMA FoldIsUnique ==
  ASSUME NEW f, NEW S, NEW T, NEW g, NEW h, IsFold(g, f, S), IsFold(h, f, T),
         NEW u \in SUBSET S, u \in SUBSET T, IsFiniteSet(u)
  PROVE  g[u] = h[u]
<1> DEFINE C == {s \in SUBSET u : g[s] # h[s]}
<1> SUFFICES ASSUME C # {} PROVE FALSE
  OBVIOUS
<1>1. {} \notin C
  BY DEF IsFold
<1>2. PICK s \in C : IsFiniteSet(s) /\ Pick(s) \in s /\ \A x \in s : s \ {x} \notin C
  <2>1. C \in SUBSET (SUBSET u)
    OBVIOUS
  <2> HIDE DEF C
  <2> QED BY <1>1, <2>1, SmallestException
<1>3. s \in SUBSET S /\ s \in SUBSET T /\ g[s] # h[s] /\ s # {}
  BY <1>2
<1>4. g[s] = f[Pick(s)] + g[s \ {Pick(s)}] /\ h[s] = f[Pick(s)] + h[s \ {Pick(s)}]
  BY <1>3 DEF IsFold
<1> QED BY <1>2, <1>3, <1>4

\* The recursion of the sum, one element first.
LEMMA SumStep ==
  ASSUME NEW f, NEW S, IsFiniteSet(S)
  PROVE  SumFunctionOnSet(f, S) =
           IF S = {} THEN 0 ELSE f[Pick(S)] + SumFunctionOnSet(f, S \ {Pick(S)})
<1> DEFINE T == S \ {Pick(S)}
           g == CHOOSE g : IsFold(g, f, S)
           h == CHOOSE h : IsFold(h, f, T)
<1>1. IsFiniteSet(T)
  BY FS_Subset
<1>2. IsFold(g, f, S) /\ IsFold(h, f, T)
  BY <1>1, FoldExists
<1>3. SumFunctionOnSet(f, S) = g[S] /\ SumFunctionOnSet(f, T) = h[T]
  BY SumIsFold
<1> HIDE DEF g, h, T
<1>4. T \subseteq S
  BY DEF T
<1>5. g[T] = h[T]
  BY <1>1, <1>2, <1>4, FoldIsUnique
<1>6. g[S] = IF S = {} THEN 0 ELSE f[Pick(S)] + g[T]
  BY <1>2 DEF IsFold, T
<1> QED BY <1>3, <1>5, <1>6 DEF T

LEMMA SumEmpty == ASSUME NEW f PROVE SumFunctionOnSet(f, {}) = 0
BY SumStep, FS_EmptySet

\* A sum of natural numbers is one.
LEMMA SumType ==
  ASSUME NEW f, NEW S, IsFiniteSet(S), \A x \in S : f[x] \in Nat
  PROVE  SumFunctionOnSet(f, S) \in Nat
<1> DEFINE C == {s \in SUBSET S : SumFunctionOnSet(f, s) \notin Nat}
<1> SUFFICES ASSUME C # {} PROVE FALSE
  OBVIOUS
<1>1. {} \notin C
  BY SumEmpty
<1>2. PICK s \in C : IsFiniteSet(s) /\ Pick(s) \in s /\ \A x \in s : s \ {x} \notin C
  <2>1. C \in SUBSET (SUBSET S)
    OBVIOUS
  <2> HIDE DEF C
  <2> QED BY <1>1, <2>1, SmallestException
<1>3. SumFunctionOnSet(f, s) = f[Pick(s)] + SumFunctionOnSet(f, s \ {Pick(s)})
  BY <1>2, SumStep
<1>4. f[Pick(s)] \in Nat /\ SumFunctionOnSet(f, s \ {Pick(s)}) \in Nat
  BY <1>2
<1> QED BY <1>3, <1>4

\* It depends on the values in the set only.
LEMMA SumCongruent ==
  ASSUME NEW f, NEW g, NEW S, IsFiniteSet(S), \A x \in S : f[x] = g[x]
  PROVE  SumFunctionOnSet(f, S) = SumFunctionOnSet(g, S)
<1> DEFINE C == {s \in SUBSET S : SumFunctionOnSet(f, s) # SumFunctionOnSet(g, s)}
<1> SUFFICES ASSUME C # {} PROVE FALSE
  OBVIOUS
<1>1. {} \notin C
  BY SumEmpty
<1>2. PICK s \in C : IsFiniteSet(s) /\ Pick(s) \in s /\ \A x \in s : s \ {x} \notin C
  <2>1. C \in SUBSET (SUBSET S)
    OBVIOUS
  <2> HIDE DEF C
  <2> QED BY <1>1, <2>1, SmallestException
<1>3. /\ SumFunctionOnSet(f, s) = f[Pick(s)] + SumFunctionOnSet(f, s \ {Pick(s)})
      /\ SumFunctionOnSet(g, s) = g[Pick(s)] + SumFunctionOnSet(g, s \ {Pick(s)})
  BY <1>2, SumStep
<1> QED BY <1>2, <1>3

\* Any element may be taken out first.
LEMMA SumRemove ==
  ASSUME NEW f, NEW S, IsFiniteSet(S), \A x \in S : f[x] \in Nat, NEW a \in S
  PROVE  SumFunctionOnSet(f, S) = f[a] + SumFunctionOnSet(f, S \ {a})
<1> DEFINE C == {s \in SUBSET S : \E b \in s :
                   SumFunctionOnSet(f, s) # f[b] + SumFunctionOnSet(f, s \ {b})}
<1> SUFFICES ASSUME C # {} PROVE FALSE
  OBVIOUS
<1>1. {} \notin C
  OBVIOUS
<1>2. PICK s \in C : IsFiniteSet(s) /\ Pick(s) \in s /\ \A x \in s : s \ {x} \notin C
  <2>1. C \in SUBSET (SUBSET S)
    OBVIOUS
  <2> HIDE DEF C
  <2> QED BY <1>1, <2>1, SmallestException
<1>3. PICK b \in s : SumFunctionOnSet(f, s) # f[b] + SumFunctionOnSet(f, s \ {b})
  OBVIOUS
<1> DEFINE c == Pick(s)
           t == s \ {c}
<1>4. SumFunctionOnSet(f, s) = f[c] + SumFunctionOnSet(f, t)
  BY <1>2, SumStep
<1>5. b # c
  BY <1>3, <1>4
<1>6. b \in t /\ c \in s \ {b} /\ t \in SUBSET S /\ s \ {b} \in SUBSET S
  BY <1>2, <1>5
<1>7. SumFunctionOnSet(f, t) = f[b] + SumFunctionOnSet(f, t \ {b})
  BY <1>2, <1>6
<1>8. SumFunctionOnSet(f, s \ {b}) = f[c] + SumFunctionOnSet(f, t \ {b})
  <2>1. t \ {b} = (s \ {b}) \ {c}
    OBVIOUS
  <2>2. SumFunctionOnSet(f, s \ {b}) = f[c] + SumFunctionOnSet(f, (s \ {b}) \ {c})
    BY <1>2, <1>6
  <2> QED BY <2>1, <2>2
<1>9. SumFunctionOnSet(f, t \ {b}) \in Nat /\ f[b] \in Nat /\ f[c] \in Nat
  <2>1. IsFiniteSet(t \ {b}) /\ (\A x \in t \ {b} : f[x] \in Nat) /\ f[c] \in Nat
    BY <1>2, FS_Subset
  <2> HIDE DEF t, c
  <2> QED BY <2>1, SumType
<1> QED BY <1>3, <1>4, <1>7, <1>8, <1>9

LEMMA SumAdd ==
  ASSUME NEW f, NEW S, IsFiniteSet(S), NEW a, a \notin S, \A x \in S \cup {a} : f[x] \in Nat
  PROVE  SumFunctionOnSet(f, S \cup {a}) = f[a] + SumFunctionOnSet(f, S)
<1>1. IsFiniteSet(S \cup {a})
  BY FS_AddElement
<1>2. (S \cup {a}) \ {a} = S
  OBVIOUS
<1>3. SumFunctionOnSet(f, S \cup {a}) = f[a] + SumFunctionOnSet(f, (S \cup {a}) \ {a})
  BY <1>1, SumRemove
<1> QED BY <1>2, <1>3

\* The sum over two sets that share nothing.
LEMMA SumUnion ==
  ASSUME NEW f, NEW S, NEW T, IsFiniteSet(S), IsFiniteSet(T), S \cap T = {},
         \A x \in S \cup T : f[x] \in Nat
  PROVE  SumFunctionOnSet(f, S \cup T) = SumFunctionOnSet(f, S) + SumFunctionOnSet(f, T)
<1> DEFINE C == {t \in SUBSET T : SumFunctionOnSet(f, S \cup t) #
                                    SumFunctionOnSet(f, S) + SumFunctionOnSet(f, t)}
<1> SUFFICES ASSUME C # {} PROVE FALSE
  OBVIOUS
<1>0. SumFunctionOnSet(f, S) \in Nat
  BY SumType
<1>1. {} \notin C
  BY <1>0, SumEmpty
<1>2. PICK s \in C : IsFiniteSet(s) /\ Pick(s) \in s /\ \A x \in s : s \ {x} \notin C
  <2>1. C \in SUBSET (SUBSET T)
    OBVIOUS
  <2> HIDE DEF C
  <2> QED BY <1>1, <2>1, SmallestException
<1> DEFINE c == Pick(s)
           t == s \ {c}
<1>3. c \in T /\ c \notin S \cup t /\ S \cup s = (S \cup t) \cup {c} /\ t \in SUBSET T
  BY <1>2
<1>4. IsFiniteSet(t) /\ IsFiniteSet(S \cup t) /\ \A x \in (S \cup t) \cup {c} : f[x] \in Nat
  <2>1. IsFiniteSet(t)
    BY FS_Subset
  <2> QED BY <1>3, <2>1, FS_Union
<1>5. SumFunctionOnSet(f, S \cup t) = SumFunctionOnSet(f, S) + SumFunctionOnSet(f, t)
  BY <1>2, <1>3
<1>6. SumFunctionOnSet(f, s) = f[c] + SumFunctionOnSet(f, t)
  BY <1>2, SumStep
<1>7. SumFunctionOnSet(f, S \cup s) # SumFunctionOnSet(f, S) + SumFunctionOnSet(f, s)
  OBVIOUS
<1> HIDE DEF c, t, C
<1>8. SumFunctionOnSet(f, S \cup s) = f[c] + SumFunctionOnSet(f, S \cup t)
  BY <1>3, <1>4, SumAdd
<1>9. SumFunctionOnSet(f, t) \in Nat /\ f[c] \in Nat
  BY <1>4, SumType
<1> QED BY <1>0, <1>5, <1>6, <1>7, <1>8, <1>9

\* The size of a set is the sum of ones.
LEMMA SizeIsSum ==
  ASSUME NEW f, NEW S, IsFiniteSet(S), \A x \in S : f[x] = 1
  PROVE  SumFunctionOnSet(f, S) = Cardinality(S)
<1> DEFINE C == {s \in SUBSET S : SumFunctionOnSet(f, s) # Cardinality(s)}
<1> SUFFICES ASSUME C # {} PROVE FALSE
  OBVIOUS
<1>1. {} \notin C
  BY SumEmpty, FS_EmptySet
<1>2. PICK s \in C : IsFiniteSet(s) /\ Pick(s) \in s /\ \A x \in s : s \ {x} \notin C
  <2>1. C \in SUBSET (SUBSET S)
    OBVIOUS
  <2> HIDE DEF C
  <2> QED BY <1>1, <2>1, SmallestException
<1>3. SumFunctionOnSet(f, s) = f[Pick(s)] + SumFunctionOnSet(f, s \ {Pick(s)})
  BY <1>2, SumStep
<1>4. Cardinality(s \ {Pick(s)}) = Cardinality(s) - 1 /\ Cardinality(s) \in Nat
  BY <1>2, TakeOut
<1> QED BY <1>2, <1>3, <1>4

\* A sum over the parts of a set, part by part.
LEMMA SumOfParts ==
  ASSUME NEW n \in Nat, NEW P, NEW f, NEW w,
         \A b \in 1..n : IsFiniteSet(P[b]) /\ \A x \in P[b] : f[x] \in Nat,
         \A b, c \in 1..n : b # c => P[b] \cap P[c] = {},
         \A b \in 1..n : w[b] = SumFunctionOnSet(f, P[b])
  PROVE  /\ IsFiniteSet(UNION {P[b] : b \in 1..n})
         /\ SumFunctionOnSet(w, 1..n) = SumFunctionOnSet(f, UNION {P[b] : b \in 1..n})
<1> DEFINE U(k) == UNION {P[b] : b \in 1..k}
           Holds(k) == /\ IsFiniteSet(U(k))
                       /\ SumFunctionOnSet(w, 1..k) = SumFunctionOnSet(f, U(k))
<1> SUFFICES Holds(n)
  OBVIOUS
<1> DEFINE H == {k \in 0..n : ~ Holds(k)}
<1> SUFFICES ASSUME H # {} PROVE FALSE
  <2> HIDE DEF Holds
  <2> QED OBVIOUS
<1>1. PICK k \in H : \A j \in H : k <= j
  <2>1. H \in SUBSET Nat
    OBVIOUS
  <2> HIDE DEF H
  <2> QED BY <2>1, LeastElement
<1>2. k # 0
  <2>1. U(0) = {} /\ 1..0 = {}
    OBVIOUS
  <2> HIDE DEF U
  <2>2. Holds(0)
    BY <2>1, SumEmpty, FS_EmptySet
  <2> QED BY <2>2
<1>3. k \in 1..n /\ k - 1 \in 0..n /\ k - 1 \notin H
  <2>1. k \in 1..n /\ k - 1 \in 0..n /\ ~ (k <= k - 1)
    BY <1>2
  <2> HIDE DEF H
  <2> QED BY <1>1, <2>1
<1>4. Holds(k - 1)
  BY <1>3
<1>5. U(k) = U(k - 1) \cup P[k] /\ 1..k = (1..(k - 1)) \cup {k} /\ k \notin 1..(k - 1)
  <2>1. 1..k = (1..(k - 1)) \cup {k} /\ k \notin 1..(k - 1)
    BY <1>3
  <2> QED BY <2>1
<1>6. U(k - 1) \cap P[k] = {}
  BY <1>3
<1>7. \A x \in U(k - 1) \cup P[k] : f[x] \in Nat
  BY <1>3
<1>8. IsFiniteSet(P[k]) /\ w[k] = SumFunctionOnSet(f, P[k])
  BY <1>3
<1>9. \A b \in 1..k : w[b] \in Nat
  BY <1>3, SumType
<1>10. IsFiniteSet(1..(k - 1))
  BY <1>3, FS_Interval
<1>11. SumFunctionOnSet(w, 1..k) = w[k] + SumFunctionOnSet(w, 1..(k - 1))
  BY <1>5, <1>9, <1>10, SumAdd
<1>12. IsFiniteSet(U(k))
  <2>1. IsFiniteSet(U(k - 1))
    BY <1>4
  <2>2. IsFiniteSet(U(k - 1) \cup P[k])
    BY <1>8, <2>1, FS_Union, Zenon
  <2> HIDE DEF U
  <2> QED BY <1>5, <2>2
<1> HIDE DEF U
<1>13. SumFunctionOnSet(f, U(k)) = SumFunctionOnSet(f, U(k - 1)) + SumFunctionOnSet(f, P[k])
  BY <1>4, <1>5, <1>6, <1>7, <1>8, SumUnion
<1>14. SumFunctionOnSet(f, U(k - 1)) \in Nat /\ SumFunctionOnSet(f, P[k]) \in Nat
  BY <1>4, <1>7, <1>8, SumType
<1>15. Holds(k)
  BY <1>4, <1>8, <1>11, <1>12, <1>13, <1>14
<1> QED BY <1>1, <1>15

-----------------------------------------------------------------------------
(* The window and the log                                                   *)

Entry == [period : Nat, code : Codes, rt : RTs]

\* No call is logged for a period that has not begun.
LogOK ==
  /\ period \in Nat
  /\ log \in Seq(Entry)
  /\ \A i \in DOMAIN log : log[i].period <= period

\* The calls of a period, and the bucket that they make.
Succeeded(p) == {i \in DOMAIN log : log[i].period = p /\ log[i].code = "00"}
Failed(p) == {i \in DOMAIN log : log[i].period = p /\ log[i].code # "00"}
Logged(p) == {i \in DOMAIN log : log[i].period = p}
LoggedRT == [i \in DOMAIN log |-> log[i].rt]
BucketOf(p) == [ok  |-> Cardinality(Succeeded(p)),
                err |-> Cardinality(Failed(p)),
                rt  |-> SumFunctionOnSet(LoggedRT, Logged(p))]

(* The strengthening of WindowHoldsLastPeriods: every bucket holds the      *)
(* calls of its own period.                                                 *)
BucketsHoldLog ==
  ~ isClosed => buckets = [b \in 1..NumBuckets |-> BucketOf(period - NumBuckets + b)]

HistoryInv == LogOK /\ BucketsHoldLog

LEMMA LogIsFinite ==
  ASSUME LogOK, NEW S, S \subseteq DOMAIN log
  PROVE  /\ IsFiniteSet(S)
         /\ \A i \in S : log[i] \in Entry /\ LoggedRT[i] = log[i].rt /\ LoggedRT[i] \in Nat
<1> DEFINE n == Len(log)
<1>1. DOMAIN log = 1..n /\ n \in Nat
  BY DEF LogOK
<1>2. IsFiniteSet(S)
  <2> HIDE DEF n
  <2>1. IsFiniteSet(1..n)
    BY <1>1, FS_Interval
  <2> QED BY <1>1, <2>1, FS_Subset
<1>3. \A i \in S : log[i] \in Entry
  BY <1>1 DEF LogOK
<1> QED BY <1>2, <1>3, RTsAssumption DEF Entry, LoggedRT

LEMMA AddIf ==
  ASSUME NEW S, IsFiniteSet(S), NEW x, x \notin S, NEW yes \in BOOLEAN
  PROVE  Cardinality(S \cup (IF yes THEN {x} ELSE {})) =
           Cardinality(S) + (IF yes THEN 1 ELSE 0)
<1>1. Cardinality(S) \in Nat
  BY FS_CardinalityType
<1>2. CASE yes
  <2>1. Cardinality(S \cup {x}) = Cardinality(S) + 1
    BY FS_AddElement
  <2> QED BY <1>2, <2>1
<1>3. CASE ~ yes
  <2>1. S \cup {} = S
    OBVIOUS
  <2> QED BY <1>1, <1>3, <2>1
<1> QED BY <1>2, <1>3

\* Periods without a call have an empty bucket.
LEMMA NothingLogged ==
  ASSUME NEW p, Logged(p) = {}
  PROVE  BucketOf(p) = EmptyBucket
<1>1. Succeeded(p) = {} /\ Failed(p) = {}
  BY DEF Succeeded, Failed, Logged
<1> QED BY <1>1, SumEmpty, FS_EmptySet DEF BucketOf, EmptyBucket

LEMMA WipedHoldsLog ==
  ASSUME LogOK, log' = << >>, buckets' = EmptyWindow, UNCHANGED <<period, isClosed>>
  PROVE  HistoryInv'
<1>1. LogOK'
  <2>1. log' \in Seq(Entry) /\ DOMAIN log' = {}
    OBVIOUS
  <2> QED BY <2>1 DEF LogOK
<1>2. \A p : BucketOf(p)' = EmptyBucket
  <2> SUFFICES ASSUME NEW p PROVE BucketOf(p)' = EmptyBucket
    OBVIOUS
  <2>1. /\ Succeeded(p)' = {} /\ Failed(p)' = {} /\ Logged(p)' = {}
    BY DEF Succeeded, Failed, Logged
  <2> QED BY <2>1, SumEmpty, FS_EmptySet DEF BucketOf, EmptyBucket
<1>3. BucketsHoldLog'
  BY <1>2 DEF BucketsHoldLog, EmptyWindow
<1> QED BY <1>1, <1>3 DEF HistoryInv

(* A call is logged in the present period, and in the newest bucket.        *)
LEMMA LoggingHoldsLog ==
  ASSUME HistoryInv, ~ isClosed, NEW code \in Codes, NEW rt \in RTs, Record(code, rt),
         log' = Append(log, [period |-> period, code |-> code, rt |-> rt]),
         UNCHANGED <<period, isClosed>>
  PROVE  HistoryInv'
<1> DEFINE n == Len(log)
           e == [period |-> period, code |-> code, rt |-> rt]
<1>0. LogOK
  BY DEF HistoryInv
<1>1. e \in Entry
  BY <1>0 DEF Entry, LogOK
<1>2. /\ DOMAIN log = 1..n /\ n \in Nat
      /\ log' \in Seq(Entry) /\ DOMAIN log' = 1..(n + 1)
      /\ \A i \in 1..n : log'[i] = log[i]
      /\ log'[n + 1] = e
  BY <1>0, <1>1 DEF LogOK
<1>3. e.period = period /\ e.code = code /\ e.rt = rt
  OBVIOUS
<1> HIDE DEF n, e
<1>4. LogOK'
  <2>1. \A i \in DOMAIN log' : log'[i].period <= period
    BY <1>0, <1>2, <1>3 DEF LogOK
  <2> QED BY <1>0, <1>2, <2>1 DEF LogOK
<1>5. n + 1 \notin 1..n /\ 1..(n + 1) = (1..n) \cup {n + 1}
  BY <1>2
<1>6. /\ \A i \in DOMAIN log : LoggedRT'[i] = LoggedRT[i]
      /\ LoggedRT'[n + 1] = rt
  BY <1>2, <1>3, <1>5 DEF LoggedRT
<1>7. ASSUME NEW p, p # period
      PROVE  BucketOf(p)' = BucketOf(p)
  <2>1. Succeeded(p)' = Succeeded(p) /\ Failed(p)' = Failed(p) /\ Logged(p)' = Logged(p)
    BY <1>2, <1>3, <1>5, <1>7 DEF Succeeded, Failed, Logged
  <2>2. Logged(p) \subseteq DOMAIN log
    BY DEF Logged
  <2>3. SumFunctionOnSet(LoggedRT', Logged(p)) = SumFunctionOnSet(LoggedRT, Logged(p))
    BY <1>0, <1>6, <2>2, LogIsFinite, SumCongruent
  <2> QED BY <2>1, <2>3 DEF BucketOf
<1>8. BucketOf(period)' = Added(BucketOf(period), code, rt)
  <2>1. /\ Succeeded(period)' = Succeeded(period) \cup (IF code = "00" THEN {n + 1} ELSE {})
        /\ Failed(period)' = Failed(period) \cup (IF code # "00" THEN {n + 1} ELSE {})
        /\ Logged(period)' = Logged(period) \cup {n + 1}
    BY <1>2, <1>3, <1>5 DEF Succeeded, Failed, Logged
  <2>2. /\ Succeeded(period) \subseteq DOMAIN log /\ Failed(period) \subseteq DOMAIN log
        /\ Logged(period) \subseteq DOMAIN log
    BY DEF Succeeded, Failed, Logged
  <2>3. /\ IsFiniteSet(Succeeded(period)) /\ n + 1 \notin Succeeded(period)
        /\ IsFiniteSet(Failed(period)) /\ n + 1 \notin Failed(period)
        /\ IsFiniteSet(Logged(period)) /\ n + 1 \notin Logged(period)
    BY <1>0, <1>2, <1>5, <2>2, LogIsFinite
  <2>4. Cardinality(Succeeded(period)') =
          Cardinality(Succeeded(period)) + (IF code = "00" THEN 1 ELSE 0)
    BY <2>1, <2>3, AddIf
  <2>5. Cardinality(Failed(period)') =
          Cardinality(Failed(period)) + (IF code # "00" THEN 1 ELSE 0)
    BY <2>1, <2>3, AddIf
  <2>6. SumFunctionOnSet(LoggedRT', Logged(period)') =
          SumFunctionOnSet(LoggedRT, Logged(period)) + rt
    <3>1. \A i \in Logged(period) \cup {n + 1} : LoggedRT'[i] \in Nat
      BY <1>0, <1>6, <2>2, LogIsFinite, RTsAssumption
    <3>2. SumFunctionOnSet(LoggedRT', Logged(period) \cup {n + 1}) =
            LoggedRT'[n + 1] + SumFunctionOnSet(LoggedRT', Logged(period))
      BY <2>3, <3>1, SumAdd
    <3>3. SumFunctionOnSet(LoggedRT', Logged(period)) =
            SumFunctionOnSet(LoggedRT, Logged(period))
      BY <1>6, <2>2, <2>3, SumCongruent
    <3>4. SumFunctionOnSet(LoggedRT, Logged(period)) \in Nat /\ rt \in Nat
      BY <1>0, <2>2, <2>3, LogIsFinite, SumType, RTsAssumption
    <3> QED BY <1>6, <2>1, <3>2, <3>3, <3>4
  <2> QED BY <2>4, <2>5, <2>6 DEF BucketOf, Added
<1>9. BucketsHoldLog'
  <2>1. buckets = [b \in 1..NumBuckets |-> BucketOf(period - NumBuckets + b)]
    BY DEF HistoryInv, BucketsHoldLog
  <2>2. buckets' = [buckets EXCEPT ![NumBuckets] = Added(@, code, rt)]
    BY DEF Record
  <2>3. /\ \A b \in 1..NumBuckets : period - NumBuckets + b = period <=> b = NumBuckets
        /\ NumBuckets \in 1..NumBuckets
    BY <1>0, NumBucketsAssumption DEF LogOK
  <2>4. \A b \in 1..NumBuckets : buckets'[b] = BucketOf(period - NumBuckets + b)'
    <3> SUFFICES ASSUME NEW b \in 1..NumBuckets
                 PROVE  buckets'[b] = BucketOf(period - NumBuckets + b)'
      OBVIOUS
    <3>1. CASE b = NumBuckets
      BY <1>8, <2>1, <2>2, <2>3, <3>1
    <3>2. CASE b # NumBuckets
      BY <1>7, <2>1, <2>2, <2>3, <3>2
    <3> QED BY <3>1, <3>2
  <2>5. buckets' = [b \in 1..NumBuckets |-> buckets'[b]]
    BY <2>1, <2>2
  <2> QED BY <2>4, <2>5 DEF BucketsHoldLog
<1> QED BY <1>4, <1>9 DEF HistoryInv

(* When a period ends every bucket moves by one place, and nothing has been *)
(* logged for the one that begins.                                          *)
LEMMA RollingHoldsLog ==
  ASSUME HistoryInv, Roll, period' = period + 1, UNCHANGED <<log, isClosed>>
  PROVE  HistoryInv'
<1>1. LogOK /\ ~ isClosed /\ buckets' = Shifted(buckets)
  BY DEF HistoryInv, Roll
<1>2. LogOK'
  <2>1. \A i \in DOMAIN log : log[i].period \in Nat
    <3>1. \A i \in DOMAIN log : log[i] \in Entry
      BY <1>1 DEF LogOK
    <3> QED BY <3>1 DEF Entry
  <2>2. \A i \in DOMAIN log' : log'[i].period <= period'
    BY <1>1, <2>1 DEF LogOK
  <2> QED BY <1>1, <2>2 DEF LogOK
<1>3. \A p : BucketOf(p)' = BucketOf(p)
  BY DEF BucketOf, Succeeded, Failed, Logged, LoggedRT
<1>4. BucketOf(period + 1) = EmptyBucket
  <2>1. Logged(period + 1) = {}
    BY <1>1 DEF LogOK, Logged
  <2> QED BY <2>1, NothingLogged
<1>5. buckets = [b \in 1..NumBuckets |-> BucketOf(period - NumBuckets + b)]
  BY <1>1 DEF HistoryInv, BucketsHoldLog
<1>6. \A b \in 1..NumBuckets : Shifted(buckets)[b] = BucketOf((period + 1) - NumBuckets + b)
  <2> SUFFICES ASSUME NEW b \in 1..NumBuckets
               PROVE  Shifted(buckets)[b] = BucketOf((period + 1) - NumBuckets + b)
    OBVIOUS
  <2>1. CASE b = NumBuckets
    <3>1. (period + 1) - NumBuckets + b = period + 1
      BY <1>1, <2>1, NumBucketsAssumption DEF LogOK
    <3> QED BY <1>4, <2>1, <3>1 DEF Shifted
  <2>2. CASE b # NumBuckets
    <3>1. /\ b + 1 \in 1..NumBuckets
          /\ period - NumBuckets + (b + 1) = (period + 1) - NumBuckets + b
      BY <1>1, <2>2, NumBucketsAssumption DEF LogOK
    <3> QED BY <1>5, <2>2, <3>1 DEF Shifted
  <2> QED BY <2>1, <2>2
<1>7. BucketsHoldLog'
  <2>1. Shifted(buckets) = [b \in 1..NumBuckets |-> Shifted(buckets)[b]]
    BY DEF Shifted
  <2> QED BY <1>1, <1>3, <1>6, <2>1 DEF BucketsHoldLog
<1> QED BY <1>2, <1>7 DEF HistoryInv

LEMMA HistoryStep == TypeOK /\ HistoryInv /\ [MCNext]_mcVars => HistoryInv'
<1> SUFFICES ASSUME TypeOK, HistoryInv, [MCNext]_mcVars PROVE HistoryInv'
  OBVIOUS
<1>0. LogOK
  BY DEF HistoryInv
<1>1. ASSUME UNCHANGED <<buckets, isClosed, period, log>> PROVE HistoryInv'
  BY <1>1 DEF HistoryInv, LogOK, BucketsHoldLog, BucketOf, Succeeded, Failed, Logged,
              LoggedRT
<1>2. CASE Ask \/ Passes \/ (Configure /\ UNCHANGED historyVars) \/ UNCHANGED mcVars
  BY <1>1, <1>2 DEF Ask, Admit, Refuse, AdmitTest, Passes, Elapse, Configure, historyVars,
                    mcVars, breakerVars, counterVars
<1>3. ASSUME NEW code \in {"00", "03"}, NEW rt \in RTs, Answer(code, rt)
      PROVE  HistoryInv'
  <2>1. UNCHANGED <<period, isClosed>> /\ Update(code, rt) /\ code \in Codes
    BY <1>3 DEF Answer, Update, Codes
  <2>2. CASE Recovers
    <3>1. log' = << >>
      BY <1>3, <2>2 DEF Answer
    <3>2. buckets' = EmptyWindow
      BY <2>1, <2>2 DEF Recovers, Update, MarkSuccess, MarkNonSuccess, Clear
    <3> QED BY <1>0, <2>1, <3>1, <3>2, WipedHoldsLog
  <2>3. CASE ~ Recovers
    <3>1. Record(code, rt)
      BY <2>1, <2>3 DEF Recovers, Update, MarkSuccess, MarkNonSuccess
    <3>2. CASE isClosed
      <4>1. UNCHANGED <<buckets, isClosed, period, log>>
        BY <1>3, <2>1, <2>3, <3>1, <3>2 DEF Answer, Record
      <4> QED BY <1>1, <4>1
    <3>3. CASE ~ isClosed
      <4>1. log' = Append(log, [period |-> period, code |-> code, rt |-> rt])
        BY <1>3, <2>3, <3>3 DEF Answer
      <4> QED BY <2>1, <3>1, <3>3, <4>1, LoggingHoldsLog
    <3> QED BY <3>2, <3>3
  <2> QED BY <2>2, <2>3
<1>4. CASE Ticks
  BY <1>4, RollingHoldsLog DEF Ticks, Tick
<1>5. CASE Wipe
  <2>1. log' = << >> /\ buckets' = EmptyWindow /\ UNCHANGED <<period, isClosed>>
    BY <1>5 DEF Wipe, Reset, Clear
  <2> QED BY <1>0, <2>1, WipedHoldsLog
<1>6. CASE Close /\ UNCHANGED historyVars
  BY <1>0, <1>6 DEF Close, CloseCounter, historyVars, HistoryInv, LogOK, BucketsHoldLog
<1> QED BY <1>2, <1>3, <1>4, <1>5, <1>6 DEF MCNext

(* The history only watches: a breaker with it is a breaker.                *)
LEMMA HistoryWatches == MCSpec => Spec
<1>1. MCInit => Init
  BY DEF MCInit
<1>2. [MCNext]_mcVars => [Next]_breakerVars
  <2>1. ASSUME NEW code \in {"00", "03"}, NEW rt \in RTs, Answer(code, rt) PROVE Next
    BY <2>1 DEF Answer, Next, Codes
  <2> QED BY <2>1 DEF MCNext, Ask, Ticks, Wipe, Passes, Next, mcVars
<1> QED BY <1>1, <1>2, PTL DEF MCSpec, Spec

LEMMA HistoryInvariance == MCSpec => []HistoryInv
<1>1. MCInit => HistoryInv
  <2> SUFFICES ASSUME MCInit PROVE HistoryInv
    OBVIOUS
  <2>1. log = << >> /\ period = 0 /\ buckets = EmptyWindow
    BY DEF MCInit, Init, CounterInit
  <2>2. log \in Seq(Entry) /\ DOMAIN log = {}
    BY <2>1
  <2>3. \A p : BucketOf(p) = EmptyBucket
    BY <2>2, NothingLogged DEF Logged
  <2> QED BY <2>1, <2>2, <2>3 DEF HistoryInv, LogOK, BucketsHoldLog, EmptyWindow
<1> QED BY <1>1, HistoryStep, HistoryWatches, TypeCorrect, PTL DEF MCSpec

-----------------------------------------------------------------------------
(* What the summary of such a window says                                   *)

Recent == {i \in DOMAIN log : log[i].period > period - NumBuckets}
RecentSuccesses == {i \in Recent : log[i].code = "00"}
RecentFailures == {i \in Recent : log[i].code # "00"}

\* The parts of the window are the calls of the last periods.
LEMMA WindowIsRecent ==
  ASSUME LogOK
  PROVE  /\ Recent = UNION {Logged(period - NumBuckets + b) : b \in 1..NumBuckets}
         /\ RecentSuccesses = UNION {Succeeded(period - NumBuckets + b) : b \in 1..NumBuckets}
         /\ RecentFailures = UNION {Failed(period - NumBuckets + b) : b \in 1..NumBuckets}
<1>1. \A i \in DOMAIN log : log[i].period \in Nat /\ log[i].period <= period /\ period \in Nat
  <2>1. \A i \in DOMAIN log : log[i] \in Entry
    BY DEF LogOK
  <2> QED BY <2>1 DEF Entry, LogOK
<1>2. \A i \in DOMAIN log : log[i].period > period - NumBuckets =>
        \E b \in 1..NumBuckets : log[i].period = period - NumBuckets + b
  <2> SUFFICES ASSUME NEW i \in DOMAIN log, log[i].period > period - NumBuckets
               PROVE  \E b \in 1..NumBuckets : log[i].period = period - NumBuckets + b
    OBVIOUS
  <2> DEFINE b == log[i].period - (period - NumBuckets)
  <2>1. b \in 1..NumBuckets /\ log[i].period = period - NumBuckets + b
    BY <1>1, NumBucketsAssumption
  <2> QED BY <2>1
<1>3. \A i \in DOMAIN log, b \in 1..NumBuckets :
        log[i].period = period - NumBuckets + b => log[i].period > period - NumBuckets
  BY <1>1, NumBucketsAssumption
<1>4. Recent = UNION {Logged(period - NumBuckets + b) : b \in 1..NumBuckets}
  BY <1>2, <1>3 DEF Recent, Logged
<1>5. RecentSuccesses = UNION {Succeeded(period - NumBuckets + b) : b \in 1..NumBuckets}
  BY <1>2, <1>3 DEF Recent, RecentSuccesses, Succeeded
<1>6. RecentFailures = UNION {Failed(period - NumBuckets + b) : b \in 1..NumBuckets}
  BY <1>2, <1>3 DEF Recent, RecentFailures, Failed
<1> QED BY <1>4, <1>5, <1>6

\* One count of the summary: the sizes of the parts add up.
LEMMA SizeOfParts ==
  ASSUME LogOK, NEW P, NEW w,
         \A b \in 1..NumBuckets : P[b] \subseteq DOMAIN log /\ w[b] = Cardinality(P[b]),
         \A b, c \in 1..NumBuckets : b # c => P[b] \cap P[c] = {}
  PROVE  SumFunctionOnSet(w, 1..NumBuckets) = Cardinality(UNION {P[b] : b \in 1..NumBuckets})
<1> DEFINE U == UNION {P[b] : b \in 1..NumBuckets}
           f == [i \in DOMAIN log |-> 1]
<1>1. \A b \in 1..NumBuckets : IsFiniteSet(P[b]) /\ \A i \in P[b] : f[i] = 1
  BY LogIsFinite
<1>2. U \subseteq DOMAIN log /\ IsFiniteSet(U) /\ \A i \in U : f[i] = 1
  <2>1. U \subseteq DOMAIN log
    OBVIOUS
  <2>2. \A i \in U : f[i] = 1
    BY <2>1
  <2> HIDE DEF U
  <2> QED BY <2>1, <2>2, LogIsFinite
<1> HIDE DEF f
<1>3. \A b \in 1..NumBuckets : w[b] = SumFunctionOnSet(f, P[b])
  BY <1>1, SizeIsSum
<1>4. SumFunctionOnSet(w, 1..NumBuckets) = SumFunctionOnSet(f, U)
  <2>1. \A b \in 1..NumBuckets : IsFiniteSet(P[b]) /\ \A i \in P[b] : f[i] \in Nat
    BY <1>1
  <2>2. NumBuckets \in Nat
    BY NumBucketsAssumption
  <2> QED BY <1>3, <2>1, <2>2, SumOfParts
<1> QED BY <1>2, <1>4, SizeIsSum

\* The sums that Reduce takes over the buckets, in terms of the log.
LEMMA WindowCounts ==
  ASSUME HistoryInv, ~ isClosed
  PROVE  Reduce(buckets) = [total |-> Cardinality(Recent),
                            error |-> Cardinality(RecentFailures),
                            rt    |-> SumFunctionOnSet(LoggedRT, Recent)]
<1> DEFINE at(b) == period - NumBuckets + b
<1>0. LogOK
  BY DEF HistoryInv
<1>1. buckets = [b \in 1..NumBuckets |-> BucketOf(at(b))]
  BY DEF HistoryInv, BucketsHoldLog
<1>2. \A b, c \in 1..NumBuckets : b # c => at(b) # at(c)
  BY <1>0, NumBucketsAssumption DEF LogOK
<1> HIDE DEF at
<1>3. SumOf("ok", buckets) = Cardinality(RecentSuccesses)
  <2> DEFINE P == [b \in 1..NumBuckets |-> Succeeded(at(b))]
             w == [b \in DOMAIN buckets |-> buckets[b]["ok"]]
  <2>1. \A b \in 1..NumBuckets : P[b] \subseteq DOMAIN log /\ w[b] = Cardinality(P[b])
    BY <1>1 DEF BucketOf, Succeeded
  <2>2. \A b, c \in 1..NumBuckets : b # c => P[b] \cap P[c] = {}
    BY <1>2 DEF Succeeded
  <2>3. UNION {P[b] : b \in 1..NumBuckets} = RecentSuccesses
    BY <1>0, WindowIsRecent DEF at
  <2>4. SumOf("ok", buckets) = SumFunctionOnSet(w, 1..NumBuckets)
    BY <1>1 DEF SumOf, SumFunction
  <2> HIDE DEF P, w
  <2>5. SumFunctionOnSet(w, 1..NumBuckets) = Cardinality(UNION {P[b] : b \in 1..NumBuckets})
    BY <1>0, <2>1, <2>2, SizeOfParts
  <2> QED BY <2>3, <2>4, <2>5
<1>4. SumOf("err", buckets) = Cardinality(RecentFailures)
  <2> DEFINE P == [b \in 1..NumBuckets |-> Failed(at(b))]
             w == [b \in DOMAIN buckets |-> buckets[b]["err"]]
  <2>1. \A b \in 1..NumBuckets : P[b] \subseteq DOMAIN log /\ w[b] = Cardinality(P[b])
    BY <1>1 DEF BucketOf, Failed
  <2>2. \A b, c \in 1..NumBuckets : b # c => P[b] \cap P[c] = {}
    BY <1>2 DEF Failed
  <2>3. UNION {P[b] : b \in 1..NumBuckets} = RecentFailures
    BY <1>0, WindowIsRecent DEF at
  <2>4. SumOf("err", buckets) = SumFunctionOnSet(w, 1..NumBuckets)
    BY <1>1 DEF SumOf, SumFunction
  <2> HIDE DEF P, w
  <2>5. SumFunctionOnSet(w, 1..NumBuckets) = Cardinality(UNION {P[b] : b \in 1..NumBuckets})
    BY <1>0, <2>1, <2>2, SizeOfParts
  <2> QED BY <2>3, <2>4, <2>5
<1>5. SumOf("rt", buckets) = SumFunctionOnSet(LoggedRT, Recent)
  <2> DEFINE P == [b \in 1..NumBuckets |-> Logged(at(b))]
             w == [b \in DOMAIN buckets |-> buckets[b]["rt"]]
  <2>1. \A b \in 1..NumBuckets : P[b] \subseteq DOMAIN log
                                  /\ w[b] = SumFunctionOnSet(LoggedRT, P[b])
    BY <1>1 DEF BucketOf, Logged
  <2>2. \A b, c \in 1..NumBuckets : b # c => P[b] \cap P[c] = {}
    BY <1>2 DEF Logged
  <2>3. UNION {P[b] : b \in 1..NumBuckets} = Recent
    BY <1>0, WindowIsRecent DEF at
  <2>4. SumOf("rt", buckets) = SumFunctionOnSet(w, 1..NumBuckets)
    BY <1>1 DEF SumOf, SumFunction
  <2> HIDE DEF P, w
  <2>5. \A b \in 1..NumBuckets : IsFiniteSet(P[b]) /\ \A i \in P[b] : LoggedRT[i] \in Nat
    BY <1>0, <2>1, LogIsFinite
  <2>6. SumFunctionOnSet(w, 1..NumBuckets) =
          SumFunctionOnSet(LoggedRT, UNION {P[b] : b \in 1..NumBuckets})
    BY <2>1, <2>2, <2>5, SumOfParts, NumBucketsAssumption
  <2> QED BY <2>3, <2>4, <2>6
<1>6. Cardinality(RecentSuccesses) + Cardinality(RecentFailures) = Cardinality(Recent)
  <2>1. /\ RecentSuccesses \cup RecentFailures = Recent
        /\ RecentSuccesses \cap RecentFailures = {}
    BY DEF RecentSuccesses, RecentFailures
  <2>2. Recent \subseteq DOMAIN log
    BY DEF Recent
  <2>3. IsFiniteSet(RecentSuccesses) /\ IsFiniteSet(RecentFailures)
    BY <1>0, <2>1, <2>2, LogIsFinite
  <2>4. Cardinality(RecentSuccesses \cup RecentFailures) =
          Cardinality(RecentSuccesses) + Cardinality(RecentFailures)
            - Cardinality(RecentSuccesses \cap RecentFailures)
    BY <2>3, FS_Union
  <2>5. /\ Cardinality(RecentSuccesses) \in Nat
        /\ Cardinality(RecentFailures) \in Nat
        /\ Cardinality({}) = 0
    BY <2>3, FS_CardinalityType, FS_EmptySet
  <2> DEFINE s == Cardinality(RecentSuccesses)
             f == Cardinality(RecentFailures)
  <2>6. Cardinality(Recent) = s + f - 0 /\ s \in Nat /\ f \in Nat
    BY <2>1, <2>4, <2>5
  <2> HIDE DEF s, f
  <2>7. Cardinality(Recent) = s + f
    BY <2>6
  <2> QED BY <2>7 DEF s, f
<1> QED BY <1>3, <1>4, <1>5, <1>6 DEF Reduce

(* The summary the breaker judges by counts every call of the last periods  *)
(* once, and no other: WindowHoldsLastPeriods, for windows of any size and  *)
(* logs of any length (rolling_counter.js:23-29, health_counts.js:28-38).   *)
THEOREM WindowIsExact == MCSpec => []WindowHoldsLastPeriods
<1>1. HistoryInv => WindowHoldsLastPeriods
  <2> SUFFICES ASSUME HistoryInv, ~ isClosed
               PROVE  Reduce(buckets) =
                        [total |-> Cardinality(Recent),
                         error |-> Cardinality(RecentFailures),
                         rt    |-> SumFunctionOnSet([i \in Recent |-> log[i].rt], Recent)]
    BY DEF WindowHoldsLastPeriods, Recent, RecentFailures
  <2>1. Recent \subseteq DOMAIN log
    BY DEF Recent
  <2>2. IsFiniteSet(Recent) /\ \A i \in Recent : LoggedRT[i] = [j \in Recent |-> log[j].rt][i]
    BY <2>1, LogIsFinite DEF HistoryInv
  <2>3. SumFunctionOnSet(LoggedRT, Recent) =
          SumFunctionOnSet([i \in Recent |-> log[i].rt], Recent)
    BY <2>2, SumCongruent
  <2> QED BY <2>3, WindowCounts
<1> QED BY <1>1, HistoryInvariance, PTL

-----------------------------------------------------------------------------
(* Evidence and tests                                                       *)

\* What is in the log was recorded since the circuit last recovered.
LogIsFresh ==
  /\ sinceRecovery \in 0..RequestVolumeThreshold
  /\ sinceRecovery = RequestVolumeThreshold \/ Len(log) <= sinceRecovery

LEMMA LogStaysFresh == MCSpec => []LogIsFresh
<1>1. MCInit => LogIsFresh
  BY ThresholdAssumption DEF MCInit, LogIsFresh
<1>2. HistoryInv /\ LogIsFresh /\ [MCNext]_mcVars => LogIsFresh'
  <2> SUFFICES ASSUME HistoryInv, LogIsFresh, [MCNext]_mcVars PROVE LogIsFresh'
    OBVIOUS
  <2> USE ThresholdAssumption
  <2>1. CASE UNCHANGED <<log, sinceRecovery>>
    BY <2>1 DEF LogIsFresh
  <2>2. ASSUME NEW code, NEW rt, Answer(code, rt) PROVE LogIsFresh'
    <3>1. CASE Recovers
      BY <2>2, <3>1 DEF Answer, LogIsFresh
    <3>2. CASE ~ Recovers /\ ~ isClosed
      <4>1. log \in Seq(Entry) /\ Len(log) \in Nat
        BY DEF HistoryInv, LogOK
      <4>2. Len(log') = Len(log) + 1
        BY <2>2, <3>2, <4>1 DEF Answer
      <4> QED BY <2>2, <3>2, <4>1, <4>2 DEF Answer, LogIsFresh
    <3>3. CASE ~ Recovers /\ isClosed
      BY <2>1, <2>2, <3>3 DEF Answer
    <3> QED BY <3>1, <3>2, <3>3
  <2>3. CASE Wipe
    BY <2>3 DEF Wipe, LogIsFresh
  <2> QED BY <2>1, <2>2, <2>3 DEF MCNext, Ask, Ticks, Passes, historyVars, mcVars
<1> QED BY <1>1, <1>2, HistoryInvariance, PTL DEF MCSpec

(* FreshEvidenceTrips: what the window counts is in the log, and the log    *)
(* has begun anew with the recovery (circuit_breaker.js:108-114).           *)
THEOREM TripsAreFresh == MCSpec => FreshEvidenceTrips
<1> DEFINE A == status = "CLOSED" /\ status' = "OPEN" =>
                  sinceRecovery >= RequestVolumeThreshold
<1>1. HistoryInv /\ LogIsFresh /\ [MCNext]_mcVars => [A]_mcVars
  <2> SUFFICES ASSUME HistoryInv, LogIsFresh, MCNext, status = "CLOSED", status' = "OPEN"
               PROVE  sinceRecovery >= RequestVolumeThreshold
    OBVIOUS
  <2>1. Tick
    <3>1. ASSUME NEW code, NEW rt, Answer(code, rt) PROVE FALSE
      BY <3>1 DEF Answer, Update, MarkSuccess, MarkNonSuccess, stateVars
    <3> QED BY <3>1 DEF MCNext, Ask, Admit, Refuse, AdmitTest, Ticks, Wipe, Reset, Close,
                        Passes, Elapse, Configure, breakerVars
  <2>2. hc' = Reduce(buckets) /\ Tripped(hc') /\ ~ isClosed
    BY <2>1 DEF Tick, Roll, stateVars
  <2>3. Cardinality(Recent) >= RequestVolumeThreshold
    BY <2>2, WindowCounts DEF Tripped
  <2>4. Cardinality(Recent) <= Len(log)
    <3> DEFINE n == Len(log)
    <3>1. DOMAIN log = 1..n /\ n \in Nat /\ Recent \subseteq 1..n
      BY DEF HistoryInv, LogOK, Recent
    <3> HIDE DEF n
    <3>2. IsFiniteSet(1..n) /\ Cardinality(1..n) = n
      BY <3>1, FS_Interval
    <3>3. Recent \in SUBSET (1..n)
      BY <3>1
    <3>4. Cardinality(Recent) <= Cardinality(1..n)
      BY <3>2, <3>3, FS_Subset
    <3>5. Cardinality(Recent) <= n
      BY <3>2, <3>4
    <3> QED BY <3>5 DEF n
  <2>5. Cardinality(Recent) \in Nat /\ Len(log) \in Nat
    <3>1. Recent \subseteq DOMAIN log
      BY DEF Recent
    <3> QED BY <3>1, LogIsFinite, FS_CardinalityType DEF HistoryInv, LogOK
  <2> QED BY <2>3, <2>4, <2>5, ThresholdAssumption DEF LogIsFresh
<1> QED BY <1>1, HistoryInvariance, LogStaysFresh, PTL DEF MCSpec, FreshEvidenceTrips

\* An open circuit has not been open for longer than since the last test.
OpenedSinceTest ==
  /\ sinceTest \in 0..(SleepWindow + 1)
  /\ status = "OPEN" => openedFor <= sinceTest

LEMMA OpenedAfterTest == MCSpec => []OpenedSinceTest
<1> USE SleepWindowAssumption DEF OpenedSinceTest
<1>1. MCInit => OpenedSinceTest
  BY DEF MCInit, Init
<1>2. TypeOK /\ StatusAgreesWithTime /\ OpenedSinceTest /\ [MCNext]_mcVars => OpenedSinceTest'
  <2> SUFFICES ASSUME TypeOK, StatusAgreesWithTime, OpenedSinceTest, [MCNext]_mcVars
               PROVE  OpenedSinceTest'
    OBVIOUS
  <2>1. CASE UNCHANGED <<sinceTest, status, openedFor>>
    BY <2>1
  <2>2. CASE AdmitTest /\ sinceTest' = 0
    BY <2>2 DEF AdmitTest
  <2>3. ASSUME NEW code, NEW rt, Answer(code, rt) PROVE OpenedSinceTest'
    BY <2>3 DEF Answer, Update, MarkSuccess, MarkNonSuccess, stateVars
  <2>4. CASE Ticks
    BY <2>4 DEF Ticks, Tick, stateVars
  <2>5. CASE Passes
    BY <2>5 DEF Passes, Elapse, TypeOK
  <2> QED BY <2>1, <2>2, <2>3, <2>4, <2>5
          DEF MCNext, Ask, Admit, Refuse, Wipe, Reset, Close, Configure, breakerVars,
              historyVars, mcVars
<1> QED BY <1>1, <1>2, HistoryWatches, TypeCorrect, StatusAgrees, PTL DEF MCSpec

(* TestsSpaced, for every sleep window (circuit_breaker.js:88-91).          *)
THEOREM TestsAreSpaced == MCSpec => TestsSpaced
<1> DEFINE A == status # "HALF_OPEN" /\ status' = "HALF_OPEN" => sinceTest > SleepWindow
<1>1. TypeOK /\ StatusAgreesWithTime /\ OpenedSinceTest /\ [MCNext]_mcVars => [A]_mcVars
  <2> SUFFICES ASSUME TypeOK, StatusAgreesWithTime, OpenedSinceTest, MCNext,
                      status # "HALF_OPEN", status' = "HALF_OPEN"
               PROVE  sinceTest > SleepWindow
    OBVIOUS
  <2>1. AdmitTest
    <3>1. ASSUME NEW code, NEW rt, Answer(code, rt) PROVE FALSE
      BY <3>1 DEF Answer, Update, MarkSuccess, MarkNonSuccess, stateVars
    <3> QED BY <3>1 DEF MCNext, Ask, Admit, Refuse, Ticks, Tick, Wipe, Reset, Close, Passes,
                        Elapse, Configure, breakerVars, stateVars
  <2>2. status = "OPEN" /\ openedFor > SleepWindow
    BY <2>1 DEF AdmitTest, isAfterSleepWindow, TypeOK, Statuses, StatusAgreesWithTime
  <2> QED BY <2>2, SleepWindowAssumption DEF OpenedSinceTest, TypeOK
<1> QED BY <1>1, HistoryWatches, TypeCorrect, StatusAgrees, OpenedAfterTest, PTL
        DEF MCSpec, TestsSpaced
=============================================================================
