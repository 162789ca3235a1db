------------------------ MODULE CircuitBreakerProofs ------------------------
(***************************************************************************)
(* Proofs about the circuit breaker: its types, that a closed circuit is   *)
(* below its threshold, and that a failing server is not hammered, for any *)
(* number of threads, any threshold and any number of retries.             *)
(***************************************************************************)
EXTENDS CircuitBreaker, FiniteSetTheorems, TLAPS

\* How the set of calls inside the breaker counts: it is finite, grows by one
\* when a caller enters, shrinks by one when it leaves, and else stays.
LEMMA InsideCounts ==
  ASSUME BreakerAssumption, BreakerTypeOK,
         NEW c \in Inspectors, NEW place \in Places, MoveTo(c, place)
  PROVE  /\ Cardinality(Inside) \in Nat
         /\ Cardinality(Inside') \in Nat
         /\ Cardinality(Inspectors) \in Nat
         /\ Cardinality(Inside) <= Cardinality(Inspectors)
         /\ Cardinality(Inside') <= Cardinality(Inspectors)
         /\ pc[c] # "inside" /\ place = "inside" =>
              Cardinality(Inside') = Cardinality(Inside) + 1
         /\ pc[c] = "inside" /\ place # "inside" =>
              Cardinality(Inside') = Cardinality(Inside) - 1
         /\ pc[c] # "inside" /\ place # "inside" => Inside' = Inside
<1>1. IsFiniteSet(Inspectors) BY DEF BreakerAssumption
<1>2. Inside \subseteq Inspectors /\ Inside' \subseteq Inspectors BY DEF Inside
<1>3. /\ IsFiniteSet(Inside) /\ Cardinality(Inside) <= Cardinality(Inspectors)
      /\ IsFiniteSet(Inside') /\ Cardinality(Inside') <= Cardinality(Inspectors)
  BY <1>1, <1>2, FS_Subset
<1>4. Cardinality(Inside) \in Nat /\ Cardinality(Inside') \in Nat
      /\ Cardinality(Inspectors) \in Nat
  BY <1>1, <1>3, FS_CardinalityType
<1>5. \A d \in Inspectors : pc'[d] = IF d = c THEN place ELSE pc[d]
  BY DEF MoveTo, BreakerTypeOK
<1>6. ASSUME pc[c] # "inside", place = "inside"
      PROVE  Cardinality(Inside') = Cardinality(Inside) + 1
  <2>1. Inside' = Inside \cup {c} /\ c \notin Inside BY <1>5, <1>6 DEF Inside
  <2> QED BY <1>3, <2>1, FS_AddElement
<1>7. ASSUME pc[c] = "inside", place # "inside"
      PROVE  Cardinality(Inside') = Cardinality(Inside) - 1
  <2>1. Inside' = Inside \ {c} /\ c \in Inside BY <1>5, <1>7 DEF Inside
  <2> QED BY <1>3, <2>1, FS_RemoveElement
<1>8. ASSUME pc[c] # "inside", place # "inside" PROVE Inside' = Inside
  BY <1>5, <1>8 DEF Inside
<1> QED BY <1>3, <1>4, <1>6, <1>7, <1>8

\* The set of callers has a size.
LEMMA CallersCount ==
  ASSUME BreakerAssumption PROVE Cardinality(Inspectors) \in Nat
BY FS_CardinalityType DEF BreakerAssumption

-----------------------------------------------------------------------------

\* Every variable of the breaker keeps its type.
LEMMA TypeStep ==
  ASSUME BreakerAssumption, BreakerTypeOK, [BreakerNext]_breakerVars
  PROVE  BreakerTypeOK'
<1> USE DEF BreakerTypeOK, States, Places, BreakerAssumption, MoveTo, AtMost, circuitVars
<1>1. ASSUME NEW c \in Inspectors, NEW path \in Paths, Ask(c, path) PROVE BreakerTypeOK'
  BY <1>1 DEF Ask, Paths
<1>2. ASSUME NEW c \in Inspectors, AgenticReturns(c) PROVE BreakerTypeOK'
  BY <1>2 DEF AgenticReturns
<1>3. ASSUME NEW c \in Inspectors, Admit(c) PROVE BreakerTypeOK'
  BY <1>3 DEF Admit
<1>4. ASSUME NEW c \in Inspectors, Refuse(c) PROVE BreakerTypeOK'
  BY <1>4 DEF Refuse
<1>5. ASSUME NEW c \in Inspectors, Succeed(c) PROVE BreakerTypeOK'
  BY <1>5 DEF Succeed
<1>6. ASSUME NEW c \in Inspectors, Fail(c) PROVE BreakerTypeOK'
  <2>1. failureCount' \in 0..Threshold /\ state' \in States BY <1>6 DEF Fail
  <2>2. pc' \in [Inspectors -> Places] BY <1>6 DEF Fail
  <2>3. tries' \in [Inspectors -> 0..Retries]
    <3>1. CASE tries[c] > 0
      <4>1. tries[c] - 1 \in 0..Retries BY <3>1
      <4>2. tries' = [tries EXCEPT ![c] = tries[c] - 1] BY <1>6, <3>1 DEF Fail, MayRetry
      <4> QED BY <4>1, <4>2
    <3>2. CASE ~ tries[c] > 0 BY <1>6, <3>2 DEF Fail, MayRetry
    <3> QED BY <3>1, <3>2
  <2> QED BY <1>6, <2>1, <2>2, <2>3 DEF Fail
<1>7. CASE Reset BY <1>7 DEF Reset
<1>8. CASE RecoveryPasses BY <1>8 DEF RecoveryPasses
<1>9. CASE ServerChanges BY <1>9 DEF ServerChanges
<1>10. CASE UNCHANGED breakerVars BY <1>10 DEF breakerVars
<1> QED BY <1>1, <1>2, <1>3, <1>4, <1>5, <1>6, <1>7, <1>8, <1>9, <1>10
         DEF BreakerNext, CallerStep

\* What the invariant says of a step that leaves the calls inside alone and the
\* breaker, too.
LEMMA CountsStay ==
  ASSUME BreakerIInv, UNCHANGED <<circuitVars, admitted>>, Inside' = Inside
  PROVE  (ClosedBelowThreshold /\ CallsAreCounted /\ NoHammering)'
BY DEF BreakerIInv, circuitVars, ClosedBelowThreshold, CallsAreCounted, NoHammering

\* The counting invariant is inductive.
LEMMA CountStep ==
  ASSUME BreakerAssumption, BreakerIInv, [BreakerNext]_breakerVars
  PROVE  (ClosedBelowThreshold /\ CallsAreCounted /\ NoHammering)'
<1> DEFINE Counts == ClosedBelowThreshold /\ CallsAreCounted /\ NoHammering
<1>t. BreakerTypeOK /\ BreakerTypeOK' BY TypeStep DEF BreakerIInv
<1>n. Threshold \in Nat \ {0} /\ failureCount \in Nat /\ admitted \in Nat
  BY <1>t DEF BreakerTypeOK, BreakerAssumption
<1>k. Cardinality(Inspectors) \in Nat BY CallersCount
<1>1. ASSUME NEW c \in Inspectors, NEW path \in Paths, Ask(c, path) PROVE Counts'
  <2>1. PICK place \in Places \ {"inside"} : MoveTo(c, place)
    BY <1>1 DEF Ask, Places, Paths
  <2>2. pc[c] # "inside" BY <1>1 DEF Ask
  <2>3. Inside' = Inside BY <1>t, <2>1, <2>2, InsideCounts
  <2> QED BY <1>1, <2>3, CountsStay DEF Ask
<1>2. ASSUME NEW c \in Inspectors, AgenticReturns(c) PROVE Counts'
  <2>1. Inside' = Inside
    BY <1>t, <1>2, InsideCounts DEF AgenticReturns, Places
  <2> QED BY <1>2, <2>1, CountsStay DEF AgenticReturns
<1>3. ASSUME NEW c \in Inspectors, Admit(c) PROVE Counts'
  <2>1. /\ Cardinality(Inside) \in Nat
        /\ Cardinality(Inside') = Cardinality(Inside) + 1
        /\ Cardinality(Inside') <= Cardinality(Inspectors)
    BY <1>t, <1>3, InsideCounts DEF Admit, Places
  <2>2. /\ admitted' = admitted + 1 /\ UNCHANGED <<failureCount, recovered>>
        /\ state' = IF state = "OPEN" THEN "HALF_OPEN" ELSE state
        /\ state = "OPEN" => recovered
    BY <1>3 DEF Admit, MayProbe
  <2>3. CASE state = "CLOSED"
    BY <1>n, <1>k, <2>1, <2>2, <2>3
    DEF BreakerIInv, ClosedBelowThreshold, CallsAreCounted, NoHammering
  <2>4. CASE state \in {"OPEN", "HALF_OPEN"}
    BY <1>n, <1>k, <2>1, <2>2, <2>4
    DEF BreakerIInv, ClosedBelowThreshold, CallsAreCounted, NoHammering
  <2> QED BY <1>t, <2>3, <2>4 DEF BreakerTypeOK, States
<1>4. ASSUME NEW c \in Inspectors, Refuse(c) PROVE Counts'
  <2>1. Inside' = Inside BY <1>t, <1>4, InsideCounts DEF Refuse, Places
  <2> QED BY <1>4, <2>1, CountsStay DEF Refuse
<1>5. ASSUME NEW c \in Inspectors, Succeed(c) PROVE Counts'
  <2>1. Cardinality(Inside') \in Nat
    BY <1>t, <1>5, InsideCounts DEF Succeed, Places
  <2>2. state' = "CLOSED" /\ failureCount' < Threshold /\ failureCount' \in Nat /\ admitted' = 0
    BY <1>n, <1>5 DEF Succeed, CloseOn, BreakerIInv, ClosedBelowThreshold
  <2> QED BY <1>n, <1>k, <2>1, <2>2
          DEF ClosedBelowThreshold, CallsAreCounted, NoHammering
<1>6. ASSUME NEW c \in Inspectors, Fail(c) PROVE Counts'
  <2>1. PICK place \in Places \ {"inside"} : MoveTo(c, place)
    BY <1>6 DEF Fail, Places
  <2>2. /\ Cardinality(Inside) \in Nat
        /\ Cardinality(Inside') = Cardinality(Inside) - 1
        /\ Cardinality(Inside) <= Cardinality(Inspectors)
    BY <1>t, <1>6, <2>1, InsideCounts DEF Fail
  <2>3. /\ failureCount' = (IF failureCount + 1 < Threshold THEN failureCount + 1 ELSE Threshold)
        /\ recovered' = FALSE /\ admitted' = admitted
        /\ state' = IF state = "HALF_OPEN" \/ failureCount' >= Threshold
                    THEN "OPEN" ELSE state
    BY <1>6 DEF Fail, Trips, AtMost
  <2>4. CASE state = "CLOSED"
    BY <1>n, <1>k, <2>2, <2>3, <2>4
    DEF BreakerIInv, ClosedBelowThreshold, CallsAreCounted, NoHammering
  <2>5. CASE state \in {"OPEN", "HALF_OPEN"}
    BY <1>n, <1>k, <2>2, <2>3, <2>5
    DEF BreakerIInv, ClosedBelowThreshold, CallsAreCounted, NoHammering
  <2> QED BY <1>t, <2>4, <2>5 DEF BreakerTypeOK, States
<1>7. CASE Reset
  <2>1. Inside' = Inside BY <1>7 DEF Reset, Inside
  <2>2. Cardinality(Inside) \in Nat
    <3>1. IsFiniteSet(Inside) BY FS_Subset DEF BreakerAssumption, Inside
    <3> QED BY <3>1, FS_CardinalityType
  <2> QED BY <1>7, <1>n, <1>k, <2>1, <2>2
          DEF Reset, ClosedBelowThreshold, CallsAreCounted, NoHammering
<1>8. CASE RecoveryPasses
  <2>1. Inside' = Inside BY <1>8 DEF RecoveryPasses, Inside
  <2> QED BY <1>8, <1>n, <1>k, <2>1
          DEF RecoveryPasses, BreakerIInv, ClosedBelowThreshold, CallsAreCounted, NoHammering
<1>9. CASE ServerChanges
  <2>1. Inside' = Inside BY <1>9 DEF ServerChanges, Inside
  <2> QED BY <1>9, <2>1, CountsStay DEF ServerChanges
<1>10. CASE UNCHANGED breakerVars
  <2>1. Inside' = Inside /\ UNCHANGED <<circuitVars, admitted>>
    BY <1>10 DEF breakerVars, Inside
  <2> QED BY <2>1, CountsStay
<1> QED BY <1>1, <1>2, <1>3, <1>4, <1>5, <1>6, <1>7, <1>8, <1>9, <1>10
         DEF BreakerNext, CallerStep

\* The counting invariant holds in every behaviour.
THEOREM BreakerInductive == BreakerSpec => []BreakerIInv
<1>1. BreakerInit => BreakerIInv
  <2> SUFFICES ASSUME BreakerInit PROVE BreakerIInv OBVIOUS
  <2>1. BreakerTypeOK BY BreakerAssumption DEF BreakerInit, BreakerTypeOK, States, Places, BreakerAssumption
  <2>2. Inside = {} BY DEF BreakerInit, Inside
  <2>3. Cardinality(Inside) = 0 BY <2>2, FS_EmptySet
  <2>4. Cardinality(Inspectors) \in Nat BY BreakerAssumption, CallersCount
  <2> QED BY <2>1, <2>3, <2>4, BreakerAssumption
          DEF BreakerInit, BreakerIInv, ClosedBelowThreshold, CallsAreCounted, NoHammering,
              BreakerAssumption
<1>2. BreakerIInv /\ [BreakerNext]_breakerVars => BreakerIInv'
  <2> SUFFICES ASSUME BreakerIInv, [BreakerNext]_breakerVars PROVE BreakerIInv' OBVIOUS
  <2>1. BreakerTypeOK' BY BreakerAssumption, TypeStep DEF BreakerIInv
  <2> QED BY <2>1, BreakerAssumption, CountStep DEF BreakerIInv
<1> QED BY <1>1, <1>2, PTL DEF BreakerSpec

\* Every variable keeps its type (core/resilience.py, CircuitBreaker).
THEOREM BreakerTypeCorrect == BreakerSpec => []BreakerTypeOK
<1>1. BreakerIInv => BreakerTypeOK BY DEF BreakerIInv
<1> QED BY <1>1, BreakerInductive, PTL

\* A closed circuit is below its threshold, whatever late results arrive.
THEOREM ClosedIsBelow == BreakerSpec => []ClosedBelowThreshold
<1>1. BreakerIInv => ClosedBelowThreshold BY DEF BreakerIInv
<1> QED BY <1>1, BreakerInductive, PTL

\* Between two good signs the breaker lets through fewer calls than the
\* threshold plus one for each thread (CircuitBreaker.call).
THEOREM ServerIsSpared == BreakerSpec => []NoHammering
<1>1. BreakerIInv => NoHammering BY DEF BreakerIInv
<1> QED BY <1>1, BreakerInductive, PTL

=============================================================================
