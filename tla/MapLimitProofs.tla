--------------------------- MODULE MapLimitProofs ---------------------------
(***************************************************************************)
(* Proofs about mapLimit for any calls, any arrays and any limit.  Calls   *)
(* share nothing, so that the invariant is one of each call: a step leaves *)
(* all calls as they are but the one it is of.                             *)
(***************************************************************************)
EXTENDS MapLimit, FiniteSetTheorems, TLAPS

\* The elements below the counter were started once and the others never; what
\* is in flight or was rejected was started, and not both.
Counted(f) ==
  /\ call[f].next > 0 => call[f].next >= Limit
  /\ call[f].next = 0 => call[f] = NotCalled(f)
  /\ \A i \in Elements(f) : call[f].calls[i] = IF i < call[f].next THEN 1 ELSE 0
  /\ \A i \in call[f].inFlight \cup call[f].rejected : i < call[f].next
  /\ call[f].inFlight \cap call[f].rejected = {}

\* A worker that ends without an error found the counter beyond the array.
Exhausted(f) == Resolves(f) => call[f].next >= Size[f]

Sound(f) ==
  /\ call[f] \in CallState(f)
  /\ Counted(f)
  /\ Exhausted(f)
  /\ Cardinality(call[f].inFlight) <= Limit

IInv == DOMAIN call = Calls /\ \A f \in Calls : Sound(f)

LEMMA ElementsFinite ==
  ASSUME MapLimitAssumption, NEW f \in Calls
  PROVE  \A S \in SUBSET Elements(f) : IsFiniteSet(S) /\ Cardinality(S) \in Nat
  <1>1. IsFiniteSet(Elements(f))
    BY FS_Interval, MapLimitAssumption DEF MapLimitAssumption, Elements
  <1> QED BY <1>1, FS_Subset, FS_CardinalityType

\* The set started first has at most Limit elements.
LEMMA FirstSlice ==
  ASSUME MapLimitAssumption, NEW f \in Calls
  PROVE  Cardinality({i \in Elements(f) : i < Limit}) <= Limit
  <1> DEFINE S == {i \in Elements(f) : i < Limit}
  <1>1. IsFiniteSet(0 .. (Limit - 1)) /\ Cardinality(0 .. (Limit - 1)) = Limit
    BY FS_Interval, MapLimitAssumption DEF MapLimitAssumption
  <1>2. S \in SUBSET (0 .. (Limit - 1))
    BY MapLimitAssumption DEF MapLimitAssumption, Elements
  <1> QED BY <1>1, <1>2, FS_Subset

\* A worker that takes the next element leaves no more in flight than before.
LEMMA TakeNextKeepsCount ==
  ASSUME MapLimitAssumption, NEW f \in Calls, NEW S \in SUBSET Elements(f), NEW i \in S, NEW n
  PROVE  Cardinality((S \ {i}) \cup (Elements(f) \cap {n})) <= Cardinality(S)
  <1> DEFINE R == S \ {i}
  <1>1. IsFiniteSet(S) /\ Cardinality(S) \in Nat
    BY ElementsFinite
  <1>2. IsFiniteSet(R) /\ Cardinality(R) = Cardinality(S) - 1
    BY <1>1, FS_RemoveElement
  <1>3. CASE n \in Elements(f)
    <2>1. R \cup (Elements(f) \cap {n}) = R \cup {n}
      BY <1>3
    <2>2. Cardinality(R \cup {n}) = IF n \in R THEN Cardinality(R) ELSE Cardinality(R) + 1
      BY <1>2, FS_AddElement
    <2>3. Cardinality(R \cup {n}) <= Cardinality(S)
      BY <1>1, <1>2, <2>2
    <2> QED BY <2>1, <2>3
  <1>4. CASE n \notin Elements(f)
    <2>1. R \cup (Elements(f) \cap {n}) = R
      BY <1>4
    <2>2. Cardinality(R) <= Cardinality(S)
      BY <1>1, <1>2
    <2> QED BY <2>1, <2>2
  <1> QED BY <1>3, <1>4

LEMMA InitHolds ==
  ASSUME MapLimitAssumption
  PROVE  Init => IInv
  <1> SUFFICES ASSUME Init, NEW f \in Calls PROVE Sound(f)
    BY DEF Init, IInv
  <1>0. call[f] = NotCalled(f)
    BY DEF Init
  <1>1. call[f] \in CallState(f)
    BY <1>0 DEF NotCalled, CallState
  <1>2. Counted(f) /\ Exhausted(f)
    BY <1>0, MapLimitAssumption DEF MapLimitAssumption, NotCalled, Counted, Exhausted, Resolves, Elements
  <1>3. Cardinality(call[f].inFlight) <= Limit
    BY <1>0, FS_EmptySet, MapLimitAssumption DEF MapLimitAssumption, NotCalled
  <1> QED BY <1>1, <1>2, <1>3 DEF Sound

\* A call that a step leaves alone stays sound.
LEMMA CallLeftAlone ==
  ASSUME NEW f \in Calls, Sound(f), call'[f] = call[f]
  PROVE  Sound(f)'
  BY DEF Sound, CallState, Counted, Exhausted, Resolves, NotCalled

LEMMA StartStep ==
  ASSUME MapLimitAssumption, NEW f \in Calls, call'[f] = Started(f)
  PROVE  Sound(f)'
  <1> DEFINE flight == {i \in Elements(f) : i < Limit}
             calls == [i \in Elements(f) |-> IF i < Limit THEN 1 ELSE 0]
  <1> USE DEF MapLimitAssumption
  <1>1. call'[f] = [next |-> Limit, inFlight |-> flight, rejected |-> {}, frozen |-> FALSE,
                    calls |-> calls]
    BY DEF Started
  <1>2. flight \in SUBSET Elements(f) /\ calls \in [Elements(f) -> Nat]
    OBVIOUS
  <1>3. \A i \in Elements(f) : calls[i] = IF i < Limit THEN 1 ELSE 0
    OBVIOUS
  <1>4. \A i \in flight : i < Limit
    OBVIOUS
  <1>5. Size[f] > Limit => 0 \in flight
    BY DEF Elements
  <1>6. Cardinality(flight) <= Limit
    BY FirstSlice
  <1> HIDE DEF flight, calls
  <1>7. (call[f] \in CallState(f))'
    BY <1>1, <1>2 DEF CallState
  <1>8. Counted(f)'
    BY <1>1, <1>3, <1>4 DEF Counted
  <1>9. Exhausted(f)'
    BY <1>1, <1>5 DEF Exhausted, Resolves
  <1> QED BY <1>1, <1>6, <1>7, <1>8, <1>9 DEF Sound

LEMMA ResumeStep ==
  ASSUME MapLimitAssumption, NEW f \in Calls, Sound(f), NEW i \in call[f].inFlight,
         call'[f] = TakeNext(f, i)
  PROVE  Sound(f)'
  <1> DEFINE n == call[f].next
             flight == (call[f].inFlight \ {i}) \cup (Elements(f) \cap {n})
             calls == [j \in Elements(f) |->
               IF j = n THEN call[f].calls[j] + 1 ELSE call[f].calls[j]]
  <1> USE DEF MapLimitAssumption
  <1>0. call[f] \in CallState(f) /\ Counted(f) /\ Cardinality(call[f].inFlight) <= Limit
    BY DEF Sound
  <1>1. n \in Nat \ {0}
    BY <1>0 DEF CallState, Counted, NotCalled
  <1>2. call[f].inFlight \in SUBSET Elements(f) /\ call[f].rejected \in SUBSET Elements(f)
    BY <1>0 DEF CallState
  <1>3. call[f].frozen \in BOOLEAN /\ call[f].calls \in [Elements(f) -> Nat]
    BY <1>0 DEF CallState
  <1>4. call'[f] = [next |-> n + 1, inFlight |-> flight, rejected |-> call[f].rejected,
                    frozen |-> call[f].frozen, calls |-> calls]
    BY <1>0 DEF TakeNext, CallState
  <1>5. flight \in SUBSET Elements(f) /\ calls \in [Elements(f) -> Nat]
    BY <1>2, <1>3
  <1>6. \A j \in Elements(f) : calls[j] = IF j < n + 1 THEN 1 ELSE 0
    BY <1>0, <1>1 DEF Counted, Elements
  <1>7. \A j \in flight \cup call[f].rejected : j < n + 1
    BY <1>0, <1>1, <1>2 DEF Counted, Elements
  <1>8. flight \cap call[f].rejected = {}
    BY <1>0, <1>1, <1>2 DEF Counted, Elements
  <1>9. n \in flight \/ n >= Size[f]
    BY <1>1 DEF Elements
  <1>10. Cardinality(flight) <= Limit
    <2>1. Cardinality(flight) <= Cardinality(call[f].inFlight)
      BY <1>2, TakeNextKeepsCount
    <2>2. Cardinality(flight) \in Nat /\ Cardinality(call[f].inFlight) \in Nat
      BY <1>2, <1>5, ElementsFinite
    <2> QED BY <1>0, <2>1, <2>2
  <1>11. n >= Limit
    BY <1>0, <1>1 DEF Counted
  <1> HIDE DEF n, flight, calls
  <1>12. (call[f] \in CallState(f))'
    BY <1>1, <1>2, <1>3, <1>4, <1>5 DEF CallState
  <1>13. Counted(f)'
    BY <1>1, <1>4, <1>6, <1>7, <1>8, <1>11 DEF Counted
  <1>14. Exhausted(f)'
    BY <1>1, <1>4, <1>9 DEF Exhausted, Resolves
  <1> QED BY <1>4, <1>10, <1>12, <1>13, <1>14 DEF Sound

LEMMA ThrowStep ==
  ASSUME MapLimitAssumption, NEW f \in Calls, Sound(f), NEW i \in call[f].inFlight,
         call'[f] = Reject(f, i)
  PROVE  Sound(f)'
  <1> USE DEF Sound
  <1>1. /\ call'[f].next = call[f].next /\ call'[f].calls = call[f].calls
        /\ call'[f].inFlight = call[f].inFlight \ {i}
        /\ call'[f].rejected = call[f].rejected \cup {i}
    BY DEF Reject, CallState
  <1>2. (call[f] \in CallState(f))'
    BY DEF Reject, CallState
  <1>3. Counted(f)'
    BY <1>1 DEF Counted, NotCalled, CallState
  <1>4. Exhausted(f)'
    BY <1>1 DEF Exhausted, Resolves
  <1>5. Cardinality(call'[f].inFlight) <= Limit
    <2>1. IsFiniteSet(call[f].inFlight) /\ Cardinality(call[f].inFlight) \in Nat
      BY ElementsFinite DEF CallState
    <2>2. Cardinality(call[f].inFlight \ {i}) = Cardinality(call[f].inFlight) - 1
      BY <2>1, FS_RemoveElement
    <2> QED BY <1>1, <2>1, <2>2, MapLimitAssumption DEF MapLimitAssumption
  <1> QED BY <1>2, <1>3, <1>4, <1>5

LEMMA StopStep ==
  ASSUME MapLimitAssumption, NEW f \in Calls, Sound(f), call'[f] = Frozen(f)
  PROVE  Sound(f)'
  <1>1. CASE f \in InFlight
    <2> USE DEF Sound
    <2>0. /\ call[f].next \in Nat /\ call[f].calls \in [Elements(f) -> Nat]
          /\ call[f].rejected \cup call[f].inFlight \in SUBSET Elements(f)
      BY DEF CallState
    <2>1. call'[f] = [next |-> call[f].next, inFlight |-> {},
                      rejected |-> call[f].rejected \cup call[f].inFlight, frozen |-> TRUE,
                      calls |-> call[f].calls]
      BY <1>1 DEF Frozen, CallState
    <2>2. (call[f] \in CallState(f))'
      BY <2>0, <2>1 DEF CallState
    <2>3. Counted(f)' /\ Exhausted(f)'
      BY <1>1, <2>1 DEF Counted, Exhausted, Resolves, InFlight, NotCalled
    <2>4. Cardinality(call'[f].inFlight) <= Limit
      BY <2>1, FS_EmptySet, MapLimitAssumption DEF MapLimitAssumption
    <2> QED BY <2>2, <2>3, <2>4
  <1>2. CASE f \notin InFlight
    BY <1>2, CallLeftAlone DEF Frozen
  <1> QED BY <1>1, <1>2

LEMMA StepHolds ==
  ASSUME MapLimitAssumption
  PROVE  IInv /\ [Next]_call => IInv'
  <1> SUFFICES ASSUME IInv, [Next]_call PROVE IInv'
    OBVIOUS
  <1>1. ASSUME NEW f \in Calls, Start(f) PROVE IInv'
    BY <1>1, StartStep, CallLeftAlone DEF Start, IInv
  <1>2. ASSUME NEW f \in Calls, NEW i, Resume(f, i) PROVE IInv'
    BY <1>2, ResumeStep, CallLeftAlone DEF Resume, IInv
  <1>3. ASSUME NEW f \in Calls, NEW i, Throw(f, i) PROVE IInv'
    BY <1>3, ThrowStep, CallLeftAlone DEF Throw, IInv
  <1>4. CASE Stop
    BY <1>4, StopStep DEF Stop, IInv
  <1>5. CASE UNCHANGED call
    BY <1>5, CallLeftAlone DEF IInv
  <1> QED BY <1>1, <1>2, <1>3, <1>4, <1>5 DEF Next

LEMMA Inductive ==
  ASSUME MapLimitAssumption
  PROVE  Spec => []IInv
  BY InitHolds, StepHolds, PTL DEF Spec

\* What is done with the calls follows from what is sound about each.
LEMMA SoundCalls ==
  ASSUME MapLimitAssumption
  PROVE  IInv => TypeOK /\ AtMostLimit /\ AtMostOnce /\ AllDone
  <1> SUFFICES ASSUME IInv PROVE TypeOK /\ AtMostLimit /\ AtMostOnce /\ AllDone
    OBVIOUS
  <1>1. TypeOK /\ AtMostLimit
    BY DEF IInv, Sound, TypeOK, AtMostLimit
  <1>2. AtMostOnce
    BY DEF IInv, Sound, Counted, AtMostOnce
  <1>3. ASSUME NEW f \in Calls, Resolves(f) PROVE DoneElements(f) = Elements(f)
    BY <1>3, MapLimitAssumption
       DEF MapLimitAssumption, IInv, Sound, CallState, Counted, Exhausted, Resolves, DoneElements, Elements
  <1> QED BY <1>1, <1>2, <1>3 DEF AllDone

\* No call of mapLimit ever has more than limit invocations under way, invokes
\* fn more than once for an element, or resolves before all elements are done.
THEOREM MapLimitIsSound ==
  ASSUME MapLimitAssumption
  PROVE  Spec => [](AtMostLimit /\ AtMostOnce /\ AllDone)
  BY SoundCalls, Inductive, PTL
=============================================================================
