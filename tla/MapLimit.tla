------------------------------ MODULE MapLimit ------------------------------
(***************************************************************************)
(* mapLimit(arr, fn, limit): the first limit elements are started at once, *)
(* one per worker; a worker whose element is done takes the next one from  *)
(* a counter all workers of its call share.  The process makes several     *)
(* calls, each with an array of its own; what is between two awaits of a   *)
(* worker is one step.                                                     *)
(***************************************************************************)
EXTENDS Integers, FiniteSets

CONSTANTS Calls,  \* the calls the process may make
          Size,   \* arr.length of each
          Limit   \* limit, at least 1, or the call throws before it starts

VARIABLE call     \* the state of each call

\* What the callers see to, and the theorems assume.
MapLimitAssumption == Size \in [Calls -> Nat] /\ Limit \in Nat \ {0}

Elements(f) == 0 .. (Size[f] - 1)

\* next is the parameter limit, which the code goes on to count with; calls
\* counts the invocations of fn; frozen is a call whose process is gone.
NotCalled(f) == [next |-> 0, inFlight |-> {}, rejected |-> {}, frozen |-> FALSE,
                 calls |-> [i \in Elements(f) |-> 0]]

\* arr.slice(0, limit).map(...): every worker runs to its first await.
Started(f) ==
  [next |-> Limit, inFlight |-> {i \in Elements(f) : i < Limit}, rejected |-> {},
   frozen |-> FALSE, calls |-> [i \in Elements(f) |-> IF i < Limit THEN 1 ELSE 0]]

\* Mutant of TakeNext: next = ++limit, which skips an element.
TakeNextSkips(f, i) ==
  [call[f] EXCEPT
     !.next = @ + 1,
     !.inFlight = (@ \ {i}) \cup (Elements(f) \cap {call[f].next + 1}),
     !.calls = [j \in Elements(f) |-> IF j = call[f].next + 1 THEN @[j] + 1 ELSE @[j]]]

\* The worker of element i resumes: next = limit++, and it ends or starts next.
TakeNext(f, i) ==
  [call[f] EXCEPT
     !.next = @ + 1,
     !.inFlight = (@ \ {i}) \cup (Elements(f) \cap {call[f].next}),
     !.calls = [j \in Elements(f) |-> IF j = call[f].next THEN @[j] + 1 ELSE @[j]]]

\* fn of element i throws: its worker ends, the others do not notice.
Reject(f, i) == [call[f] EXCEPT !.inFlight = @ \ {i}, !.rejected = @ \cup {i}]

InFlight == {f \in Calls : call[f].inFlight # {}}

\* The process is killed: what is in flight is never done.
Frozen(f) ==
  IF f \in InFlight
  THEN [call[f] EXCEPT !.inFlight = {}, !.rejected = @ \cup call[f].inFlight, !.frozen = TRUE]
  ELSE call[f]

\* What Promise.all settles to, and with it the promise of the call.
Resolves(f) ==
  call[f].next > 0 /\ ~call[f].frozen /\ call[f].rejected = {} /\ call[f].inFlight = {}
Rejects(f) == call[f].rejected # {}

DoneElements(f) ==
  {i \in Elements(f) : call[f].calls[i] > 0} \ (call[f].inFlight \cup call[f].rejected)
-----------------------------------------------------------------------------
Init == call = [f \in Calls |-> NotCalled(f)]

Start(f) == call[f] = NotCalled(f) /\ call' = [call EXCEPT ![f] = Started(f)]

Resume(f, i) == i \in call[f].inFlight /\ call' = [call EXCEPT ![f] = TakeNext(f, i)]

Throw(f, i) == i \in call[f].inFlight /\ call' = [call EXCEPT ![f] = Reject(f, i)]

Stop == call' = [f \in Calls |-> Frozen(f)]

Next ==
  \/ \E f \in Calls : Start(f) \/ \E i \in Elements(f) : Resume(f, i) \/ Throw(f, i)
  \/ Stop

Spec == Init /\ [][Next]_call
-----------------------------------------------------------------------------
CallState(f) ==
  [next : Nat, inFlight : SUBSET Elements(f), rejected : SUBSET Elements(f),
   frozen : BOOLEAN, calls : [Elements(f) -> Nat]]

TypeOK == DOMAIN call = Calls /\ \A f \in Calls : call[f] \in CallState(f)

\* No more than limit invocations of fn are under way in a call.
AtMostLimit == \A f \in Calls : Cardinality(call[f].inFlight) <= Limit

\* fn is invoked at most once for an element, whatever the other workers do.
AtMostOnce == \A f \in Calls : \A i \in Elements(f) : call[f].calls[i] <= 1

\* If a call resolves, fn was invoked for every element and each one is done.
AllDone == \A f \in Calls : Resolves(f) => DoneElements(f) = Elements(f)
=============================================================================
