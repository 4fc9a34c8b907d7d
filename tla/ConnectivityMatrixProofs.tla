---------------------- MODULE ConnectivityMatrixProofs ----------------------
(***************************************************************************)
(* For any pods and any channel: the invariants of ConnectivityMatrix, and *)
(* that it implements ReachabilityReport.                                  *)
(***************************************************************************)
EXTENDS ConnectivityMatrix, FiniteSetTheorems, TLAPS

(* What the caller knows by where it is: nothing is printed before the     *)
(* end, the channel is closed from the join on, the collector returns only *)
(* when the closed channel is empty.                                       *)
CallerKnows ==
    /\ main # "returned" => report = NoReport
    /\ main # "wait" <=> closed
    /\ collector = "done" => closed /\ data = {}

(* A producer that has started has its answer, unless a pod was nil.       *)
StartedIsAnswered ==
    \A p \in Pairs : stage[p] # "start" /\ p[1] \notin nilPods /\ p[2] \notin nilPods
                         => answer[p] # "none"

NotStartedIsUnanswered == \A p \in Pairs : stage[p] = "start" => answer[p] = "none"

Inv == /\ TypeOK /\ NoSendAfterClose /\ ResultIsSomewhere
       /\ CallerKnows /\ StartedIsAnswered /\ NotStartedIsUnanswered

(* The first component of a pair is a pod.                                 *)
LEMMA PairOfPods == \A p \in Pairs, to \in Pods : p[1] \in Pods /\ <<p[1], to>> \in Pairs
  BY DEF Pairs

LEMMA InitInv == Init => Inv
<1>1. IsFiniteSet({}) /\ Cardinality({}) <= Capacity
  BY FS_EmptySet, CapacityAssumption
<1> QED
  BY <1>1 DEF Init, Inv, TypeOK, NoSendAfterClose, ResultIsSomewhere, CallerKnows,
         StartedIsAnswered, NotStartedIsUnanswered, NoReport, Answers

LEMMA NextInv == Inv /\ [Next]_vars => Inv'
<1> SUFFICES ASSUME Inv, [Next]_vars PROVE Inv'
  OBVIOUS
<1> USE DEF Inv
<1>1. ASSUME NEW p \in Pairs, ReturnNil(p) PROVE Inv'
  BY <1>1 DEF ReturnNil, TypeOK, NoSendAfterClose, ResultIsSomewhere, CallerKnows,
              StartedIsAnswered, NotStartedIsUnanswered, Answers
<1>2. ASSUME NEW p \in Pairs, CanSendTraffic(p) PROVE Inv'
  <2> PICK a \in Answers :
             /\ answer' = [answer EXCEPT ![p] = a]
             /\ stage' = [stage EXCEPT ![p] = IF a = "error" THEN "done" ELSE "send"]
    BY <1>2 DEF CanSendTraffic
  <2>1. TypeOK' /\ NoSendAfterClose'
    BY <1>2 DEF CanSendTraffic, TypeOK, NoSendAfterClose, CallerKnows, Answers
  <2>2. ResultIsSomewhere'
    BY <1>2 DEF CanSendTraffic, TypeOK, ResultIsSomewhere, Answers
  <2>3. CallerKnows' /\ StartedIsAnswered' /\ NotStartedIsUnanswered'
    BY <1>2 DEF CanSendTraffic, TypeOK, CallerKnows, StartedIsAnswered,
                NotStartedIsUnanswered, Answers
  <2> QED BY <2>1, <2>2, <2>3
<1>3. ASSUME NEW p \in Pairs, Send(p) PROVE Inv'
  <2>1. ~ closed
    BY <1>3 DEF Send, NoSendAfterClose
  <2>2. IsFiniteSet(data \union {p}) /\ Cardinality(data \union {p}) <= Capacity
    <3>1. IsFiniteSet(data) /\ Cardinality(data) < Capacity
      BY <1>3 DEF Send, TypeOK
    <3>2. Cardinality(data) \in Nat
      BY <3>1, FS_CardinalityType
    <3>3. /\ IsFiniteSet(data \union {p})
          /\ \/ Cardinality(data \union {p}) = Cardinality(data)
             \/ Cardinality(data \union {p}) = Cardinality(data) + 1
      BY ONLY <3>1, FS_AddElement
    <3> QED
      BY <3>1, <3>2, <3>3, CapacityAssumption
  <2> QED
    BY <1>3, <2>1, <2>2 DEF Send, TypeOK, NoSendAfterClose, ResultIsSomewhere, CallerKnows,
              StartedIsAnswered, NotStartedIsUnanswered, Answers
<1>4. ASSUME NEW p \in Pairs, Collect(p) PROVE Inv'
  <2>1. IsFiniteSet(data \ {p}) /\ Cardinality(data \ {p}) <= Capacity
    <3>1. IsFiniteSet(data) /\ Cardinality(data) <= Capacity
      BY DEF TypeOK
    <3>2. Cardinality(data) \in Nat
      BY <3>1, FS_CardinalityType
    <3>3. IsFiniteSet(data \ {p}) /\ Cardinality(data \ {p}) <= Cardinality(data)
      BY ONLY <3>1, FS_Subset, data \ {p} \in SUBSET data
    <3>4. Cardinality(data \ {p}) \in Nat
      BY <3>3, FS_CardinalityType
    <3> QED
      BY <3>1, <3>2, <3>3, <3>4, CapacityAssumption
  <2> QED
    BY <1>4, <2>1 DEF Collect, TypeOK, NoSendAfterClose, ResultIsSomewhere, CallerKnows,
                StartedIsAnswered, NotStartedIsUnanswered
<1>5. CASE CollectorReturns
  BY <1>5 DEF CollectorReturns, TypeOK, NoSendAfterClose, ResultIsSomewhere, CallerKnows,
              StartedIsAnswered, NotStartedIsUnanswered
<1>6. CASE CloseData
  BY <1>6 DEF CloseData, TypeOK, NoSendAfterClose, ResultIsSomewhere, CallerKnows,
              StartedIsAnswered, NotStartedIsUnanswered
<1>7. CASE ConvertToString
  <2>1. \A p \in Pairs : Printed(p) \in Answers \union {"none", "?", ""}
    BY DEF Printed, TypeOK
  <2>2. TypeOK'
    BY <1>7, <2>1 DEF ConvertToString, TypeOK
  <2>3. NoSendAfterClose' /\ ResultIsSomewhere' /\ StartedIsAnswered' /\ NotStartedIsUnanswered'
    BY <1>7 DEF ConvertToString, NoSendAfterClose, ResultIsSomewhere, CallerKnows,
                StartedIsAnswered, NotStartedIsUnanswered
  <2>4. CallerKnows'
    BY <1>7 DEF ConvertToString, CallerKnows
  <2> QED BY <2>2, <2>3, <2>4
<1>8. CASE UNCHANGED vars
  BY <1>8 DEF vars, TypeOK, NoSendAfterClose, ResultIsSomewhere, CallerKnows,
              StartedIsAnswered, NotStartedIsUnanswered
<1> QED
  BY <1>1, <1>2, <1>3, <1>4, <1>5, <1>6, <1>7, <1>8 DEF Next, Main, Collector, Producer, Finished

LEMMA InvAlways == Spec => []Inv
  BY InitInv, NextInv, PTL DEF Spec

(* The state of makeConnectivityMatrix keeps its types: what is sent,      *)
(* collected and printed are answers of pairs of pods, and for any number  *)
(* of pods the channel never holds more than its capacity.                 *)
THEOREM TypeCorrect == Spec => []TypeOK
<1>1. Inv => TypeOK
  BY DEF Inv
<1> QED BY <1>1, InvAlways, PTL

(* No producer sends on the closed channel, and an answer that was got is  *)
(* in the channel or in the matrix until the report is printed.            *)
THEOREM Invariance == Spec => []ResultsSafe
<1>1. Inv => ResultsSafe
  BY DEF Inv, ResultsSafe
<1> QED BY <1>1, InvAlways, PTL

-----------------------------------------------------------------------------
(* What is printed at the end is what the abstract report shows.           *)
LEMMA PrintedIsShown ==
  ASSUME Inv, ConvertToString, nilPods = {}
  PROVE  /\ \A p \in Pairs : answer[p] # "none"
         /\ \A p \in Pairs : Printed(p) = Abstract!Shown(answer, p)
<1>1. closed /\ data = {} /\ \A p \in Pairs : stage[p] = "done"
  BY DEF Inv, ConvertToString, CallerKnows, NoSendAfterClose
<1>2. \A p \in Pairs : answer[p] # "none"
  BY <1>1 DEF Inv, StartedIsAnswered
<1>3. \A p \in Pairs : p \in matrix <=> answer[p] \in {"X", "."}
  BY <1>1 DEF Inv, ResultIsSomewhere
<1>4. \A p \in Pairs : p \in matrix <=> answer[p] # "error"
  BY <1>2, <1>3 DEF Inv, TypeOK, Answers
<1>5. ASSUME NEW p \in Pairs PROVE Printed(p) = Abstract!Shown(answer, p)
  BY <1>4, PairOfPods DEF Printed, Abstract!Shown
<1> QED BY <1>2, <1>5

LEMMA StepRefines == Inv /\ [Next]_vars => [Abstract!Next]_<<answer, report>>
<1> SUFFICES ASSUME Inv, [Next]_vars PROVE [Abstract!Next]_<<answer, report>>
  OBVIOUS
<1>1. ASSUME NEW p \in Pairs, CanSendTraffic(p) PROVE Abstract!Probe(p)
  BY <1>1 DEF CanSendTraffic, Abstract!Probe, Abstract!Answers, Answers, Inv, NotStartedIsUnanswered
<1>2. CASE ConvertToString /\ nilPods = {}
  <2>1. report = Abstract!NoReport
    BY <1>2 DEF ConvertToString, Inv, CallerKnows, NoReport, Abstract!NoReport, Abstract!Pairs, Pairs
  <2>2. report' = [p \in Abstract!Pairs |-> Abstract!Shown(answer, p)]
    BY <1>2, PrintedIsShown DEF ConvertToString, Abstract!Pairs, Pairs
  <2>3. \A p \in Abstract!Pairs : answer[p] # "none"
    BY <1>2, PrintedIsShown DEF Abstract!Pairs, Pairs
  <2> QED
    BY <1>2, <2>1, <2>2, <2>3 DEF ConvertToString, Abstract!Publish, Abstract!Next
<1>3. CASE ConvertToString /\ nilPods # {}
  BY <1>3 DEF ConvertToString
<1>4. ASSUME NEW p \in Pairs, ReturnNil(p) \/ Send(p) \/ Collect(p) PROVE UNCHANGED <<answer, report>>
  BY <1>4 DEF ReturnNil, Send, Collect
<1>5. CASE CollectorReturns \/ CloseData \/ UNCHANGED vars
  BY <1>5 DEF CollectorReturns, CloseData, vars
<1>6. Pairs = Abstract!Pairs
  BY DEF Pairs, Abstract!Pairs
<1> QED
  BY <1>1, <1>2, <1>3, <1>4, <1>5, <1>6
     DEF Next, Main, Collector, Producer, Finished, Abstract!Next

(* makeConnectivityMatrix prints the report its caller is promised, for    *)
(* any number of pods, any capacity of the channel and any interleaving.   *)
THEOREM Refinement == Spec => ImplementsReport
<1>1. Init => Abstract!Init
  BY DEF Init, Abstract!Init, NoReport, Abstract!NoReport, Pairs, Abstract!Pairs
<1> QED
  BY <1>1, InvAlways, StepRefines, PTL DEF Spec, ImplementsReport, Abstract!Spec
=============================================================================
