------------------------- MODULE ConnectivityMatrix -------------------------
(***************************************************************************)
(* makeConnectivityMatrix of the multinetworkpolicy suite: one goroutine   *)
(* per pair of pods probes the connection and sends what it found on a     *)
(* buffered channel, one goroutine collects the results in a map, and the  *)
(* caller waits for the producers, closes the channel, waits for the       *)
(* collector and prints the map.  The result of a pair is a message of its *)
(* own, so the order of the channel is left out.                           *)
(***************************************************************************)
EXTENDS Naturals, FiniteSets

CONSTANTS
    Pods,
    Capacity   \* of the channel; 81 in the code

ASSUME CapacityAssumption == Capacity \in Nat \ {0}

Pairs == Pods \X Pods
Answers == {"X", ".", "error"}
NoReport == [p \in Pairs |-> "none"]

VARIABLES
    nilPods,    \* the arguments that are nil
    stage,      \* of the producer of a pair: "start", "send" or "done"
    answer,     \* what canSendTraffic answered the producer
    data,       \* the results in the channel
    closed,     \* the channel is closed
    matrix,     \* the pairs in the map connectivityMatrix
    collector,  \* "run" or "done"
    main,       \* "wait" for producers, "join", "returned" or "panicked"
    report      \* what has been printed for each pair

vars == <<nilPods, stage, answer, data, closed, matrix, collector, main, report>>

Init ==
    /\ nilPods \in SUBSET Pods
    /\ stage = [p \in Pairs |-> "start"]
    /\ answer = NoReport
    /\ data = {} /\ closed = FALSE /\ matrix = {}
    /\ collector = "run" /\ main = "wait"
    /\ report = NoReport

(* A producer: it returns at once for a nil pod, and after an error.       *)
ReturnNil(p) ==
    /\ stage[p] = "start" /\ (p[1] \in nilPods \/ p[2] \in nilPods)
    /\ stage' = [stage EXCEPT ![p] = "done"]
    /\ UNCHANGED <<nilPods, answer, data, closed, matrix, collector, main, report>>

CanSendTraffic(p) ==
    /\ stage[p] = "start" /\ p[1] \notin nilPods /\ p[2] \notin nilPods
    /\ \E a \in Answers :
          /\ answer' = [answer EXCEPT ![p] = a]
          /\ stage' = [stage EXCEPT ![p] = IF a = "error" THEN "done" ELSE "send"]
    /\ UNCHANGED <<nilPods, data, closed, matrix, collector, main, report>>

Send(p) ==
    /\ stage[p] = "send" /\ Cardinality(data) < Capacity
    /\ data' = data \union {p}
    /\ stage' = [stage EXCEPT ![p] = "done"]
    /\ UNCHANGED <<nilPods, answer, closed, matrix, collector, main, report>>

\* Mutant: the row made for a new source is not put into the map.
MutCollect(p) ==
    /\ collector = "run" /\ p \in data
    /\ data' = data \ {p}
    /\ matrix' = IF \E q \in matrix : q[1] = p[1] THEN matrix \union {p} ELSE matrix
    /\ UNCHANGED <<nilPods, stage, answer, closed, collector, main, report>>

(* The collector ranges over the channel until it is closed and empty.     *)
Collect(p) ==
    /\ collector = "run" /\ p \in data
    /\ data' = data \ {p}
    /\ matrix' = matrix \union {p}
    /\ UNCHANGED <<nilPods, stage, answer, closed, collector, main, report>>

\* Mutant: the collector does not call conversionWG.Done.
MutCollectorReturns == collector = "run" /\ closed /\ data = {} /\ UNCHANGED vars

CollectorReturns ==
    /\ collector = "run" /\ closed /\ data = {}
    /\ collector' = "done"
    /\ UNCHANGED <<nilPods, stage, answer, data, closed, matrix, main, report>>

\* Mutant: a producer is done when it has its answer.
MutCloseData ==
    /\ main = "wait" /\ \A p \in Pairs : stage[p] # "start"
    /\ closed' = TRUE /\ main' = "join"
    /\ UNCHANGED <<nilPods, stage, answer, data, matrix, collector, report>>

(* producerWG.Wait(); close(data)                                          *)
CloseData ==
    /\ main = "wait" /\ \A p \in Pairs : stage[p] = "done"
    /\ closed' = TRUE /\ main' = "join"
    /\ UNCHANGED <<nilPods, stage, answer, data, matrix, collector, report>>

\* Mutant: a probe that failed is printed as its error.
MutPrintedError(p) == IF p \in matrix THEN answer[p] ELSE "timeout"

\* Mutant: a probe that failed is printed as one that did not get through.
MutPrinted(p) == IF p \in matrix THEN answer[p] ELSE "."

(* conversionWG.Wait(), then convertToString: shortName dereferences every *)
(* pod; a source without an entry in the map has an empty row, a pair      *)
(* without one shows "?".                                                  *)
Printed(p) ==
    IF p \in matrix THEN answer[p]
    ELSE IF \E to \in Pods : <<p[1], to>> \in matrix THEN "?" ELSE ""

ConvertToString ==
    /\ main = "join" /\ collector = "done"
    /\ IF nilPods = {}
       THEN main' = "returned" /\ report' = [p \in Pairs |-> Printed(p)]
       ELSE main' = "panicked" /\ UNCHANGED report
    /\ UNCHANGED <<nilPods, stage, answer, data, closed, matrix, collector>>

Producer(p) == ReturnNil(p) \/ CanSendTraffic(p) \/ Send(p)
Collector == CollectorReturns \/ \E p \in Pairs : Collect(p)
Main == CloseData \/ ConvertToString
Finished == main \in {"returned", "panicked"} /\ UNCHANGED vars

Next == Main \/ Collector \/ (\E p \in Pairs : Producer(p)) \/ Finished

Spec == Init /\ [][Next]_vars

(* The Go scheduler runs every goroutine that can go on, and the probe     *)
(* that a producer runs in its pod returns (nc is given a timeout).        *)
FairSpec == /\ Spec
            /\ WF_vars(Main) /\ WF_vars(Collector)
            /\ \A p \in Pairs : WF_vars(Producer(p))

-----------------------------------------------------------------------------
(* The types of what the goroutines share; the channel holds no more       *)
(* results than it was made for.                                           *)
TypeOK ==
    /\ nilPods \subseteq Pods
    /\ stage \in [Pairs -> {"start", "send", "done"}]
    /\ answer \in [Pairs -> Answers \union {"none"}]
    /\ data \subseteq Pairs /\ matrix \subseteq Pairs
    /\ IsFiniteSet(data) /\ Cardinality(data) <= Capacity
    /\ closed \in BOOLEAN
    /\ collector \in {"run", "done"}
    /\ main \in {"wait", "join", "returned", "panicked"}
    /\ report \in [Pairs -> Answers \union {"none", "?", ""}]

(* No goroutine sends on the closed channel (a panic in Go), and the map   *)
(* is not read while the collector may still write it: convertToString     *)
(* runs after the last result has been stored.                             *)
NoSendAfterClose ==
    /\ closed => \A p \in Pairs : stage[p] = "done"
    /\ main \in {"returned", "panicked"} => collector = "done" /\ data = {}

(* A result is never lost or stored twice on its way from a producer to    *)
(* the map: while a probe's answer is neither waiting to be sent, nor in   *)
(* the channel, nor in the map, there is none.                             *)
ResultIsSomewhere ==
    /\ data \intersect matrix = {}
    /\ \A p \in Pairs : (answer[p] \in {"X", "."}) <=> (stage[p] = "send" \/ p \in data \union matrix)
    /\ \A p \in data \union matrix : stage[p] = "done"

(* The goroutines share channel and map safely.                            *)
ResultsSafe == NoSendAfterClose /\ ResultIsSomewhere

(* makeConnectivityMatrix implements ReachabilityReport: the report it     *)
(* prints says of every pair what its probe answered, whatever the order   *)
(* in which the eighty-two goroutines ran.                                 *)
Abstract == INSTANCE ReachabilityReport WITH answer <- answer, report <- report

ImplementsReport == Abstract!Spec

(* It always comes to an end, also when the channel is full for a while.   *)
Terminates == <>(main \in {"returned", "panicked"})
=============================================================================
