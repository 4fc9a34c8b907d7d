------------------------- MODULE ReachabilityReport -------------------------
(***************************************************************************)
(* What makeConnectivityMatrix promises its caller: every ordered pair of  *)
(* pods is probed once, in any order, and then one report is published     *)
(* that says of each pair what its probe answered.                         *)
(***************************************************************************)
CONSTANT Pods

Pairs == Pods \X Pods
Answers == {"X", ".", "error"}
NoReport == [p \in Pairs |-> "none"]

(* What convertToString prints for a pair: a failed probe shows as "?", or *)
(* as nothing when no probe from this source succeeded and the row is      *)
(* left empty.                                                             *)
Shown(answer, p) ==
    IF answer[p] # "error" THEN answer[p]
    ELSE IF \E to \in Pods : answer[<<p[1], to>>] # "error" THEN "?" ELSE ""

VARIABLES answer, report

Init == answer = NoReport /\ report = NoReport

Probe(p) == /\ answer[p] = "none"
            /\ \E a \in Answers : answer' = [answer EXCEPT ![p] = a]
            /\ UNCHANGED report

Publish == /\ report = NoReport
           /\ \A p \in Pairs : answer[p] # "none"
           /\ report' = [p \in Pairs |-> Shown(answer, p)]
           /\ UNCHANGED answer

Next == Publish \/ \E p \in Pairs : Probe(p)

Spec == Init /\ [][Next]_<<answer, report>>
=============================================================================
