------------------------------- MODULE Ginkgo -------------------------------
(***************************************************************************)
(* The order in which the test binary of cnf-tests runs the code of a      *)
(* suite.  A spec has the BeforeEach nodes of its containers from the      *)
(* outermost to the innermost, then its It node, and the AfterEach nodes   *)
(* from the innermost to the outermost.  A node is a list of operations.   *)
(* What an operation does to the cluster is the business of the suite's    *)
(* own module, which takes one of the steps Ok, Return, Fail and SkipSpec  *)
(* with every operation it performs.                                       *)
(*                                                                         *)
(* The runner is the vendored ginkgo v2, external to the repository;       *)
(* execute.BeforeAll is the repository's own: a BeforeEach whose body is   *)
(* run by every spec until it has once come to its end.                    *)
(***************************************************************************)
EXTENDS Integers, Sequences

CONSTANT Plan  \* the specs, in the order they are run: [before, after]

VARIABLES
    spec,     \* index in Plan of the running spec
    phase,    \* "before" (the It node is its last node) or "after"
    node,     \* index of the running node of this phase
    step,     \* index of the operation it performs
    reached,  \* nesting level of the node that ended the first phase
    done,     \* the BeforeAll nodes whose variable `first' is FALSE
    verdict   \* what is reported of the running spec

Verdicts == {"passed", "skipped", "failed"}

Over == spec > Len(Plan)
Nodes == Plan[spec][phase]
Current == Nodes[node]

(* A BeforeAll body is run while `first' holds; an AfterEach node is run   *)
(* when it is no deeper than the node that ended the first phase.          *)
Wanted == IF phase = "before" THEN ~ (Current.once /\ Current.id \in done)
                              ELSE Current.level <= reached

Active == ~ Over /\ node <= Len(Nodes) /\ Wanted
Op == Current.ops[step]

(* The current operation is done and the node goes on.                     *)
NextOp == /\ step < Len(Current.ops)
          /\ step' = step + 1
          /\ UNCHANGED <<spec, phase, node, reached, done, verdict>>

\* Mutant: `first' keeps its value.
MutReturn == /\ Active
             /\ node' = node + 1 /\ step' = 1
             /\ UNCHANGED <<spec, phase, reached, done, verdict>>

(* The node's function returns; `first = false' follows fn() in BeforeAll. *)
Return == /\ Active
          /\ done' = IF Current.once THEN done \union {Current.id} ELSE done
          /\ node' = node + 1 /\ step' = 1
          /\ UNCHANGED <<spec, phase, reached, verdict>>

Ok == Active /\ IF step < Len(Current.ops) THEN NextOp ELSE Return

\* Mutant: `first = false' comes before fn() in BeforeAll.
MutStop(v) ==
    /\ Active
    /\ verdict' = IF verdict = "passed" THEN v ELSE verdict
    /\ IF phase = "before"
       THEN phase' = "after" /\ reached' = Current.level /\ node' = 1
       ELSE node' = node + 1 /\ UNCHANGED <<phase, reached>>
    /\ step' = 1
    /\ done' = IF Current.once THEN done \union {Current.id} ELSE done
    /\ UNCHANGED spec

(* A failed assertion, a Skip or a panic leaves the node; after a          *)
(* BeforeEach or It node the AfterEach nodes follow, after an AfterEach    *)
(* node the next one.  Only the first bad news becomes the verdict.  The   *)
(* assignment behind fn() in BeforeAll is not reached.                     *)
Stop(v) ==
    /\ Active
    /\ verdict' = IF verdict = "passed" THEN v ELSE verdict
    /\ IF phase = "before"
       THEN phase' = "after" /\ reached' = Current.level /\ node' = 1
       ELSE node' = node + 1 /\ UNCHANGED <<phase, reached>>
    /\ step' = 1
    /\ UNCHANGED <<spec, done>>

Fail == Stop("failed")
SkipSpec == Stop("skipped")

PassOver == /\ ~ Over /\ node <= Len(Nodes) /\ ~ Wanted
            /\ node' = node + 1 /\ step' = 1
            /\ UNCHANGED <<spec, phase, reached, done, verdict>>

BodyDone == /\ ~ Over /\ phase = "before" /\ node > Len(Nodes)
            /\ phase' = "after" /\ node' = 1 /\ step' = 1
            /\ reached' = Nodes[Len(Nodes)].level
            /\ UNCHANGED <<spec, done, verdict>>

SpecEnds == ~ Over /\ phase = "after" /\ node > Len(Nodes)

NextSpec == /\ SpecEnds
            /\ spec' = spec + 1 /\ phase' = "before" /\ node' = 1 /\ step' = 1
            /\ reached' = 0 /\ verdict' = "passed"
            /\ UNCHANGED done

RunnerInit == /\ spec = 1 /\ phase = "before" /\ node = 1 /\ step = 1
              /\ reached = 0 /\ done = {} /\ verdict = "passed"

(* The steps ginkgo takes by itself, between the suite's operations.       *)
RunnerMoves == PassOver \/ BodyDone

RunnerNext == Ok \/ Return \/ Fail \/ SkipSpec \/ RunnerMoves \/ NextSpec

InBody == Active /\ phase = "before" /\ node = Len(Nodes)
=============================================================================
