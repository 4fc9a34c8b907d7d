---------------------------- MODULE PolicyHelper ----------------------------
(***************************************************************************)
(* The pure helpers of ztp/policygenerator/policyGen/policyHelper.go: the  *)
(* name-length check, the evaluation-interval check, the binding-rule      *)
(* check, the label selector of the generated PlacementRule, and the       *)
(* deploy-wave bookkeeping that orders policies on a spoke cluster.        *)
(*                                                                         *)
(* Strings are abstracted to what the code tells apart.  A binding rule    *)
(* maps a label key to the sequence of values its comma-separated string   *)
(* lists (strings.Split(value, ",")); the empty string is the empty        *)
(* sequence.  A name is represented by its length where only the length    *)
(* matters.                                                                *)
(***************************************************************************)
EXTENDS Naturals, Sequences

CONSTANTS
    Waves,          \* values of the ran.openshift.io/ztp-deploy-wave annotation
    NoWave,         \* the annotation is absent
    NonStringWave,  \* the annotation is there but is not a YAML string (1, not "1")
    Durations       \* the interval strings that time.ParseDuration accepts

ASSUME WaveAssumption ==
    /\ NoWave \notin Waves
    /\ NonStringWave \notin Waves
    /\ NoWave # NonStringWave

-----------------------------------------------------------------------------
(* Limits and intervals                                                    *)

MaxNameLength == 63

\* len(namespace + "." + name) <= 63; the argument is that length.
CheckNameLength(length) == length <= MaxNameLength

ValidateInterval(interval) == interval \in {"never", "watch"} \cup Durations

-----------------------------------------------------------------------------
(* Binding rules                                                           *)

(* An excluded label that is also required clashes when the exclusion is   *)
(* "any value", or lists exactly the required values.  The code compares   *)
(* the unsplit strings, so "a,b" and "b,a" are different lists.            *)
CheckBindingRules(rules, excluded) ==
    \A key \in DOMAIN excluded \cap DOMAIN rules :
        /\ excluded[key] # <<>>
        /\ excluded[key] # rules[key]

Listed(values) == {values[i] : i \in DOMAIN values}

Expression(key, operator, values) ==
    [key |-> key, operator |-> operator, values |-> Listed(values)]

CreatePlacementRule(rules, excluded) ==
    {Expression(key, IF rules[key] = <<>> THEN "Exists" ELSE "In", rules[key])
        : key \in DOMAIN rules}
    \cup
    {Expression(key, IF excluded[key] = <<>> THEN "DoesNotExist" ELSE "NotIn",
                excluded[key])
        : key \in DOMAIN excluded}

(* What a Kubernetes label selector with these expressions selects: all of *)
(* them must hold of the labels (a function on the label keys a cluster    *)
(* has).  External: the selector is evaluated by ACM, not by this code.    *)
Matches(labels, e) ==
    CASE e.operator = "Exists"       -> e.key \in DOMAIN labels
      [] e.operator = "In"           -> e.key \in DOMAIN labels /\ labels[e.key] \in e.values
      [] e.operator = "DoesNotExist" -> e.key \notin DOMAIN labels
      [] e.operator = "NotIn"        -> e.key \in DOMAIN labels => labels[e.key] \notin e.values

Selects(placementRule, labels) == \A e \in placementRule : Matches(labels, e)

-----------------------------------------------------------------------------
(* Deploy waves                                                            *)

\* Mutant: a wave that is not a YAML string is taken as it is.
MutDeclaredWaves(resources) == {resources[i].wave : i \in DOMAIN resources} \ {NoWave}

(* The waves a sequence of built CRs declares.  A wave that is not a YAML  *)
(* string fails the type assertion and counts as no wave at all.           *)
DeclaredWaves(resources) ==
    {resources[i].wave : i \in DOMAIN resources} \cap Waves

\* Mutant: the CRs of one file are not compared with each other.
MutWaveConflict(policyWave, resources) ==
    policyWave # NoWave /\ \E w \in DeclaredWaves(resources) : w # policyWave

(* SetPolicyDeployWave is called for each CR in turn: the first declared   *)
(* wave becomes the policy's, every other one must equal it.               *)
WaveConflict(policyWave, resources) ==
    \E w1, w2 \in DeclaredWaves(resources) \cup ({policyWave} \ {NoWave}) : w1 # w2

SetPolicyDeployWave(policyWave, resources) ==
    IF policyWave # NoWave \/ DeclaredWaves(resources) = {}
    THEN policyWave
    ELSE CHOOSE w \in DeclaredWaves(resources) : TRUE
=============================================================================
