----------------------- MODULE MultiNetworkPolicySuite ----------------------
(***************************************************************************)
(* The multinetworkpolicy suite at work: its BeforeAll, its two BeforeEach *)
(* nodes and its specs run by ginkgo against a cluster in which any call   *)
(* may fail, while the policy daemon of the node (external) puts the       *)
(* policies in force pod by pod, later than the API server stores them, or *)
(* stops doing so.  The suite's fixture is run after the last spec.        *)
(***************************************************************************)
EXTENDS MultiNetworkPolicy, GinkgoTree

CONSTANTS
    Chosen,      \* the specs that are run: indices of Bodies (a ginkgo focus)
    MayDie,      \* the daemon may stop
    MaxFaults    \* bound on the calls to the cluster that fail

ASSUME ChosenAssumption == Chosen \in Seq(1..Len(Bodies))

VARIABLES
    spec, phase, node, step, reached, done, verdict,
    env,            \* what the cluster has and how the suite was started
    sriovEnabled, sctpEnabled,  \* the variables of the Describe function
    podVar,         \* nsX_podA .. nsZ_podC, by namespace: "nil", "live" or "gone"
    namespaces,     \* the test namespaces that exist
    podsIn,         \* the pods that exist
    sriovPolicies,  \* the number of test SriovNetworkNodePolicies
    sriovNetwork,   \* the test SriovNetwork exists
    policies,       \* the MultiNetworkPolicies of the API server
    enforced,       \* the policies in force at a pod
    alive,          \* the daemon works
    stale,          \* it had stopped before this spec began
    late,           \* a server's log has been read before the message reached it
    reported,       \* a spec has failed
    faults          \* the calls that failed so far

-----------------------------------------------------------------------------
For(name, nss) == [i \in DOMAIN nss |-> [do |-> name, ns |-> nss[i]]]
xyz == <<"X", "Y", "Z">>

CreatePods(ns) == [i \in DOMAIN abc |-> [do |-> "CreatePod", ns |-> ns, label |-> abc[i]]]

SuiteBeforeAll ==
    Do(<<"IsSriovOperatorInstalled">>) \o For("CleanPods", xyz) \o For("CreateNamespace", xyz)
    \o Do(<<"CleanSriov", "DiscoverNodes", "CreateSriovPolicy", "WaitStable",
            "CreateSriovNetwork", "WaitForNetworkAttachment">>)
    \o CreatePods("X") \o CreatePods("Y") \o CreatePods("Z")

\* Mutant: the policies of namespace X are left to the specs.
MutSuiteBeforeEach ==
    Do(<<"SkipDiscovery", "SkipWithoutSriov", "FailWithoutPods">>) \o For("CleanPolicies", <<"Y", "Z">>)

SuiteBeforeEach ==
    Do(<<"SkipDiscovery", "SkipWithoutSriov", "FailWithoutPods">>) \o For("CleanPolicies", xyz)

\* Mutant: the namespace added last is forgotten.
MutFixtureCleanup == Do(<<"SriovCleanAll">>) \o For("DeleteNamespace", <<"X", "Y">>)

FixtureCleanup == Do(<<"SriovCleanAll">>) \o For("DeleteNamespace", xyz)

SuitePlan ==
    LET before == <<BeforeEach(1, Do(<<"IsMultiEnabled">>)),
                    BeforeAll("all", 1, SuiteBeforeAll),
                    BeforeEach(1, SuiteBeforeEach)>>
    IN  [i \in DOMAIN Chosen |-> [before |-> before \o <<It(2, Bodies[Chosen[i]])>>, after |-> <<>>]]
        \o << [before |-> <<BeforeEach(0, FixtureCleanup)>>, after |-> <<>>] >>

INSTANCE Ginkgo WITH Plan <- SuitePlan

suite == <<spec, phase, node, step, reached, done, verdict>>
cluster == <<podVar, namespaces, podsIn, sriovPolicies, sriovNetwork, policies, enforced>>
flags == <<env, sriovEnabled, sctpEnabled>>
watch == <<alive, stale, late, reported>>
vars == <<suite, cluster, flags, watch, faults>>

At(name) == Active /\ Op.do = name

(* A call to the cluster fails and the assertion on its error with it.     *)
FailCall == Fail /\ faults < MaxFaults /\ faults' = faults + 1
OkCall == Ok /\ UNCHANGED faults

XPods == {p \in Pods : p.ns = "X"}
NoRules == [p \in Pods |-> {}]

-----------------------------------------------------------------------------
(* Setting up: BeforeEach and BeforeAll.                                   *)
IsMultiEnabled ==
    /\ At("IsMultiEnabled")
    /\ \/ env.crd /\ OkCall
       \/ ~ env.crd /\ Fail /\ UNCHANGED faults
       \/ FailCall
    /\ UNCHANGED <<cluster, flags, watch>>

IsSriovOperatorInstalled ==
    /\ At("IsSriovOperatorInstalled")
    /\ \/ /\ sriovEnabled' = env.operator
          /\ IF env.operator THEN Ok ELSE Return
          /\ UNCHANGED faults
       \/ FailCall /\ UNCHANGED sriovEnabled
    /\ UNCHANGED <<cluster, env, sctpEnabled, watch>>

PodsGone(nss) ==
    /\ podsIn' = {p \in podsIn : p.ns \notin nss}
    /\ podVar' = [n \in Namespaces |-> IF n \in nss /\ podVar[n] = "live" THEN "gone" ELSE podVar[n]]
    /\ enforced' = [p \in Pods |-> IF p.ns \in nss THEN {} ELSE enforced[p]]

(* CleanPods deletes the pods, then waits until none is listed.            *)
CleanPods ==
    /\ At("CleanPods")
    /\ \/ OkCall /\ PodsGone({Op.ns})
       \/ FailCall /\ (PodsGone({Op.ns}) \/ UNCHANGED <<podsIn, podVar, enforced>>)
    /\ UNCHANGED <<namespaces, sriovPolicies, sriovNetwork, policies, flags, watch>>

CreateNamespace ==
    /\ At("CreateNamespace")
    /\ \/ OkCall /\ namespaces' = namespaces \union {Op.ns}
       \/ FailCall /\ UNCHANGED namespaces
    /\ UNCHANGED <<podVar, podsIn, sriovPolicies, sriovNetwork, policies, enforced, flags, watch>>

(* The networks go first; policies stay in discovery mode; then WaitStable.*)
CleanSriov ==
    /\ At("CleanSriov")
    /\ \/ /\ OkCall /\ sriovNetwork' = FALSE
          /\ sriovPolicies' = IF env.discovery THEN sriovPolicies ELSE 0
       \/ /\ FailCall
          /\ sriovNetwork' \in {sriovNetwork, FALSE}
          /\ sriovPolicies' \in {sriovPolicies} \union
                 (IF env.discovery \/ sriovNetwork' THEN {} ELSE {0})
    /\ UNCHANGED <<podVar, namespaces, podsIn, policies, enforced, flags, watch>>

DiscoverNodes ==
    /\ At("DiscoverNodes")
    /\ \/ OkCall /\ sctpEnabled' = env.sctp
       \/ FailCall /\ UNCHANGED sctpEnabled
    /\ UNCHANGED <<cluster, env, sriovEnabled, watch>>

(* The policy has a generated name: creating it never meets an older one.  *)
CreateSriovPolicy ==
    /\ At("CreateSriovPolicy")
    /\ \/ OkCall /\ sriovPolicies' = sriovPolicies + 1
       \/ FailCall /\ UNCHANGED sriovPolicies
    /\ UNCHANGED <<podVar, namespaces, podsIn, sriovNetwork, policies, enforced, flags, watch>>

(* The network has a fixed name: the API server refuses a second one.      *)
CreateSriovNetwork ==
    /\ At("CreateSriovNetwork")
    /\ \/ /\ sriovNetwork' = TRUE /\ UNCHANGED faults
          /\ IF sriovNetwork THEN Fail ELSE Ok
       \/ FailCall /\ UNCHANGED sriovNetwork
    /\ UNCHANGED <<podVar, namespaces, podsIn, sriovPolicies, policies, enforced, flags, watch>>

WaitForCluster ==
    /\ At("WaitStable") \/ At("WaitForNetworkAttachment")
    /\ OkCall \/ FailCall
    /\ UNCHANGED <<cluster, flags, watch>>

(* createPodsInNamespace assigns the three variables when its last pod is  *)
(* ready; a pod that does not become ready in time has been created.       *)
CreatePod ==
    LET pod == Pod(Op.ns, Op.label)
    IN  /\ At("CreatePod")
        /\ \/ /\ OkCall /\ podsIn' = podsIn \union {pod}
              /\ podVar' = IF Op.label = "c" THEN [podVar EXCEPT ![Op.ns] = "live"] ELSE podVar
           \/ FailCall /\ podsIn' \in {podsIn, podsIn \union {pod}} /\ UNCHANGED podVar
        /\ UNCHANGED <<namespaces, sriovPolicies, sriovNetwork, policies, enforced, flags, watch>>

(* The guards of the second BeforeEach.                                    *)
SuiteGuards ==
    /\ \/ At("SkipDiscovery") /\ IF env.discovery THEN SkipSpec ELSE Ok
       \/ At("SkipWithoutSriov") /\ IF sriovEnabled THEN Ok ELSE SkipSpec
       \/ At("FailWithoutPods") /\ IF podVar["X"] = "nil" THEN Fail ELSE Ok
    /\ UNCHANGED <<cluster, flags, watch, faults>>

(* cleanMultiNetworkPoliciesFromNamespace                                  *)
CleanPolicies ==
    /\ At("CleanPolicies")
    /\ LET kept == {p \in policies : p.ns # Op.ns}
       IN  \/ OkCall /\ policies' = kept
           \/ FailCall /\ policies' \in {policies, kept}
    /\ UNCHANGED <<podVar, namespaces, podsIn, sriovPolicies, sriovNetwork, enforced, flags, watch>>

-----------------------------------------------------------------------------
(* The bodies of the specs.                                                *)
SkipInBody ==
    /\ \/ At("Skip") /\ SkipSpec
       \/ At("SkipUnlessSctp") /\ IF sctpEnabled THEN Ok ELSE SkipSpec
    /\ UNCHANGED <<cluster, flags, watch, faults>>

CreatePolicy ==
    /\ At("CreatePolicy")
    /\ \/ OkCall /\ policies' = policies \union {Op.pol}
       \/ FailCall /\ UNCHANGED policies
    /\ UNCHANGED <<podVar, namespaces, podsIn, sriovPolicies, sriovNetwork, enforced, flags, watch>>

Delivered == Reaches(enforced, Op.from, Op.to, Op.port)

\* Mutant: an unexpected message does not count against ShouldNot.
MutMatches(lateLog) == Op.want => Delivered /\ ~ lateLog

(* One poll of Eventually(source).Should(Reach(...)) that ends it: the     *)
(* message, which carries a random salt, is found in the server's log, or  *)
(* for ShouldNot it is not: the connection timed out, or the log did not   *)
(* have the message yet when canSendTraffic read it.                       *)
Matches(lateLog) ==
    IF Op.want THEN Delivered /\ ~ lateLog ELSE ~ Delivered \/ lateLog

CheckEnds ==
    /\ At("Check")
    /\ \E lateLog \in BOOLEAN :
          /\ lateLog => Delivered
          /\ (Op.sctp /\ ~ sctpEnabled) \/ Matches(lateLog)
          /\ late' = (late \/ lateLog)
    /\ Ok
    /\ UNCHANGED <<cluster, flags, alive, stale, reported, faults>>

\* Mutant: the polling has no timeout.
MutCheckTimesOut == At("Check") /\ UNCHANGED vars

(* No poll of the thirty seconds matched, or all of them met errors.       *)
CheckTimesOut ==
    /\ At("Check") /\ ~ (Op.sctp /\ ~ sctpEnabled)
    /\ Fail
    /\ UNCHANGED <<cluster, flags, watch, faults>>

-----------------------------------------------------------------------------
(* The fixture after the last spec.  The error of sriovClean.All is        *)
(* dropped.  A namespace may be deleted later than Delete waits for it.    *)
SriovCleanAll ==
    /\ At("SriovCleanAll")
    /\ \/ sriovNetwork' = FALSE /\ sriovPolicies' = 0
       \/ UNCHANGED <<sriovNetwork, sriovPolicies>>
    /\ Ok
    /\ UNCHANGED <<podVar, namespaces, podsIn, policies, enforced, flags, watch, faults>>

DeleteNamespace ==
    /\ At("DeleteNamespace")
    /\ \/ /\ OkCall \/ FailCall
          /\ namespaces' = namespaces \ {Op.ns}
          /\ policies' = {p \in policies : p.ns # Op.ns}
          /\ PodsGone({Op.ns})
       \/ FailCall /\ UNCHANGED <<namespaces, policies, podsIn, podVar, enforced>>
    /\ UNCHANGED <<sriovPolicies, sriovNetwork, flags, watch>>

SpecIsOver ==
    /\ NextSpec
    /\ stale' = ~ alive
    /\ reported' = (reported \/ verdict = "failed")
    /\ UNCHANGED <<cluster, flags, alive, late, faults>>

RunnerGoesOn == RunnerMoves /\ UNCHANGED <<cluster, flags, watch, faults>>

-----------------------------------------------------------------------------
(* The daemon: it brings the rules of one pod up to date, or stops.        *)
PoliciesFor(p) == {pol \in policies : pol.ns = p.ns /\ p.label \in pol.sel}

Sync(p) ==
    /\ alive /\ p \in podsIn /\ enforced[p] # PoliciesFor(p)
    /\ enforced' = [enforced EXCEPT ![p] = PoliciesFor(p)]
    /\ UNCHANGED <<suite, podVar, namespaces, podsIn, sriovPolicies, sriovNetwork, policies,
                   flags, watch, faults>>

DaemonStops ==
    /\ MayDie /\ alive /\ ~ Over
    /\ alive' = FALSE
    /\ UNCHANGED <<suite, cluster, flags, stale, late, reported, faults>>

-----------------------------------------------------------------------------
Init ==
    /\ RunnerInit
    /\ env \in [crd : BOOLEAN, operator : BOOLEAN, discovery : BOOLEAN, sctp : BOOLEAN]
    /\ sriovEnabled = FALSE /\ sctpEnabled = FALSE
    /\ podVar = [n \in Namespaces |-> "nil"]
    /\ namespaces = {} /\ podsIn = {} /\ sriovPolicies = 0 /\ sriovNetwork = FALSE
    /\ policies = {} /\ enforced = NoRules
    /\ alive = TRUE /\ stale = FALSE /\ late = FALSE /\ reported = FALSE
    /\ faults = 0

SuiteStep ==
    \/ IsMultiEnabled \/ IsSriovOperatorInstalled \/ CleanPods \/ CreateNamespace
    \/ CleanSriov \/ DiscoverNodes \/ CreateSriovPolicy \/ CreateSriovNetwork
    \/ WaitForCluster \/ CreatePod \/ SuiteGuards \/ CleanPolicies
    \/ SkipInBody \/ CreatePolicy \/ CheckEnds \/ CheckTimesOut
    \/ SriovCleanAll \/ DeleteNamespace \/ SpecIsOver \/ RunnerGoesOn

DaemonStep == (\E p \in XPods : Sync(p)) \/ DaemonStops

Ended == Over /\ UNCHANGED vars

Next == SuiteStep \/ DaemonStep \/ Ended

Spec == Init /\ [][Next]_vars

(* The binary goes on as long as it can; nothing is asked of the daemon.   *)
FairSpec == Spec /\ WF_vars(SuiteStep)

-----------------------------------------------------------------------------
SpecBody == InBody /\ spec <= Len(Chosen)

(* "Check if BeforeAll initialization has been completed and avoid nil     *)
(* reference errors" (multinetworkpolicy_sriov.go): the guard looks at     *)
(* nsX_podA alone, yet whatever calls failed in earlier attempts at the    *)
(* setup, in a spec body all nine variables point at running pods, on one  *)
(* SR-IOV policy and its network.                                          *)
BodyHasItsPods ==
    SpecBody => /\ \A n \in Namespaces : podVar[n] = "live"
                /\ podsIn = Pods /\ namespaces = Namespaces
                /\ sriovPolicies = 1 /\ sriovNetwork

(* BeforeAll is for all the specs: once its nine pods have been created,   *)
(* no spec that passes, fails or is skipped creates, deletes or replaces   *)
(* any of them, of their namespaces and of the SR-IOV objects under them,  *)
(* until the fixture cleans up.  The node of BeforeAll is entered by every *)
(* spec (pkg/execute/ginkgo.go); its body starts with deleting the pods.   *)
SetupKept ==
    [][spec <= Len(Chosen) /\ (\A n \in Namespaces : podVar[n] = "live")
           => UNCHANGED <<podVar, namespaces, podsIn, sriovPolicies, sriovNetwork>>]_vars

(* A spec only ever sees its own policies: once the daemon has caught up   *)
(* at every pod, each reachability the spec waits for is the one the       *)
(* policies mean, whatever earlier specs created and however they ended.   *)
SyncedMeansExpected ==
    /\ At("Check") /\ (Op.sctp => sctpEnabled)
    /\ \A p \in XPods : enforced[p] = PoliciesFor(p)
    => Delivered = Op.want

(* The suite notices a daemon that has stopped before the last spec: the   *)
(* run does not end without a failed spec.  Rules left in force by an      *)
(* earlier spec can satisfy the next one (PortTCP passes on the rules of   *)
(* StackedPorts), but not all the specs that follow.  Logs that are read   *)
(* too early excuse it.                                                    *)
StoppedDaemonIsReported ==
    SpecEnds /\ spec = Len(Chosen) /\ stale /\ verdict = "passed" /\ ~ late => reported

(* When the fixture's Cleanup passes, nothing the suite created in its     *)
(* namespaces is left, pods of unfinished setups included.                 *)
CleanedUp ==
    SpecEnds /\ spec > Len(Chosen) /\ verdict = "passed" =>
        namespaces = {} /\ podsIn = {} /\ policies = {}

(* Every wait of the suite has an end: the run is over some day even if    *)
(* the daemon never enforces anything.                                     *)
SuiteEnds == <>Over
=============================================================================
