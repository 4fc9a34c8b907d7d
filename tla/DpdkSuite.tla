----------------------------- MODULE DpdkSuite ------------------------------
(***************************************************************************)
(* The dpdk suite (e2esuite/dpdk/dpdk.go) run by ginkgo.  Its specs share  *)
(* one workload pod, one performance profile and the SR-IOV configuration, *)
(* which every Context replaces before its first spec; any call to the     *)
(* cluster may fail and leave what it was doing half done, and the next    *)
(* spec starts over from there.  In discovery mode the suite has to do     *)
(* with what the cluster has.                                              *)
(***************************************************************************)
EXTENDS PerformanceProfile, GinkgoTree

CONSTANTS
    Envs,        \* the clusters and modes the suite is run in
    MaxFaults    \* bound on the calls to the cluster that fail

Names == {"other", "performance"}     \* listed in this order by the API server

ASSUME FaultsAssumption == MaxFaults \in Nat
ASSUME EnvsAssumption ==
    \A e \in Envs : /\ e.discovery \in BOOLEAN /\ e.cud \in BOOLEAN
                    /\ e.profiles \in [Names -> Profiles \union {NoProfile}]
                    /\ e.offers \in Seq(AllOffers)

VARIABLES
    spec, phase, node, step, reached, done, verdict,
    env,            \* what the cluster is and how the suite was started
    profiles,       \* the performance profiles of the cluster, by name
    original,       \* OriginalPerformanceProfile
    hugePageSize,   \* HugePageSize
    discovered,     \* what discovery mode chose, NoOffer unless discoverySuccessful
    policyHasVhostnet,
    drain,          \* the SR-IOV operator drains nodes; RestoreNodeDrainState
    policies,       \* the test SriovNetworkNodePolicies, in order of creation
    networks,       \* the test SriovNetworks
    pods,           \* the pods of namespace dpdk-testing
    workload,       \* dpdkWorkloadPod: the Context that created it, or "nil"
    cud,            \* SELinux lets containers use devices
    isCUDDisabled, unsetFailed,
    nads, nadVars,  \* the network attachments that exist; the variables that are set
    namespace,      \* dpdk-testing exists
    faults          \* the calls that failed so far

named == profiles["performance"]
Found == env.profiles["performance"]     \* what an administrator gave that name

-----------------------------------------------------------------------------
(* The specs.  in tells the mode an operation is for: a branch of          *)
(* if discovery.Enabled().                                                 *)
Always(ops) == [i \in DOMAIN ops |-> [do |-> ops[i], in |-> "any"]]
InCluster(ops) == [i \in DOMAIN ops |-> [do |-> ops[i], in |-> "cluster"]]
InDiscovery(ops) == [i \in DOMAIN ops |-> [do |-> ops[i], in |-> "discovery"]]
Start(ctx, role) == [do |-> "StartPod", in |-> "any", ctx |-> ctx, role |-> role]
Setup(ctx, mode) == << [do |-> "CreateSriov", in |-> mode, ctx |-> ctx] >>

Top == << BeforeAll("top", 1, Always(<<"DrainState", "CreateNamespace">>)
                              \o InDiscovery(<<"DiscoverProfiles", "DiscoverResources", "DiscoveryNetwork">>)
                              \o InCluster(<<"FindOrOverride">>)
                              \o Always(<<"ExpectHugePageSize">>)),
          BeforeEach(1, InDiscovery(<<"SkipUndiscovered">>)) >>

MutCleaning == <<"CleanSriov">>     \* bug: pods are left to the AfterEach nodes
Cleaning == <<"CleanPods", "CleanSriov">>

Vhostnet ==
    << BeforeAll("vhostnet", 2, InCluster(Cleaning) \o Setup("vhostnet", "cluster")
                                \o InDiscovery(<<"FindVhostPolicy">>)),
       BeforeEach(2, InDiscovery(<<"SkipWithoutVhost">>)) >>

Rootless ==
    << BeforeAll("rootless", 2, InDiscovery(<<"Skip">>) \o Always(Cleaning) \o Always(<<"FindDevice">>)),
       BeforeEach(2, Always(<<"CheckBoolean", "SetBoolean">>) \o Setup("rootless", "any")
                     \o Always(<<"CreateNads">>)) >>
MutAfterRootless == AfterEach(2, Always(Cleaning \o <<"DeleteNads", "UnsetBoolean">>))  \* bug: swapped order
AfterRootless == AfterEach(2, Always(<<"UnsetBoolean">>) \o Always(Cleaning) \o Always(<<"DeleteNads">>))

Workloads(ctx) == <<Start(ctx, "server"), Start(ctx, "client")>>

Allocated ==
    << BeforeAll("allocated", 2, InCluster(Cleaning) \o Setup("allocated", "cluster")
                                 \o Workloads("allocated")) >>
Needed == Always(<<"ExpectWorkload">>)
Numa == <<BeforeEach(3, Needed), BeforeAll("cpus", 3, Always(<<"Exec">>))>>

MutSplit ==     \* bug: the workload pod of the context before is taken for its own
    << BeforeEach(2, InDiscovery(<<"Skip">>)),
       BeforeAll("split", 2, Always(Cleaning) \o Setup("split", "any")) >>

Split ==
    << BeforeEach(2, InDiscovery(<<"Skip">>)),
       BeforeAll("split", 2, Always(Cleaning) \o Setup("split", "any") \o Workloads("split")) >>

Vendors ==
    << BeforeAll("vendors", 2, Always(<<"FindDevice">>)),
       BeforeEach(2, InDiscovery(<<"Skip">>) \o Always(Cleaning)) >>
Nic == It(2, Always(<<"FindNic">>) \o Setup("vendors", "any")
             \o <<Start("vendors", "tx")>> \o Always(<<"Traffic">>))

MutDownward ==     \* bug: discovery mode is not looked at
    << BeforeAll("downward", 2, Always(<<"CleanSriov">>) \o Setup("downward", "any") \o Workloads("downward")) >>

Downward ==
    << BeforeAll("downward", 2, InDiscovery(<<"Skip">>) \o Always(<<"CleanSriov">>)
                                \o Setup("downward", "any") \o Workloads("downward")) >>

SpecOf(context, before, it, after) ==
    [context |-> context, before |-> Top \o before \o <<it>>, after |-> after]

Transmits(ops) == It(3, ops \o Always(<<"Traffic">>))

VhostnetSpecs ==
    LET clean == <<AfterEach(2, Always(<<"CleanPods">>))>>
    IN << SpecOf("vhostnet", Vhostnet, Transmits(<<Start("vhostnet", "tx")>>), clean),
          SpecOf("vhostnet", Vhostnet, Transmits(<<Start("vhostnet", "rx"), Start("vhostnet", "tx")>>), clean) >>

RootlessSpecs ==
    << SpecOf("rootless", Rootless, Transmits(<<Start("rootless", "tx"), Start("rootless", "rx")>>),
              <<AfterRootless>>) >>

AllocatedSpecs ==
    << SpecOf("allocated", Allocated, Transmits(Needed), <<>>),
       SpecOf("allocated", Allocated \o Numa, It(3, Always(<<"Check">>)), <<>>),
       SpecOf("allocated", Allocated \o Numa, It(3, Always(<<"Exec", "Check">>)), <<>>) >>

HugePagesSpecs ==
    << SpecOf("allocated", Allocated \o <<BeforeEach(3, Needed \o Always(<<"Exec">>))>>,
              It(3, <<Start("allocated", "hugepages")>> \o Always(<<"Check", "DeletePod">>)), <<>>),
       SpecOf("allocated", Allocated \o <<BeforeEach(3, Needed)>>, It(3, Always(<<"Exec", "Check">>)), <<>>) >>

SplitSpecs ==
    << SpecOf("split", Split, It(2, Needed \o Always(<<"Traffic">>)), <<>>),
       SpecOf("split", Split, It(2, <<Start("split", "regular")>>), <<>>) >>

VendorSpecs == << SpecOf("vendors", Vendors, Nic, <<>>), SpecOf("vendors", Vendors, Nic, <<>>) >>

DownwardSpecs == << SpecOf("downward", Downward, It(2, Always(<<"Exec", "Check">>)), <<>>) >>

RestoringSpecs == << SpecOf("restoring", <<>>, It(2, InCluster(<<"Restore">>) \o Always(Cleaning)), <<>>) >>

FixtureCleanup ==
    << [context |-> "fixture", before |-> <<BeforeEach(0, Always(<<"DeleteNamespace">>))>>, after |-> <<>>] >>

SuitePlan ==
    VhostnetSpecs \o RootlessSpecs \o AllocatedSpecs \o HugePagesSpecs \o SplitSpecs
        \o VendorSpecs \o DownwardSpecs \o RestoringSpecs \o FixtureCleanup

INSTANCE Ginkgo WITH Plan <- SuitePlan

suite == <<spec, phase, node, step, reached, done, verdict>>
profile == <<profiles, original, hugePageSize, discovered, policyHasVhostnet, drain>>
sriov == <<policies, networks>>
podState == <<pods, workload>>
rootless == <<cud, isCUDDisabled, unsetFailed, nads, nadVars>>
vars == <<suite, env, profile, sriov, podState, rootless, namespace, faults>>

Context == SuitePlan[spec].context
InMode == Op.in = "any" \/ Op.in = (IF env.discovery THEN "discovery" ELSE "cluster")
At(name) == Active /\ Op.do = name /\ InMode

(* A call to the cluster fails and the assertion on its error with it.     *)
FailCall == Fail /\ faults < MaxFaults /\ faults' = faults + 1
OkCall == Ok /\ UNCHANGED faults

(* The operation belongs to the other branch of if discovery.Enabled().    *)
OtherMode ==
    /\ Active /\ ~ InMode /\ Ok
    /\ UNCHANGED <<env, profile, sriov, podState, rootless, namespace, faults>>

(* Calls that look something up, and expectations about what they found.   *)
Look ==
    /\ At("FindDevice") \/ At("CreateNamespace")
    /\ OkCall \/ FailCall
    /\ UNCHANGED <<env, profile, sriov, podState, rootless, namespace>>

Skips ==
    /\ \/ At("Skip") /\ SkipSpec
       \/ At("SkipUndiscovered") /\ IF discovered = NoOffer THEN SkipSpec ELSE Ok
       \/ At("SkipWithoutVhost") /\ IF policyHasVhostnet THEN Ok ELSE SkipSpec
       \/ At("FindNic") /\ IF env.nics[spec % 2] THEN Ok ELSE SkipSpec
       \/ At("ExpectWorkload") /\ IF workload = "nil" THEN Fail ELSE Ok
       \/ At("ExpectHugePageSize") /\ IF hugePageSize = "" THEN Fail ELSE Ok
    /\ UNCHANGED <<env, profile, sriov, podState, rootless, namespace, faults>>

-----------------------------------------------------------------------------
(* The top BeforeAll.  An update whose answer is lost has taken effect.    *)
DrainState ==
    /\ At("DrainState")
    /\ \/ /\ OkCall
          /\ drain' = IF env.sno /\ drain.enabled THEN [enabled |-> FALSE, restore |-> TRUE] ELSE drain
       \/ /\ FailCall
          /\ drain' \in {drain} \union IF env.sno THEN {[drain EXCEPT !.enabled = FALSE]} ELSE {}
    /\ UNCHANGED <<env, profiles, original, hugePageSize, discovered, policyHasVhostnet,
                   sriov, podState, rootless, namespace>>

(* Without success the body returns, and every spec is skipped.            *)
ValidProfiles ==
    {n \in DOMAIN profiles : /\ env.enforced => n = "performance"
                             /\ ValidatePerformanceProfile(profiles[n])}

SizeAfter(n, size) == IF n \in ValidProfiles THEN HugePageSizeOf(profiles[n], size) ELSE size

DiscoverPerformanceProfiles ==
    /\ At("DiscoverProfiles")
    /\ \/ /\ IF ValidProfiles = {} THEN Return ELSE Ok
          /\ hugePageSize' = SizeAfter("performance", SizeAfter("other", hugePageSize))
          /\ discovered' = IF ValidProfiles = {} THEN NoOffer ELSE discovered
          /\ UNCHANGED faults
       \/ /\ Return /\ faults < MaxFaults /\ faults' = faults + 1
          /\ discovered' = NoOffer /\ UNCHANGED hugePageSize
    /\ UNCHANGED <<env, profiles, original, policyHasVhostnet, drain,
                   sriov, podState, rootless, namespace>>

(* dpdkResourceName is what the next attempt prefers.                      *)
Preferred == IF discovered = NoOffer THEN "dpdknic" ELSE discovered.resource

Discover ==
    /\ At("DiscoverResources")
    /\ LET found == DiscoverResources(env.offers, ValidProfiles, Preferred)
       IN  \/ /\ IF found = NoOffer THEN Return ELSE Ok
              /\ discovered' = found /\ UNCHANGED faults
           \/ Return /\ faults < MaxFaults /\ faults' = faults + 1 /\ discovered' = NoOffer
    /\ UNCHANGED <<env, profiles, original, hugePageSize, policyHasVhostnet, drain,
                   sriov, podState, rootless, namespace>>

(* A SriovNetwork has a fixed name: the API server refuses a second one.   *)
DiscoveryNetwork ==
    /\ At("DiscoveryNetwork")
    /\ \/ /\ networks' = networks \union {"dpdk"} /\ UNCHANGED faults
          /\ IF "dpdk" \in networks THEN Fail ELSE Ok
       \/ FailCall /\ networks' \in {networks, networks \union {"dpdk"}}
    /\ UNCHANGED <<env, profile, policies, podState, rootless, namespace>>

-----------------------------------------------------------------------------
(* The performance profile.                                                *)
NoProfiles == [n \in DOMAIN profiles |-> NoProfile]
Deleted(names) == [n \in DOMAIN profiles |-> IF n \in names THEN NoProfile ELSE profiles[n]]

MutOverrideUntil(stage) ==     \* bug: the original is kept once the pool has settled
    LET replaced == named # NoProfile
        cleaned == IF replaced THEN NoProfiles ELSE profiles
    IN  /\ stage \in {"clean", "settle"} => replaced
        /\ original' = IF replaced /\ stage \notin {"pool", "clean", "settle"} THEN named ELSE original
        /\ hugePageSize' \in
              CASE stage \in {"pool", "clean", "settle"} -> {hugePageSize}
                [] stage = "create" -> {hugePageSize, TestPages(env.arch).size}
                [] OTHER -> {TestPages(env.arch).size}
        /\ profiles' \in
              CASE stage = "pool" -> {profiles}
                [] stage = "clean" -> {Deleted(names) : names \in SUBSET DOMAIN profiles}
                [] stage \in {"settle", "create"} -> {cleaned}
                [] OTHER -> {[cleaned EXCEPT !["performance"] = TestProfile(env.arch)]}

(* FindOrOverridePerformanceProfile up to a stage, for a profile that is   *)
(* not there or not valid: get the pool, clean the profiles, let the pool  *)
(* settle, create the test profile, wait for the pool.                     *)
OverrideUntil(stage) ==
    LET replaced == named # NoProfile
        cleaned == IF replaced THEN NoProfiles ELSE profiles
    IN  /\ stage \in {"clean", "settle"} => replaced
        /\ original' = IF replaced /\ stage # "pool" THEN named ELSE original
        /\ hugePageSize' \in
              CASE stage \in {"pool", "clean", "settle"} -> {hugePageSize}
                [] stage = "create" -> {hugePageSize, TestPages(env.arch).size}
                [] OTHER -> {TestPages(env.arch).size}
        /\ profiles' \in
              CASE stage = "pool" -> {profiles}
                [] stage = "clean" -> {Deleted(names) : names \in SUBSET DOMAIN profiles}
                [] stage \in {"settle", "create"} -> {cleaned}
                [] OTHER -> {[cleaned EXCEPT !["performance"] = TestProfile(env.arch)]}

FindOrOverridePerformanceProfile ==
    /\ At("FindOrOverride")
    /\ \/ /\ FailCall \/ (named.cpus = Unparsable /\ Fail /\ UNCHANGED faults)
          /\ UNCHANGED <<profiles, original, hugePageSize>>
       \/ /\ ValidatePerformanceProfile(named)
          /\ OkCall
          /\ hugePageSize' = HugePageSizeOf(named, hugePageSize)
          /\ UNCHANGED <<profiles, original>>
       \/ /\ ~ ValidatePerformanceProfile(named) /\ named.cpus # Unparsable
          /\ \/ OkCall /\ OverrideUntil("done")
             \/ \E stage \in {"pool", "clean", "settle", "create", "wait"} : FailCall /\ OverrideUntil(stage)
    /\ UNCHANGED <<env, discovered, policyHasVhostnet, drain, sriov, podState, rootless, namespace>>

MutRestorePerformanceProfile ==     \* bug: the error of the last calls is dropped
    /\ At("Restore")
    /\ OkCall
    /\ profiles' \in IF original = NoProfile THEN {profiles}
                     ELSE {NoProfiles, [NoProfiles EXCEPT !["performance"] = Bare(original)]}
    /\ original' = Bare(original)
    /\ UNCHANGED <<env, hugePageSize, discovered, policyHasVhostnet, drain,
                   sriov, podState, rootless, namespace>>

(* Every profile is deleted; the original is created without its metadata. *)
(* A failure comes before that, or after OriginalPerformanceProfile has    *)
(* lost the metadata.                                                      *)
RestorePerformanceProfile ==
    /\ At("Restore")
    /\ LET restored == [NoProfiles EXCEPT !["performance"] = Bare(original)]
       IN  IF original = NoProfile THEN OkCall /\ UNCHANGED <<profiles, original>>
           ELSE \/ OkCall /\ profiles' = restored /\ original' = Bare(original)
                \/ /\ FailCall /\ UNCHANGED original
                   /\ profiles' \in {Deleted(names) : names \in SUBSET DOMAIN profiles}
                \/ /\ FailCall /\ original' = Bare(original)
                   /\ profiles' \in {NoProfiles, restored}
    /\ UNCHANGED <<env, hugePageSize, discovered, policyHasVhostnet, drain,
                   sriov, podState, rootless, namespace>>

-----------------------------------------------------------------------------
(* The SR-IOV configuration.                                               *)
FindVhostPolicy ==
    /\ At("FindVhostPolicy")
    /\ \/ OkCall /\ policyHasVhostnet' = (policyHasVhostnet \/ env.vhost)
       \/ FailCall /\ UNCHANGED policyHasVhostnet
    /\ UNCHANGED <<env, profiles, original, hugePageSize, discovered, drain,
                   sriov, podState, rootless, namespace>>

(* The networks go first; policies stay in discovery mode; then WaitStable.*)
CleanSriov ==
    /\ At("CleanSriov")
    /\ \/ /\ OkCall /\ networks' = {}
          /\ policies' = IF env.discovery THEN policies ELSE <<>>
       \/ /\ FailCall
          /\ \/ UNCHANGED <<policies, networks>>
             \/ networks' = {} /\ policies' \in {policies, IF env.discovery THEN policies ELSE <<>>}
    /\ UNCHANGED <<env, profile, podState, rootless, namespace>>

Resources(ctx) ==
    CASE ctx = "rootless" -> <<"dpdknet1", "dpdknet2">>
      [] ctx \in {"split", "downward"} -> <<"dpdknic", "regularnic">>
      [] OTHER -> <<"dpdknic">>

PoliciesOf(ctx) == [i \in DOMAIN Resources(ctx) |-> [ctx |-> ctx, resource |-> Resources(ctx)[i]]]

NetworksOf(ctx) ==
    CASE ctx = "rootless" -> {"dpdk1", "dpdk2"}
      [] ctx \in {"split", "downward"} -> {"dpdk", "regular"}
      [] OTHER -> {"dpdk"}

(* The policies have generated names, one more is never refused; when they *)
(* are stable and the node offers the resources, the networks follow.      *)
CreateSriov ==
    /\ At("CreateSriov")
    /\ \/ /\ policies' = policies \o PoliciesOf(Op.ctx)
          /\ networks' = networks \union NetworksOf(Op.ctx)
          /\ IF networks \intersect NetworksOf(Op.ctx) # {} THEN Fail ELSE Ok
          /\ UNCHANGED faults
       \/ /\ FailCall
          /\ \/ /\ \E n \in 0..Len(PoliciesOf(Op.ctx)) :
                      policies' = policies \o SubSeq(PoliciesOf(Op.ctx), 1, n)
                /\ UNCHANGED networks
             \/ /\ policies' = policies \o PoliciesOf(Op.ctx)
                /\ \E some \in SUBSET NetworksOf(Op.ctx) : networks' = networks \union some
    /\ UNCHANGED <<env, profile, podState, rootless, namespace>>

-----------------------------------------------------------------------------
(* Pods.                                                                   *)
CleanPods ==
    /\ At("CleanPods")
    /\ \/ OkCall /\ pods' = {}
       \/ FailCall /\ pods' \in {pods, {}}
    /\ UNCHANGED <<env, profile, sriov, workload, rootless, namespace>>

NetworkFor(ctx, role) ==
    CASE ctx = "rootless" -> IF role = "tx" THEN "dpdk2" ELSE "dpdk1"
      [] role = "regular" -> "regular"
      [] OTHER -> "dpdk"

(* CreateAndStart returns nil with an error; a pod that does not become    *)
(* ready, as one whose network is missing (external), has been created.    *)
(* The hugepages pod is only created: what follows waits for it.           *)
StartPod ==
    /\ At("StartPod")
    /\ LET started == pods \union {[ctx |-> Op.ctx, role |-> Op.role]}
           Points(to) == workload' = IF Op.role = "server" THEN to ELSE workload
           ready == Op.role = "hugepages" \/ NetworkFor(Op.ctx, Op.role) \in networks
       IN  \/ /\ ready
              /\ OkCall /\ pods' = started /\ Points(Op.ctx)
           \/ /\ ~ ready
              /\ Fail /\ UNCHANGED faults /\ pods' = started /\ Points("nil")
           \/ FailCall /\ pods' \in {pods, started} /\ Points("nil")
    /\ UNCHANGED <<env, profile, sriov, rootless, namespace>>

WorkloadRuns == [ctx |-> workload, role |-> "server"] \in pods

Exec ==
    /\ At("Exec")
    /\ IF WorkloadRuns THEN OkCall \/ FailCall ELSE Fail /\ UNCHANGED faults
    /\ UNCHANGED <<env, profile, sriov, podState, rootless, namespace>>

(* The statistics of testpmd may show packets or none, for reasons outside *)
(* the suite.                                                              *)
Traffic ==
    /\ At("Traffic")
    /\ Ok \/ Fail
    /\ UNCHANGED <<env, profile, sriov, podState, rootless, namespace, faults>>

(* So may what is read in the pod: CPUs, NUMA nodes, pages, addresses.     *)
Check ==
    /\ At("Check")
    /\ Ok \/ Fail
    /\ UNCHANGED <<env, profile, sriov, podState, rootless, namespace, faults>>

DeletePod ==
    /\ At("DeletePod")
    /\ \/ OkCall /\ pods' = {p \in pods : p.role # "hugepages"}
       \/ FailCall /\ UNCHANGED pods
    /\ UNCHANGED <<env, profile, sriov, workload, rootless, namespace>>

-----------------------------------------------------------------------------
(* Rootless vhostnet: the SELinux boolean and the network attachments.     *)
CheckBoolean ==
    /\ At("CheckBoolean")
    /\ \/ OkCall /\ isCUDDisabled' = ~ cud
       \/ FailCall /\ isCUDDisabled' = FALSE
    /\ UNCHANGED <<env, profile, sriov, podState, cud, unsetFailed, nads, nadVars, namespace>>

SetBoolean ==
    /\ At("SetBoolean")
    /\ IF ~ isCUDDisabled THEN OkCall /\ UNCHANGED cud
       ELSE (OkCall /\ cud' = TRUE) \/ (FailCall /\ cud' \in {cud, TRUE})
    /\ UNCHANGED <<env, profile, sriov, podState, isCUDDisabled, unsetFailed, nads, nadVars, namespace>>

UnsetBoolean ==
    /\ At("UnsetBoolean")
    /\ IF ~ isCUDDisabled THEN OkCall /\ UNCHANGED <<cud, unsetFailed>>
       ELSE \/ OkCall /\ cud' = FALSE /\ UNCHANGED unsetFailed
            \/ FailCall /\ UNCHANGED cud /\ unsetFailed' = TRUE
    /\ UNCHANGED <<env, profile, sriov, podState, isCUDDisabled, nads, nadVars, namespace>>

Nads == <<"tap", "vlan100", "vlan200">>

(* Each variable is set before its attachment is created, which it may be  *)
(* although the call fails.                                                *)
CreateNads ==
    /\ At("CreateNads")
    /\ \/ OkCall /\ nads' = Range(Nads) /\ nadVars' = Range(Nads)
       \/ \E n \in DOMAIN Nads :
             /\ FailCall
             /\ \E m \in {n - 1, n} : nads' = nads \union {Nads[i] : i \in 1..m}
             /\ nadVars' = nadVars \union {Nads[i] : i \in 1..n}
    /\ UNCHANGED <<env, profile, sriov, podState, cud, isCUDDisabled, unsetFailed, namespace>>

(* One after the other: a nil variable panics, a missing attachment is an  *)
(* error; any other error leaves those that were to follow.                *)
DeleteNads ==
    /\ At("DeleteNads")
    /\ \/ \E n \in 0..Len(Nads) :
             /\ \A i \in 1..n : Nads[i] \in nadVars \intersect nads
             /\ n < Len(Nads) => Nads[n + 1] \notin nadVars \intersect nads
             /\ nads' = nads \ {Nads[i] : i \in 1..n}
             /\ IF n = Len(Nads) THEN Ok ELSE Fail
             /\ UNCHANGED faults
       \/ \E n \in 0..Len(Nads) :
             /\ FailCall
             /\ \A i \in 1..n : Nads[i] \in nadVars \intersect nads
             /\ nads' = nads \ {Nads[i] : i \in 1..n}
    /\ UNCHANGED <<env, profile, sriov, podState, cud, isCUDDisabled, unsetFailed, nadVars, namespace>>

-----------------------------------------------------------------------------
(* DPDKFixture.Cleanup                                                     *)
DeleteNamespace ==
    /\ At("DeleteNamespace")
    /\ \/ (OkCall \/ FailCall) /\ namespace' = FALSE /\ pods' = {} /\ nads' = {}
       \/ FailCall /\ UNCHANGED <<namespace, pods, nads>>
    /\ UNCHANGED <<env, profile, sriov, workload, cud, isCUDDisabled, unsetFailed, nadVars>>

RunnerGoesOn ==
    /\ RunnerMoves \/ NextSpec
    /\ UNCHANGED <<env, profile, sriov, podState, rootless, namespace, faults>>

Init ==
    /\ RunnerInit
    /\ env \in Envs
    /\ profiles = env.profiles /\ original = NoProfile /\ hugePageSize = ""
    /\ discovered = NoOffer /\ policyHasVhostnet = FALSE
    /\ drain = [enabled |-> TRUE, restore |-> FALSE]
    /\ policies = <<>> /\ networks = {} /\ pods = {} /\ workload = "nil"
    /\ cud = env.cud /\ isCUDDisabled = FALSE /\ unsetFailed = FALSE
    /\ nads = {} /\ nadVars = {} /\ namespace = TRUE /\ faults = 0

SuiteStep ==
    \/ OtherMode \/ Look \/ Skips \/ DrainState \/ DiscoverPerformanceProfiles \/ Discover
    \/ DiscoveryNetwork \/ FindOrOverridePerformanceProfile \/ RestorePerformanceProfile
    \/ FindVhostPolicy \/ CleanSriov \/ CreateSriov \/ CleanPods \/ StartPod \/ Exec \/ Traffic \/ Check
    \/ DeletePod \/ CheckBoolean \/ SetBoolean \/ UnsetBoolean \/ CreateNads \/ DeleteNads
    \/ DeleteNamespace \/ RunnerGoesOn

Ended == Over /\ UNCHANGED vars

Next == SuiteStep \/ Ended

Spec == Init /\ [][Next]_vars
-----------------------------------------------------------------------------
(* The types of the variables of dpdk.go and of what it finds.             *)
TypeOK ==
    /\ hugePageSize \in {"", "1G", "512M"}
    /\ networks \subseteq UNION {NetworksOf(SuitePlan[i].context) : i \in DOMAIN SuitePlan}
    /\ workload \in {"nil"} \union {SuitePlan[i].context : i \in DOMAIN SuitePlan}
    /\ nads \subseteq Range(Nads) /\ nadVars \subseteq Range(Nads)
    /\ faults \in 0..MaxFaults /\ verdict \in Verdicts

Contexts == {"vhostnet", "rootless", "allocated", "split", "vendors", "downward"}
Body == InBody /\ Context \in Contexts

(* Whatever the contexts before left behind or failed to remove, the body  *)
(* of a spec runs on the SR-IOV policies of its own context, each created  *)
(* once over all attempts, on no pod of another one, and with the running  *)
(* server of its own context in dpdkWorkloadPod, which three contexts      *)
(* share and which outlives its pod.  (A vendors spec creates its policies *)
(* in its body; Downward API does not clean pods.  Discovery mode creates  *)
(* no policy and does not clean before a context: there only what is said  *)
(* of dpdkWorkloadPod holds.)                                              *)
OwnConfiguration ==
    /\ Body /\ ~ env.discovery =>
           /\ Context # "vendors" => policies = PoliciesOf(Context) /\ networks = NetworksOf(Context)
           /\ \A p \in pods : p.ctx = Context \/ Context = "downward"
    /\ Body /\ Context \in {"allocated", "split", "downward"} => workload = Context /\ WorkloadRuns

(* While a spec body runs, the profile in use has the CPUs and a pool of   *)
(* the size the pods will ask for.  A 1G pool holds, on one NUMA node and  *)
(* after the kernel has split it, the server, the client and the hugepages *)
(* pod of "Validate HugePages" together.  Of a 512M pool no more can be    *)
(* said than that all of its pages hold one workload pod: the validation   *)
(* does not consider the split (its TODO says so) nor a second pod.        *)
(* (Discovery mode may meet valid profiles of two sizes and remember the   *)
(* size of the one it does not use; nothing is said of that case.)         *)
Chosen == profiles[IF env.discovery THEN discovered.profile ELSE "performance"]
OneSize == \A m, n \in ValidProfiles : HugePageSizeOf(profiles[m], "") = HugePageSizeOf(profiles[n], "")

OnOneNode(page) == IF page.node THEN page.count ELSE page.count \div 2

PagesFit ==
    Body /\ (env.discovery => OneSize) =>
        /\ Chosen.cpus >= 6
        /\ \E page \in Range(Chosen.pages) :
              /\ page.size = hugePageSize
              /\ \/ page.size = "1G" /\ OnOneNode(page) * HalfGi("1G") >= 2 * WorkloadAsks + HugePagesAsks
                 \/ page.size = "512M" /\ page.count * HalfGi("512M") >= WorkloadAsks

(* The spec of the profile an administrator gave the name of the test      *)
(* profile is never lost, whichever attempt at overriding or restoring it  *)
(* fails where: it is in the cluster or in OriginalPerformanceProfile.     *)
(* (Its labels and annotations are lost when it is restored.)              *)
OriginalKept == Found = NoProfile \/ Bare(Found) \in {Bare(named), Bare(original)}

(* What "should restore the cluster to the original status" leaves when it *)
(* passes: no SR-IOV network, policy or pod of the suite, and as profiles  *)
(* the ones found, when the suite replaced none; the ones found and the    *)
(* test profile, when there was none of that name; and otherwise the one   *)
(* found under the name, without its labels and annotations, and no other: *)
(* what CleanPerformanceProfiles deletes beside it is not restored.        *)
Restored ==
    SpecEnds /\ Context = "restoring" /\ verdict = "passed" =>
        /\ networks = {} /\ pods = {} /\ policies = <<>>
        /\ profiles = IF env.discovery \/ ValidatePerformanceProfile(Found) THEN env.profiles
                      ELSE IF Found = NoProfile
                      THEN [env.profiles EXCEPT !["performance"] = TestProfile(env.arch)]
                      ELSE [n \in Names |-> IF n = "performance" THEN Bare(Found) ELSE NoProfile]

(* Outside the rootless spec, the SELinux boolean is as it was, unless the *)
(* call that resets it failed.                                             *)
BooleanRestored == ~ Over /\ Context # "rootless" => cud = env.cud \/ unsetFailed

(* In discovery mode the suite leaves profiles, policies and the SELinux   *)
(* boolean alone, over all specs, retries and clean-ups.                   *)
DiscoveryKeepsConfiguration ==
    env.discovery => profiles = env.profiles /\ policies = <<>> /\ cud = env.cud

(* What the suite found in the cluster and means to give back is not lost  *)
(* on the way, whichever calls fail.                                       *)
FoundIsKept == OriginalKept /\ BooleanRestored /\ DiscoveryKeepsConfiguration

(* "It will return a profile/sriovPolicy for a policy with resource name   *)
(* 'dpdknic', or a pair with the most available resource on node"          *)
(* (pkg/discovery/discovery.go), of a valid profile.  A second attempt     *)
(* keeps to the resource of the first, of which it takes the first node    *)
(* that offers it: the resource is the best one, its node need not be.     *)
DiscoversBest ==
    discovered # NoOffer =>
        LET usable == {o \in Range(env.offers) : o.profile \in ValidProfiles /\ Usable(o)}
        IN  /\ discovered \in usable
            /\ \/ discovered.resource = "dpdknic"
               \/ /\ \A o \in usable : o.resource # "dpdknic"
                  /\ \E o \in usable : /\ o.resource = discovered.resource
                                       /\ \A other \in usable : other.count <= o.count
=============================================================================
