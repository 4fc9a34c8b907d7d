-------------------------- MODULE DpdkSuiteProofs ---------------------------
(***************************************************************************)
(* What the dpdk suite guarantees on every cluster and in both modes,      *)
(* whichever calls to the cluster fail and however many.                   *)
(***************************************************************************)
EXTENDS DpdkSuite, WellFoundedInduction, TLAPS

-----------------------------------------------------------------------------
(* The plan, spec by spec.                                                 *)
LEMMA NodeFields ==
  ASSUME NEW id, NEW level, NEW ops
  PROVE  /\ BeforeEach(level, ops).ops = ops /\ ~ BeforeEach(level, ops).once
         /\ BeforeEach(level, ops).level = level
         /\ BeforeAll(id, level, ops).ops = ops /\ BeforeAll(id, level, ops).once
         /\ BeforeAll(id, level, ops).id = id /\ BeforeAll(id, level, ops).level = level
         /\ It(level, ops).ops = ops /\ ~ It(level, ops).once /\ It(level, ops).level = level
         /\ AfterEach(level, ops).ops = ops /\ AfterEach(level, ops).level = level
  BY DEF BeforeEach, BeforeAll, It, AfterEach, Node

LEMMA SpecFields ==
  ASSUME NEW context, NEW before, NEW it, NEW after
  PROVE  /\ SpecOf(context, before, it, after).context = context
         /\ SpecOf(context, before, it, after).before = Top \o before \o <<it>>
         /\ SpecOf(context, before, it, after).after = after
  BY DEF SpecOf

LEMMA ThePlan ==
  /\ Len(SuitePlan) = 15 /\ DOMAIN SuitePlan = 1..15
  /\ SuitePlan[1] = VhostnetSpecs[1] /\ SuitePlan[2] = VhostnetSpecs[2]
  /\ SuitePlan[3] = RootlessSpecs[1]
  /\ SuitePlan[4] = AllocatedSpecs[1] /\ SuitePlan[5] = AllocatedSpecs[2] /\ SuitePlan[6] = AllocatedSpecs[3]
  /\ SuitePlan[7] = HugePagesSpecs[1] /\ SuitePlan[8] = HugePagesSpecs[2]
  /\ SuitePlan[9] = SplitSpecs[1] /\ SuitePlan[10] = SplitSpecs[2]
  /\ SuitePlan[11] = VendorSpecs[1] /\ SuitePlan[12] = VendorSpecs[2]
  /\ SuitePlan[13] = DownwardSpecs[1] /\ SuitePlan[14] = RestoringSpecs[1]
  /\ SuitePlan[15] = FixtureCleanup[1]
  BY DEF SuitePlan, VhostnetSpecs, RootlessSpecs, AllocatedSpecs, HugePagesSpecs, SplitSpecs,
         VendorSpecs, DownwardSpecs, RestoringSpecs, FixtureCleanup

HasNodes(s, context, nodes, after) ==
    /\ SuitePlan[s].context = context /\ SuitePlan[s].after = after
    /\ Len(SuitePlan[s].before) = Len(nodes)
    /\ \A i \in 1..Len(nodes) : SuitePlan[s].before[i] = nodes[i]

LEMMA PlanNodes ==
  /\ HasNodes(1, "vhostnet", <<Top[1], Top[2], Vhostnet[1], Vhostnet[2], Transmits(<<Start("vhostnet", "tx")>>)>>, <<AfterEach(2, Always(<<"CleanPods">>))>>)
  /\ HasNodes(2, "vhostnet", <<Top[1], Top[2], Vhostnet[1], Vhostnet[2], Transmits(<<Start("vhostnet", "rx"), Start("vhostnet", "tx")>>)>>, <<AfterEach(2, Always(<<"CleanPods">>))>>)
  /\ HasNodes(3, "rootless", <<Top[1], Top[2], Rootless[1], Rootless[2], Transmits(<<Start("rootless", "tx"), Start("rootless", "rx")>>)>>, <<AfterRootless>>)
  /\ HasNodes(4, "allocated", <<Top[1], Top[2], Allocated[1], Transmits(Needed)>>, <<>>)
  /\ HasNodes(5, "allocated", <<Top[1], Top[2], Allocated[1], Numa[1], Numa[2], It(3, Always(<<"Check">>))>>, <<>>)
  /\ HasNodes(6, "allocated", <<Top[1], Top[2], Allocated[1], Numa[1], Numa[2], It(3, Always(<<"Exec", "Check">>))>>, <<>>)
  /\ HasNodes(7, "allocated", <<Top[1], Top[2], Allocated[1], BeforeEach(3, Needed \o Always(<<"Exec">>)), It(3, <<Start("allocated", "hugepages")>> \o Always(<<"Check", "DeletePod">>))>>, <<>>)
  /\ HasNodes(8, "allocated", <<Top[1], Top[2], Allocated[1], BeforeEach(3, Needed), It(3, Always(<<"Exec", "Check">>))>>, <<>>)
  /\ HasNodes(9, "split", <<Top[1], Top[2], Split[1], Split[2], It(2, Needed \o Always(<<"Traffic">>))>>, <<>>)
  /\ HasNodes(10, "split", <<Top[1], Top[2], Split[1], Split[2], It(2, <<Start("split", "regular")>>)>>, <<>>)
  /\ HasNodes(11, "vendors", <<Top[1], Top[2], Vendors[1], Vendors[2], Nic>>, <<>>)
  /\ HasNodes(12, "vendors", <<Top[1], Top[2], Vendors[1], Vendors[2], Nic>>, <<>>)
  /\ HasNodes(13, "downward", <<Top[1], Top[2], Downward[1], It(2, Always(<<"Exec", "Check">>))>>, <<>>)
  /\ HasNodes(14, "restoring", <<Top[1], Top[2], It(2, InCluster(<<"Restore">>) \o Always(Cleaning))>>, <<>>)
  /\ HasNodes(15, "fixture", <<BeforeEach(0, Always(<<"DeleteNamespace">>))>>, <<>>)
<1>1. HasNodes(1, "vhostnet", <<Top[1], Top[2], Vhostnet[1], Vhostnet[2], Transmits(<<Start("vhostnet", "tx")>>)>>, <<AfterEach(2, Always(<<"CleanPods">>))>>)
  BY ThePlan DEF HasNodes, VhostnetSpecs, SpecOf, Top, Vhostnet
<1>2. HasNodes(2, "vhostnet", <<Top[1], Top[2], Vhostnet[1], Vhostnet[2], Transmits(<<Start("vhostnet", "rx"), Start("vhostnet", "tx")>>)>>, <<AfterEach(2, Always(<<"CleanPods">>))>>)
  BY ThePlan DEF HasNodes, VhostnetSpecs, SpecOf, Top, Vhostnet
<1>3. HasNodes(3, "rootless", <<Top[1], Top[2], Rootless[1], Rootless[2], Transmits(<<Start("rootless", "tx"), Start("rootless", "rx")>>)>>, <<AfterRootless>>)
  BY ThePlan DEF HasNodes, RootlessSpecs, SpecOf, Top, Rootless
<1>4. HasNodes(4, "allocated", <<Top[1], Top[2], Allocated[1], Transmits(Needed)>>, <<>>)
  BY ThePlan DEF HasNodes, AllocatedSpecs, SpecOf, Top, Allocated, Numa
<1>5. HasNodes(5, "allocated", <<Top[1], Top[2], Allocated[1], Numa[1], Numa[2], It(3, Always(<<"Check">>))>>, <<>>)
  BY ThePlan DEF HasNodes, AllocatedSpecs, SpecOf, Top, Allocated, Numa
<1>6. HasNodes(6, "allocated", <<Top[1], Top[2], Allocated[1], Numa[1], Numa[2], It(3, Always(<<"Exec", "Check">>))>>, <<>>)
  BY ThePlan DEF HasNodes, AllocatedSpecs, SpecOf, Top, Allocated, Numa
<1>7. HasNodes(7, "allocated", <<Top[1], Top[2], Allocated[1], BeforeEach(3, Needed \o Always(<<"Exec">>)), It(3, <<Start("allocated", "hugepages")>> \o Always(<<"Check", "DeletePod">>))>>, <<>>)
  BY ThePlan DEF HasNodes, HugePagesSpecs, SpecOf, Top, Allocated
<1>8. HasNodes(8, "allocated", <<Top[1], Top[2], Allocated[1], BeforeEach(3, Needed), It(3, Always(<<"Exec", "Check">>))>>, <<>>)
  BY ThePlan DEF HasNodes, HugePagesSpecs, SpecOf, Top, Allocated
<1>9. HasNodes(9, "split", <<Top[1], Top[2], Split[1], Split[2], It(2, Needed \o Always(<<"Traffic">>))>>, <<>>)
  BY ThePlan DEF HasNodes, SplitSpecs, SpecOf, Top, Split
<1>10. HasNodes(10, "split", <<Top[1], Top[2], Split[1], Split[2], It(2, <<Start("split", "regular")>>)>>, <<>>)
  BY ThePlan DEF HasNodes, SplitSpecs, SpecOf, Top, Split
<1>11. HasNodes(11, "vendors", <<Top[1], Top[2], Vendors[1], Vendors[2], Nic>>, <<>>)
  BY ThePlan DEF HasNodes, VendorSpecs, SpecOf, Top, Vendors
<1>12. HasNodes(12, "vendors", <<Top[1], Top[2], Vendors[1], Vendors[2], Nic>>, <<>>)
  BY ThePlan DEF HasNodes, VendorSpecs, SpecOf, Top, Vendors
<1>13. HasNodes(13, "downward", <<Top[1], Top[2], Downward[1], It(2, Always(<<"Exec", "Check">>))>>, <<>>)
  BY ThePlan DEF HasNodes, DownwardSpecs, SpecOf, Top, Downward
<1>14. HasNodes(14, "restoring", <<Top[1], Top[2], It(2, InCluster(<<"Restore">>) \o Always(Cleaning))>>, <<>>)
  BY ThePlan DEF HasNodes, RestoringSpecs, SpecOf, Top
<1>15. HasNodes(15, "fixture", <<BeforeEach(0, Always(<<"DeleteNamespace">>))>>, <<>>)
  BY ThePlan DEF HasNodes, FixtureCleanup
<1> QED
  BY <1>1, <1>2, <1>3, <1>4, <1>5, <1>6, <1>7, <1>8, <1>9, <1>10, <1>11, <1>12, <1>13, <1>14, <1>15

-----------------------------------------------------------------------------
(* The nodes that neither look for a profile, nor skip in discovery mode,  *)
(* nor touch the SELinux boolean, nor configure the cluster in discovery   *)
(* mode.                                                                   *)
Ordinary(op) ==
    /\ op.do \notin {"Skip", "CheckBoolean", "SetBoolean", "UnsetBoolean", "Restore",
                      "FindOrOverride", "DiscoverProfiles", "DiscoverResources"}
    /\ op.do = "CreateSriov" => op.in = "cluster" /\ op.ctx \in Contexts
    /\ op.do = "StartPod" => op.ctx \in Contexts

OrdinaryNode(n) ==
    /\ Len(n.ops) \in Nat \ {0} /\ \A j \in 1..Len(n.ops) : Ordinary(n.ops[j])
    /\ n.id \notin {"rootless", "downward", "top"}

LEMMA OpLists ==
  ASSUME NEW a, NEW b, NEW c
  PROVE  /\ Always(<<a>>) = <<[do |-> a, in |-> "any"]>>
         /\ Always(<<a, b>>) = <<[do |-> a, in |-> "any"], [do |-> b, in |-> "any"]>>
         /\ Always(<<a, b, c>>) = <<[do |-> a, in |-> "any"], [do |-> b, in |-> "any"], [do |-> c, in |-> "any"]>>
         /\ InCluster(<<a>>) = <<[do |-> a, in |-> "cluster"]>>
         /\ InCluster(<<a, b>>) = <<[do |-> a, in |-> "cluster"], [do |-> b, in |-> "cluster"]>>
         /\ InCluster(<<a, b, c>>) = <<[do |-> a, in |-> "cluster"], [do |-> b, in |-> "cluster"], [do |-> c, in |-> "cluster"]>>
         /\ InDiscovery(<<a>>) = <<[do |-> a, in |-> "discovery"]>>
         /\ InDiscovery(<<a, b>>) = <<[do |-> a, in |-> "discovery"], [do |-> b, in |-> "discovery"]>>
         /\ InDiscovery(<<a, b, c>>) = <<[do |-> a, in |-> "discovery"], [do |-> b, in |-> "discovery"], [do |-> c, in |-> "discovery"]>>
  BY DEF Always, InCluster, InDiscovery

LEMMA Vhostnet1Ops ==
  /\ Len(Vhostnet[1].ops) = 4 /\ Vhostnet[1].id = "vhostnet" /\ Vhostnet[1].once
  /\ Vhostnet[1].ops[1].do = "CleanPods" /\ Vhostnet[1].ops[1].in = "cluster"
  /\ Vhostnet[1].ops[2].do = "CleanSriov" /\ Vhostnet[1].ops[2].in = "cluster"
  /\ Vhostnet[1].ops[3].do = "CreateSriov" /\ Vhostnet[1].ops[3].in = "cluster" /\ Vhostnet[1].ops[3].ctx = "vhostnet"
  /\ Vhostnet[1].ops[4].do = "FindVhostPolicy" /\ Vhostnet[1].ops[4].in = "discovery"
<1>1. Vhostnet[1].ops =
         <<[do |-> "CleanPods", in |-> "cluster"], [do |-> "CleanSriov", in |-> "cluster"]>>
      \o <<[do |-> "CreateSriov", in |-> "cluster", ctx |-> "vhostnet"]>>
      \o <<[do |-> "FindVhostPolicy", in |-> "discovery"]>>
  BY OpLists DEF Vhostnet, BeforeAll, Node, Cleaning, Setup
<1>2. Vhostnet[1].id = "vhostnet" /\ Vhostnet[1].once
  BY DEF Vhostnet, BeforeAll, Node
<1> QED
  BY <1>1, <1>2

LEMMA Allocated1Ops ==
  /\ Len(Allocated[1].ops) = 5 /\ Allocated[1].id = "allocated" /\ Allocated[1].once
  /\ Allocated[1].ops[1].do = "CleanPods" /\ Allocated[1].ops[1].in = "cluster"
  /\ Allocated[1].ops[2].do = "CleanSriov" /\ Allocated[1].ops[2].in = "cluster"
  /\ Allocated[1].ops[3].do = "CreateSriov" /\ Allocated[1].ops[3].in = "cluster" /\ Allocated[1].ops[3].ctx = "allocated"
  /\ Allocated[1].ops[4].do = "StartPod" /\ Allocated[1].ops[4].in = "any" /\ Allocated[1].ops[4].ctx = "allocated" /\ Allocated[1].ops[4].role = "server"
  /\ Allocated[1].ops[5].do = "StartPod" /\ Allocated[1].ops[5].in = "any" /\ Allocated[1].ops[5].ctx = "allocated" /\ Allocated[1].ops[5].role = "client"
<1>1. Allocated[1].ops =
         <<[do |-> "CleanPods", in |-> "cluster"], [do |-> "CleanSriov", in |-> "cluster"]>>
      \o <<[do |-> "CreateSriov", in |-> "cluster", ctx |-> "allocated"]>>
      \o <<[do |-> "StartPod", in |-> "any", ctx |-> "allocated", role |-> "server"], [do |-> "StartPod", in |-> "any", ctx |-> "allocated", role |-> "client"]>>
  BY OpLists DEF Allocated, BeforeAll, Node, Cleaning, Setup, Workloads, Start
<1>2. Allocated[1].id = "allocated" /\ Allocated[1].once
  BY DEF Allocated, BeforeAll, Node
<1> QED
  BY <1>1, <1>2

LEMMA OrdinaryNodes ==
  /\ OrdinaryNode(Top[2])
  /\ OrdinaryNode(Vhostnet[1])
  /\ OrdinaryNode(Vhostnet[2])
  /\ OrdinaryNode(Transmits(<<Start("vhostnet", "tx")>>))
  /\ OrdinaryNode(AfterEach(2, Always(<<"CleanPods">>)))
  /\ OrdinaryNode(Transmits(<<Start("vhostnet", "rx"), Start("vhostnet", "tx")>>))
  /\ OrdinaryNode(Transmits(<<Start("rootless", "tx"), Start("rootless", "rx")>>))
  /\ OrdinaryNode(Allocated[1])
  /\ OrdinaryNode(Transmits(Needed))
  /\ OrdinaryNode(Numa[1])
  /\ OrdinaryNode(Numa[2])
  /\ OrdinaryNode(It(3, Always(<<"Check">>)))
  /\ OrdinaryNode(It(3, Always(<<"Exec", "Check">>)))
  /\ OrdinaryNode(BeforeEach(3, Needed \o Always(<<"Exec">>)))
  /\ OrdinaryNode(It(3, <<Start("allocated", "hugepages")>> \o Always(<<"Check", "DeletePod">>)))
  /\ OrdinaryNode(BeforeEach(3, Needed))
  /\ OrdinaryNode(It(2, Needed \o Always(<<"Traffic">>)))
  /\ OrdinaryNode(It(2, <<Start("split", "regular")>>))
  /\ OrdinaryNode(Vendors[1])
  /\ OrdinaryNode(It(2, Always(<<"Exec", "Check">>)))
  /\ OrdinaryNode(BeforeEach(0, Always(<<"DeleteNamespace">>)))
<1> USE DEF OrdinaryNode, Ordinary, Always, InCluster, InDiscovery, Contexts, Node
<1>2. OrdinaryNode(Top[2])
  BY DEF Top, BeforeEach
<1>3. OrdinaryNode(Vhostnet[1])
  BY Vhostnet1Ops
<1>4. OrdinaryNode(Vhostnet[2])
  BY DEF Vhostnet, BeforeEach
<1>5. OrdinaryNode(Transmits(<<Start("vhostnet", "tx")>>))
  BY DEF Transmits, Start, It
<1>6. OrdinaryNode(AfterEach(2, Always(<<"CleanPods">>)))
  BY DEF AfterEach
<1>7. OrdinaryNode(Transmits(<<Start("vhostnet", "rx"), Start("vhostnet", "tx")>>))
  BY DEF Transmits, Start, It
<1>8. OrdinaryNode(Transmits(<<Start("rootless", "tx"), Start("rootless", "rx")>>))
  BY DEF Transmits, Start, It
<1>9. OrdinaryNode(Allocated[1])
  BY Allocated1Ops
<1>10. OrdinaryNode(Transmits(Needed))
  BY DEF Transmits, Needed, It
<1>11. OrdinaryNode(Numa[1])
  BY DEF Numa, Needed, BeforeEach
<1>12. OrdinaryNode(Numa[2])
  BY DEF Numa, BeforeAll
<1>13. OrdinaryNode(It(3, Always(<<"Check">>)))
  BY DEF It
<1>14. OrdinaryNode(It(3, Always(<<"Exec", "Check">>)))
  BY DEF It
<1>15. OrdinaryNode(BeforeEach(3, Needed \o Always(<<"Exec">>)))
  BY DEF Needed, BeforeEach
<1>16. OrdinaryNode(It(3, <<Start("allocated", "hugepages")>> \o Always(<<"Check", "DeletePod">>)))
  BY DEF Start, It
<1>17. OrdinaryNode(BeforeEach(3, Needed))
  BY DEF Needed, BeforeEach
<1>18. OrdinaryNode(It(2, Needed \o Always(<<"Traffic">>)))
  BY DEF Needed, It
<1>19. OrdinaryNode(It(2, <<Start("split", "regular")>>))
  BY DEF Start, It
<1>20. OrdinaryNode(Vendors[1])
  BY DEF Vendors, BeforeAll
<1>21. OrdinaryNode(It(2, Always(<<"Exec", "Check">>)))
  BY DEF It
<1>22. OrdinaryNode(BeforeEach(0, Always(<<"DeleteNamespace">>)))
  BY DEF BeforeEach
<1> HIDE DEF OrdinaryNode
<1> QED
  BY <1>2, <1>3, <1>4, <1>5, <1>6, <1>7, <1>8, <1>9, <1>10, <1>11, <1>12, <1>13, <1>14, <1>15, <1>16, <1>17, <1>18, <1>19, <1>20, <1>21, <1>22

(* The other nodes.                                                        *)
Restoring == It(2, InCluster(<<"Restore">>) \o Always(Cleaning))

LEMMA Top1Ops ==
  /\ Len(Top[1].ops) = 7
  /\ Top[1].ops[1].do = "DrainState" /\ Top[1].ops[1].in = "any"
  /\ Top[1].ops[2].do = "CreateNamespace" /\ Top[1].ops[2].in = "any"
  /\ Top[1].ops[3].do = "DiscoverProfiles" /\ Top[1].ops[3].in = "discovery"
  /\ Top[1].ops[4].do = "DiscoverResources" /\ Top[1].ops[4].in = "discovery"
  /\ Top[1].ops[5].do = "DiscoveryNetwork" /\ Top[1].ops[5].in = "discovery"
  /\ Top[1].ops[6].do = "FindOrOverride" /\ Top[1].ops[6].in = "cluster"
  /\ Top[1].ops[7].do = "ExpectHugePageSize" /\ Top[1].ops[7].in = "any"
<1>1. Top[1].ops =
         <<[do |-> "DrainState", in |-> "any"], [do |-> "CreateNamespace", in |-> "any"]>>
      \o <<[do |-> "DiscoverProfiles", in |-> "discovery"], [do |-> "DiscoverResources", in |-> "discovery"], [do |-> "DiscoveryNetwork", in |-> "discovery"]>>
      \o <<[do |-> "FindOrOverride", in |-> "cluster"]>>
      \o <<[do |-> "ExpectHugePageSize", in |-> "any"]>>
  BY OpLists DEF Top, BeforeAll, Node
<1> QED
  BY <1>1

LEMMA Top1Node == Top[1].once /\ Top[1].id = "top"
  BY DEF Top, BeforeAll, Node

LEMMA Top2Ops ==
  /\ Len(Top[2].ops) = 1 /\ ~ Top[2].once
  /\ Top[2].ops[1].do = "SkipUndiscovered" /\ Top[2].ops[1].in = "discovery"
<1>1. Top[2].ops = <<[do |-> "SkipUndiscovered", in |-> "discovery"]>>
  BY OpLists DEF Top, BeforeEach, Node
<1>2. ~ Top[2].once
  BY DEF Top, BeforeEach, Node
<1> QED
  BY <1>1, <1>2

LEMMA Rootless1Ops ==
  /\ Len(Rootless[1].ops) = 4
  /\ Rootless[1].ops[1].do = "Skip" /\ Rootless[1].ops[1].in = "discovery"
  /\ Rootless[1].ops[2].do = "CleanPods" /\ Rootless[1].ops[2].in = "any"
  /\ Rootless[1].ops[3].do = "CleanSriov" /\ Rootless[1].ops[3].in = "any"
  /\ Rootless[1].ops[4].do = "FindDevice" /\ Rootless[1].ops[4].in = "any"
<1>1. Rootless[1].ops =
         <<[do |-> "Skip", in |-> "discovery"]>>
      \o <<[do |-> "CleanPods", in |-> "any"], [do |-> "CleanSriov", in |-> "any"]>>
      \o <<[do |-> "FindDevice", in |-> "any"]>>
  BY OpLists DEF Rootless, BeforeAll, Node, Cleaning
<1> QED
  BY <1>1

LEMMA Rootless1Node == Rootless[1].once /\ Rootless[1].id = "rootless"
  BY DEF Rootless, BeforeAll, Node

LEMMA Rootless2Ops ==
  /\ Len(Rootless[2].ops) = 4
  /\ Rootless[2].ops[1].do = "CheckBoolean" /\ Rootless[2].ops[1].in = "any"
  /\ Rootless[2].ops[2].do = "SetBoolean" /\ Rootless[2].ops[2].in = "any"
  /\ Rootless[2].ops[3].do = "CreateSriov" /\ Rootless[2].ops[3].in = "any" /\ Rootless[2].ops[3].ctx = "rootless"
  /\ Rootless[2].ops[4].do = "CreateNads" /\ Rootless[2].ops[4].in = "any"
<1>1. Rootless[2].ops =
         <<[do |-> "CheckBoolean", in |-> "any"], [do |-> "SetBoolean", in |-> "any"]>>
      \o <<[do |-> "CreateSriov", in |-> "any", ctx |-> "rootless"]>>
      \o <<[do |-> "CreateNads", in |-> "any"]>>
  BY OpLists DEF Rootless, BeforeEach, Node, Setup
<1> QED
  BY <1>1

LEMMA Rootless2Node == ~ Rootless[2].once /\ Rootless[2].level = 2
  BY DEF Rootless, BeforeEach, Node

LEMMA AfterRootlessOps ==
  /\ Len(AfterRootless.ops) = 4
  /\ AfterRootless.ops[1].do = "UnsetBoolean" /\ AfterRootless.ops[1].in = "any"
  /\ AfterRootless.ops[2].do = "CleanPods" /\ AfterRootless.ops[2].in = "any"
  /\ AfterRootless.ops[3].do = "CleanSriov" /\ AfterRootless.ops[3].in = "any"
  /\ AfterRootless.ops[4].do = "DeleteNads" /\ AfterRootless.ops[4].in = "any"
<1>1. AfterRootless.ops =
         <<[do |-> "UnsetBoolean", in |-> "any"]>>
      \o <<[do |-> "CleanPods", in |-> "any"], [do |-> "CleanSriov", in |-> "any"]>>
      \o <<[do |-> "DeleteNads", in |-> "any"]>>
  BY OpLists DEF AfterRootless, AfterEach, Node, Cleaning
<1> QED
  BY <1>1

LEMMA AfterRootlessNode == AfterRootless.level = 2
  BY DEF AfterRootless, AfterEach, Node

LEMMA Split1Ops ==
  /\ Len(Split[1].ops) = 1
  /\ Split[1].ops[1].do = "Skip" /\ Split[1].ops[1].in = "discovery"
<1>1. Split[1].ops =
         <<[do |-> "Skip", in |-> "discovery"]>>
  BY OpLists DEF Split, BeforeEach, Node
<1> QED
  BY <1>1

LEMMA Split1Node == ~ Split[1].once
  BY DEF Split, BeforeEach, Node

LEMMA Split2Ops ==
  /\ Len(Split[2].ops) = 5
  /\ Split[2].ops[1].do = "CleanPods" /\ Split[2].ops[1].in = "any"
  /\ Split[2].ops[2].do = "CleanSriov" /\ Split[2].ops[2].in = "any"
  /\ Split[2].ops[3].do = "CreateSriov" /\ Split[2].ops[3].in = "any" /\ Split[2].ops[3].ctx = "split"
  /\ Split[2].ops[4].do = "StartPod" /\ Split[2].ops[4].in = "any" /\ Split[2].ops[4].ctx = "split" /\ Split[2].ops[4].role = "server"
  /\ Split[2].ops[5].do = "StartPod" /\ Split[2].ops[5].in = "any" /\ Split[2].ops[5].ctx = "split" /\ Split[2].ops[5].role = "client"
<1>1. Split[2].ops =
         <<[do |-> "CleanPods", in |-> "any"], [do |-> "CleanSriov", in |-> "any"]>>
      \o <<[do |-> "CreateSriov", in |-> "any", ctx |-> "split"]>>
      \o <<[do |-> "StartPod", in |-> "any", ctx |-> "split", role |-> "server"], [do |-> "StartPod", in |-> "any", ctx |-> "split", role |-> "client"]>>
  BY OpLists DEF Split, BeforeAll, Node, Cleaning, Setup, Workloads, Start
<1> QED
  BY <1>1

LEMMA Split2Node == Split[2].once /\ Split[2].id = "split"
  BY DEF Split, BeforeAll, Node

LEMMA Vendors2Ops ==
  /\ Len(Vendors[2].ops) = 3
  /\ Vendors[2].ops[1].do = "Skip" /\ Vendors[2].ops[1].in = "discovery"
  /\ Vendors[2].ops[2].do = "CleanPods" /\ Vendors[2].ops[2].in = "any"
  /\ Vendors[2].ops[3].do = "CleanSriov" /\ Vendors[2].ops[3].in = "any"
<1>1. Vendors[2].ops =
         <<[do |-> "Skip", in |-> "discovery"]>>
      \o <<[do |-> "CleanPods", in |-> "any"], [do |-> "CleanSriov", in |-> "any"]>>
  BY OpLists DEF Vendors, BeforeEach, Node, Cleaning
<1> QED
  BY <1>1

LEMMA Vendors2Node == ~ Vendors[2].once
  BY DEF Vendors, BeforeEach, Node

LEMMA NicOps ==
  /\ Len(Nic.ops) = 4
  /\ Nic.ops[1].do = "FindNic" /\ Nic.ops[1].in = "any"
  /\ Nic.ops[2].do = "CreateSriov" /\ Nic.ops[2].in = "any" /\ Nic.ops[2].ctx = "vendors"
  /\ Nic.ops[3].do = "StartPod" /\ Nic.ops[3].in = "any" /\ Nic.ops[3].ctx = "vendors" /\ Nic.ops[3].role = "tx"
  /\ Nic.ops[4].do = "Traffic" /\ Nic.ops[4].in = "any"
<1>1. Nic.ops =
         <<[do |-> "FindNic", in |-> "any"]>>
      \o <<[do |-> "CreateSriov", in |-> "any", ctx |-> "vendors"]>>
      \o <<[do |-> "StartPod", in |-> "any", ctx |-> "vendors", role |-> "tx"]>>
      \o <<[do |-> "Traffic", in |-> "any"]>>
  BY OpLists DEF Nic, It, Node, Setup, Start
<1> QED
  BY <1>1

LEMMA NicNode == ~ Nic.once
  BY DEF Nic, It, Node

LEMMA Downward1Ops ==
  /\ Len(Downward[1].ops) = 5
  /\ Downward[1].ops[1].do = "Skip" /\ Downward[1].ops[1].in = "discovery"
  /\ Downward[1].ops[2].do = "CleanSriov" /\ Downward[1].ops[2].in = "any"
  /\ Downward[1].ops[3].do = "CreateSriov" /\ Downward[1].ops[3].in = "any" /\ Downward[1].ops[3].ctx = "downward"
  /\ Downward[1].ops[4].do = "StartPod" /\ Downward[1].ops[4].in = "any" /\ Downward[1].ops[4].ctx = "downward" /\ Downward[1].ops[4].role = "server"
  /\ Downward[1].ops[5].do = "StartPod" /\ Downward[1].ops[5].in = "any" /\ Downward[1].ops[5].ctx = "downward" /\ Downward[1].ops[5].role = "client"
<1>1. Downward[1].ops =
         <<[do |-> "Skip", in |-> "discovery"]>>
      \o <<[do |-> "CleanSriov", in |-> "any"]>>
      \o <<[do |-> "CreateSriov", in |-> "any", ctx |-> "downward"]>>
      \o <<[do |-> "StartPod", in |-> "any", ctx |-> "downward", role |-> "server"], [do |-> "StartPod", in |-> "any", ctx |-> "downward", role |-> "client"]>>
  BY OpLists DEF Downward, BeforeAll, Node, Setup, Workloads, Start
<1> QED
  BY <1>1

LEMMA Downward1Node == Downward[1].once /\ Downward[1].id = "downward"
  BY DEF Downward, BeforeAll, Node

LEMMA RestoringOps ==
  /\ Len(Restoring.ops) = 3
  /\ Restoring.ops[1].do = "Restore" /\ Restoring.ops[1].in = "cluster"
  /\ Restoring.ops[2].do = "CleanPods" /\ Restoring.ops[2].in = "any"
  /\ Restoring.ops[3].do = "CleanSriov" /\ Restoring.ops[3].in = "any"
<1>1. Restoring.ops =
         <<[do |-> "Restore", in |-> "cluster"]>>
      \o <<[do |-> "CleanPods", in |-> "any"], [do |-> "CleanSriov", in |-> "any"]>>
  BY OpLists DEF Restoring, It, Node, Cleaning
<1> QED
  BY <1>1

LEMMA RestoringNode == ~ Restoring.once
  BY DEF Restoring, It, Node

-----------------------------------------------------------------------------
(* Where the other nodes are.                                              *)
Other(s, i, n) ==
    \/ s \in 1..14 /\ i = 1 /\ n = Top[1]
    \/ s = 3 /\ i = 3 /\ n = Rootless[1]
    \/ s = 3 /\ i = 4 /\ n = Rootless[2]
    \/ s \in {9, 10} /\ i = 3 /\ n = Split[1]
    \/ s \in {9, 10} /\ i = 4 /\ n = Split[2]
    \/ s \in {11, 12} /\ i = 4 /\ n = Vendors[2]
    \/ s \in {11, 12} /\ i = 5 /\ n = Nic
    \/ s = 13 /\ i = 3 /\ n = Downward[1]
    \/ s = 14 /\ i = 3 /\ n = Restoring

LEMMA NodeAt ==
  ASSUME NEW s \in 1..15, NEW i \in 1..Len(SuitePlan[s].before)
  PROVE  OrdinaryNode(SuitePlan[s].before[i]) \/ Other(s, i, SuitePlan[s].before[i])
<1>1. CASE s = 1
  <2>1. HasNodes(1, "vhostnet", <<Top[1], Top[2], Vhostnet[1], Vhostnet[2], Transmits(<<Start("vhostnet", "tx")>>)>>, <<AfterEach(2, Always(<<"CleanPods">>))>>)
    BY PlanNodes
  <2> QED
    BY <1>1, <2>1, OrdinaryNodes DEF HasNodes, Other, Restoring
<1>2. CASE s = 2
  <2>1. HasNodes(2, "vhostnet", <<Top[1], Top[2], Vhostnet[1], Vhostnet[2], Transmits(<<Start("vhostnet", "rx"), Start("vhostnet", "tx")>>)>>, <<AfterEach(2, Always(<<"CleanPods">>))>>)
    BY PlanNodes
  <2> QED
    BY <1>2, <2>1, OrdinaryNodes DEF HasNodes, Other, Restoring
<1>3. CASE s = 3
  <2>1. HasNodes(3, "rootless", <<Top[1], Top[2], Rootless[1], Rootless[2], Transmits(<<Start("rootless", "tx"), Start("rootless", "rx")>>)>>, <<AfterRootless>>)
    BY PlanNodes
  <2> QED
    BY <1>3, <2>1, OrdinaryNodes DEF HasNodes, Other, Restoring
<1>4. CASE s = 4
  <2>1. HasNodes(4, "allocated", <<Top[1], Top[2], Allocated[1], Transmits(Needed)>>, <<>>)
    BY PlanNodes
  <2> QED
    BY <1>4, <2>1, OrdinaryNodes DEF HasNodes, Other, Restoring
<1>5. CASE s = 5
  <2>1. HasNodes(5, "allocated", <<Top[1], Top[2], Allocated[1], Numa[1], Numa[2], It(3, Always(<<"Check">>))>>, <<>>)
    BY PlanNodes
  <2> QED
    BY <1>5, <2>1, OrdinaryNodes DEF HasNodes, Other, Restoring
<1>6. CASE s = 6
  <2>1. HasNodes(6, "allocated", <<Top[1], Top[2], Allocated[1], Numa[1], Numa[2], It(3, Always(<<"Exec", "Check">>))>>, <<>>)
    BY PlanNodes
  <2> QED
    BY <1>6, <2>1, OrdinaryNodes DEF HasNodes, Other, Restoring
<1>7. CASE s = 7
  <2>1. HasNodes(7, "allocated", <<Top[1], Top[2], Allocated[1], BeforeEach(3, Needed \o Always(<<"Exec">>)), It(3, <<Start("allocated", "hugepages")>> \o Always(<<"Check", "DeletePod">>))>>, <<>>)
    BY PlanNodes
  <2> QED
    BY <1>7, <2>1, OrdinaryNodes DEF HasNodes, Other, Restoring
<1>8. CASE s = 8
  <2>1. HasNodes(8, "allocated", <<Top[1], Top[2], Allocated[1], BeforeEach(3, Needed), It(3, Always(<<"Exec", "Check">>))>>, <<>>)
    BY PlanNodes
  <2> QED
    BY <1>8, <2>1, OrdinaryNodes DEF HasNodes, Other, Restoring
<1>9. CASE s = 9
  <2>1. HasNodes(9, "split", <<Top[1], Top[2], Split[1], Split[2], It(2, Needed \o Always(<<"Traffic">>))>>, <<>>)
    BY PlanNodes
  <2> QED
    BY <1>9, <2>1, OrdinaryNodes DEF HasNodes, Other, Restoring
<1>10. CASE s = 10
  <2>1. HasNodes(10, "split", <<Top[1], Top[2], Split[1], Split[2], It(2, <<Start("split", "regular")>>)>>, <<>>)
    BY PlanNodes
  <2> QED
    BY <1>10, <2>1, OrdinaryNodes DEF HasNodes, Other, Restoring
<1>11. CASE s = 11
  <2>1. HasNodes(11, "vendors", <<Top[1], Top[2], Vendors[1], Vendors[2], Nic>>, <<>>)
    BY PlanNodes
  <2> QED
    BY <1>11, <2>1, OrdinaryNodes DEF HasNodes, Other, Restoring
<1>12. CASE s = 12
  <2>1. HasNodes(12, "vendors", <<Top[1], Top[2], Vendors[1], Vendors[2], Nic>>, <<>>)
    BY PlanNodes
  <2> QED
    BY <1>12, <2>1, OrdinaryNodes DEF HasNodes, Other, Restoring
<1>13. CASE s = 13
  <2>1. HasNodes(13, "downward", <<Top[1], Top[2], Downward[1], It(2, Always(<<"Exec", "Check">>))>>, <<>>)
    BY PlanNodes
  <2> QED
    BY <1>13, <2>1, OrdinaryNodes DEF HasNodes, Other, Restoring
<1>14. CASE s = 14
  <2>1. HasNodes(14, "restoring", <<Top[1], Top[2], It(2, InCluster(<<"Restore">>) \o Always(Cleaning))>>, <<>>)
    BY PlanNodes
  <2> QED
    BY <1>14, <2>1, OrdinaryNodes DEF HasNodes, Other, Restoring
<1>15. CASE s = 15
  <2>1. HasNodes(15, "fixture", <<BeforeEach(0, Always(<<"DeleteNamespace">>))>>, <<>>)
    BY PlanNodes
  <2> QED
    BY <1>15, <2>1, OrdinaryNodes DEF HasNodes, Other, Restoring
<1> QED
  BY <1>1, <1>2, <1>3, <1>4, <1>5, <1>6, <1>7, <1>8, <1>9, <1>10, <1>11, <1>12, <1>13, <1>14, <1>15

LEMMA NodesThere ==
  /\ SuitePlan[3].before[3] = Rootless[1] /\ SuitePlan[3].before[4] = Rootless[2]
  /\ SuitePlan[3].before[5] = Transmits(<<Start("rootless", "tx"), Start("rootless", "rx")>>)
  /\ Len(SuitePlan[3].before) = 5
  /\ SuitePlan[9].before[3] = Split[1] /\ SuitePlan[10].before[3] = Split[1]
  /\ SuitePlan[11].before[4] = Vendors[2] /\ SuitePlan[12].before[4] = Vendors[2]
  /\ SuitePlan[13].before[3] = Downward[1]
  /\ SuitePlan[14].before[3] = Restoring /\ Len(SuitePlan[14].before) = 3
  /\ \A s \in {9, 10, 11, 12} : Len(SuitePlan[s].before) = 5
  /\ Len(SuitePlan[13].before) = 4
<1> USE PlanNodes DEF HasNodes
<1>1. /\ SuitePlan[3].before[3] = Rootless[1] /\ SuitePlan[3].before[4] = Rootless[2]
      /\ SuitePlan[3].before[5] = Transmits(<<Start("rootless", "tx"), Start("rootless", "rx")>>)
      /\ Len(SuitePlan[3].before) = 5
  OBVIOUS
<1>2. SuitePlan[9].before[3] = Split[1] /\ SuitePlan[10].before[3] = Split[1]
  OBVIOUS
<1>3. SuitePlan[11].before[4] = Vendors[2] /\ SuitePlan[12].before[4] = Vendors[2]
  OBVIOUS
<1>4. SuitePlan[13].before[3] = Downward[1] /\ Len(SuitePlan[13].before) = 4
  OBVIOUS
<1>5. SuitePlan[14].before[3] = Restoring /\ Len(SuitePlan[14].before) = 3
  BY DEF Restoring
<1>6. \A s \in {9, 10, 11, 12} : Len(SuitePlan[s].before) = 5
  OBVIOUS
<1> QED
  BY <1>1, <1>2, <1>3, <1>4, <1>5, <1>6

LEMMA AfterNodes ==
  ASSUME NEW s \in 1..15
  PROVE  /\ s \in {1, 2, 3} => Len(SuitePlan[s].after) = 1
         /\ s \in {1, 2} => OrdinaryNode(SuitePlan[s].after[1])
         /\ s = 3 => SuitePlan[s].after[1] = AfterRootless
         /\ s \notin {1, 2, 3} => Len(SuitePlan[s].after) = 0
<1>1. /\ SuitePlan[1].after = <<AfterEach(2, Always(<<"CleanPods">>))>>
      /\ SuitePlan[2].after = <<AfterEach(2, Always(<<"CleanPods">>))>>
      /\ SuitePlan[3].after = <<AfterRootless>>
      /\ s \notin {1, 2, 3} => SuitePlan[s].after = <<>>
  BY PlanNodes DEF HasNodes
<1> QED
  BY <1>1, OrdinaryNodes

LEMMA PlanContexts ==
  /\ \A s \in 1..15 : SuitePlan[s].context = "rootless" <=> s = 3
  /\ \A s \in 1..15 : SuitePlan[s].context = "restoring" <=> s = 14
  /\ Contexts \subseteq {SuitePlan[s].context : s \in 1..15}
  BY PlanNodes DEF HasNodes, Contexts

LEMMA OtherNodes ==
  ASSUME NEW s, NEW i, NEW n, Other(s, i, n)
  PROVE  Len(n.ops) \in Nat \ {0}
  BY Top1Ops, Rootless1Ops, Rootless2Ops, Split1Ops, Split2Ops, Vendors2Ops, NicOps,
     Downward1Ops, RestoringOps DEF Other

-----------------------------------------------------------------------------
(* The inductive invariant.  Where the suite is: an operation of a node of *)
(* a spec.                                                                 *)
RunInv ==
    /\ spec \in Nat \ {0} /\ phase \in {"before", "after"}
    /\ node \in Nat \ {0} /\ step \in Nat \ {0} /\ verdict \in Verdicts
    /\ ~ Over /\ node <= Len(Nodes) => step <= Len(Current.ops)

EnvInv == env \in Envs /\ DOMAIN profiles = Names

(* The profile under the name of the test profile is the one found, with   *)
(* or without its metadata, none, or the test profile.  The spec of the    *)
(* one found is kept; nothing is deleted when there is none, or a valid    *)
(* one.                                                                    *)
WithTest == [env.profiles EXCEPT !["performance"] = TestProfile(env.arch)]

OrigInv ==
    /\ named \in {Found, Bare(Found), NoProfile, TestProfile(env.arch)}
    /\ original \in {NoProfile, Found, Bare(Found)}
    /\ OriginalKept
    /\ ValidatePerformanceProfile(Found) => original = NoProfile /\ profiles = env.profiles
    /\ Found = NoProfile => original = NoProfile /\ profiles \in {env.profiles, WithTest}

(* The SELinux boolean can only be set between SetBoolean and the first    *)
(* operation of the AfterEach node, which is sure to be performed, and     *)
(* isCUDDisabled remembers that it was not.                                *)
MayBeSet ==
    /\ spec = 3
    /\ \/ phase = "before" /\ (node > 4 \/ (node = 4 /\ step > 2))
       \/ phase = "after" /\ node = 1 /\ step = 1 /\ 2 <= reached

BoolInv ==
    ~ unsetFailed => /\ isCUDDisabled => ~ env.cud
                     /\ cud = env.cud \/ (isCUDDisabled /\ MayBeSet)

(* In discovery mode the contexts that configure the cluster do not get    *)
(* past the operation that skips.                                          *)
Before(n) == node < n \/ (node = n /\ step = 1)

DiscInv ==
    env.discovery =>
        /\ profiles = env.profiles /\ original = NoProfile
        /\ policies = <<>> /\ cud = env.cud /\ ~ isCUDDisabled
        /\ "rootless" \notin done /\ "downward" \notin done
        /\ phase = "before" /\ spec \in {3, 9, 10, 13} => Before(3)
        /\ phase = "before" /\ spec \in {11, 12} => Before(4)

(* How far "restoring configuration" has come.                             *)
Past(k) == phase = "after" \/ node > 3 \/ (node = 3 /\ step > k)

OnlyFound == [n \in Names |-> IF n = "performance" THEN Bare(Found) ELSE NoProfile]
Given == original # NoProfile => profiles = OnlyFound

RestoreInv ==
    spec = 14 /\ verdict = "passed" =>
        /\ Past(1) => Given
        /\ Past(2) => pods = {}
        /\ Past(3) => networks = {} /\ policies = <<>>

BoolTypes == cud \in BOOLEAN /\ isCUDDisabled \in BOOLEAN /\ unsetFailed \in BOOLEAN

Inv == RunInv /\ EnvInv /\ OrigInv /\ BoolTypes /\ BoolInv /\ DiscInv /\ RestoreInv
-----------------------------------------------------------------------------
(* The runner.                                                             *)
LEMMA NodeIs ==
  ASSUME NEW s \in 1..15, NEW ph \in {"before", "after"}, NEW i \in 1..Len(SuitePlan[s][ph])
  PROVE  \/ OrdinaryNode(SuitePlan[s][ph][i])
         \/ ph = "before" /\ Other(s, i, SuitePlan[s][ph][i])
         \/ s = 3 /\ ph = "after" /\ i = 1 /\ SuitePlan[s][ph][i] = AfterRootless
<1>1. CASE ph = "before"
  BY <1>1, NodeAt
<1>2. CASE ph = "after"
  <2>1. SuitePlan[s][ph] = SuitePlan[s].after
    BY <1>2
  <2>2. /\ s \in {1, 2, 3} => Len(SuitePlan[s][ph]) = 1
        /\ s \notin {1, 2, 3} => Len(SuitePlan[s][ph]) = 0
    BY <2>1, AfterNodes
  <2>3. s \in {1, 2, 3} /\ i = 1
    <3> DEFINE n == Len(SuitePlan[s][ph])
    <3>1. i \in 1..n /\ (s \in {1, 2, 3} => n = 1) /\ (s \notin {1, 2, 3} => n = 0)
      BY <2>2
    <3> HIDE DEF n
    <3> QED
      BY <3>1
  <2> QED
    BY <1>2, <2>1, <2>3, AfterNodes
<1> QED
  BY <1>1, <1>2

LEMMA OpsThere ==
  ASSUME NEW s \in 1..15, NEW ph \in {"before", "after"}, NEW i \in 1..Len(SuitePlan[s][ph])
  PROVE  Len(SuitePlan[s][ph][i].ops) \in Nat \ {0}
<1>1. CASE OrdinaryNode(SuitePlan[s][ph][i])
  BY <1>1 DEF OrdinaryNode
<1>2. CASE Other(s, i, SuitePlan[s][ph][i])
  BY <1>2, OtherNodes
<1>3. CASE SuitePlan[s][ph][i] = AfterRootless
  BY <1>3, AfterRootlessOps
<1> QED
  BY <1>1, <1>2, <1>3, NodeIs

LEMMA NodeCounts ==
  ASSUME NEW s \in 1..15, NEW ph \in {"before", "after"}
  PROVE  Len(SuitePlan[s][ph]) \in Nat
<1>1. CASE ph = "before"
  BY <1>1, PlanNodes DEF HasNodes
<1>2. CASE ph = "after"
  BY <1>2, AfterNodes
<1> QED
  BY <1>1, <1>2

Runs(s, ph, n, k) ==
    s > 0 /\ s <= Len(SuitePlan) /\ n <= Len(SuitePlan[s][ph]) => k <= Len(SuitePlan[s][ph][n].ops)

LEMMA FirstStep ==
  ASSUME NEW s \in Nat \ {0}, NEW ph \in {"before", "after"}, NEW n \in Nat \ {0}
  PROVE  Runs(s, ph, n, 1)
<1> SUFFICES ASSUME s <= 15, n <= Len(SuitePlan[s][ph])
             PROVE  1 <= Len(SuitePlan[s][ph][n].ops)
  BY ThePlan DEF Runs
<1>1. s \in 1..15
  OBVIOUS
<1>2. Len(SuitePlan[s][ph]) \in Nat
  BY <1>1, NodeCounts
<1>3. n \in 1..Len(SuitePlan[s][ph])
  BY <1>2
<1>4. Len(SuitePlan[s][ph][n].ops) \in Nat \ {0}
  BY <1>1, <1>3, OpsThere
<1> QED
  BY <1>4

LEMMA RunInvIs ==
  RunInv <=> /\ spec \in Nat \ {0} /\ phase \in {"before", "after"}
             /\ node \in Nat \ {0} /\ step \in Nat \ {0} /\ verdict \in Verdicts
             /\ Runs(spec, phase, node, step)
  BY ThePlan DEF RunInv, Over, Nodes, Current, Runs

LEMMA CurrentIs ==
  ASSUME RunInv, ~ Over, node <= Len(Nodes)
  PROVE  /\ spec \in 1..15 /\ Nodes = SuitePlan[spec][phase] /\ node \in 1..Len(SuitePlan[spec][phase])
         /\ Current = SuitePlan[spec][phase][node]
         /\ Len(Current.ops) \in Nat \ {0} /\ step \in 1..Len(Current.ops)
<1>1. spec \in 1..15 /\ phase \in {"before", "after"} /\ node \in Nat \ {0} /\ step \in Nat \ {0}
  BY ThePlan DEF RunInv, Over
<1>2. Nodes = SuitePlan[spec][phase] /\ Current = SuitePlan[spec][phase][node]
  BY DEF Nodes, Current
<1>3. Len(SuitePlan[spec][phase]) \in Nat
  BY <1>1, NodeCounts
<1>4. node \in 1..Len(SuitePlan[spec][phase])
  BY <1>1, <1>2, <1>3
<1>5. Len(Current.ops) \in Nat \ {0}
  BY <1>1, <1>2, <1>4, OpsThere
<1>6. step <= Len(Current.ops)
  BY DEF RunInv
<1> QED
  BY <1>1, <1>2, <1>4, <1>5, <1>6

(* The steps of the runner.                                                *)
Goes == step < Len(Current.ops) /\ step' = step + 1 /\ UNCHANGED <<spec, phase, node, reached, done, verdict>>
Leaves == node' = node + 1 /\ step' = 1 /\ UNCHANGED <<spec, phase, reached, verdict>>
Fails ==
    /\ verdict' \in {"skipped", "failed"} /\ step' = 1 /\ UNCHANGED <<spec, done>>
    /\ \/ phase = "before" /\ phase' = "after" /\ reached' = Current.level /\ node' = 1
       \/ phase = "after" /\ node' = node + 1 /\ UNCHANGED <<phase, reached>>

LEMMA OkDoes ==
  ASSUME Ok
  PROVE  Active /\ (Goes \/ (~ (step < Len(Current.ops)) /\ Return))
  BY DEF Ok, NextOp, Goes

LEMMA ReturnDoes ==
  ASSUME Return
  PROVE  Active /\ Leaves /\ done' \in {done, done \union {Current.id}}
  BY DEF Return, Leaves

LEMMA StopDoes ==
  ASSUME RunInv, Fail \/ SkipSpec
  PROVE  Active /\ Fails
  BY DEF RunInv, Verdicts, Fail, SkipSpec, Stop, Fails

LEMMA PassOverDoes ==
  ASSUME PassOver
  PROVE  ~ Active /\ ~ Over /\ node <= Len(Nodes) /\ ~ Wanted /\ Leaves /\ done' = done
  BY DEF PassOver, Active, Leaves

LEMMA RunnerStepInv ==
  ASSUME RunInv, RunnerNext \/ UNCHANGED suite
  PROVE  RunInv'
<1> USE RunInvIs
<1>1. (RunInv <=> /\ spec \in Nat \ {0} /\ phase \in {"before", "after"}
             /\ node \in Nat \ {0} /\ step \in Nat \ {0} /\ verdict \in Verdicts
             /\ Runs(spec, phase, node, step))'
  BY ThePlan DEF RunInv, Over, Nodes, Current, Runs
<1>2. ASSUME step' = 1, spec' \in Nat \ {0}, phase' \in {"before", "after"}, node' \in Nat \ {0},
             verdict' \in Verdicts
      PROVE  RunInv'
  <2>1. Runs(spec', phase', node', step')
    BY <1>2, FirstStep
  <2> QED
    BY <1>1, <1>2, <2>1 DEF Runs
<1>3. CASE Return
  BY <1>2, <1>3 DEF Return
<1>4. CASE Ok
  <2>1. CASE Goes /\ Active
    <3>1. Len(Current.ops) \in Nat /\ step + 1 <= Len(Current.ops) /\ Current = SuitePlan[spec][phase][node]
      BY <2>1, CurrentIs DEF Active, Goes
    <3>2. Runs(spec, phase, node, step + 1)
      BY <3>1 DEF Runs
    <3> QED
      BY <1>1, <2>1, <3>2 DEF Goes, Runs
  <2> QED
    BY <1>3, <1>4, <2>1, OkDoes
<1>5. CASE Fail \/ SkipSpec
  BY <1>2, <1>5, StopDoes DEF Fails, Verdicts
<1>6. CASE PassOver
  BY <1>2, <1>6 DEF PassOver
<1>7. CASE BodyDone
  BY <1>2, <1>7 DEF BodyDone
<1>8. CASE NextSpec
  BY <1>2, <1>8 DEF NextSpec, Verdicts
<1>9. CASE UNCHANGED suite
  BY <1>1, <1>9 DEF suite, Runs
<1> QED
  BY <1>3, <1>4, <1>5, <1>6, <1>7, <1>8, <1>9 DEF RunnerNext, RunnerMoves
-----------------------------------------------------------------------------
(* The actions: the operation each performs, the step of the runner it     *)
(* takes, and what it leaves alone.                                        *)
LEMMA ActionOps ==
  /\ OtherMode => Active /\ ~ InMode
  /\ Look => Active /\ InMode /\ Op.do \in {"FindDevice", "CreateNamespace"}
  /\ Skips => Active /\ InMode /\ Op.do \in {"Skip", "SkipUndiscovered", "SkipWithoutVhost", "FindNic", "ExpectWorkload", "ExpectHugePageSize"}
  /\ DrainState => Active /\ InMode /\ Op.do = "DrainState"
  /\ DiscoverPerformanceProfiles => Active /\ InMode /\ Op.do = "DiscoverProfiles"
  /\ Discover => Active /\ InMode /\ Op.do = "DiscoverResources"
  /\ DiscoveryNetwork => Active /\ InMode /\ Op.do = "DiscoveryNetwork"
  /\ FindOrOverridePerformanceProfile => Active /\ InMode /\ Op.do = "FindOrOverride"
  /\ RestorePerformanceProfile => Active /\ InMode /\ Op.do = "Restore"
  /\ FindVhostPolicy => Active /\ InMode /\ Op.do = "FindVhostPolicy"
  /\ CleanSriov => Active /\ InMode /\ Op.do = "CleanSriov"
  /\ CreateSriov => Active /\ InMode /\ Op.do = "CreateSriov"
  /\ CleanPods => Active /\ InMode /\ Op.do = "CleanPods"
  /\ StartPod => Active /\ InMode /\ Op.do = "StartPod"
  /\ Exec => Active /\ InMode /\ Op.do = "Exec"
  /\ Traffic => Active /\ InMode /\ Op.do = "Traffic"
  /\ Check => Active /\ InMode /\ Op.do = "Check"
  /\ DeletePod => Active /\ InMode /\ Op.do = "DeletePod"
  /\ CheckBoolean => Active /\ InMode /\ Op.do = "CheckBoolean"
  /\ SetBoolean => Active /\ InMode /\ Op.do = "SetBoolean"
  /\ UnsetBoolean => Active /\ InMode /\ Op.do = "UnsetBoolean"
  /\ CreateNads => Active /\ InMode /\ Op.do = "CreateNads"
  /\ DeleteNads => Active /\ InMode /\ Op.do = "DeleteNads"
  /\ DeleteNamespace => Active /\ InMode /\ Op.do = "DeleteNamespace"
<1>1. OtherMode => Active /\ ~ InMode
  BY DEF OtherMode, At
<1>2. Look => Active /\ InMode /\ Op.do \in {"FindDevice", "CreateNamespace"}
  BY DEF Look, At
<1>3. Skips => Active /\ InMode /\ Op.do \in {"Skip", "SkipUndiscovered", "SkipWithoutVhost", "FindNic", "ExpectWorkload", "ExpectHugePageSize"}
  BY DEF Skips, At
<1>4. DrainState => Active /\ InMode /\ Op.do = "DrainState"
  BY DEF DrainState, At
<1>5. DiscoverPerformanceProfiles => Active /\ InMode /\ Op.do = "DiscoverProfiles"
  BY DEF DiscoverPerformanceProfiles, At
<1>6. Discover => Active /\ InMode /\ Op.do = "DiscoverResources"
  BY DEF Discover, At
<1>7. DiscoveryNetwork => Active /\ InMode /\ Op.do = "DiscoveryNetwork"
  BY DEF DiscoveryNetwork, At
<1>8. FindOrOverridePerformanceProfile => Active /\ InMode /\ Op.do = "FindOrOverride"
  BY DEF FindOrOverridePerformanceProfile, At
<1>9. RestorePerformanceProfile => Active /\ InMode /\ Op.do = "Restore"
  BY DEF RestorePerformanceProfile, At
<1>10. FindVhostPolicy => Active /\ InMode /\ Op.do = "FindVhostPolicy"
  BY DEF FindVhostPolicy, At
<1>11. CleanSriov => Active /\ InMode /\ Op.do = "CleanSriov"
  BY DEF CleanSriov, At
<1>12. CreateSriov => Active /\ InMode /\ Op.do = "CreateSriov"
  BY DEF CreateSriov, At
<1>13. CleanPods => Active /\ InMode /\ Op.do = "CleanPods"
  BY DEF CleanPods, At
<1>14. StartPod => Active /\ InMode /\ Op.do = "StartPod"
  BY DEF StartPod, At
<1>15. Exec => Active /\ InMode /\ Op.do = "Exec"
  BY DEF Exec, At
<1>16. Traffic => Active /\ InMode /\ Op.do = "Traffic"
  BY DEF Traffic, At
<1>17. Check => Active /\ InMode /\ Op.do = "Check"
  BY DEF Check, At
<1>18. DeletePod => Active /\ InMode /\ Op.do = "DeletePod"
  BY DEF DeletePod, At
<1>19. CheckBoolean => Active /\ InMode /\ Op.do = "CheckBoolean"
  BY DEF CheckBoolean, At
<1>20. SetBoolean => Active /\ InMode /\ Op.do = "SetBoolean"
  BY DEF SetBoolean, At
<1>21. UnsetBoolean => Active /\ InMode /\ Op.do = "UnsetBoolean"
  BY DEF UnsetBoolean, At
<1>22. CreateNads => Active /\ InMode /\ Op.do = "CreateNads"
  BY DEF CreateNads, At
<1>23. DeleteNads => Active /\ InMode /\ Op.do = "DeleteNads"
  BY DEF DeleteNads, At
<1>24. DeleteNamespace => Active /\ InMode /\ Op.do = "DeleteNamespace"
  BY DEF DeleteNamespace, At
<1> QED
  BY <1>1, <1>2, <1>3, <1>4, <1>5, <1>6, <1>7, <1>8, <1>9, <1>10, <1>11, <1>12, <1>13, <1>14, <1>15, <1>16, <1>17, <1>18, <1>19, <1>20, <1>21, <1>22, <1>23, <1>24

EarlyReturn == Return /\ (DiscoverPerformanceProfiles \/ Discover)

LEMMA EveryStep ==
  ASSUME [Next]_vars
  PROVE  Ok \/ Fail \/ SkipSpec \/ PassOver \/ BodyDone \/ NextSpec \/ EarlyReturn \/ UNCHANGED vars
<1>1. CASE OtherMode
  BY <1>1 DEF OtherMode, OkCall, FailCall, EarlyReturn
<1>2. CASE Look
  BY <1>2 DEF Look, OkCall, FailCall, EarlyReturn
<1>3. CASE Skips
  BY <1>3 DEF Skips, OkCall, FailCall, EarlyReturn
<1>4. CASE DrainState
  BY <1>4 DEF DrainState, OkCall, FailCall, EarlyReturn
<1>5. CASE DiscoverPerformanceProfiles
  BY <1>5 DEF DiscoverPerformanceProfiles, OkCall, FailCall, EarlyReturn
<1>6. CASE Discover
  BY <1>6 DEF Discover, OkCall, FailCall, EarlyReturn
<1>7. CASE DiscoveryNetwork
  BY <1>7 DEF DiscoveryNetwork, OkCall, FailCall, EarlyReturn
<1>8. CASE FindOrOverridePerformanceProfile
  BY <1>8 DEF FindOrOverridePerformanceProfile, OkCall, FailCall, EarlyReturn
<1>9. CASE RestorePerformanceProfile
  BY <1>9 DEF RestorePerformanceProfile, OkCall, FailCall, EarlyReturn
<1>10. CASE FindVhostPolicy
  BY <1>10 DEF FindVhostPolicy, OkCall, FailCall, EarlyReturn
<1>11. CASE CleanSriov
  BY <1>11 DEF CleanSriov, OkCall, FailCall, EarlyReturn
<1>12. CASE CreateSriov
  BY <1>12 DEF CreateSriov, OkCall, FailCall, EarlyReturn
<1>13. CASE CleanPods
  BY <1>13 DEF CleanPods, OkCall, FailCall, EarlyReturn
<1>14. CASE StartPod
  BY <1>14 DEF StartPod, OkCall, FailCall, EarlyReturn
<1>15. CASE Exec
  BY <1>15 DEF Exec, OkCall, FailCall, EarlyReturn
<1>16. CASE Traffic
  BY <1>16 DEF Traffic, OkCall, FailCall, EarlyReturn
<1>17. CASE Check
  BY <1>17 DEF Check, OkCall, FailCall, EarlyReturn
<1>18. CASE DeletePod
  BY <1>18 DEF DeletePod, OkCall, FailCall, EarlyReturn
<1>19. CASE CheckBoolean
  BY <1>19 DEF CheckBoolean, OkCall, FailCall, EarlyReturn
<1>20. CASE SetBoolean
  BY <1>20 DEF SetBoolean, OkCall, FailCall, EarlyReturn
<1>21. CASE UnsetBoolean
  BY <1>21 DEF UnsetBoolean, OkCall, FailCall, EarlyReturn
<1>22. CASE CreateNads
  BY <1>22 DEF CreateNads, OkCall, FailCall, EarlyReturn
<1>23. CASE DeleteNads
  BY <1>23 DEF DeleteNads, OkCall, FailCall, EarlyReturn
<1>24. CASE DeleteNamespace
  BY <1>24 DEF DeleteNamespace, OkCall, FailCall, EarlyReturn
<1>25. CASE RunnerGoesOn
  BY <1>25 DEF RunnerGoesOn, RunnerMoves
<1>26. CASE UNCHANGED vars
  BY <1>26 DEF vars
<1> QED
  BY <1>1, <1>2, <1>3, <1>4, <1>5, <1>6, <1>7, <1>8, <1>9, <1>10, <1>11, <1>12, <1>13, <1>14, <1>15, <1>16, <1>17, <1>18, <1>19, <1>20, <1>21, <1>22, <1>23, <1>24, <1>25, <1>26 DEF Next, SuiteStep, Ended

LEMMA SuiteSteps ==
  ASSUME [Next]_vars
  PROVE  Ok \/ Fail \/ SkipSpec \/ PassOver \/ BodyDone \/ NextSpec \/ EarlyReturn \/ UNCHANGED suite
  BY EveryStep DEF vars

LEMMA ActionSteps ==
  ASSUME [Next]_vars
  PROVE  RunnerNext \/ UNCHANGED suite
  BY SuiteSteps DEF RunnerNext, RunnerMoves, EarlyReturn

LEMMA Frames ==
  ASSUME [Next]_vars
  PROVE  /\ UNCHANGED env
         /\ FindOrOverridePerformanceProfile \/ RestorePerformanceProfile \/ UNCHANGED profiles
         /\ FindOrOverridePerformanceProfile \/ RestorePerformanceProfile \/ UNCHANGED original
         /\ FindOrOverridePerformanceProfile \/ DiscoverPerformanceProfiles \/ UNCHANGED hugePageSize
         /\ DiscoverPerformanceProfiles \/ Discover \/ UNCHANGED discovered
         /\ CleanSriov \/ CreateSriov \/ UNCHANGED policies
         /\ CleanSriov \/ CreateSriov \/ DiscoveryNetwork \/ UNCHANGED networks
         /\ CleanPods \/ StartPod \/ DeletePod \/ DeleteNamespace \/ UNCHANGED pods
         /\ StartPod \/ UNCHANGED workload
         /\ SetBoolean \/ UnsetBoolean \/ UNCHANGED cud
         /\ CheckBoolean \/ UNCHANGED isCUDDisabled
         /\ UnsetBoolean \/ UNCHANGED unsetFailed
         /\ CreateNads \/ DeleteNads \/ DeleteNamespace \/ UNCHANGED nads
         /\ CreateNads \/ UNCHANGED nadVars
         /\ faults' = faults \/ (faults < MaxFaults /\ faults' = faults + 1)
<1> USE DEF profile, sriov, podState, rootless, OkCall, FailCall
<1>1. CASE OtherMode
  BY <1>1 DEF OtherMode
<1>2. CASE Look
  BY <1>2 DEF Look
<1>3. CASE Skips
  BY <1>3 DEF Skips
<1>4. CASE DrainState
  BY <1>4 DEF DrainState
<1>5. CASE DiscoverPerformanceProfiles
  BY <1>5 DEF DiscoverPerformanceProfiles
<1>6. CASE Discover
  BY <1>6 DEF Discover
<1>7. CASE DiscoveryNetwork
  BY <1>7 DEF DiscoveryNetwork
<1>8. CASE FindOrOverridePerformanceProfile
  BY <1>8 DEF FindOrOverridePerformanceProfile
<1>9. CASE RestorePerformanceProfile
  BY <1>9 DEF RestorePerformanceProfile
<1>10. CASE FindVhostPolicy
  BY <1>10 DEF FindVhostPolicy
<1>11. CASE CleanSriov
  BY <1>11 DEF CleanSriov
<1>12. CASE CreateSriov
  BY <1>12 DEF CreateSriov
<1>13. CASE CleanPods
  BY <1>13 DEF CleanPods
<1>14. CASE StartPod
  BY <1>14 DEF StartPod
<1>15. CASE Exec
  BY <1>15 DEF Exec
<1>16. CASE Traffic
  BY <1>16 DEF Traffic
<1>17. CASE Check
  BY <1>17 DEF Check
<1>18. CASE DeletePod
  BY <1>18 DEF DeletePod
<1>19. CASE CheckBoolean
  BY <1>19 DEF CheckBoolean
<1>20. CASE SetBoolean
  BY <1>20 DEF SetBoolean
<1>21. CASE UnsetBoolean
  BY <1>21 DEF UnsetBoolean
<1>22. CASE CreateNads
  BY <1>22 DEF CreateNads
<1>23. CASE DeleteNads
  BY <1>23 DEF DeleteNads
<1>24. CASE DeleteNamespace
  BY <1>24 DEF DeleteNamespace
<1>25. CASE RunnerGoesOn
  BY <1>25 DEF RunnerGoesOn
<1>26. CASE UNCHANGED vars
  BY <1>26 DEF vars
<1> QED
  BY <1>1, <1>2, <1>3, <1>4, <1>5, <1>6, <1>7, <1>8, <1>9, <1>10, <1>11, <1>12, <1>13, <1>14, <1>15, <1>16, <1>17, <1>18, <1>19, <1>20, <1>21, <1>22, <1>23, <1>24, <1>25, <1>26 DEF Next, SuiteStep, Ended

-----------------------------------------------------------------------------
(* Where the operations are that skip in discovery mode, that touch the    *)
(* SELinux boolean or that configure the cluster.                          *)
At3(s, n, k) == phase = "before" /\ spec = s /\ node = n /\ step = k

Skipping == /\ phase = "before" /\ step = 1
            /\ (spec \in {3, 9, 10, 13} /\ node = 3) \/ (spec \in {11, 12} /\ node = 4)
Configuring == /\ phase = "before"
               /\ \/ spec \in {3, 9, 10} /\ node = 4
                  \/ spec \in {11, 12} /\ node = 5
                  \/ spec = 13 /\ node = 3 /\ step = 3

AtTop(k) == phase = "before" /\ spec \in 1..14 /\ node = 1 /\ step = k

Unordinary ==
    \/ AtTop(3) /\ Op.do = "DiscoverProfiles" /\ Op.in = "discovery"
    \/ AtTop(4) /\ Op.do = "DiscoverResources" /\ Op.in = "discovery"
    \/ AtTop(6) /\ Op.do = "FindOrOverride" /\ Op.in = "cluster"
    \/ Skipping /\ Op.do = "Skip" /\ Op.in = "discovery"
    \/ At3(3, 4, 1) /\ Op.do = "CheckBoolean"
    \/ At3(3, 4, 2) /\ Op.do = "SetBoolean"
    \/ spec = 3 /\ phase = "after" /\ node = 1 /\ step = 1 /\ Op.do = "UnsetBoolean"
    \/ Configuring /\ Op.do = "CreateSriov" /\ Op.ctx \in Contexts
    \/ At3(14, 3, 1) /\ Op.do = "Restore" /\ Op.in = "cluster"

LEMMA OpIs ==
  ASSUME RunInv, Active
  PROVE  Ordinary(Op) \/ Unordinary
<1>1. /\ spec \in 1..15 /\ phase \in {"before", "after"} /\ node \in 1..Len(SuitePlan[spec][phase])
      /\ Current = SuitePlan[spec][phase][node] /\ step \in 1..Len(Current.ops)
      /\ Op = Current.ops[step]
  BY CurrentIs DEF Active, RunInv, Op
<1>2. CASE OrdinaryNode(Current)
  BY <1>1, <1>2 DEF OrdinaryNode
<1>5. step \in 1..Len(Current.ops) /\ Op = Current.ops[step]
  BY <1>1
<1>3. ASSUME phase = "before", Other(spec, node, Current) PROVE Ordinary(Op) \/ Unordinary
  <2>1. CASE spec = 3 /\ node = 3 /\ Current = Rootless[1]
    <3>1. \/ step = 1 /\ Op.do = "Skip" /\ Op.in = "discovery"
          \/ step = 2 /\ Op.do = "CleanPods" /\ Op.in = "any"
          \/ step = 3 /\ Op.do = "CleanSriov" /\ Op.in = "any"
          \/ step = 4 /\ Op.do = "FindDevice" /\ Op.in = "any"
      BY <1>5, <2>1, Rootless1Ops
    <3> QED
      BY <1>3, <2>1, <3>1 DEF Ordinary, Unordinary, Skipping, Configuring, At3, Contexts
  <2>2. CASE spec = 3 /\ node = 4 /\ Current = Rootless[2]
    <3>1. \/ step = 1 /\ Op.do = "CheckBoolean" /\ Op.in = "any"
          \/ step = 2 /\ Op.do = "SetBoolean" /\ Op.in = "any"
          \/ step = 3 /\ Op.do = "CreateSriov" /\ Op.in = "any" /\ Op.ctx = "rootless"
          \/ step = 4 /\ Op.do = "CreateNads" /\ Op.in = "any"
      BY <1>5, <2>2, Rootless2Ops
    <3> QED
      BY <1>3, <2>2, <3>1 DEF Ordinary, Unordinary, Skipping, Configuring, At3, Contexts
  <2>3. CASE spec \in {9, 10} /\ node = 3 /\ Current = Split[1]
    <3>1. \/ step = 1 /\ Op.do = "Skip" /\ Op.in = "discovery"
      BY <1>5, <2>3, Split1Ops
    <3> QED
      BY <1>3, <2>3, <3>1 DEF Ordinary, Unordinary, Skipping, Configuring, At3, Contexts
  <2>4. CASE spec \in {9, 10} /\ node = 4 /\ Current = Split[2]
    <3>1. \/ step = 1 /\ Op.do = "CleanPods" /\ Op.in = "any"
          \/ step = 2 /\ Op.do = "CleanSriov" /\ Op.in = "any"
          \/ step = 3 /\ Op.do = "CreateSriov" /\ Op.in = "any" /\ Op.ctx = "split"
          \/ step = 4 /\ Op.do = "StartPod" /\ Op.in = "any" /\ Op.ctx = "split"
          \/ step = 5 /\ Op.do = "StartPod" /\ Op.in = "any" /\ Op.ctx = "split"
      BY <1>5, <2>4, Split2Ops
    <3> QED
      BY <1>3, <2>4, <3>1 DEF Ordinary, Unordinary, Skipping, Configuring, At3, Contexts
  <2>5. CASE spec \in {11, 12} /\ node = 4 /\ Current = Vendors[2]
    <3>1. \/ step = 1 /\ Op.do = "Skip" /\ Op.in = "discovery"
          \/ step = 2 /\ Op.do = "CleanPods" /\ Op.in = "any"
          \/ step = 3 /\ Op.do = "CleanSriov" /\ Op.in = "any"
      BY <1>5, <2>5, Vendors2Ops
    <3> QED
      BY <1>3, <2>5, <3>1 DEF Ordinary, Unordinary, Skipping, Configuring, At3, Contexts
  <2>6. CASE spec \in {11, 12} /\ node = 5 /\ Current = Nic
    <3>1. \/ step = 1 /\ Op.do = "FindNic" /\ Op.in = "any"
          \/ step = 2 /\ Op.do = "CreateSriov" /\ Op.in = "any" /\ Op.ctx = "vendors"
          \/ step = 3 /\ Op.do = "StartPod" /\ Op.in = "any" /\ Op.ctx = "vendors"
          \/ step = 4 /\ Op.do = "Traffic" /\ Op.in = "any"
      BY <1>5, <2>6, NicOps
    <3> QED
      BY <1>3, <2>6, <3>1 DEF Ordinary, Unordinary, Skipping, Configuring, At3, Contexts
  <2>7. CASE spec = 13 /\ node = 3 /\ Current = Downward[1]
    <3>1. \/ step = 1 /\ Op.do = "Skip" /\ Op.in = "discovery"
          \/ step = 2 /\ Op.do = "CleanSriov" /\ Op.in = "any"
          \/ step = 3 /\ Op.do = "CreateSriov" /\ Op.in = "any" /\ Op.ctx = "downward"
          \/ step = 4 /\ Op.do = "StartPod" /\ Op.in = "any" /\ Op.ctx = "downward"
          \/ step = 5 /\ Op.do = "StartPod" /\ Op.in = "any" /\ Op.ctx = "downward"
      BY <1>5, <2>7, Downward1Ops
    <3> QED
      BY <1>3, <2>7, <3>1 DEF Ordinary, Unordinary, Skipping, Configuring, At3, Contexts
  <2>8. CASE spec = 14 /\ node = 3 /\ Current = Restoring
    <3>1. \/ step = 1 /\ Op.do = "Restore" /\ Op.in = "cluster"
          \/ step = 2 /\ Op.do = "CleanPods" /\ Op.in = "any"
          \/ step = 3 /\ Op.do = "CleanSriov" /\ Op.in = "any"
      BY <1>5, <2>8, RestoringOps
    <3> QED
      BY <1>3, <2>8, <3>1 DEF Ordinary, Unordinary, Skipping, Configuring, At3, Contexts
  <2>9. CASE spec \in 1..14 /\ node = 1 /\ Current = Top[1]
    <3>1. \/ step = 1 /\ Op.do = "DrainState"
          \/ step = 2 /\ Op.do = "CreateNamespace"
          \/ step = 3 /\ Op.do = "DiscoverProfiles" /\ Op.in = "discovery"
          \/ step = 4 /\ Op.do = "DiscoverResources" /\ Op.in = "discovery"
          \/ step = 5 /\ Op.do = "DiscoveryNetwork"
          \/ step = 6 /\ Op.do = "FindOrOverride" /\ Op.in = "cluster"
          \/ step = 7 /\ Op.do = "ExpectHugePageSize"
      BY <1>5, <2>9, Top1Ops
    <3> QED
      BY <1>3, <2>9, <3>1 DEF Ordinary, Unordinary, AtTop
  <2> QED
    BY <1>3, <2>1, <2>2, <2>3, <2>4, <2>5, <2>6, <2>7, <2>8, <2>9 DEF Other
<1>4. CASE spec = 3 /\ phase = "after" /\ node = 1 /\ Current = AfterRootless
  <2>1. \/ step = 1 /\ Op.do = "UnsetBoolean" /\ Op.in = "any"
        \/ step = 2 /\ Op.do = "CleanPods" /\ Op.in = "any"
        \/ step = 3 /\ Op.do = "CleanSriov" /\ Op.in = "any"
        \/ step = 4 /\ Op.do = "DeleteNads" /\ Op.in = "any"
    BY <1>5, <1>4, AfterRootlessOps
  <2> QED
    BY <1>4, <2>1 DEF Ordinary, Unordinary, Skipping, Configuring, At3, Contexts
<1> QED
  BY <1>1, <1>2, <1>3, <1>4, NodeIs

LEMMA OtherIds ==
  \A id \in {Rootless[2].id, Split[1].id, Split[2].id, Vendors[2].id, Nic.id, Restoring.id, AfterRootless.id} :
        id \notin {"rootless", "downward", "top"}
<1>1. Rootless[2].id = "each"
  BY DEF Rootless, BeforeEach, Node
<1>2. Split[1].id = "each" /\ Split[2].id = "split"
  BY DEF Split, BeforeEach, BeforeAll, Node
<1>3. Vendors[2].id = "each"
  BY DEF Vendors, BeforeEach, Node
<1>4. Nic.id = "it" /\ Restoring.id = "it"
  BY DEF Nic, Restoring, It, Node
<1>5. AfterRootless.id = "after"
  BY DEF AfterRootless, AfterEach, Node
<1> QED
  BY <1>1, <1>2, <1>3, <1>4, <1>5

LEMMA CurrentIds ==
  ASSUME RunInv, Active
  PROVE  \/ Current.id \notin {"rootless", "downward", "top"}
         \/ Current.id = "top" /\ spec \in 1..14 /\ phase = "before" /\ node = 1
         \/ Current.id # "top" /\ spec \in {3, 13} /\ phase = "before" /\ node = 3
<1>1. /\ spec \in 1..15 /\ phase \in {"before", "after"} /\ node \in 1..Len(SuitePlan[spec][phase])
      /\ Current = SuitePlan[spec][phase][node]
  BY CurrentIs DEF Active, RunInv
<1> QED
  BY <1>1, NodeIs, OtherIds, Top1Node, Rootless1Node, Downward1Node DEF OrdinaryNode, Other

LEMMA SkippingOp ==
  ASSUME RunInv, Skipping
  PROVE  /\ ~ Over /\ node <= Len(Nodes) /\ Op.do = "Skip" /\ Op.in = "discovery"
         /\ spec \in {3, 13} => Current.id \in {"rootless", "downward"}
         /\ spec \notin {3, 13} => ~ Current.once
<1> USE DEF Skipping
<1>1. ~ Over
  BY ThePlan DEF Over
<1>2. CASE spec = 3
  <2>1. Nodes = SuitePlan[3].before /\ Current = Rootless[1] /\ node = 3 /\ step = 1
    BY <1>2, NodesThere DEF Nodes, Current
  <2> QED
    BY <1>1, <1>2, <2>1, NodesThere, Rootless1Ops, Rootless1Node DEF Op
<1>3. CASE spec \in {9, 10}
  <2>1. Len(Nodes) = 5 /\ Current = Split[1] /\ node = 3 /\ step = 1
    BY <1>3, NodesThere DEF Nodes, Current
  <2> QED
    BY <1>1, <1>3, <2>1, Split1Ops, Split1Node DEF Op
<1>4. CASE spec \in {11, 12}
  <2>1. Len(Nodes) = 5 /\ Current = Vendors[2] /\ node = 4 /\ step = 1
    BY <1>4, NodesThere DEF Nodes, Current
  <2> QED
    BY <1>1, <1>4, <2>1, Vendors2Ops, Vendors2Node DEF Op
<1>5. CASE spec = 13
  <2>1. Nodes = SuitePlan[13].before /\ Current = Downward[1] /\ node = 3 /\ step = 1
    BY <1>5, NodesThere DEF Nodes, Current
  <2> QED
    BY <1>1, <1>5, <2>1, NodesThere, Downward1Ops, Downward1Node DEF Op
<1> QED
  BY <1>2, <1>3, <1>4, <1>5

LEMMA Quiescent ==
  ASSUME RunInv, Active PROVE ~ RunnerGoesOn
<1>1. Len(Nodes) \in Nat /\ node \in Nat /\ node <= Len(Nodes) /\ ~ Over /\ Wanted
  BY CurrentIs, NodeCounts DEF Active, RunInv
<1> QED
  BY <1>1 DEF RunnerGoesOn, RunnerMoves, PassOver, BodyDone, NextSpec, SpecEnds

(* In discovery mode nothing but the skip happens there.                   *)
LEMMA OnlySkips ==
  ASSUME RunInv, [Next]_vars, Active, Op.do = "Skip", Op.in = "discovery", env.discovery
  PROVE  SkipSpec \/ UNCHANGED vars
<1>1. InMode
  BY DEF InMode
<1>2. CASE Skips
  BY <1>2 DEF Skips, At
<1> QED
  BY <1>1, <1>2, Quiescent, ActionOps DEF Next, SuiteStep, Ended

-----------------------------------------------------------------------------
(* The profile found is kept.                                              *)
LEMMA InitInv == Init => Inv
<1> SUFFICES ASSUME Init PROVE Inv
  OBVIOUS
<1>0. spec = 1 /\ phase = "before" /\ node = 1 /\ step = 1 /\ done = {} /\ verdict = "passed"
  BY DEF Init, RunnerInit
<1>1. RunInv
  <2>1. Runs(spec, phase, node, step)
    BY <1>0, FirstStep
  <2> QED
    BY <1>0, <2>1, RunInvIs DEF Verdicts
<1>2. EnvInv
  BY EnvsAssumption DEF EnvInv, Init
<1>3. OrigInv
  BY DEF OrigInv, OriginalKept, named, Found, Init
<1>4. BoolTypes
  BY EnvsAssumption DEF Init, BoolTypes
<1>5. BoolInv
  BY DEF BoolInv, Init
<1>6. DiscInv
  <2>1. profiles = env.profiles /\ original = NoProfile /\ policies = <<>> /\ cud = env.cud /\ ~ isCUDDisabled
    BY DEF Init
  <2>2. /\ "rootless" \notin done /\ "downward" \notin done
        /\ ~ (spec \in {3, 9, 10, 13}) /\ ~ (spec \in {11, 12})
    BY <1>0
  <2> QED
    BY <2>1, <2>2 DEF DiscInv
<1>7. RestoreInv
  BY <1>0 DEF RestoreInv
<1> QED
  BY <1>1, <1>2, <1>3, <1>4, <1>5, <1>6, <1>7 DEF Inv

LEMMA TestProfileValid == ASSUME NEW arch PROVE ValidatePerformanceProfile(TestProfile(arch)) /\ TestProfile(arch) # NoProfile
<1>1. TestProfile(arch).cpus = 8 /\ TestProfile(arch).pages = <<TestPages(arch)>>
  BY DEF TestProfile
<1>2. EnoughPages(TestPages(arch))
  BY DEF TestPages, Page, EnoughPages
<1>3. 1 \in Enough(TestProfile(arch))
  BY <1>1, <1>2 DEF Enough
<1>4. NoProfile.cpus = -2
  BY DEF NoProfile
<1> QED
  BY <1>1, <1>3, <1>4 DEF ValidatePerformanceProfile

LEMMA FoundIs == ASSUME EnvInv PROVE Found \in Profiles \union {NoProfile}
  BY EnvsAssumption DEF EnvInv, Found, Names

(* Without its metadata a profile has the same spec.                       *)
LEMMA BareIs ==
  ASSUME NEW p
  PROVE  /\ Bare(p).cpus = p.cpus /\ Bare(p).pages = p.pages /\ Bare(Bare(p)) = Bare(p)
         /\ ValidatePerformanceProfile(Bare(p)) <=> ValidatePerformanceProfile(p)
<1>1. Bare(p).cpus = p.cpus /\ Bare(p).pages = p.pages
  BY DEF Bare
<1>2. Bare(Bare(p)) = Bare(p)
  BY <1>1 DEF Bare
<1>3. Enough(Bare(p)) = Enough(p)
  BY <1>1 DEF Enough
<1> QED
  BY <1>1, <1>2, <1>3 DEF ValidatePerformanceProfile

LEMMA BareNone ==
  /\ Bare(NoProfile) = NoProfile
  /\ \A p \in Profiles \union {NoProfile} : Bare(p) = NoProfile => p = NoProfile
<1>1. Bare(NoProfile) = NoProfile
  BY DEF Bare, NoProfile
<1>2. ASSUME NEW p \in Profiles PROVE Bare(p) # NoProfile
  <2>1. p.cpus # NoProfile.cpus
    BY DEF Profiles, NoProfile, Unparsable
  <2> QED
    BY <2>1, BareIs
<1> QED
  BY <1>1, <1>2

LEMMA NoneInvalid == ~ ValidatePerformanceProfile(NoProfile)
  BY DEF ValidatePerformanceProfile, NoProfile

LEMMA CleanedProfiles ==
  ASSUME EnvInv
  PROVE  /\ DOMAIN NoProfiles = Names /\ NoProfiles["performance"] = NoProfile
         /\ \A names : DOMAIN Deleted(names) = Names /\ Deleted(names)["performance"] \in {named, NoProfile}
         /\ \A p : /\ DOMAIN [NoProfiles EXCEPT !["performance"] = p] = Names
                   /\ [NoProfiles EXCEPT !["performance"] = p]["performance"] = p
                   /\ [NoProfiles EXCEPT !["performance"] = p]
                        = [n \in Names |-> IF n = "performance" THEN p ELSE NoProfile]
         /\ \A p : /\ DOMAIN [profiles EXCEPT !["performance"] = p] = Names
                   /\ [profiles EXCEPT !["performance"] = p]["performance"] = p
                   /\ [profiles EXCEPT !["performance"] = p]["other"] = profiles["other"]
  BY DEF EnvInv, NoProfiles, Deleted, Names, named

LEMMA OrigStep ==
  ASSUME Inv, [Next]_vars
  PROVE  /\ EnvInv' /\ OrigInv'
         /\ original' = NoProfile => original = NoProfile
<1> USE DEF Inv
<1>1. env' = env /\ Found' = Found
  BY Frames DEF Found
<1>2. CASE UNCHANGED <<profiles, original>>
  BY <1>1, <1>2 DEF EnvInv, OrigInv, OriginalKept, named, Found, WithTest
<1>3. CASE FindOrOverridePerformanceProfile
  <2>1. CASE UNCHANGED <<profiles, original>>
    BY <2>1, <1>2
  <2>2. ASSUME ~ ValidatePerformanceProfile(named), NEW stage, OverrideUntil(stage)
        PROVE  EnvInv' /\ OrigInv' /\ (original' = NoProfile => original = NoProfile)
    <3>1. named \in {Found, Bare(Found), NoProfile} /\ ~ ValidatePerformanceProfile(Found)
      <4>1. ValidatePerformanceProfile(Found) => named = Found
        BY DEF OrigInv, named, Found
      <4> QED
        BY <2>2, <4>1, TestProfileValid, BareIs DEF OrigInv
    <3>2. original' = (IF named # NoProfile /\ stage # "pool" THEN named ELSE original)
      BY <2>2 DEF OverrideUntil
    <3>3. DOMAIN profiles' = Names /\ (stage = "pool" => named' = named)
      BY <2>2, CleanedProfiles DEF OverrideUntil, EnvInv, named
    <3>4. named' \in {named, NoProfile, TestProfile(env.arch)}
      BY <2>2, CleanedProfiles DEF OverrideUntil, EnvInv, named
    <3>5. EnvInv'
      BY <1>1, <3>3 DEF EnvInv
    <3>6. /\ named' \in {Found, Bare(Found), NoProfile, TestProfile(env.arch)}
          /\ original' \in {NoProfile, Found, Bare(Found)}
      BY <3>1, <3>2, <3>4 DEF OrigInv
    <3>7. Found = NoProfile \/ Bare(Found) \in {Bare(named'), Bare(original')}
      <4>1. CASE named = NoProfile \/ stage = "pool"
        <5>1. original' = original
          BY <3>2, <4>1
        <5>2. CASE stage = "pool"
          BY <3>3, <5>1, <5>2 DEF OrigInv, OriginalKept
        <5>3. CASE named = NoProfile
          <6>1. Bare(named) = NoProfile
            BY <5>3, BareNone
          <6>2. Found = NoProfile \/ Bare(Found) # NoProfile
            BY FoundIs, BareNone
          <6> QED
            BY <5>1, <6>1, <6>2 DEF OrigInv, OriginalKept
        <5> QED
          BY <4>1, <5>2, <5>3
      <4>2. CASE named # NoProfile /\ stage # "pool"
        <5>1. original' \in {Found, Bare(Found)}
          BY <3>1, <3>2, <4>2
        <5> QED
          BY <5>1, BareIs
      <4> QED
        BY <4>1, <4>2
    <3>8. Found = NoProfile => original' = NoProfile /\ profiles' \in {env.profiles, WithTest}
      <4> SUFFICES ASSUME Found = NoProfile PROVE original' = NoProfile /\ profiles' \in {env.profiles, WithTest}
        OBVIOUS
      <4>1. named = NoProfile
        BY <3>1, BareNone
      <4>4. profiles = env.profiles
        <5>1. WithTest["performance"] = TestProfile(env.arch)
          BY EnvsAssumption DEF WithTest, EnvInv, Names
        <5> QED
          BY <4>1, <5>1, TestProfileValid DEF OrigInv, named
      <4>2. original' = NoProfile
        BY <3>2, <4>1 DEF OrigInv
      <4>3. \/ profiles' = profiles
            \/ profiles' = [profiles EXCEPT !["performance"] = TestProfile(env.arch)]
        BY <2>2, <4>1 DEF OverrideUntil
      <4> QED
        BY <4>2, <4>3, <4>4 DEF WithTest
    <3> QED
      BY <1>1, <3>1, <3>2, <3>5, <3>6, <3>7, <3>8 DEF OrigInv, OriginalKept, Found, named, WithTest
  <2> QED
    BY <1>2, <1>3, <2>1, <2>2 DEF FindOrOverridePerformanceProfile
<1>4. CASE RestorePerformanceProfile
  <2>1. original = NoProfile => UNCHANGED <<profiles, original>>
    BY <1>4 DEF RestorePerformanceProfile
  <2>2. CASE original = NoProfile
    BY <1>2, <2>1, <2>2
  <2>3. CASE original # NoProfile
    <3>1. /\ original \in {Found, Bare(Found)} /\ Bare(original) = Bare(Found)
          /\ Found # NoProfile /\ ~ ValidatePerformanceProfile(Found)
      BY <2>3, BareIs, BareNone DEF OrigInv
    <3>2. original' \in {original, Bare(original)} /\ original' # NoProfile
      <4>1. original' \in {original, Bare(original)}
        BY <1>4, <2>3 DEF RestorePerformanceProfile
      <4>2. Bare(Found) # NoProfile
        BY <3>1, FoundIs, BareNone
      <4> QED
        BY <2>3, <3>1, <4>1, <4>2
    <3>3. DOMAIN profiles' = Names /\ named' \in {named, NoProfile, Bare(Found)}
      BY <1>4, CleanedProfiles, <2>3, <3>1 DEF RestorePerformanceProfile, named
    <3>4. Bare(original') = Bare(Found) /\ original' \in {Found, Bare(Found)}
      BY <3>1, <3>2, BareIs
    <3>5. EnvInv'
      BY <1>1, <3>3 DEF EnvInv
    <3>6. named' \in {Found, Bare(Found), NoProfile, TestProfile(env.arch)}
      BY <3>3 DEF OrigInv
    <3> QED
      BY <1>1, <3>1, <3>2, <3>4, <3>5, <3>6 DEF OrigInv, OriginalKept, Found, named
  <2> QED
    BY <2>2, <2>3
<1> QED
  BY <1>2, <1>3, <1>4, Frames

-----------------------------------------------------------------------------
(* Discovery mode keeps the configuration.                                 *)
Gated(s, n, k) ==
    /\ s \in {3, 9, 10, 13} => n < 3 \/ (n = 3 /\ k = 1)
    /\ s \in {11, 12} => n < 4 \/ (n = 4 /\ k = 1)

LEMMA DiscIs ==
  DiscInv <=> (env.discovery =>
                  /\ profiles = env.profiles /\ original = NoProfile
                  /\ policies = <<>> /\ cud = env.cud /\ ~ isCUDDisabled
                  /\ "rootless" \notin done /\ "downward" \notin done
                  /\ phase = "before" => Gated(spec, node, step))
  BY DEF DiscInv, Before, Gated

LEMMA GateHolds ==
  ASSUME Inv, [Next]_vars, env.discovery
  PROVE  /\ "rootless" \notin done' /\ "downward" \notin done'
         /\ phase' = "before" => Gated(spec', node', step')
<1> USE DEF Inv
<1>1. /\ "rootless" \notin done /\ "downward" \notin done
      /\ phase = "before" => Gated(spec, node, step)
  BY DiscIs
<1>2. /\ spec \in Nat /\ node \in Nat \ {0} /\ step \in Nat \ {0} /\ phase \in {"before", "after"}
  BY DEF RunInv
<1>3. CASE UNCHANGED suite
  BY <1>1, <1>3 DEF suite
<1>4. CASE Skipping
  <2>1. Active /\ Op.do = "Skip" /\ Op.in = "discovery"
    BY <1>1, <1>4, SkippingOp DEF Active, Wanted, Skipping
  <2>2. SkipSpec \/ UNCHANGED suite
    BY <2>1, OnlySkips DEF vars
  <2>3. CASE SkipSpec
    BY <1>1, <1>4, <2>3, StopDoes DEF Fails, Skipping
  <2> QED
    BY <1>3, <2>2, <2>3
<1>5. CASE ~ Skipping
  <2>1. phase = "before" => (spec \in {3, 9, 10, 13} => node < 3) /\ (spec \in {11, 12} => node < 4)
    BY <1>1, <1>2, <1>5 DEF Skipping, Gated
  <2>2. CASE Goes /\ UNCHANGED done
    BY <1>1, <1>2, <2>1, <2>2 DEF Goes, Gated
  <2>3. CASE Return
    <3>1. Current.id \notin {"rootless", "downward"}
      BY <2>1, <2>3, CurrentIds DEF Return
    <3> QED
      BY <1>1, <1>2, <2>1, <2>3, <3>1, ReturnDoes DEF Leaves, Gated
  <2>4. CASE Fail \/ SkipSpec
    BY <1>1, <2>4, StopDoes DEF Fails
  <2>5. CASE PassOver
    BY <1>1, <1>2, <2>1, <2>5, PassOverDoes DEF Leaves, Gated
  <2>6. CASE BodyDone
    BY <1>1, <2>6 DEF BodyDone
  <2>7. CASE NextSpec
    BY <1>1, <2>7 DEF NextSpec, Gated
  <2> QED
    BY <1>3, <2>2, <2>3, <2>4, <2>5, <2>6, <2>7, ActionSteps, OkDoes DEF RunnerNext, RunnerMoves, Goes
<1> QED
  BY <1>4, <1>5

LEMMA NotInDiscovery ==
  ASSUME Inv, env.discovery
  PROVE  /\ ~ FindOrOverridePerformanceProfile /\ ~ RestorePerformanceProfile /\ ~ CreateSriov
         /\ ~ CheckBoolean /\ ~ SetBoolean
<1> USE DEF Inv
<1>1. phase = "before" => Gated(spec, node, step)
  BY DiscIs
<1>2. ~ Configuring /\ ~ At3(3, 4, 1) /\ ~ At3(3, 4, 2)
  BY <1>1 DEF Configuring, At3, Gated
<1>3. ASSUME Active, InMode
      PROVE  Op.do \notin {"FindOrOverride", "Restore", "CreateSriov", "CheckBoolean", "SetBoolean"}
  BY <1>2, <1>3, OpIs DEF Ordinary, Unordinary, InMode
<1> QED
  BY <1>3, ActionOps

LEMMA DiscStep == ASSUME Inv, [Next]_vars PROVE DiscInv'
<1> USE DEF Inv
<1>1. (DiscInv <=> (env.discovery =>
                  /\ profiles = env.profiles /\ original = NoProfile
                  /\ policies = <<>> /\ cud = env.cud /\ ~ isCUDDisabled
                  /\ "rootless" \notin done /\ "downward" \notin done
                  /\ phase = "before" => Gated(spec, node, step)))'
  BY DEF DiscInv, Before, Gated
<1>2. env' = env
  BY Frames
<1> SUFFICES ASSUME env.discovery
             PROVE  /\ profiles' = env.profiles /\ original' = NoProfile /\ policies' = <<>> /\ cud' = env.cud /\ ~ isCUDDisabled'
                    /\ "rootless" \notin done' /\ "downward" \notin done'
                    /\ phase' = "before" => Gated(spec', node', step')
  BY <1>1, <1>2 DEF Gated
<1>3. profiles = env.profiles /\ original = NoProfile /\ policies = <<>> /\ cud = env.cud /\ ~ isCUDDisabled
  BY DiscIs
<1>4. UNCHANGED <<profiles, original, isCUDDisabled>>
  BY NotInDiscovery, Frames
<1>5. policies' = policies
  BY NotInDiscovery, Frames DEF CleanSriov
<1>6. cud' = cud
  BY <1>3, NotInDiscovery, Frames DEF UnsetBoolean
<1> QED
  BY <1>3, <1>4, <1>5, <1>6, GateHolds

-----------------------------------------------------------------------------
(* The SELinux boolean.                                                    *)
Set(s, ph, n, k, r) ==
    /\ s = 3
    /\ \/ ph = "before" /\ (n > 4 \/ (n = 4 /\ k > 2))
       \/ ph = "after" /\ n = 1 /\ k = 1 /\ 2 <= r

LEMMA RootlessLevels ==
  ASSUME RunInv, spec = 3, phase = "before", node > 3
  PROVE  /\ node <= Len(Nodes) => 2 <= Current.level
         /\ 2 <= Nodes[Len(Nodes)].level /\ ~ Over
<1>1. Transmits(<<Start("rootless", "tx"), Start("rootless", "rx")>>).level = 3
  BY DEF Transmits, It, Node
<1>2. Nodes = SuitePlan[3].before /\ Len(Nodes) = 5 /\ Nodes[4].level = 2 /\ Nodes[5].level = 3
  BY <1>1, NodesThere, Rootless2Node DEF Nodes
<1>3. node \in Nat
  BY DEF RunInv
<1>4. ~ Over
  BY ThePlan DEF Over
<1>5. ASSUME node <= Len(Nodes) PROVE 2 <= Current.level
  <2>1. node = 4 \/ node = 5
    BY <1>2, <1>3, <1>5
  <2> QED
    BY <1>2, <2>1 DEF Current
<1> QED
  BY <1>2, <1>4, <1>5

LEMMA ResetFirst ==
  ASSUME RunInv, [Next]_vars, spec = 3, phase = "after", node = 1, step = 1, 2 <= reached
  PROVE  UnsetBoolean \/ UNCHANGED vars
<1>1. Len(Nodes) = 1 /\ Current = AfterRootless
  BY AfterNodes DEF Nodes, Current
<1>2. Active
  BY <1>1, ThePlan, AfterRootlessNode DEF Active, Wanted, Over
<1>3. Op.do = "UnsetBoolean" /\ Op.in = "any"
  BY <1>1, AfterRootlessOps DEF Op
<1>4. InMode
  BY <1>3 DEF InMode
<1> QED
  BY <1>2, <1>3, <1>4, Quiescent, ActionOps DEF Next, SuiteStep, Ended

LEMMA StaysSet ==
  ASSUME RunInv, [Next]_vars, MayBeSet, ~ UnsetBoolean
  PROVE  Set(spec', phase', node', step', reached')
<1>1. /\ spec \in Nat /\ node \in Nat \ {0} /\ step \in Nat \ {0}
  BY DEF RunInv
<1>2. CASE UNCHANGED suite
  BY <1>2 DEF suite, MayBeSet, Set
<1>3. CASE phase = "after"
  BY <1>2, <1>3, ResetFirst DEF MayBeSet, vars
<1>4. CASE phase = "before"
  <2>1. spec = 3 /\ (node > 4 \/ (node = 4 /\ step > 2))
    BY <1>4 DEF MayBeSet
  <2>2. /\ node <= Len(Nodes) => 2 <= Current.level
        /\ 2 <= Nodes[Len(Nodes)].level
    BY <1>1, <1>4, <2>1, RootlessLevels
  <2>3. CASE Goes
    BY <1>1, <1>4, <2>1, <2>3 DEF Goes, Set
  <2>4. CASE Leaves
    BY <1>1, <1>4, <2>1, <2>4 DEF Leaves, Set
  <2>5. CASE Fail \/ SkipSpec
    BY <1>4, <2>1, <2>2, <2>5, StopDoes DEF Fails, Active, Set
  <2>6. CASE BodyDone
    BY <1>4, <2>1, <2>2, <2>6 DEF BodyDone, Set
  <2>7. CASE NextSpec
    BY <1>4, <2>7 DEF NextSpec, SpecEnds
  <2> QED
    BY <1>2, <2>3, <2>4, <2>5, <2>6, <2>7, ActionSteps, OkDoes, ReturnDoes, PassOverDoes
    DEF RunnerNext, RunnerMoves
<1> QED
  BY <1>3, <1>4 DEF RunInv

LEMMA SetBooleanAt ==
  ASSUME RunInv
  PROVE  /\ CheckBoolean => At3(3, 4, 1)
         /\ SetBoolean => At3(3, 4, 2)
         /\ UnsetBoolean => spec = 3 /\ phase = "after" /\ node = 1 /\ step = 1
<1>1. ASSUME Active, Op.do \in {"CheckBoolean", "SetBoolean", "UnsetBoolean"}
      PROVE  Unordinary
  BY <1>1, OpIs DEF Ordinary
<1> QED
  BY <1>1, ActionOps DEF Unordinary

LEMMA SetAfterwards ==
  ASSUME RunInv, At3(3, 4, 2), Ok \/ Fail
  PROVE  Set(spec', phase', node', step', reached')
<1>1. node > 3 /\ spec = 3 /\ phase = "before" /\ node = 4 /\ step = 2
  BY DEF At3
<1>2. Active /\ node <= Len(Nodes) /\ 2 <= Current.level
  BY <1>1, RootlessLevels, StopDoes, OkDoes DEF Active
<1>3. CASE Fail
  BY <1>1, <1>2, <1>3, StopDoes DEF Fails, Set
<1>4. CASE Ok
  BY <1>1, <1>4, OkDoes, ReturnDoes DEF Goes, Leaves, Set
<1> QED
  BY <1>3, <1>4

LEMMA BoolStep == ASSUME Inv, [Next]_vars PROVE BoolTypes' /\ BoolInv'
<1> USE DEF Inv
<1>1. env' = env /\ env.cud \in BOOLEAN
  BY Frames, EnvsAssumption DEF EnvInv
<1>2. (MayBeSet <=> Set(spec, phase, node, step, reached))'
  BY DEF MayBeSet, Set
<1>3. CASE UNCHANGED <<cud, isCUDDisabled, unsetFailed>> /\ ~ UnsetBoolean
  <2>1. MayBeSet => MayBeSet'
    BY <1>2, <1>3, StaysSet DEF Set
  <2> QED
    BY <1>1, <1>3, <2>1 DEF BoolTypes, BoolInv
<1>4. CASE CheckBoolean
  <2>1. ~ MayBeSet
    BY <1>4, SetBooleanAt DEF At3, MayBeSet
  <2>2. UNCHANGED <<cud, unsetFailed>> /\ (isCUDDisabled' = FALSE \/ isCUDDisabled' = ~ cud)
    BY <1>4 DEF CheckBoolean
  <2>3. isCUDDisabled' \in BOOLEAN
    BY <2>2 DEF BoolTypes
  <2>4. ~ unsetFailed => cud = env.cud
    BY <2>1 DEF BoolInv
  <2> QED
    BY <1>1, <2>2, <2>3, <2>4 DEF BoolTypes, BoolInv
<1>5. CASE SetBoolean
  <2>1. ~ MayBeSet /\ At3(3, 4, 2)
    BY <1>5, SetBooleanAt DEF At3, MayBeSet
  <2>2. UNCHANGED <<isCUDDisabled, unsetFailed>> /\ (Ok \/ Fail)
    BY <1>5 DEF SetBoolean, OkCall, FailCall
  <2>3. MayBeSet'
    BY <1>2, <2>1, <2>2, SetAfterwards DEF Set
  <2>4. cud' = cud \/ (isCUDDisabled /\ cud' = TRUE)
    BY <1>5 DEF SetBoolean
  <2>5. ~ unsetFailed => cud = env.cud
    BY <2>1 DEF BoolInv
  <2> QED
    BY <1>1, <2>2, <2>3, <2>4, <2>5 DEF BoolTypes, BoolInv
<1>6. CASE UnsetBoolean
  <2>1. UNCHANGED isCUDDisabled
    BY <1>6 DEF UnsetBoolean
  <2>2. CASE ~ isCUDDisabled
    <3>1. UNCHANGED <<cud, unsetFailed>>
      BY <1>6, <2>2 DEF UnsetBoolean
    <3> QED
      BY <1>1, <2>1, <2>2, <3>1 DEF BoolTypes, BoolInv
  <2>3. CASE isCUDDisabled
    <3>1. \/ cud' = FALSE /\ UNCHANGED unsetFailed
          \/ UNCHANGED cud /\ unsetFailed' = TRUE
      BY <1>6, <2>3 DEF UnsetBoolean
    <3> QED
      BY <1>1, <2>1, <2>3, <3>1 DEF BoolTypes, BoolInv
  <2> QED
    BY <2>2, <2>3
<1> QED
  BY <1>3, <1>4, <1>5, <1>6, Frames

-----------------------------------------------------------------------------
(* "restoring configuration".                                              *)
LEMMA RestoringPlace ==
  ASSUME RunInv, spec = 14
  PROVE  /\ ~ Over
         /\ phase = "after" => Len(Nodes) = 0
         /\ phase = "before" => Len(Nodes) = 3
         /\ phase = "before" /\ node = 3 => /\ Wanted /\ Len(Current.ops) = 3 /\ step \in 1..3
                                            /\ step = 1 => Op.do = "Restore" /\ Op.in = "cluster"
                                            /\ step = 2 => Op.do = "CleanPods" /\ Op.in = "any"
                                            /\ step = 3 => Op.do = "CleanSriov" /\ Op.in = "any"
<1>1. ~ Over
  BY ThePlan DEF Over
<1>2. ASSUME phase = "after" PROVE Len(Nodes) = 0
  BY <1>2, AfterNodes DEF Nodes
<1>3. ASSUME phase = "before" PROVE Len(Nodes) = 3
  BY <1>3, NodesThere DEF Nodes
<1>4. ASSUME phase = "before", node = 3
      PROVE  /\ Wanted /\ Len(Current.ops) = 3 /\ step \in 1..3
             /\ step = 1 => Op.do = "Restore" /\ Op.in = "cluster"
             /\ step = 2 => Op.do = "CleanPods" /\ Op.in = "any"
             /\ step = 3 => Op.do = "CleanSriov" /\ Op.in = "any"
  <2>1. Current = Restoring
    BY <1>4, NodesThere DEF Current, Nodes
  <2>2. Wanted
    BY <1>4, <2>1, RestoringNode DEF Wanted
  <2>3. Len(Current.ops) = 3 /\ step \in 1..3
    BY <1>1, <1>3, <1>4, <2>1, RestoringOps DEF RunInv
  <2> QED
    BY <2>1, <2>2, <2>3, RestoringOps DEF Op
<1> QED
  BY <1>1, <1>2, <1>3, <1>4

LEMMA PassedStep ==
  ASSUME RunInv, [Next]_vars, verdict' = "passed", ~ NextSpec
  PROVE  spec' = spec /\ verdict = "passed" /\ ~ Fail /\ ~ SkipSpec
<1>1. ~ Fail /\ ~ SkipSpec
  BY StopDoes DEF Fails
<1> QED
  BY <1>1, ActionSteps, OkDoes, ReturnDoes, PassOverDoes
  DEF RunnerNext, RunnerMoves, Goes, Leaves, BodyDone, suite

LEMMA RestoreOk ==
  ASSUME Inv, RestorePerformanceProfile, ~ Fail
  PROVE  Ok /\ (original' # NoProfile => profiles' = OnlyFound)
<1> USE DEF Inv
<1>1. Ok /\ IF original = NoProfile THEN original' = NoProfile
            ELSE profiles' = [NoProfiles EXCEPT !["performance"] = Bare(original)]
  BY DEF RestorePerformanceProfile, OkCall, FailCall
<1>2. original # NoProfile => Bare(original) = Bare(Found)
  BY BareIs DEF OrigInv
<1> QED
  BY <1>1, <1>2, CleanedProfiles DEF OnlyFound

Behind(ph, n, k, j) == ph = "after" \/ n > 3 \/ (n = 3 /\ k > j)

LEMMA RestoreStep == ASSUME Inv, [Next]_vars PROVE RestoreInv'
<1> USE DEF Inv
<1>1. (RestoreInv <=> (spec = 14 /\ verdict = "passed" =>
           /\ Behind(phase, node, step, 1) => (original # NoProfile => profiles = OnlyFound)
           /\ Behind(phase, node, step, 2) => pods = {}
           /\ Behind(phase, node, step, 3) => networks = {} /\ policies = <<>>))'
  BY DEF RestoreInv, Past, Behind, Given
<1>2. OnlyFound' = OnlyFound
  BY Frames DEF Found, OnlyFound
<1> SUFFICES ASSUME spec' = 14, verdict' = "passed"
             PROVE  /\ Behind(phase', node', step', 1) => (original' # NoProfile => profiles' = OnlyFound)
                    /\ Behind(phase', node', step', 2) => pods' = {}
                    /\ Behind(phase', node', step', 3) => networks' = {} /\ policies' = <<>>
  BY <1>1, <1>2 DEF Behind
<1>3. CASE NextSpec
  BY <1>3 DEF NextSpec, Behind
<1>4. CASE ~ NextSpec
  <2>1. spec = 14 /\ verdict = "passed" /\ ~ Fail /\ ~ SkipSpec
    BY <1>4, PassedStep
  <2>2. /\ Behind(phase, node, step, 1) => (original # NoProfile => profiles = OnlyFound)
        /\ Behind(phase, node, step, 2) => pods = {}
        /\ Behind(phase, node, step, 3) => networks = {} /\ policies = <<>>
    BY <2>1 DEF RestoreInv, Past, Behind, Given
  <2>3. node \in Nat \ {0} /\ step \in Nat \ {0} /\ phase \in {"before", "after"}
    BY DEF RunInv
  <2>0. /\ phase = "after" => Len(Nodes) = 0
        /\ phase = "before" => Len(Nodes) = 3
        /\ phase = "before" /\ node = 3 => Wanted
    BY <2>1, RestoringPlace
  <2>9. ASSUME node <= Len(Nodes) PROVE phase = "before" /\ node <= 3
    <3>1. CASE phase = "after"
      <4>1. Len(Nodes) = 0
        BY <2>0, <3>1
      <4>2. node <= 0
        BY <2>9, <4>1
      <4> QED
        BY <2>3, <4>2
    <3>2. CASE phase = "before"
      <4>1. Len(Nodes) = 3
        BY <2>0, <3>2
      <4> QED
        BY <2>9, <3>2, <4>1
    <3> QED
      BY <2>3, <3>1, <3>2
  <2>4. CASE UNCHANGED vars
    BY <2>2, <2>4 DEF vars, suite, profile, sriov, podState
  <2>5. CASE ~ Active
    <3>1. RunnerGoesOn \/ UNCHANGED vars
      BY <2>5, ActionOps DEF Next, SuiteStep, Ended
    <3>2. CASE RunnerGoesOn
      <4>1. UNCHANGED <<profiles, original, pods, networks, policies>>
        BY <3>2 DEF RunnerGoesOn, profile, sriov, podState
      <4>2. CASE PassOver
        <5>1. phase = "before" /\ node < 3
          BY <2>0, <2>3, <2>9, <4>2, PassOverDoes
        <5> QED
          BY <2>3, <4>2, <5>1, PassOverDoes DEF Leaves, Behind
      <4>3. CASE BodyDone
        <5>1. node > 3
          BY <2>1, <4>3, RestoringPlace DEF BodyDone
        <5> QED
          BY <2>2, <4>1, <5>1 DEF Behind
      <4> QED
        BY <1>4, <3>2, <4>2, <4>3 DEF RunnerGoesOn, RunnerMoves
    <3> QED
      BY <2>4, <3>1, <3>2
  <2>6. CASE Active /\ node < 3 /\ ~ UNCHANGED vars
    <3>1. phase = "before"
      BY <2>1, <2>3, <2>6, RestoringPlace DEF Active
    <3>2. Goes \/ Leaves \/ UNCHANGED suite
      <4>1. ~ PassOver /\ ~ BodyDone
        BY <2>3, <2>9, <2>6, <3>1 DEF PassOver, BodyDone, Active
      <4> QED
        BY <1>4, <2>1, <4>1, ActionSteps, OkDoes, ReturnDoes DEF RunnerNext, RunnerMoves
    <3> QED
      BY <2>3, <2>6, <3>1, <3>2 DEF Goes, Leaves, suite, Behind
  <2>7. CASE Active /\ node = 3
    <3>1. /\ phase = "before" /\ Len(Current.ops) = 3 /\ step \in 1..3
          /\ step = 1 => Op.do = "Restore" /\ Op.in = "cluster"
          /\ step = 2 => Op.do = "CleanPods" /\ Op.in = "any"
          /\ step = 3 => Op.do = "CleanSriov" /\ Op.in = "any"
      BY <2>1, <2>3, <2>7, RestoringPlace DEF Active
    <3>2. ASSUME Ok PROVE /\ phase' = "before"
                          /\ step # 3 => node' = 3 /\ step' = step + 1
                          /\ step = 3 => node' = 4 /\ step' = 1
      BY <2>7, <3>1, <3>2, OkDoes, ReturnDoes DEF Goes, Leaves
    <3>3. CASE step = 1
      <4>1. OtherMode \/ RestorePerformanceProfile \/ UNCHANGED vars
        BY <2>7, <3>1, <3>3, Quiescent, ActionOps DEF Next, SuiteStep, Ended
      <4>2. CASE OtherMode
        <5>1. Ok /\ original' = original /\ env.discovery
          BY <3>1, <3>3, <4>2 DEF OtherMode, profile, InMode
        <5>2. original' = NoProfile
          BY <5>1 DEF DiscInv
        <5> QED
          BY <3>2, <3>3, <5>1, <5>2 DEF Behind
      <4>3. CASE RestorePerformanceProfile
        BY <2>1, <3>2, <3>3, <4>3, RestoreOk DEF Behind
      <4> QED
        BY <2>4, <4>1, <4>2, <4>3
    <3>4. CASE step = 2
      <4>1. CleanPods \/ UNCHANGED vars
        BY <2>7, <3>1, <3>4, Quiescent, ActionOps DEF Next, SuiteStep, Ended, InMode
      <4>2. CASE CleanPods
        <5>1. Ok /\ pods' = {} /\ UNCHANGED <<profiles, original>>
          BY <2>1, <4>2 DEF CleanPods, OkCall, FailCall, profile
        <5> QED
          BY <2>2, <2>7, <3>2, <3>4, <5>1 DEF Behind
      <4> QED
        BY <2>4, <4>1, <4>2
    <3>5. CASE step = 3
      <4>1. CleanSriov \/ UNCHANGED vars
        BY <2>7, <3>1, <3>5, Quiescent, ActionOps DEF Next, SuiteStep, Ended, InMode
      <4>2. CASE CleanSriov
        <5>1. /\ Ok /\ networks' = {} /\ UNCHANGED <<profiles, original, pods>>
              /\ policies' = IF env.discovery THEN policies ELSE <<>>
          BY <2>1, <4>2 DEF CleanSriov, OkCall, FailCall, profile, podState
        <5>2. policies' = <<>>
          BY <5>1 DEF DiscInv
        <5> QED
          BY <2>2, <2>7, <3>2, <3>5, <5>1, <5>2 DEF Behind
      <4> QED
        BY <2>4, <4>1, <4>2
    <3> QED
      BY <3>1, <3>3, <3>4, <3>5
  <2>8. ASSUME Active PROVE node <= 3
    BY <2>9, <2>8 DEF Active
  <2> QED
    BY <2>3, <2>4, <2>5, <2>6, <2>7, <2>8
<1> QED
  BY <1>3, <1>4

LEMMA StepInv == Inv /\ [Next]_vars => Inv'
<1> SUFFICES ASSUME Inv, [Next]_vars PROVE Inv'
  OBVIOUS
<1>1. RunInv'
  BY RunnerStepInv, ActionSteps DEF Inv
<1> QED
  BY <1>1, OrigStep, BoolStep, DiscStep, RestoreStep DEF Inv

(* What the suite found in the cluster and means to give back is not lost: *)
(* the spec of the profile under the name of the test profile is in the    *)
(* cluster or in OriginalPerformanceProfile, the SELinux boolean is as it was outside    *)
(* the rootless spec unless the call that resets it failed, and discovery  *)
(* mode leaves profiles, policies and the boolean alone.                   *)
THEOREM FoundIsNeverLost == Spec => []FoundIsKept
<1>1. ASSUME Inv PROVE FoundIsKept
  <2> USE <1>1 DEF Inv
  <2>1. OriginalKept
    BY DEF OrigInv
  <2>2. ASSUME ~ Over, Context # "rootless" PROVE cud = env.cud \/ unsetFailed
    <3>1. spec \in 1..15
      BY <2>2, ThePlan DEF RunInv, Over
    <3>2. spec # 3
      BY <2>2, <3>1, PlanContexts DEF Context
    <3> QED
      BY <3>2 DEF BoolInv, MayBeSet
  <2>3. DiscoveryKeepsConfiguration
    BY DEF DiscInv, DiscoveryKeepsConfiguration
  <2> QED
    BY <2>1, <2>2, <2>3 DEF FoundIsKept, BooleanRestored
<1> QED
  BY <1>1, InitInv, StepInv, PTL DEF Spec

-----------------------------------------------------------------------------
(* The types.                                                              *)
LEMMA Least ==
  ASSUME NEW T, T \subseteq Nat, T # {}
  PROVE  \E x \in T : \A y \in Nat : y < x => y \notin T
<1> DEFINE R == {p \in Nat \X Nat : p[1] < p[2]}
<1>1. IsWellFoundedOn(R, Nat)
  BY NatLessThanWellFounded DEF OpToRel
<1>2. \A x, y \in Nat : y < x => <<y, x>> \in R
  OBVIOUS
<1> HIDE DEF R
<1>3. PICK x \in T : \A y \in T : ~ (<<y, x>> \in R)
  BY <1>1, WFMin
<1> QED
  BY <1>2, <1>3

LEMMA MinIn ==
  ASSUME NEW T, T \subseteq Nat, T # {}
  PROVE  Min(T) \in T
<1>1. PICK x \in T : \A y \in Nat : y < x => y \notin T
  BY Least
<1>2. \A y \in T : x <= y
  BY <1>1
<1> QED
  BY <1>1, <1>2 DEF Min

Sizes == {"", "1G", "512M"}

LEMMA SizeIs ==
  ASSUME NEW p, DOMAIN p.pages \subseteq Nat, NEW size \in Sizes
  PROVE  HugePageSizeOf(p, size) \in Sizes
<1>1. CASE ValidatePerformanceProfile(p)
  <2>1. Enough(p) \subseteq Nat /\ Enough(p) # {}
    BY <1>1 DEF ValidatePerformanceProfile, Enough
  <2>2. Min(Enough(p)) \in Enough(p)
    BY <2>1, MinIn
  <2>3. EnoughPages(p.pages[Min(Enough(p))])
    BY <2>2 DEF Enough
  <2> QED
    BY <1>1, <2>3 DEF HugePageSizeOf, EnoughPages, Sizes
<1>2. CASE ~ ValidatePerformanceProfile(p)
  BY <1>2 DEF HugePageSizeOf
<1> QED
  BY <1>1, <1>2

LEMMA PagesInOrder ==
  ASSUME EnvInv, OrigInv
  PROVE  /\ DOMAIN named.pages \subseteq Nat
         /\ \A n \in Names : DOMAIN env.profiles[n].pages \subseteq Nat
<1>1. \A p \in Profiles : DOMAIN p.pages \subseteq Nat
  BY DEF Profiles
<1>2. \A n \in Names : env.profiles[n] \in Profiles \union {NoProfile}
  BY EnvsAssumption DEF EnvInv
<1>4. DOMAIN NoProfile.pages \subseteq Nat
  BY DEF NoProfile
<1>3. \A n \in Names : DOMAIN env.profiles[n].pages \subseteq Nat
  BY <1>1, <1>2, <1>4
<1>6. DOMAIN Bare(Found).pages \subseteq Nat
  BY <1>3, BareIs DEF Found, Names
<1>5. DOMAIN TestProfile(env.arch).pages \subseteq Nat
  BY DEF TestProfile
<1> QED
  BY <1>3, <1>4, <1>5, <1>6 DEF OrigInv, Found, Names

LEMMA SizeStep ==
  ASSUME Inv, [Next]_vars, hugePageSize \in Sizes
  PROVE  hugePageSize' \in Sizes
<1> USE DEF Inv
<1>1. CASE UNCHANGED hugePageSize
  BY <1>1
<1>2. CASE FindOrOverridePerformanceProfile
  <2>1. CASE hugePageSize' = HugePageSizeOf(named, hugePageSize)
    BY <2>1, SizeIs, PagesInOrder
  <2>2. ASSUME NEW stage, OverrideUntil(stage) PROVE hugePageSize' \in Sizes
    <3>1. TestPages(env.arch).size \in Sizes
      BY DEF TestPages, Page, Sizes
    <3>2. hugePageSize' \in {hugePageSize, TestPages(env.arch).size}
      BY <2>2 DEF OverrideUntil
    <3> QED
      BY <3>1, <3>2
  <2> QED
    BY <1>1, <1>2, <2>1, <2>2 DEF FindOrOverridePerformanceProfile
<1>3. CASE DiscoverPerformanceProfiles
  <2>1. env.discovery
    BY <1>3, ActionOps, OpIs DEF Ordinary, Unordinary, InMode
  <2>2. profiles = env.profiles
    BY <2>1 DEF DiscInv
  <2>3. \A n \in Names, size \in Sizes : SizeAfter(n, size) \in Sizes
    BY <2>2, SizeIs, PagesInOrder DEF SizeAfter
  <2>4. UNCHANGED hugePageSize \/ hugePageSize' = SizeAfter("performance", SizeAfter("other", hugePageSize))
    BY <1>3 DEF DiscoverPerformanceProfiles
  <2> QED
    BY <1>1, <2>3, <2>4 DEF Names
<1> QED
  BY <1>1, <1>2, <1>3, Frames

SuiteNetworks == {"dpdk", "dpdk1", "dpdk2", "regular"}

LEMMA NetworksKnown ==
  /\ \A ctx : NetworksOf(ctx) \subseteq SuiteNetworks
  /\ SuiteNetworks \subseteq UNION {NetworksOf(SuitePlan[i].context) : i \in DOMAIN SuitePlan}
<1>1. \A ctx : NetworksOf(ctx) \subseteq SuiteNetworks
  BY DEF NetworksOf, SuiteNetworks
<1>2. 3 \in DOMAIN SuitePlan /\ 9 \in DOMAIN SuitePlan
  BY ThePlan
<1>3. SuitePlan[3].context = "rootless" /\ SuitePlan[9].context = "split"
  BY PlanNodes DEF HasNodes
<1>4. NetworksOf("rootless") = {"dpdk1", "dpdk2"} /\ NetworksOf("split") = {"dpdk", "regular"}
  BY DEF NetworksOf
<1> QED
  BY <1>1, <1>2, <1>3, <1>4 DEF SuiteNetworks

TypeInv ==
    /\ hugePageSize \in Sizes /\ networks \subseteq SuiteNetworks
    /\ workload \in {"nil"} \union Contexts
    /\ nads \subseteq Range(Nads) /\ nadVars \subseteq Range(Nads)
    /\ faults \in 0..MaxFaults

LEMMA NadsIn == Range(Nads) = {"tap", "vlan100", "vlan200"}
                /\ Nads[1] = "tap" /\ Nads[2] = "vlan100" /\ Nads[3] = "vlan200" /\ DOMAIN Nads = 1..3
  BY DEF Range, Nads

LEMMA TypeStep == ASSUME Inv, TypeInv, [Next]_vars PROVE TypeInv'
<1> USE DEF TypeInv
<1>1. hugePageSize' \in Sizes
  BY SizeStep
<1>2. networks' \subseteq SuiteNetworks
  <2>1. CASE CleanSriov
    BY <2>1 DEF CleanSriov
  <2>2. CASE DiscoveryNetwork
    BY <2>2 DEF DiscoveryNetwork, SuiteNetworks
  <2>3. CASE CreateSriov
    BY <2>3, NetworksKnown DEF CreateSriov
  <2> QED
    BY <2>1, <2>2, <2>3, Frames
<1>3. workload' \in {"nil"} \union Contexts
  <2>1. CASE StartPod
    <3>1. Op.ctx \in Contexts
      BY <2>1, ActionOps, OpIs DEF Inv, Ordinary, Unordinary
    <3> QED
      BY <2>1, <3>1 DEF StartPod
  <2> QED
    BY <2>1, Frames
<1>4. nads' \subseteq Range(Nads)
  <2>1. CASE CreateNads
    BY <2>1, NadsIn DEF CreateNads
  <2>2. CASE DeleteNads
    BY <2>2 DEF DeleteNads
  <2>3. CASE DeleteNamespace
    BY <2>3 DEF DeleteNamespace
  <2> QED
    BY <2>1, <2>2, <2>3, Frames
<1>5. nadVars' \subseteq Range(Nads)
  BY NadsIn, Frames DEF CreateNads
<1>6. faults' \in 0..MaxFaults
  BY Frames, FaultsAssumption
<1> QED
  BY <1>1, <1>2, <1>3, <1>4, <1>5, <1>6

(* The variables of dpdk.go and what the suite finds have their types, and *)
(* the suite knows the size of the hugepages it remembers.                 *)
THEOREM TypeCorrect == Spec => []TypeOK
<1>1. Init => Inv /\ TypeInv
  <2>1. Init => TypeInv
    <3> SUFFICES ASSUME Init PROVE TypeInv
      OBVIOUS
    <3>1. hugePageSize = "" /\ networks = {} /\ workload = "nil" /\ nads = {} /\ nadVars = {} /\ faults = 0
      BY DEF Init
    <3>2. faults \in 0..MaxFaults
      <4>1. faults = 0
        BY <3>1
      <4> QED
        BY <4>1, FaultsAssumption
    <3>3. hugePageSize \in Sizes /\ workload \in {"nil"} \union Contexts
      BY <3>1 DEF Sizes
    <3> QED
      BY <3>1, <3>2, <3>3 DEF TypeInv
  <2> QED
    BY <2>1, InitInv
<1>2. Inv /\ TypeInv /\ [Next]_vars => (Inv /\ TypeInv)'
  BY StepInv, TypeStep
<1>3. Inv /\ TypeInv => TypeOK
  <2> SUFFICES ASSUME Inv, TypeInv PROVE TypeOK
    OBVIOUS
  <2>1. networks \subseteq UNION {NetworksOf(SuitePlan[i].context) : i \in DOMAIN SuitePlan}
    BY NetworksKnown DEF TypeInv
  <2>2. workload \in {"nil"} \union {SuitePlan[i].context : i \in DOMAIN SuitePlan}
    BY ThePlan, PlanContexts DEF TypeInv
  <2> QED
    BY <2>1, <2>2 DEF TypeInv, TypeOK, Sizes, Inv, RunInv
<1> QED
  BY <1>1, <1>2, <1>3, PTL DEF Spec

-----------------------------------------------------------------------------
(* The loops of discovery.                                                 *)
(* One round of the loops, on the best offer so far.                       *)
CanUse(o, valid) == o.profile \in valid /\ Usable(o)
Turn(offers, valid, preferred, b, i) ==
    IF /\ CanUse(offers[i], valid)
       /\ b.resource # preferred
       /\ offers[i].resource = preferred \/ offers[i].count > b.count
    THEN offers[i] ELSE b

IsLoop(f, n, offers, valid, preferred) ==
    f = [i \in 0..n |-> IF i = 0 THEN NoOffer ELSE Turn(offers, valid, preferred, f[i - 1], i)]

LEMMA LoopRuns ==
  ASSUME NEW n \in Nat, NEW offers, NEW valid, NEW preferred
  PROVE  \E f : IsLoop(f, n, offers, valid, preferred)
<1> DEFINE T(b, i) == Turn(offers, valid, preferred, b, i)
           L(f, k) == f = [i \in 0..k |-> IF i = 0 THEN NoOffer ELSE T(f[i - 1], i)]
           Bad == {k \in Nat : ~ \E f : L(f, k)}
<1> HIDE DEF T
<1>1. Bad = {}
  <2> SUFFICES ASSUME Bad # {} PROVE FALSE
    OBVIOUS
  <2>1. PICK m \in Bad : \A y \in Nat : y < m => y \notin Bad
    BY Least
  <2>2. m # 0
    <3> SUFFICES ASSUME m = 0 PROVE FALSE
      OBVIOUS
    <3>1. \A f : f = [i \in 0..0 |-> NoOffer] => L(f, 0)
      OBVIOUS
    <3>2. L([i \in 0..0 |-> NoOffer], 0)
      BY <3>1
    <3> HIDE DEF L
    <3> QED
      BY <3>2
  <2>3. m - 1 \in Nat /\ m - 1 \notin Bad
    <3>1. m \in Nat
      OBVIOUS
    <3> HIDE DEF Bad
    <3> QED
      BY <2>1, <2>2, <3>1
  <2>4. PICK g : L(g, m - 1)
    BY <2>3
  <2> DEFINE f == [i \in 0..m |-> IF i = m THEN T(g[m - 1], m) ELSE g[i]]
  <2>5. \A i \in 0..m : f[i] = IF i = 0 THEN NoOffer ELSE T(f[i - 1], i)
    <3> SUFFICES ASSUME NEW i \in 0..m
                 PROVE  f[i] = IF i = 0 THEN NoOffer ELSE T(f[i - 1], i)
      OBVIOUS
    <3>1. CASE i = m
      <4>1. m - 1 \in 0..m /\ m - 1 # m
        BY <2>3
      <4>2. f[m - 1] = g[m - 1] /\ f[m] = T(g[m - 1], m)
        BY <4>1
      <4> QED
        BY <2>2, <3>1, <4>2
    <3>2. CASE i # m
      <4>1. i \in 0..m - 1 /\ f[i] = g[i]
        BY <3>2
      <4>2. g[i] = IF i = 0 THEN NoOffer ELSE T(g[i - 1], i)
        BY <2>4, <4>1
      <4>3. i # 0 => i - 1 \in 0..m /\ i - 1 # m
        BY <3>2
      <4>4. i # 0 => f[i - 1] = g[i - 1]
        BY <4>3
      <4> QED
        BY <4>1, <4>2, <4>4
    <3> QED
      BY <3>1, <3>2
  <2>6. L(f, m)
    <3> HIDE DEF f
    <3>1. f = [i \in 0..m |-> f[i]]
      BY DEF f
    <3> QED
      BY <2>5, <3>1
  <2> QED
    BY <2>6
<1>2. PICK f : L(f, n)
  BY <1>1
<1> QED
  BY <1>2 DEF IsLoop, T

(* What the loops return: an offer of the preferred resource if there is   *)
(* one, and otherwise one of which a node has the most.                    *)
LEMMA LoopFinds ==
  ASSUME NEW offers \in Seq(AllOffers), NEW valid, NEW preferred, preferred # "none"
  PROVE  LET found == DiscoverResources(offers, valid, preferred)
             usable == {o \in Range(offers) : CanUse(o, valid)}
         IN  /\ found = NoOffer => usable = {}
             /\ found # NoOffer =>
                  /\ found \in usable
                  /\ found.resource # preferred =>
                        \A o \in usable : o.resource # preferred /\ o.count <= found.count
<1> DEFINE n == Len(offers)
           found == DiscoverResources(offers, valid, preferred)
<1>1. n \in Nat /\ \A i \in 1..n : offers[i] \in AllOffers
  OBVIOUS
<1>2. PICK f : IsLoop(f, n, offers, valid, preferred) /\ found = f[n]
  <2>1. \E f : IsLoop(f, n, offers, valid, preferred)
    BY <1>1, LoopRuns
  <2> DEFINE g == CHOOSE f : IsLoop(f, n, offers, valid, preferred)
  <2>2. IsLoop(g, n, offers, valid, preferred)
    BY <2>1
  <2>3. found = g[n]
    BY DEF DiscoverResources, IsLoop, Turn, CanUse
  <2> QED
    BY <2>2, <2>3
<1>3. /\ f[0] = NoOffer
      /\ \A i \in 1..n : f[i] = Turn(offers, valid, preferred, f[i - 1], i)
  BY <1>1, <1>2 DEF IsLoop
<1> HIDE DEF n, found
<1> DEFINE Can(j) == CanUse(offers[j], valid)
           Good(i) == /\ f[i] = NoOffer \/ \E j \in 1..i : f[i] = offers[j] /\ Can(j)
                      /\ \A j \in 1..i : Can(j) => f[i] # NoOffer
                      /\ f[i].resource # preferred =>
                            \A j \in 1..i : Can(j) => offers[j].resource # preferred /\ offers[j].count <= f[i].count
           Bad == {i \in 0..n : ~ Good(i)}
<1>4. NoOffer.resource = "none" /\ NoOffer.count = 0
  BY DEF NoOffer
<1>5. \A j \in 1..n : /\ offers[j].count \in Nat /\ offers[j] # NoOffer
                      /\ Can(j) => offers[j].count > 0
  BY <1>1, <1>4 DEF AllOffers, CanUse, Usable
<1>6. \A i \in 1..n : Good(i - 1) => Good(i)
  <2> SUFFICES ASSUME NEW i \in 1..n, Good(i - 1) PROVE Good(i)
    OBVIOUS
  <2> DEFINE b == f[i - 1]
  <2>1. f[i] = IF Can(i) /\ b.resource # preferred /\ (offers[i].resource = preferred \/ offers[i].count > b.count)
               THEN offers[i] ELSE b
    BY <1>3 DEF Turn
  <2>2. \A j \in 1..i : j = i \/ j \in 1..i - 1
    OBVIOUS
  <2>3. b.count \in Nat /\ i \in 1..i /\ \A j \in 1..i - 1 : j \in 1..i /\ j \in 1..n
    <3>1. i \in 1..i /\ \A j \in 1..i - 1 : j \in 1..i /\ j \in 1..n
      BY <1>1
    <3>2. b = NoOffer \/ \E j \in 1..i - 1 : b = offers[j]
      OBVIOUS
    <3> HIDE DEF b, Good
    <3> QED
      BY <1>4, <1>5, <3>1, <3>2
  <2> HIDE DEF Can
  <2>4. CASE f[i] = offers[i] /\ Can(i) /\ b.resource # preferred /\ (offers[i].resource = preferred \/ offers[i].count > b.count)
    <3>1. \A j \in 1..i - 1 : Can(j) => offers[j].count <= b.count /\ offers[j].resource # preferred
      BY <2>4
    <3>2. offers[i].resource # preferred =>
             \A j \in 1..i : Can(j) => offers[j].resource # preferred /\ offers[j].count <= offers[i].count
      BY <1>5, <2>2, <2>3, <2>4, <3>1
    <3> QED
      BY <1>5, <2>3, <2>4, <3>2
  <2>5. CASE f[i] = b /\ ~ (Can(i) /\ b.resource # preferred /\ (offers[i].resource = preferred \/ offers[i].count > b.count))
    <3>1. b = NoOffer \/ \E j \in 1..i : b = offers[j] /\ Can(j)
      BY <2>3
    <3>2. Can(i) => b # NoOffer
      BY <1>4, <1>5, <2>5
    <3>3. b.resource # preferred => (Can(i) => offers[i].resource # preferred /\ offers[i].count <= b.count)
      BY <1>5, <2>3, <2>5
    <3> QED
      BY <2>2, <2>5, <3>1, <3>2, <3>3
  <2> QED
    BY <2>1, <2>4, <2>5
<1>7. Good(0)
  BY <1>3
<1>8. Good(n)
  <2> HIDE DEF Good
  <2> SUFFICES ASSUME Bad # {} PROVE FALSE
    BY <1>1
  <2>1. Bad \subseteq Nat
    OBVIOUS
  <2>2. PICK m \in Bad : \A y \in Nat : y < m => y \notin Bad
    BY <2>1, Least
  <2>3. m # 0
    BY <1>7
  <2>4. m \in 1..n /\ m - 1 \in 0..n /\ m - 1 < m /\ m - 1 \in Nat
    BY <1>1, <2>3
  <2> QED
    BY <1>6, <2>2, <2>4
<1>9. \A o : o \in Range(offers) <=> \E j \in 1..n : o = offers[j]
  BY <1>1 DEF Range, n
<1> HIDE DEF Can
<1>10. \A o \in {x \in Range(offers) : CanUse(x, valid)} : \E j \in 1..n : o = offers[j] /\ Can(j)
  BY <1>9 DEF Can
<1>11. \A j \in 1..n : Can(j) => offers[j] \in {x \in Range(offers) : CanUse(x, valid)}
  BY <1>9 DEF Can
<1>12. found = NoOffer => {x \in Range(offers) : CanUse(x, valid)} = {}
  BY <1>2, <1>8, <1>10
<1>13. found # NoOffer => found \in {x \in Range(offers) : CanUse(x, valid)}
  BY <1>2, <1>8, <1>11
<1>14. found.resource # preferred =>
          \A o \in {x \in Range(offers) : CanUse(x, valid)} : o.resource # preferred /\ o.count <= found.count
  BY <1>2, <1>8, <1>10
<1> QED
  BY <1>12, <1>13, <1>14 DEF found

-----------------------------------------------------------------------------
(* The top BeforeAll has come to its end wherever a later node runs, and   *)
(* in a spec that passes.                                                  *)
TopInv ==
    spec \in 1..14 /\ ((phase = "before" /\ node > 1) \/ (phase = "after" /\ verdict = "passed")) =>
        "top" \in done

LEMMA TopNodes ==
  ASSUME NEW s \in 1..14
  PROVE  SuitePlan[s].before[1] = Top[1] /\ SuitePlan[s].before[2] = Top[2] /\ Len(SuitePlan[s].before) > 2
<1> DEFINE P(i) == SuitePlan[i].before[1] = Top[1] /\ SuitePlan[i].before[2] = Top[2] /\ Len(SuitePlan[i].before) > 2
<1>1. P(1)
  BY PlanNodes DEF HasNodes
<1>2. P(2)
  BY PlanNodes DEF HasNodes
<1>3. P(3)
  BY PlanNodes DEF HasNodes
<1>4. P(4)
  BY PlanNodes DEF HasNodes
<1>5. P(5)
  BY PlanNodes DEF HasNodes
<1>6. P(6)
  BY PlanNodes DEF HasNodes
<1>7. P(7)
  BY PlanNodes DEF HasNodes
<1>8. P(8)
  BY PlanNodes DEF HasNodes
<1>9. P(9)
  BY PlanNodes DEF HasNodes
<1>10. P(10)
  BY PlanNodes DEF HasNodes
<1>11. P(11)
  BY PlanNodes DEF HasNodes
<1>12. P(12)
  BY PlanNodes DEF HasNodes
<1>13. P(13)
  BY PlanNodes DEF HasNodes
<1>14. P(14)
  BY PlanNodes DEF HasNodes
<1> HIDE DEF P
<1>15. P(s)
  BY <1>1, <1>2, <1>3, <1>4, <1>5, <1>6, <1>7, <1>8, <1>9, <1>10, <1>11, <1>12, <1>13, <1>14
<1> QED
  BY <1>15 DEF P

LEMMA AtTopNode ==
  ASSUME RunInv, spec \in 1..14, phase = "before", node \in {1, 2}
  PROVE  ~ Over /\ node <= Len(Nodes) /\ Current = Top[node]
<1>1. Nodes = SuitePlan[spec].before
  BY DEF Nodes
<1>2. Len(Nodes) > 2 /\ Nodes[1] = Top[1] /\ Nodes[2] = Top[2]
  BY <1>1, TopNodes
<1>3. Len(Nodes) \in Nat
  <2>1. spec \in 1..15
    OBVIOUS
  <2> QED
    BY <2>1, NodeCounts DEF Nodes
<1>4. node <= Len(Nodes)
  <2> DEFINE n == Len(Nodes)
  <2>1. n \in Nat /\ n > 2
    BY <1>2, <1>3
  <2> HIDE DEF n
  <2>2. node <= n
    BY <2>1
  <2> QED
    BY <2>2 DEF n
<1> QED
  BY <1>2, <1>4, ThePlan DEF Current, Over

LEMMA TopStep ==
  ASSUME RunInv, TopInv, [Next]_vars
  PROVE  TopInv' /\ done \subseteq done'
<1>0. RunnerNext \/ UNCHANGED suite
  BY ActionSteps
<1>1. CASE Return
  <2>1. node' = node + 1 /\ UNCHANGED <<spec, phase, verdict>> /\ done' = IF Current.once THEN done \union {Current.id} ELSE done
    BY <1>1 DEF Return
  <2>2. CASE spec \in 1..14 /\ phase = "before" /\ node = 1
    <3>1. Current = Top[1]
      BY <2>2, AtTopNode
    <3> QED
      BY <2>1, <2>2, <3>1, Top1Node DEF TopInv
  <2>3. CASE ~ (spec \in 1..14 /\ phase = "before" /\ node = 1)
    BY <2>1, <2>3 DEF TopInv, RunInv
  <2> QED
    BY <2>2, <2>3
<1>2. CASE Ok
  <2>1. CASE Goes
    BY <2>1 DEF Goes, TopInv
  <2> QED
    BY <1>1, <1>2, <2>1, OkDoes
<1>3. CASE Fail \/ SkipSpec
  BY <1>3, StopDoes DEF Fails, TopInv, RunInv
<1>4. CASE PassOver
  <2>1. Leaves /\ done' = done /\ ~ Wanted
    BY <1>4, PassOverDoes
  <2>2. CASE spec \in 1..14 /\ phase = "before" /\ node = 1
    <3>1. Current = Top[1] /\ Current.id \in done
      BY <2>1, <2>2, AtTopNode DEF Wanted
    <3> QED
      BY <2>1, <2>2, <3>1, Top1Node DEF TopInv
  <2>3. CASE ~ (spec \in 1..14 /\ phase = "before" /\ node = 1)
    BY <2>1, <2>3 DEF Leaves, TopInv, RunInv
  <2> QED
    BY <2>2, <2>3
<1>5. CASE BodyDone
  <2>1. ASSUME spec \in 1..14 PROVE node > 1
    BY <1>5, <2>1, AtTopNode DEF BodyDone, RunInv
  <2> QED
    BY <1>5, <2>1 DEF BodyDone, TopInv
<1>7. CASE NextSpec
  BY <1>7 DEF NextSpec, TopInv
<1>6. CASE UNCHANGED suite
  BY <1>6 DEF suite, TopInv
<1> QED
  BY <1>0, <1>1, <1>2, <1>3, <1>4, <1>5, <1>6, <1>7 DEF RunnerNext, RunnerMoves

-----------------------------------------------------------------------------
(* What discovery chose.                                                   *)
BestInv == discovered # NoOffer => env.discovery /\ DiscoversBest

Best(d, offers, valid) ==
    LET usable == {o \in Range(offers) : CanUse(o, valid)}
    IN  /\ d \in usable
        /\ \/ d.resource = "dpdknic"
           \/ /\ \A o \in usable : o.resource # "dpdknic"
              /\ \E o \in usable : /\ o.resource = d.resource
                                   /\ \A other \in usable : other.count <= o.count

LEMMA BestIs == DiscoversBest <=> (discovered # NoOffer => Best(discovered, env.offers, ValidProfiles))
  BY DEF DiscoversBest, Best, CanUse

(* A first attempt prefers "dpdknic", a second the resource of the first.  *)
LEMMA BestFound ==
  ASSUME NEW offers \in Seq(AllOffers), NEW valid, NEW before,
         before # NoOffer => Best(before, offers, valid),
         NEW preferred, preferred = IF before = NoOffer THEN "dpdknic" ELSE before.resource,
         NEW found, found = DiscoverResources(offers, valid, preferred), found # NoOffer
  PROVE  Best(found, offers, valid)
<1> DEFINE usable == {o \in Range(offers) : CanUse(o, valid)}
<1>1. \A o \in usable : o.resource # "none" /\ o.count \in Nat
  <2>1. \A o \in Range(offers) : o \in AllOffers
    BY DEF Range
  <2> QED
    BY <2>1 DEF AllOffers
<1>2. before # NoOffer => before \in usable
  BY DEF Best
<1> HIDE DEF usable
<1>3. preferred # "none"
  BY <1>1, <1>2
<1>4. /\ found \in usable
      /\ found.resource # preferred => \A o \in usable : o.resource # preferred /\ o.count <= found.count
  BY <1>3, LoopFinds DEF usable
<1>5. CASE before = NoOffer
  <2>1. CASE found.resource = "dpdknic"
    BY <1>4, <2>1 DEF Best, usable
  <2>2. CASE found.resource # "dpdknic"
    <3>1. \A o \in usable : o.resource # "dpdknic" /\ o.count <= found.count
      BY <1>4, <1>5, <2>2
    <3> QED
      BY <1>4, <3>1 DEF Best, usable
  <2> QED
    BY <2>1, <2>2
<1>6. CASE before # NoOffer
  <2>1. found.resource = before.resource
    BY <1>2, <1>4, <1>6
  <2> QED
    BY <1>4, <1>6, <2>1 DEF Best, usable
<1> QED
  BY <1>5, <1>6

LEMMA SameProfiles ==
  ASSUME Inv, [Next]_vars, env.discovery
  PROVE  profiles' = profiles /\ ValidProfiles' = ValidProfiles /\ env' = env
<1>1. env' = env
  BY Frames
<1>2. DiscInv' /\ DiscInv
  BY StepInv DEF Inv
<1>3. profiles = env.profiles /\ profiles' = env'.profiles
  BY <1>1, <1>2 DEF DiscInv
<1> QED
  BY <1>1, <1>3 DEF ValidProfiles

LEMMA BestStep ==
  ASSUME Inv, BestInv, [Next]_vars
  PROVE  BestInv'
<1>1. env' = env
  BY Frames
<1>2. ASSUME env.discovery, discovered' # NoOffer => Best(discovered', env.offers, ValidProfiles)
      PROVE  BestInv'
  <2>1. ValidProfiles' = ValidProfiles
    BY <1>2, SameProfiles
  <2>2. (DiscoversBest <=> (discovered # NoOffer => Best(discovered, env.offers, ValidProfiles)))'
    BY BestIs DEF DiscoversBest, Best, CanUse
  <2>3. DiscoversBest'
    BY <1>1, <1>2, <2>1, <2>2
  <2> QED
    BY <1>1, <1>2, <2>3 DEF BestInv
<1>3. CASE discovered' = NoOffer
  BY <1>3 DEF BestInv
<1>4. CASE Discover /\ discovered' # NoOffer
  <2>1. env.discovery
    BY <1>4, ActionOps, OpIs DEF Inv, Ordinary, Unordinary, InMode
  <2>2. discovered' = DiscoverResources(env.offers, ValidProfiles, Preferred)
    BY <1>4 DEF Discover
  <2>3. env.offers \in Seq(AllOffers)
    BY EnvsAssumption DEF Inv, EnvInv
  <2>4. discovered # NoOffer => Best(discovered, env.offers, ValidProfiles)
    BY BestIs DEF BestInv
  <2>5. Best(discovered', env.offers, ValidProfiles)
    BY <1>4, <2>2, <2>3, <2>4, BestFound DEF Preferred
  <2> QED
    BY <1>2, <2>1, <2>5
<1>5. CASE discovered' = discovered /\ discovered # NoOffer
  BY <1>2, <1>5, BestIs DEF BestInv
<1>6. CASE DiscoverPerformanceProfiles
  BY <1>3, <1>5, <1>6 DEF DiscoverPerformanceProfiles
<1> QED
  BY <1>3, <1>4, <1>5, <1>6, Frames

(* Discovery mode chooses a usable policy of a valid profile, of the       *)
(* resource "dpdknic" if there is one and of a resource of which a node    *)
(* has the most otherwise, for all offers and whichever attempt succeeds   *)
(* (DiscoverPerformanceProfileAndPolicyWithAvailableNodes).                *)
THEOREM AlwaysDiscoversBest == Spec => []DiscoversBest
<1>1. Init => Inv /\ BestInv
  BY InitInv DEF Init, BestInv
<1>2. Inv /\ BestInv /\ [Next]_vars => (Inv /\ BestInv)'
  BY StepInv, BestStep
<1>3. BestInv => DiscoversBest
  BY DEF BestInv, DiscoversBest
<1> QED
  BY <1>1, <1>2, <1>3, PTL DEF Spec

-----------------------------------------------------------------------------
(* The profile in use and the size of its pages.                           *)
PassedTop(k) == phase = "before" /\ spec \in 1..14 /\ node = 1 /\ step > k

ClusterPages ==
    ~ env.discovery /\ (spec <= 13 \/ original = NoProfile) /\ ("top" \in done \/ PassedTop(6)) =>
        ValidatePerformanceProfile(named) /\ hugePageSize = HugePageSizeOf(named, "")

DiscoveryPages ==
    env.discovery /\ (discovered # NoOffer \/ PassedTop(3)) =>
        \E n \in ValidProfiles : hugePageSize = HugePageSizeOf(profiles[n], "")

DiscoveryGate ==
    env.discovery /\ spec \in 1..14 /\ phase = "before" /\ node > 2 => discovered # NoOffer

(* A valid profile's page size does not depend on what was there before.   *)
LEMMA ValidSize ==
  ASSUME NEW p, ValidatePerformanceProfile(p), NEW size
  PROVE  HugePageSizeOf(p, size) = HugePageSizeOf(p, "")
  BY DEF HugePageSizeOf

LEMMA TestProfileSize ==
  ASSUME NEW arch
  PROVE  HugePageSizeOf(TestProfile(arch), "") = TestPages(arch).size
<1> DEFINE p == TestProfile(arch)
<1>1. ValidatePerformanceProfile(p)
  BY TestProfileValid
<1>2. p.pages = <<TestPages(arch)>>
  BY DEF TestProfile
<1>3. Enough(p) \subseteq {1} /\ Enough(p) # {}
  BY <1>1, <1>2 DEF Enough, ValidatePerformanceProfile
<1>4. Min(Enough(p)) = 1
  <2>1. Min(Enough(p)) \in Enough(p)
    BY <1>3, MinIn
  <2> QED
    BY <1>3, <2>1
<1> HIDE DEF p
<1> QED
  BY <1>1, <1>2, <1>4 DEF HugePageSizeOf, p

(* The steps at the top BeforeAll.                                         *)
LEMMA TopWanted ==
  ASSUME RunInv, Active, spec \in 1..14, phase = "before", node = 1
  PROVE  "top" \notin done
<1>1. Current = Top[1]
  BY AtTopNode
<1> QED
  BY <1>1, Top1Node DEF Active, Wanted

LEMMA OverrideStep ==
  ASSUME Inv, [Next]_vars, FindOrOverridePerformanceProfile
  PROVE  /\ AtTop(6) /\ ~ env.discovery /\ "top" \notin done
         /\ Fail \/ (/\ Ok /\ ValidatePerformanceProfile(named')
                     /\ hugePageSize' = HugePageSizeOf(named', ""))
<1> USE DEF Inv
<1>1. AtTop(6) /\ Op.in = "cluster" /\ Active /\ InMode
  BY ActionOps, OpIs DEF Ordinary, Unordinary
<1>2. ~ env.discovery
  BY <1>1, EnvsAssumption DEF InMode, EnvInv
<1>3. "top" \notin done
  BY <1>1, TopWanted DEF AtTop
<1>4. CASE Fail
  BY <1>1, <1>2, <1>3, <1>4
<1>5. CASE /\ ValidatePerformanceProfile(named) /\ OkCall /\ UNCHANGED profiles
           /\ hugePageSize' = HugePageSizeOf(named, hugePageSize)
  <2>1. named' = named
    BY <1>5 DEF named
  <2> QED
    BY <1>1, <1>2, <1>3, <1>5, <2>1, ValidSize DEF OkCall
<1>6. CASE OkCall /\ OverrideUntil("done")
  <2>1. /\ hugePageSize' = TestPages(env.arch).size
        /\ \E f \in {NoProfiles, profiles} : profiles' = [f EXCEPT !["performance"] = TestProfile(env.arch)]
    BY <1>6 DEF OverrideUntil
  <2>2. named' = TestProfile(env.arch)
    BY <2>1 DEF named, NoProfiles, EnvInv, Names
  <2> QED
    BY <1>1, <1>2, <1>3, <1>6, <2>1, <2>2, TestProfileValid, TestProfileSize DEF OkCall
<1> QED
  BY <1>4, <1>5, <1>6 DEF FindOrOverridePerformanceProfile, FailCall

(* Which operation is performed there.                                     *)
LEMMA OnlyAtTop ==
  ASSUME RunInv, [Next]_vars, Active, InMode, ~ UNCHANGED suite
  PROVE  /\ Op.do = "FindOrOverride" => FindOrOverridePerformanceProfile
         /\ Op.do = "DiscoverProfiles" => DiscoverPerformanceProfiles
         /\ Op.do = "SkipUndiscovered" => Skips
<1>1. ~ RunnerGoesOn /\ ~ Ended /\ ~ UNCHANGED vars
  BY Quiescent DEF Ended, vars
<1> QED
  BY <1>1, ActionOps DEF Next, SuiteStep

LEMMA TopOp ==
  ASSUME RunInv, spec \in 1..14, phase = "before", node = 1
  PROVE  /\ step = 3 => Op.do = "DiscoverProfiles" /\ Op.in = "discovery"
         /\ step = 6 => Op.do = "FindOrOverride" /\ Op.in = "cluster"
         /\ Len(Current.ops) = 7 /\ Current.id = "top"
<1>1. Current = Top[1]
  BY AtTopNode
<1> QED
  BY <1>1, Top1Ops, Top1Node DEF Op

LEMMA SpecsGoOn ==
  ASSUME RunInv, [Next]_vars
  PROVE  spec' \in {spec, spec + 1}
<1>1. CASE Ok
  BY <1>1, OkDoes, ReturnDoes DEF Goes, Leaves
<1>2. CASE Return
  BY <1>2, ReturnDoes DEF Leaves
<1>3. CASE Fail \/ SkipSpec
  BY <1>3, StopDoes DEF Fails
<1>4. CASE PassOver
  BY <1>4, PassOverDoes DEF Leaves
<1>5. CASE BodyDone \/ NextSpec \/ UNCHANGED suite
  BY <1>5 DEF BodyDone, NextSpec, suite
<1> QED
  BY <1>1, <1>2, <1>3, <1>4, <1>5, SuiteSteps DEF EarlyReturn

(* How the suite gets past an operation of the top BeforeAll.              *)
LEMMA TopPassed ==
  ASSUME RunInv, [Next]_vars, NEW k \in Nat, k > 0, PassedTop(k)'
  PROVE  \/ UNCHANGED suite /\ PassedTop(k)
         \/ /\ Ok /\ Active /\ spec \in 1..14 /\ phase = "before" /\ node = 1
            /\ step = k \/ PassedTop(k)
<1>0. phase' = "before" /\ spec' \in 1..14 /\ node' = 1 /\ step' > k
  BY DEF PassedTop
<1>1. step' > 1 /\ step \in Nat
  <2>1. step' \in Nat /\ step \in Nat
    BY ActionSteps, RunnerStepInv DEF RunInv
  <2> QED
    BY <1>0, <2>1
<1>2. CASE UNCHANGED suite
  BY <1>0, <1>2 DEF suite, PassedTop
<1>3. CASE Ok
  <2>1. Active /\ (Goes \/ Return)
    BY <1>3, OkDoes
  <2>2. Goes
    BY <1>1, <2>1, ReturnDoes DEF Leaves
  <2>3. spec \in 1..14 /\ phase = "before" /\ node = 1 /\ step + 1 > k
    BY <1>0, <2>2 DEF Goes
  <2> QED
    BY <1>1, <1>3, <2>1, <2>3 DEF PassedTop
<1>4. CASE Fail \/ SkipSpec
  BY <1>1, <1>4, StopDoes DEF Fails
<1>5. CASE PassOver
  BY <1>1, <1>5, PassOverDoes DEF Leaves
<1>6. CASE BodyDone \/ NextSpec
  BY <1>1, <1>6 DEF BodyDone, NextSpec
<1>7. CASE EarlyReturn
  BY <1>1, <1>7, ReturnDoes DEF Leaves, EarlyReturn
<1> QED
  BY <1>2, <1>3, <1>4, <1>5, <1>6, <1>7, SuiteSteps

LEMMA ClusterStep ==
  ASSUME Inv, ClusterPages, [Next]_vars
  PROVE  ClusterPages'
<1> USE DEF Inv
<1> SUFFICES ASSUME ~ env.discovery, spec' <= 13 \/ original' = NoProfile, ("top" \in done') \/ PassedTop(6)'
             PROVE  ValidatePerformanceProfile(named') /\ hugePageSize' = HugePageSizeOf(named', "")
  BY Frames DEF ClusterPages
<1>1. spec <= 13 \/ original = NoProfile
  BY SpecsGoOn, OrigStep DEF RunInv
<1>2. CASE FindOrOverridePerformanceProfile
  <2>1. CASE Fail
    <3>1. done' = done /\ phase' = "after"
      BY <1>2, <2>1, OverrideStep, StopDoes DEF Fails, AtTop
    <3> QED
      BY <1>2, <3>1, OverrideStep DEF PassedTop
  <2> QED
    BY <1>2, <2>1, OverrideStep
<1>3. CASE ~ FindOrOverridePerformanceProfile
  <2>1. RestorePerformanceProfile => profiles' = profiles
    <3>1. CASE spec <= 13
      BY <3>1, ActionOps, OpIs DEF Ordinary, Unordinary, At3
    <3>2. CASE original = NoProfile
      BY <3>2 DEF RestorePerformanceProfile
    <3> QED
      BY <1>1, <3>1, <3>2
  <2>2. ~ DiscoverPerformanceProfiles /\ ~ Discover
    BY ActionOps, OpIs DEF Ordinary, Unordinary, InMode
  <2>3. profiles' = profiles /\ hugePageSize' = hugePageSize
    BY <1>3, <2>1, <2>2, Frames
  <2>4. CASE "top" \in done \/ PassedTop(6)
    BY <1>1, <2>3, <2>4 DEF ClusterPages, named
  <2>5. CASE "top" \notin done /\ ~ PassedTop(6)
    <3>1. ~ PassedTop(6)'
      <4> SUFFICES ASSUME PassedTop(6)' PROVE FALSE
        OBVIOUS
      <4>1. /\ Ok /\ Active /\ spec \in 1..14 /\ phase = "before" /\ node = 1 /\ step = 6
            /\ ~ UNCHANGED suite
        <5>1. ~ UNCHANGED suite
          BY <2>5 DEF suite, PassedTop
        <5> QED
          BY <2>5, <5>1, TopPassed
      <4>2. Op.do = "FindOrOverride" /\ InMode
        BY <4>1, TopOp DEF InMode
      <4> QED
        BY <1>3, <4>1, <4>2, OnlyAtTop
    <3>2. "top" \in done'
      BY <3>1
    <3>3. Return /\ Current.id = "top" /\ ~ EarlyReturn
      <4>1. CASE Return
        BY <2>2, <2>5, <3>2, <4>1 DEF Return, EarlyReturn
      <4>2. CASE done' = done
        BY <2>5, <3>2, <4>2
      <4> QED
        BY <4>1, <4>2, SuiteSteps, OkDoes, StopDoes, PassOverDoes
           DEF Goes, Fails, BodyDone, NextSpec, suite, EarlyReturn
    <3>4. spec \in 1..14 /\ phase = "before" /\ node = 1
      BY <3>3, CurrentIds DEF Return
    <3>5. step' = 1 /\ done' # done
      BY <2>5, <3>2, <3>3 DEF Return
    <3>6. ~ (step < Len(Current.ops))
      <4>1. Ok
        BY <3>3, <3>5, SuiteSteps, StopDoes, PassOverDoes DEF Fails, BodyDone, NextSpec, suite
      <4> QED
        BY <3>5, <4>1, OkDoes DEF Goes
    <3>7. step > 6
      <4>1. Len(Current.ops) = 7 /\ step \in Nat
        BY <3>4, TopOp DEF RunInv
      <4> QED
        BY <3>6, <4>1
    <3> QED
      BY <2>5, <3>4, <3>7 DEF PassedTop
  <2> QED
    BY <2>4, <2>5
<1> QED
  BY <1>2, <1>3

LEMMA DiscoverProfilesStep ==
  ASSUME Inv, [Next]_vars, DiscoverPerformanceProfiles
  PROVE  /\ AtTop(3) /\ env.discovery
         /\ \/ \E n \in ValidProfiles : hugePageSize' = HugePageSizeOf(profiles[n], "")
            \/ Return /\ discovered' = NoOffer
<1> USE DEF Inv
<1>1. AtTop(3) /\ env.discovery
  BY ActionOps, OpIs DEF Ordinary, Unordinary, InMode
<1>2. CASE Return /\ discovered' = NoOffer
  BY <1>1, <1>2
<1>3. CASE /\ ValidProfiles # {}
           /\ hugePageSize' = SizeAfter("performance", SizeAfter("other", hugePageSize))
  <2>1. ValidProfiles \subseteq Names /\ \A n \in ValidProfiles : ValidatePerformanceProfile(profiles[n])
    BY DEF ValidProfiles, EnvInv
  <2>2. CASE "performance" \in ValidProfiles
    BY <1>1, <1>3, <2>1, <2>2, ValidSize DEF SizeAfter
  <2>3. CASE "performance" \notin ValidProfiles
    <3>1. "other" \in ValidProfiles
      BY <1>3, <2>1, <2>3 DEF Names
    <3> QED
      BY <1>1, <1>3, <2>1, <2>3, <3>1, ValidSize DEF SizeAfter
  <2> QED
    BY <2>2, <2>3
<1> QED
  BY <1>2, <1>3 DEF DiscoverPerformanceProfiles

LEMMA DiscoveryStep ==
  ASSUME Inv, DiscoveryPages, [Next]_vars
  PROVE  DiscoveryPages'
<1> USE DEF Inv
<1> SUFFICES ASSUME env.discovery, (discovered' # NoOffer) \/ PassedTop(3)'
             PROVE  \E n \in ValidProfiles : hugePageSize' = HugePageSizeOf(profiles[n], "")
  BY Frames, SameProfiles DEF DiscoveryPages
<1>1. CASE DiscoverPerformanceProfiles
  <2>1. CASE Return /\ discovered' = NoOffer
    <3>1. node' # 1
      BY <1>1, <2>1, ReturnDoes, DiscoverProfilesStep DEF Leaves, AtTop
    <3> QED
      BY <2>1, <3>1 DEF PassedTop
  <2> QED
    BY <1>1, <2>1, DiscoverProfilesStep
<1>2. CASE ~ DiscoverPerformanceProfiles
  <2>1. ~ FindOrOverridePerformanceProfile
    BY OverrideStep
  <2>2. hugePageSize' = hugePageSize
    BY <1>2, <2>1, Frames
  <2>3. CASE discovered # NoOffer \/ PassedTop(3)
    BY <2>2, <2>3 DEF DiscoveryPages
  <2>4. CASE discovered = NoOffer /\ ~ PassedTop(3)
    <3>1. CASE Discover
      <4>1. AtTop(4)
        BY <3>1, ActionOps, OpIs DEF Ordinary, Unordinary
      <4>2. PassedTop(3)
        BY <4>1 DEF AtTop, PassedTop
      <4> QED
        BY <2>4, <4>2
    <3>2. CASE ~ Discover
      <4>1. discovered' = NoOffer
        BY <1>2, <2>4, <3>2, Frames
      <4>2. PassedTop(3)'
        BY <4>1
      <4>3. ~ UNCHANGED suite
        BY <2>4, <4>2 DEF suite, PassedTop
      <4>4. Active /\ spec \in 1..14 /\ phase = "before" /\ node = 1 /\ step = 3
        BY <2>4, <4>2, <4>3, TopPassed
      <4>5. Op.do = "DiscoverProfiles" /\ InMode
        BY <4>4, TopOp DEF InMode
      <4> QED
        BY <1>2, <4>3, <4>4, <4>5, OnlyAtTop
    <3> QED
      BY <3>1, <3>2
  <2> QED
    BY <2>3, <2>4
<1> QED
  BY <1>1, <1>2

(* SkipUndiscovered lets only a discovery pass that has found something.   *)
LEMMA GateStep ==
  ASSUME Inv, DiscoveryGate, [Next]_vars
  PROVE  DiscoveryGate'
<1> USE DEF Inv
<1> SUFFICES ASSUME env.discovery, spec' \in 1..14, phase' = "before", node' > 2
             PROVE  discovered' # NoOffer
  BY Frames DEF DiscoveryGate
<1>1. node \in Nat \ {0} /\ spec \in Nat /\ phase \in {"before", "after"}
  BY DEF RunInv
<1>2. \/ UNCHANGED <<spec, phase, node>>
      \/ Return /\ UNCHANGED <<spec, phase>> /\ node' = node + 1
      \/ PassOver /\ UNCHANGED <<spec, phase>> /\ node' = node + 1
  <2>1. CASE Ok
    BY <2>1, OkDoes, ReturnDoes DEF Goes, Leaves
  <2>2. CASE EarlyReturn
    BY <2>2, ReturnDoes DEF Leaves, EarlyReturn
  <2>3. CASE PassOver
    BY <2>3, PassOverDoes DEF Leaves
  <2>4. CASE UNCHANGED suite
    BY <2>4 DEF suite
  <2>5. ~ Fail /\ ~ SkipSpec
    BY <1>1, StopDoes DEF Fails
  <2>6. ~ BodyDone /\ ~ NextSpec
    BY DEF BodyDone, NextSpec
  <2> QED
    BY <2>1, <2>2, <2>3, <2>4, <2>5, <2>6, SuiteSteps
<1>3. spec \in 1..14 /\ phase = "before" /\ node >= 2
  BY <1>1, <1>2
<1>4. discovered' = discovered
  <2>1. ~ Discover /\ ~ DiscoverPerformanceProfiles
    BY <1>3, ActionOps, OpIs DEF Ordinary, Unordinary, AtTop
  <2> QED
    BY <2>1, Frames
<1>5. CASE node > 2
  BY <1>3, <1>4, <1>5 DEF DiscoveryGate
<1>6. CASE node = 2
  <2>1. Current = Top[2] /\ ~ Over /\ node <= Len(Nodes)
    BY <1>3, <1>6, AtTopNode
  <2>2. Active
    BY <1>3, <2>1, Top2Ops DEF Active, Wanted
  <2>3. Op.do = "SkipUndiscovered" /\ Op.in = "discovery"
    <3>1. step \in 1..1
      BY <2>1, Top2Ops, CurrentIs
    <3> QED
      BY <2>1, <3>1, Top2Ops DEF Op
  <2>4. InMode /\ ~ UNCHANGED suite
    BY <1>6, <2>3 DEF InMode, suite
  <2>5. Skips
    BY <2>2, <2>3, <2>4, OnlyAtTop
  <2>6. ~ SkipSpec
    BY <1>1, StopDoes DEF Fails
  <2>7. discovered # NoOffer
    BY <2>3, <2>5, <2>6 DEF Skips, At
  <2> QED
    BY <1>4, <2>7
<1> QED
  BY <1>1, <1>3, <1>5, <1>6

-----------------------------------------------------------------------------
PagesInv == TopInv /\ BestInv /\ ClusterPages /\ DiscoveryPages /\ DiscoveryGate

Fits(p, size) ==
    /\ p.cpus >= 6
    /\ \E page \in Range(p.pages) :
          /\ page.size = size
          /\ \/ page.size = "1G" /\ OnOneNode(page) * HalfGi("1G") >= 2 * WorkloadAsks + HugePagesAsks
             \/ page.size = "512M" /\ page.count * HalfGi("512M") >= WorkloadAsks

Counted(p) == DOMAIN p.pages \subseteq Nat /\ \A i \in DOMAIN p.pages : p.pages[i].count \in Nat

(* A valid profile has the pages that the pods will ask for: a pool of 1G  *)
(* pages on one node, a pool of 512M pages for one pod in all.             *)
LEMMA ValidFits ==
  ASSUME NEW p, Counted(p), ValidatePerformanceProfile(p)
  PROVE  Fits(p, HugePageSizeOf(p, ""))
<1>2. Min(Enough(p)) \in Enough(p)
  <2>1. Enough(p) \subseteq Nat /\ Enough(p) # {}
    BY DEF Counted, Enough, ValidatePerformanceProfile
  <2> QED
    BY <2>1, MinIn
<1> DEFINE page == p.pages[Min(Enough(p))]
<1>3. EnoughPages(page) /\ Min(Enough(p)) \in DOMAIN p.pages
  BY <1>2 DEF Enough
<1>4. page \in Range(p.pages) /\ page.count \in Nat
  BY <1>3 DEF Range, Counted
<1>5. page.size = HugePageSizeOf(p, "")
  BY DEF HugePageSizeOf
<1>6. \/ page.size = "1G" /\ OnOneNode(page) * HalfGi("1G") >= 2 * WorkloadAsks + HugePagesAsks
      \/ page.size = "512M" /\ page.count * HalfGi("512M") >= WorkloadAsks
  <2> DEFINE c == page.count
  <2>1. c \in Nat /\ (c >= 10 => c \div 2 >= 5) /\ c \div 2 \in Nat
    BY <1>4
  <2>2. /\ \A k \in Nat : k >= 5 => k * HalfGi("1G") >= 2 * WorkloadAsks + HugePagesAsks
        /\ \A k \in Nat : k >= 4 => k * HalfGi("512M") >= WorkloadAsks
    BY DEF HalfGi, WorkloadAsks, HugePagesAsks
  <2>3. CASE page.size = "1G" /\ c >= IF page.node THEN 5 ELSE 10
    <3>1. OnOneNode(page) \in Nat /\ OnOneNode(page) >= 5
      BY <2>1, <2>3 DEF OnOneNode
    <3> QED
      BY <2>2, <2>3, <3>1
  <2>4. CASE page.size = "512M" /\ c >= 4
    BY <2>1, <2>2, <2>4
  <2> QED
    BY <1>3, <2>3, <2>4 DEF EnoughPages
<1> HIDE DEF page
<1> QED
  BY <1>4, <1>5, <1>6 DEF Fits, ValidatePerformanceProfile

LEMMA ProfilesCounted ==
  /\ \A p \in Profiles \union {NoProfile} : Counted(p) /\ Counted(Bare(p))
  /\ \A arch : Counted(TestProfile(arch))
<1>1. ASSUME NEW p \in Profiles PROVE Counted(p)
  <2>1. p.pages \in Seq([size : STRING, count : Nat, node : BOOLEAN])
    BY DEF Profiles
  <2>2. \A S, s : s \in Seq(S) => DOMAIN s \subseteq Nat /\ \A i \in DOMAIN s : s[i] \in S
    OBVIOUS
  <2>3. /\ DOMAIN p.pages \subseteq Nat
        /\ \A i \in DOMAIN p.pages : p.pages[i] \in [size : STRING, count : Nat, node : BOOLEAN]
    BY <2>1, <2>2, Zenon
  <2> QED
    BY <2>3, Zenon DEF Counted
<1>3. Counted(NoProfile)
  BY DEF Counted, NoProfile
<1>4. \A p : Counted(p) => Counted(Bare(p))
  BY BareIs DEF Counted
<1>2. ASSUME NEW arch PROVE Counted(TestProfile(arch))
  <2>1. TestProfile(arch).pages = <<TestPages(arch)>> /\ TestPages(arch).count \in Nat
    BY DEF TestProfile, TestPages, Page
  <2> QED
    BY <2>1 DEF Counted
<1> QED
  BY <1>1, <1>2, <1>3, <1>4

LEMMA PagesInvHolds == Spec => [](Inv /\ PagesInv)
<1>1. Init => Inv /\ PagesInv
  <2> SUFFICES ASSUME Init PROVE PagesInv
    BY InitInv
  <2>1. node = 1 /\ step = 1 /\ phase = "before" /\ done = {} /\ discovered = NoOffer
    BY DEF Init, RunnerInit
  <2> QED
    BY <2>1 DEF PagesInv, TopInv, BestInv, ClusterPages, DiscoveryPages, DiscoveryGate, PassedTop
<1>2. Inv /\ PagesInv /\ [Next]_vars => (Inv /\ PagesInv)'
  BY StepInv, TopStep, BestStep, ClusterStep, DiscoveryStep, GateStep DEF PagesInv, Inv
<1> QED
  BY <1>1, <1>2, PTL DEF Spec

(* While the body of a spec runs, the profile in use has six CPUs and a    *)
(* pool of the size that was remembered for the pods: of 1G pages enough   *)
(* for three pods on one NUMA node, of 512M pages enough for one pod in    *)
(* all.  It holds for every cluster and whichever attempts at finding,     *)
(* overriding or discovering the profile failed before; in discovery mode  *)
(* when the valid profiles agree on the size.                              *)
THEOREM PagesAlwaysFit == Spec => []PagesFit
<1>3. Inv /\ PagesInv => PagesFit
  <2> SUFFICES ASSUME Inv, PagesInv, Body, env.discovery => OneSize
               PROVE  Fits(Chosen, hugePageSize)
    BY DEF PagesFit, Fits
  <2> USE DEF Inv, PagesInv
  <2>1. spec \in 1..13 /\ phase = "before" /\ node > 2
    <3>1. spec \in 1..15 /\ phase = "before" /\ node = Len(Nodes)
      BY CurrentIs DEF Body, InBody, Active
    <3>2. spec # 14 /\ spec # 15
      <4>1. SuitePlan[14].context = "restoring" /\ SuitePlan[15].context = "fixture"
        BY PlanNodes DEF HasNodes
      <4> QED
        BY <4>1 DEF Body, Context, Contexts
    <3>3. spec \in 1..13
      BY <3>1, <3>2
    <3>4. Nodes = SuitePlan[spec].before /\ Len(SuitePlan[spec].before) > 2
      <4>1. spec \in 1..14
        BY <3>3
      <4> QED
        BY <3>1, <4>1, TopNodes DEF Nodes
    <3> QED
      BY <3>1, <3>3, <3>4
  <2>2. env.discovery \in BOOLEAN /\ \A n \in Names : Counted(env.profiles[n])
    BY EnvsAssumption, ProfilesCounted DEF EnvInv
  <2>3. CASE ~ env.discovery
    <3>1. ValidatePerformanceProfile(named) /\ hugePageSize = HugePageSizeOf(named, "")
      <4>1. "top" \in done /\ spec <= 13
        <5>1. spec \in 1..14 /\ spec <= 13
          BY <2>1
        <5> QED
          BY <2>1, <5>1 DEF TopInv, RunInv
      <4> QED
        BY <2>3, <4>1 DEF ClusterPages
    <3>2. named # NoProfile
      <4>1. ~ ValidatePerformanceProfile(NoProfile)
        BY DEF ValidatePerformanceProfile, NoProfile
      <4> QED
        BY <3>1, <4>1
    <3>3. Counted(named)
      BY <3>2, FoundIs, ProfilesCounted DEF OrigInv
    <3>4. Chosen = named
      BY <2>3 DEF Chosen, named
    <3> QED
      BY <3>1, <3>3, <3>4, ValidFits
  <2>4. CASE env.discovery
    <3>1. discovered # NoOffer /\ profiles = env.profiles
      BY <2>1, <2>4 DEF DiscoveryGate, DiscInv
    <3>2. discovered.profile \in ValidProfiles
      BY <3>1, BestIs DEF BestInv, Best, CanUse
    <3>3. PICK n \in ValidProfiles : hugePageSize = HugePageSizeOf(profiles[n], "")
      BY <2>4, <3>1 DEF DiscoveryPages
    <3>4. hugePageSize = HugePageSizeOf(Chosen, "")
      BY <2>4, <3>2, <3>3 DEF OneSize, Chosen
    <3>5. Counted(Chosen) /\ ValidatePerformanceProfile(Chosen)
      BY <2>2, <2>4, <3>1, <3>2 DEF Chosen, ValidProfiles, EnvInv
    <3> QED
      BY <3>4, <3>5, ValidFits
  <2> QED
    BY <2>2, <2>3, <2>4
<1> QED
  BY <1>3, PagesInvHolds, PTL

(* When "restoring configuration" passes, no SR-IOV network, no pod and no *)
(* policy of the suite is left.  The profiles are those found, when the    *)
(* one under the name of the test profile was valid and in discovery mode; *)
(* those found and the test profile, when there was none of that name; and *)
(* otherwise only the spec of the one found under that name.               *)
THEOREM RestoringGivesBack == Spec => []Restored
<1>1. ASSUME Inv, PagesInv PROVE Restored
  <2> USE <1>1 DEF Inv, PagesInv
  <2> SUFFICES ASSUME SpecEnds, Context = "restoring", verdict = "passed"
               PROVE  /\ networks = {} /\ pods = {} /\ policies = <<>>
                      /\ profiles = IF env.discovery \/ ValidatePerformanceProfile(Found) THEN env.profiles
                                    ELSE IF Found = NoProfile
                                    THEN [env.profiles EXCEPT !["performance"] = TestProfile(env.arch)]
                                    ELSE OnlyFound
    BY DEF Restored, OnlyFound
  <2>1. spec \in 1..15
    BY ThePlan DEF RunInv, Over, SpecEnds
  <2>2. spec = 14 /\ phase = "after"
    BY <2>1, PlanContexts DEF Context, SpecEnds
  <2>3. networks = {} /\ pods = {} /\ policies = <<>> /\ (original # NoProfile => profiles = OnlyFound)
    BY <2>2 DEF RestoreInv, Past, Given
  <2>4. ~ env.discovery /\ original = NoProfile => ValidatePerformanceProfile(named)
    <3>1. "top" \in done
      <4>1. spec \in 1..14
        BY <2>2
      <4> QED
        BY <2>2, <4>1, Zenon DEF TopInv
    <3> QED
      BY <3>1, Zenon DEF ClusterPages
  <2>5. CASE env.discovery \/ ValidatePerformanceProfile(Found)
    <3>1. CASE env.discovery
      BY <2>3, <3>1 DEF DiscInv
    <3>2. CASE ValidatePerformanceProfile(Found)
      <4>1. profiles = env.profiles
        BY <3>2 DEF OrigInv
      <4> QED
        BY <2>3, <3>2, <4>1
    <3> QED
      BY <2>5, <3>1, <3>2
  <2>6. CASE ~ env.discovery /\ Found = NoProfile
    <3>1. original = NoProfile /\ profiles \in {env.profiles, WithTest}
      BY <2>6 DEF OrigInv
    <3>2. profiles # env.profiles
      BY <2>4, <2>6, <3>1, NoneInvalid DEF named, Found
    <3> QED
      BY <2>3, <2>6, <3>1, <3>2, NoneInvalid DEF WithTest
  <2>7. CASE ~ env.discovery /\ ~ ValidatePerformanceProfile(Found) /\ Found # NoProfile
    <3>1. ASSUME original = NoProfile PROVE FALSE
      <4>1. Bare(original) # Bare(Found)
        BY <2>7, <3>1, FoundIs, BareNone
      <4>2. Bare(named) = Bare(Found)
        BY <2>7, <4>1 DEF OrigInv, OriginalKept
      <4> QED
        BY <2>4, <2>7, <3>1, <4>2, BareIs
    <3> QED
      BY <2>3, <2>7, <3>1
  <2> QED
    BY <2>5, <2>6, <2>7
<1> QED
  BY <1>1, PagesInvHolds, PTL
-----------------------------------------------------------------------------
(* How far the configuration of the running context has come: 1, the pods  *)
(* of the contexts before are gone; 2, so is their SR-IOV configuration;   *)
(* 3, its own has been created; 4, its server runs.  Four contexts do this *)
(* in a BeforeAll, whose specs share the result; "rootless" does it once,  *)
(* in two nodes; "vendors" only cleans, before each of its specs.          *)
Shared == {"vhostnet", "allocated", "split", "downward"}
Home(c) == IF c = "split" THEN 4 ELSE 3
Full(c) == IF c = "vhostnet" THEN 3 ELSE 4
First(c) == IF c = "vhostnet" THEN 1 ELSE IF c = "allocated" THEN 4 ELSE IF c = "split" THEN 9 ELSE 13

SharedStage(c, ph, n, k, d) == IF c \in d THEN Full(c) ELSE IF ph = "before" /\ n = Home(c) THEN k - 1 ELSE 0
RootlessStage(ph, n, k) ==
    IF ph = "after" \/ n < 3 \/ (n = 3 /\ k < 3) THEN 0
    ELSE IF n = 3 /\ k = 3 THEN 1
    ELSE IF n = 3 \/ (n = 4 /\ k < 4) THEN 2 ELSE 3
VendorsStage(ph, n, k) == IF ph = "before" /\ (n > 4 \/ (n = 4 /\ k = 3)) THEN 1 ELSE 0

StageOf(c, ph, n, k, d) ==
    IF c \in Shared THEN SharedStage(c, ph, n, k, d)
    ELSE IF c = "rootless" THEN RootlessStage(ph, n, k)
    ELSE IF c = "vendors" THEN VendorsStage(ph, n, k) ELSE 0
Stage == StageOf(Context, phase, node, step, done)

(* What each stage guarantees.                                             *)
OwnInv ==
    ~ Over =>
        /\ ~ env.discovery /\ Context # "downward" /\ Stage >= 1 => \A p \in pods : p.ctx = Context
        /\ ~ env.discovery /\ Stage = 2 => policies = <<>> /\ networks = {}
        /\ ~ env.discovery /\ Stage >= 3 => policies = PoliciesOf(Context) /\ networks = NetworksOf(Context)
        /\ Stage = 4 => workload = Context /\ WorkloadRuns

(* A context has not been configured before its first spec.                *)
IdsInv ==
    /\ \A c \in Shared : c \in done => First(c) <= spec
    /\ "rootless" \in done => spec > 3 \/ (spec = 3 /\ (phase = "after" \/ node > 3))

HomeInv ==
    ~ Over /\ Context \in Shared /\ phase = "before" /\ node > Home(Context) => Context \in done

(* The operations that bring the configuration a stage further.            *)
Moving ==
    /\ phase = "before"
    /\ \/ Context \in Shared /\ Context \notin done /\ node = Home(Context) /\ step <= Full(Context)
       \/ Context = "rootless" /\ ((node = 3 /\ step \in {2, 3}) \/ (node = 4 /\ step = 3))
       \/ Context = "vendors" /\ node = 4 /\ step = 2

-----------------------------------------------------------------------------
(* The nodes that leave the configuration alone, but for pods of their own *)
(* context, and where the others are.                                      *)
Plain(n, c) ==
    /\ \A j \in 1..Len(n.ops) :
          /\ n.ops[j].do \notin {"CleanPods", "CleanSriov", "CreateSriov", "DeleteNamespace"}
          /\ n.ops[j].do = "DiscoveryNetwork" => n.ops[j].in = "discovery"
          /\ n.ops[j].do = "StartPod" => n.ops[j].ctx = c /\ n.ops[j].role # "server"
    /\ n.id \notin Shared \union {"rootless"}

LEMMA PlainNodes ==
  ASSUME NEW c
  PROVE
         /\ Plain(Top[1], c)
         /\ Plain(Top[2], c)
         /\ Plain(Vhostnet[2], c)
         /\ Plain(Transmits(<<Start("vhostnet", "tx")>>), "vhostnet")
         /\ Plain(Transmits(<<Start("vhostnet", "rx"), Start("vhostnet", "tx")>>), "vhostnet")
         /\ Plain(Transmits(<<Start("rootless", "tx"), Start("rootless", "rx")>>), "rootless")
         /\ Plain(Transmits(Needed), c)
         /\ Plain(Numa[1], c)
         /\ Plain(Numa[2], c)
         /\ Plain(It(3, Always(<<"Check">>)), c)
         /\ Plain(It(3, Always(<<"Exec", "Check">>)), c)
         /\ Plain(BeforeEach(3, Needed \o Always(<<"Exec">>)), c)
         /\ Plain(It(3, <<Start("allocated", "hugepages")>> \o Always(<<"Check", "DeletePod">>)), "allocated")
         /\ Plain(BeforeEach(3, Needed), c)
         /\ Plain(Split[1], c)
         /\ Plain(It(2, Needed \o Always(<<"Traffic">>)), c)
         /\ Plain(It(2, <<Start("split", "regular")>>), "split")
         /\ Plain(Vendors[1], c)
         /\ Plain(It(2, Always(<<"Exec", "Check">>)), c)
<1> USE DEF Plain, Always, InCluster, InDiscovery, Shared, Node
<1>1. Plain(Top[1], c)
  BY Top1Ops, Top1Node
<1>2. Plain(Top[2], c)
  BY DEF Top, BeforeEach
<1>3. Plain(Vhostnet[2], c)
  BY DEF Vhostnet, BeforeEach
<1>4. Plain(Transmits(<<Start("vhostnet", "tx")>>), "vhostnet")
  BY DEF Transmits, Needed, Start, It, BeforeEach
<1>5. Plain(Transmits(<<Start("vhostnet", "rx"), Start("vhostnet", "tx")>>), "vhostnet")
  BY DEF Transmits, Needed, Start, It, BeforeEach
<1>6. Plain(Transmits(<<Start("rootless", "tx"), Start("rootless", "rx")>>), "rootless")
  BY DEF Transmits, Needed, Start, It, BeforeEach
<1>7. Plain(Transmits(Needed), c)
  BY DEF Transmits, Needed, Start, It, BeforeEach
<1>8. Plain(Numa[1], c)
  BY DEF Numa, Needed, BeforeEach
<1>9. Plain(Numa[2], c)
  BY DEF Numa, BeforeAll
<1>10. Plain(It(3, Always(<<"Check">>)), c)
  BY DEF Transmits, Needed, Start, It, BeforeEach
<1>11. Plain(It(3, Always(<<"Exec", "Check">>)), c)
  BY DEF Transmits, Needed, Start, It, BeforeEach
<1>12. Plain(BeforeEach(3, Needed \o Always(<<"Exec">>)), c)
  BY DEF Transmits, Needed, Start, It, BeforeEach
<1>13. Plain(It(3, <<Start("allocated", "hugepages")>> \o Always(<<"Check", "DeletePod">>)), "allocated")
  BY DEF Transmits, Needed, Start, It, BeforeEach
<1>14. Plain(BeforeEach(3, Needed), c)
  BY DEF Transmits, Needed, Start, It, BeforeEach
<1>15. Plain(Split[1], c)
  BY DEF Split, BeforeEach
<1>16. Plain(It(2, Needed \o Always(<<"Traffic">>)), c)
  BY DEF Transmits, Needed, Start, It, BeforeEach
<1>17. Plain(It(2, <<Start("split", "regular")>>), "split")
  BY DEF Transmits, Needed, Start, It, BeforeEach
<1>18. Plain(Vendors[1], c)
  BY DEF Vendors, BeforeAll
<1>19. Plain(It(2, Always(<<"Exec", "Check">>)), c)
  BY DEF Transmits, Needed, Start, It, BeforeEach
<1> HIDE DEF Plain
<1> QED
  BY <1>1, <1>2, <1>3, <1>4, <1>5, <1>6, <1>7, <1>8, <1>9, <1>10, <1>11, <1>12, <1>13, <1>14, <1>15, <1>16, <1>17, <1>18, <1>19

Configures(s, i, n) ==
    \/ s \in {1, 2} /\ i = 3 /\ n = Vhostnet[1]
    \/ s = 3 /\ i = 3 /\ n = Rootless[1]
    \/ s = 3 /\ i = 4 /\ n = Rootless[2]
    \/ s \in 4..8 /\ i = 3 /\ n = Allocated[1]
    \/ s \in {9, 10} /\ i = 4 /\ n = Split[2]
    \/ s \in {11, 12} /\ i = 4 /\ n = Vendors[2]
    \/ s \in {11, 12} /\ i = 5 /\ n = Nic
    \/ s = 13 /\ i = 3 /\ n = Downward[1]
    \/ s = 14 /\ i = 3 /\ n = Restoring
    \/ s = 15 /\ n.id = "each"

LEMMA PlainOrNot ==
  ASSUME NEW s \in 1..15, NEW i \in 1..Len(SuitePlan[s].before)
  PROVE  \/ Plain(SuitePlan[s].before[i], SuitePlan[s].context)
         \/ Configures(s, i, SuitePlan[s].before[i])
<1>1. CASE s = 1
  <2>1. HasNodes(1, "vhostnet", <<Top[1], Top[2], Vhostnet[1], Vhostnet[2], Transmits(<<Start("vhostnet", "tx")>>)>>, <<AfterEach(2, Always(<<"CleanPods">>))>>)
    BY PlanNodes
  <2> QED
    BY <1>1, <2>1, PlainNodes DEF HasNodes, Configures, Restoring
<1>2. CASE s = 2
  <2>1. HasNodes(2, "vhostnet", <<Top[1], Top[2], Vhostnet[1], Vhostnet[2], Transmits(<<Start("vhostnet", "rx"), Start("vhostnet", "tx")>>)>>, <<AfterEach(2, Always(<<"CleanPods">>))>>)
    BY PlanNodes
  <2> QED
    BY <1>2, <2>1, PlainNodes DEF HasNodes, Configures, Restoring
<1>3. CASE s = 3
  <2>1. HasNodes(3, "rootless", <<Top[1], Top[2], Rootless[1], Rootless[2], Transmits(<<Start("rootless", "tx"), Start("rootless", "rx")>>)>>, <<AfterRootless>>)
    BY PlanNodes
  <2> QED
    BY <1>3, <2>1, PlainNodes DEF HasNodes, Configures, Restoring
<1>4. CASE s = 4
  <2>1. HasNodes(4, "allocated", <<Top[1], Top[2], Allocated[1], Transmits(Needed)>>, <<>>)
    BY PlanNodes
  <2> QED
    BY <1>4, <2>1, PlainNodes DEF HasNodes, Configures, Restoring
<1>5. CASE s = 5
  <2>1. HasNodes(5, "allocated", <<Top[1], Top[2], Allocated[1], Numa[1], Numa[2], It(3, Always(<<"Check">>))>>, <<>>)
    BY PlanNodes
  <2> QED
    BY <1>5, <2>1, PlainNodes DEF HasNodes, Configures, Restoring
<1>6. CASE s = 6
  <2>1. HasNodes(6, "allocated", <<Top[1], Top[2], Allocated[1], Numa[1], Numa[2], It(3, Always(<<"Exec", "Check">>))>>, <<>>)
    BY PlanNodes
  <2> QED
    BY <1>6, <2>1, PlainNodes DEF HasNodes, Configures, Restoring
<1>7. CASE s = 7
  <2>1. HasNodes(7, "allocated", <<Top[1], Top[2], Allocated[1], BeforeEach(3, Needed \o Always(<<"Exec">>)), It(3, <<Start("allocated", "hugepages")>> \o Always(<<"Check", "DeletePod">>))>>, <<>>)
    BY PlanNodes
  <2> QED
    BY <1>7, <2>1, PlainNodes DEF HasNodes, Configures, Restoring
<1>8. CASE s = 8
  <2>1. HasNodes(8, "allocated", <<Top[1], Top[2], Allocated[1], BeforeEach(3, Needed), It(3, Always(<<"Exec", "Check">>))>>, <<>>)
    BY PlanNodes
  <2> QED
    BY <1>8, <2>1, PlainNodes DEF HasNodes, Configures, Restoring
<1>9. CASE s = 9
  <2>1. HasNodes(9, "split", <<Top[1], Top[2], Split[1], Split[2], It(2, Needed \o Always(<<"Traffic">>))>>, <<>>)
    BY PlanNodes
  <2> QED
    BY <1>9, <2>1, PlainNodes DEF HasNodes, Configures, Restoring
<1>10. CASE s = 10
  <2>1. HasNodes(10, "split", <<Top[1], Top[2], Split[1], Split[2], It(2, <<Start("split", "regular")>>)>>, <<>>)
    BY PlanNodes
  <2> QED
    BY <1>10, <2>1, PlainNodes DEF HasNodes, Configures, Restoring
<1>11. CASE s = 11
  <2>1. HasNodes(11, "vendors", <<Top[1], Top[2], Vendors[1], Vendors[2], Nic>>, <<>>)
    BY PlanNodes
  <2> QED
    BY <1>11, <2>1, PlainNodes DEF HasNodes, Configures, Restoring
<1>12. CASE s = 12
  <2>1. HasNodes(12, "vendors", <<Top[1], Top[2], Vendors[1], Vendors[2], Nic>>, <<>>)
    BY PlanNodes
  <2> QED
    BY <1>12, <2>1, PlainNodes DEF HasNodes, Configures, Restoring
<1>13. CASE s = 13
  <2>1. HasNodes(13, "downward", <<Top[1], Top[2], Downward[1], It(2, Always(<<"Exec", "Check">>))>>, <<>>)
    BY PlanNodes
  <2> QED
    BY <1>13, <2>1, PlainNodes DEF HasNodes, Configures, Restoring
<1>14. CASE s = 14
  <2>1. HasNodes(14, "restoring", <<Top[1], Top[2], It(2, InCluster(<<"Restore">>) \o Always(Cleaning))>>, <<>>)
    BY PlanNodes
  <2> QED
    BY <1>14, <2>1, PlainNodes DEF HasNodes, Configures, Restoring
<1>15. CASE s = 15
  <2>1. HasNodes(15, "fixture", <<BeforeEach(0, Always(<<"DeleteNamespace">>))>>, <<>>)
    BY PlanNodes
  <2> QED
    BY <1>15, <2>1, NodeFields DEF HasNodes, Configures, BeforeEach, Node
<1> QED
  BY <1>1, <1>2, <1>3, <1>4, <1>5, <1>6, <1>7, <1>8, <1>9, <1>10, <1>11, <1>12, <1>13, <1>14, <1>15

HomeOf(c) ==
    IF c = "vhostnet" THEN Vhostnet[1] ELSE IF c = "allocated" THEN Allocated[1]
    ELSE IF c = "split" THEN Split[2] ELSE Downward[1]

LEMMA HomeOps ==
  ASSUME NEW c \in Shared
  PROVE  /\ HomeOf(c).once /\ HomeOf(c).id = c /\ Len(HomeOf(c).ops) = Full(c) + 1
         /\ c # "downward" => HomeOf(c).ops[1].do = "CleanPods" /\ HomeOf(c).ops[1].in \in {"any", "cluster"}
         /\ c = "downward" => HomeOf(c).ops[1].do = "Skip"
         /\ HomeOf(c).ops[2].do = "CleanSriov" /\ HomeOf(c).ops[2].in \in {"any", "cluster"}
         /\ HomeOf(c).ops[3].do = "CreateSriov" /\ HomeOf(c).ops[3].in \in {"any", "cluster"} /\ HomeOf(c).ops[3].ctx = c
         /\ c = "vhostnet" => HomeOf(c).ops[4].do = "FindVhostPolicy"
         /\ c # "vhostnet" => /\ HomeOf(c).ops[4].do = "StartPod" /\ HomeOf(c).ops[4].in = "any"
                              /\ HomeOf(c).ops[4].ctx = c /\ HomeOf(c).ops[4].role = "server"
                              /\ HomeOf(c).ops[5].do = "StartPod" /\ HomeOf(c).ops[5].ctx = c
                              /\ HomeOf(c).ops[5].role = "client"
<1>1. CASE c = "vhostnet"
  BY <1>1, Vhostnet1Ops DEF HomeOf, Full
<1>2. CASE c = "allocated"
  BY <1>2, Allocated1Ops DEF HomeOf, Full
<1>3. CASE c = "split"
  BY <1>3, Split2Ops, Split2Node DEF HomeOf, Full
<1>4. CASE c = "downward"
  BY <1>4, Downward1Ops, Downward1Node DEF HomeOf, Full
<1> QED
  BY <1>1, <1>2, <1>3, <1>4 DEF Shared

LEMMA PlanTable ==
  ASSUME NEW s \in 1..15
  PROVE  /\ s \in {1, 2} => SuitePlan[s].context = "vhostnet" /\ SuitePlan[s].before[3] = Vhostnet[1] /\ Len(SuitePlan[s].before) \in Nat /\ Len(SuitePlan[s].before) > 3
         /\ s = 3 => SuitePlan[s].context = "rootless"
         /\ s \in 4..8 => SuitePlan[s].context = "allocated" /\ SuitePlan[s].before[3] = Allocated[1] /\ Len(SuitePlan[s].before) \in Nat /\ Len(SuitePlan[s].before) > 3
         /\ s \in {9, 10} => SuitePlan[s].context = "split" /\ SuitePlan[s].before[4] = Split[2] /\ Len(SuitePlan[s].before) \in Nat /\ Len(SuitePlan[s].before) > 4
         /\ s \in {11, 12} => SuitePlan[s].context = "vendors"
         /\ s = 13 => SuitePlan[s].context = "downward" /\ SuitePlan[s].before[3] = Downward[1] /\ Len(SuitePlan[s].before) \in Nat /\ Len(SuitePlan[s].before) > 3
         /\ s = 14 => SuitePlan[s].context = "restoring"
         /\ s = 15 => SuitePlan[s].context = "fixture"
<1> USE PlanNodes DEF HasNodes
<1>1. s \in {1, 2} => SuitePlan[s].context = "vhostnet" /\ SuitePlan[s].before[3] = Vhostnet[1] /\ Len(SuitePlan[s].before) \in 4..6
  OBVIOUS
<1>2. SuitePlan[3].context = "rootless" /\ SuitePlan[13].context = "downward" /\ SuitePlan[14].context = "restoring"
      /\ SuitePlan[15].context = "fixture"
  OBVIOUS
<1>3. s \in {4, 5} => SuitePlan[s].context = "allocated" /\ SuitePlan[s].before[3] = Allocated[1] /\ Len(SuitePlan[s].before) \in 4..6
  OBVIOUS
<1>4. s \in {6, 7, 8} => SuitePlan[s].context = "allocated" /\ SuitePlan[s].before[3] = Allocated[1] /\ Len(SuitePlan[s].before) \in 4..6
  OBVIOUS
<1>5. s \in {9, 10} => SuitePlan[s].context = "split" /\ SuitePlan[s].before[4] = Split[2] /\ Len(SuitePlan[s].before) \in 5..6
  OBVIOUS
<1>6. s \in {11, 12} => SuitePlan[s].context = "vendors"
  OBVIOUS
<1>7. s = 13 => SuitePlan[s].before[3] = Downward[1] /\ Len(SuitePlan[s].before) \in 4..6
  OBVIOUS
<1>8. s \in 4..8 => s \in {4, 5} \/ s \in {6, 7, 8}
  OBVIOUS
<1>9. \A n : (n \in 4..6 => n \in Nat /\ n > 3) /\ (n \in 5..6 => n \in Nat /\ n > 4)
  OBVIOUS
<1> HIDE PlanNodes DEF HasNodes
<1> DEFINE L == Len(SuitePlan[s].before)
<1>10. /\ s \in {1, 2} \/ s \in 4..8 \/ s = 13 => L \in Nat /\ L > 3
       /\ s \in {9, 10} => L \in Nat /\ L > 4
  <2>1. /\ s \in {1, 2} \/ s \in 4..8 \/ s = 13 => L \in 4..6
        /\ s \in {9, 10} => L \in 5..6
    BY <1>1, <1>3, <1>4, <1>5, <1>7, <1>8
  <2> HIDE DEF L
  <2> QED
    BY <1>9, <2>1
<1> QED
  BY <1>1, <1>2, <1>3, <1>4, <1>5, <1>6, <1>7, <1>8, <1>10

LEMMA SharedSpecs ==
  ASSUME NEW s \in 1..15, NEW c \in Shared, SuitePlan[s].context = c
  PROVE  /\ SuitePlan[s].before[Home(c)] = HomeOf(c) /\ First(c) <= s /\ s \in 1..13
         /\ Len(SuitePlan[s].before) \in Nat /\ Len(SuitePlan[s].before) > Home(c)
         /\ \/ c = "vhostnet" /\ s \in {1, 2}
            \/ c = "allocated" /\ s \in 4..8
            \/ c = "split" /\ s \in {9, 10}
            \/ c = "downward" /\ s = 13
<1>1. s \in {1, 2} \/ s = 3 \/ s \in 4..8 \/ s \in {9, 10} \/ s \in {11, 12} \/ s \in {13, 14, 15}
  OBVIOUS
<1>2. CASE s \in {1, 2}
  <2>1. c = "vhostnet" /\ SuitePlan[s].before[3] = Vhostnet[1] /\ Len(SuitePlan[s].before) \in Nat /\ Len(SuitePlan[s].before) > 3
    BY <1>2, PlanTable
  <2>2. Home(c) = 3 /\ HomeOf(c) = Vhostnet[1] /\ First(c) = 1
    BY <2>1 DEF Home, HomeOf, First
  <2>3. First(c) <= s
    BY <1>2, <2>2
  <2> QED
    BY <1>2, <2>1, <2>2, <2>3
<1>3. CASE s \in 4..8
  <2>1. c = "allocated" /\ SuitePlan[s].before[3] = Allocated[1] /\ Len(SuitePlan[s].before) \in Nat /\ Len(SuitePlan[s].before) > 3
    BY <1>3, PlanTable
  <2>2. Home(c) = 3 /\ HomeOf(c) = Allocated[1] /\ First(c) = 4
    BY <2>1 DEF Home, HomeOf, First
  <2>3. First(c) <= s
    BY <1>3, <2>2
  <2> QED
    BY <1>3, <2>1, <2>2, <2>3
<1>4. CASE s \in {9, 10}
  <2>1. c = "split" /\ SuitePlan[s].before[4] = Split[2] /\ Len(SuitePlan[s].before) \in Nat /\ Len(SuitePlan[s].before) > 4
    BY <1>4, PlanTable
  <2>2. Home(c) = 4 /\ HomeOf(c) = Split[2] /\ First(c) = 9
    BY <2>1 DEF Home, HomeOf, First
  <2>3. First(c) <= s
    BY <1>4, <2>2
  <2> QED
    BY <1>4, <2>1, <2>2, <2>3
<1>5. CASE s = 13
  <2>1. c = "downward" /\ SuitePlan[s].before[3] = Downward[1] /\ Len(SuitePlan[s].before) \in Nat /\ Len(SuitePlan[s].before) > 3
    BY <1>5, PlanTable
  <2>2. Home(c) = 3 /\ HomeOf(c) = Downward[1] /\ First(c) = 13
    BY <2>1 DEF Home, HomeOf, First
  <2>3. First(c) <= s
    BY <1>5, <2>2
  <2> QED
    BY <1>5, <2>1, <2>2, <2>3
<1>6. CASE s \in {3, 11, 12, 14, 15}
  BY <1>6, PlanTable DEF Shared
<1> QED
  BY <1>1, <1>2, <1>3, <1>4, <1>5, <1>6

LEMMA SharedAt ==
  ASSUME RunInv, ~ Over, Context \in Shared
  PROVE  /\ spec \in 1..13 /\ SuitePlan[spec].context = Context /\ First(Context) <= spec
         /\ phase = "before" => Len(Nodes) \in Nat /\ Len(Nodes) > Home(Context)
         /\ phase = "before" /\ node = Home(Context) =>
               Current = HomeOf(Context) /\ node <= Len(Nodes) /\ step \in 1..Full(Context) + 1
<1>1. spec \in 1..15 /\ SuitePlan[spec].context = Context
  BY ThePlan DEF RunInv, Over, Context
<1>2. /\ SuitePlan[spec].before[Home(Context)] = HomeOf(Context) /\ First(Context) <= spec
      /\ Len(SuitePlan[spec].before) \in Nat /\ Len(SuitePlan[spec].before) > Home(Context)
      /\ spec \in 1..13
  <2> DEFINE c == Context
  <2>1. c \in Shared /\ SuitePlan[spec].context = c
    BY <1>1
  <2> HIDE DEF c
  <2>2. /\ SuitePlan[spec].before[Home(c)] = HomeOf(c) /\ First(c) <= spec
        /\ Len(SuitePlan[spec].before) \in Nat /\ Len(SuitePlan[spec].before) > Home(c)
        /\ spec \in 1..13
    BY <1>1, <2>1, SharedSpecs
  <2> QED
    BY <2>2 DEF c
<1>3. ASSUME phase = "before" PROVE Len(Nodes) \in Nat /\ Len(Nodes) > Home(Context)
  BY <1>2, <1>3 DEF Nodes
<1>4. ASSUME phase = "before", node = Home(Context)
      PROVE  Current = HomeOf(Context) /\ node <= Len(Nodes) /\ step \in 1..Full(Context) + 1
  <2>1. Current = HomeOf(Context)
    BY <1>2, <1>4 DEF Nodes, Current
  <2>2. node <= Len(Nodes)
    BY <1>3, <1>4 DEF Home
  <2>3. step <= Len(Current.ops) /\ step \in Nat \ {0}
    BY <2>2 DEF RunInv
  <2> QED
    BY <2>1, <2>2, <2>3, HomeOps DEF Full
<1> QED
  BY <1>1, <1>2, <1>3, <1>4

(* What the current operation is.                                          *)
LEMMA HereIs ==
  ASSUME RunInv, Active
  PROVE  /\ spec \in 1..15 /\ step \in 1..Len(Current.ops) /\ Op = Current.ops[step] /\ ~ Over
         /\ phase = "before" => Plain(Current, Context) \/ Configures(spec, node, Current)
         /\ phase = "after" => \/ spec \in {1, 2} /\ Context = "vhostnet" /\ Current.id = "after"
                                  /\ \A j \in 1..Len(Current.ops) : Current.ops[j].do = "CleanPods"
                               \/ spec = 3 /\ Context = "rootless" /\ Current = AfterRootless
<1>1. /\ spec \in 1..15 /\ phase \in {"before", "after"} /\ node \in 1..Len(SuitePlan[spec][phase])
      /\ Current = SuitePlan[spec][phase][node] /\ step \in 1..Len(Current.ops)
      /\ Op = Current.ops[step] /\ ~ Over
  BY CurrentIs DEF Active, RunInv, Op
<1>2. CASE phase = "before"
  BY <1>1, <1>2, PlainOrNot DEF Context
<1>3. CASE phase = "after"
  <2>1. /\ SuitePlan[1].after = <<AfterEach(2, Always(<<"CleanPods">>))>> /\ SuitePlan[1].context = "vhostnet"
        /\ SuitePlan[2].after = <<AfterEach(2, Always(<<"CleanPods">>))>> /\ SuitePlan[2].context = "vhostnet"
        /\ SuitePlan[3].after = <<AfterRootless>> /\ SuitePlan[3].context = "rootless"
    BY PlanNodes DEF HasNodes
  <2>2. spec \in {1, 2, 3} /\ node = 1
    <3>1. /\ spec \in {1, 2, 3} => Len(SuitePlan[spec].after) = 1
          /\ spec \notin {1, 2, 3} => Len(SuitePlan[spec].after) = 0
      BY <1>1, AfterNodes
    <3> DEFINE n == Len(SuitePlan[spec].after)
    <3>2. node \in 1..n /\ (spec \in {1, 2, 3} => n = 1) /\ (spec \notin {1, 2, 3} => n = 0)
      BY <1>1, <1>3, <3>1
    <3> HIDE DEF n
    <3> QED
      BY <3>2
  <2>3. AfterEach(2, Always(<<"CleanPods">>)).id = "after"
    BY DEF AfterEach, Node
  <2>4. Len(AfterEach(2, Always(<<"CleanPods">>)).ops) = 1 /\ AfterEach(2, Always(<<"CleanPods">>)).ops[1].do = "CleanPods"
    <3>1. AfterEach(2, Always(<<"CleanPods">>)).ops = Always(<<"CleanPods">>)
      BY DEF AfterEach, Node
    <3>2. Always(<<"CleanPods">>) = <<[do |-> "CleanPods", in |-> "any"]>>
      BY OpLists
    <3> QED
      BY <3>1, <3>2
  <2>5. CASE spec = 3
    BY <1>1, <1>3, <2>1, <2>2, <2>5 DEF Context
  <2>6. CASE spec \in {1, 2}
    <3>1. Current = AfterEach(2, Always(<<"CleanPods">>)) /\ Context = "vhostnet"
      BY <1>1, <1>3, <2>1, <2>2, <2>6 DEF Context
    <3> QED
      BY <1>1, <1>3, <2>3, <2>4, <2>6, <3>1
  <2> QED
    BY <2>2, <2>5, <2>6
<1> QED
  BY <1>1, <1>2, <1>3

LEMMA OwnIds ==
  ASSUME RunInv, Active, Current.id \in Shared \union {"rootless"}
  PROVE  /\ phase = "before" /\ Context = Current.id
         /\ Context \in Shared => node = Home(Context)
         /\ Context = "rootless" => node = 3 /\ spec = 3
<1>1. /\ Vendors[2].id = "each" /\ Nic.id = "it" /\ Restoring.id = "it" /\ AfterRootless.id = "after" /\ Rootless[2].id = "each"
      /\ Rootless[1].id = "rootless" /\ Vhostnet[1].id = "vhostnet" /\ Allocated[1].id = "allocated"
      /\ Split[2].id = "split" /\ Downward[1].id = "downward"
  BY Vhostnet1Ops, Allocated1Ops, Split2Node, Downward1Node, Rootless1Node
  DEF Vendors, Nic, Restoring, AfterRootless, Rootless, BeforeEach, It, AfterEach, Node
<1>2. phase = "before" /\ Configures(spec, node, Current)
  <2>1. phase \in {"before", "after"}
    BY DEF RunInv
  <2>2. phase # "after"
    BY <1>1, HereIs DEF Shared
  <2>3. ~ Plain(Current, Context)
    BY DEF Plain
  <2> QED
    BY <2>1, <2>2, <2>3, HereIs
<1>3. spec \in 1..15
  BY HereIs
<1>4. CASE spec \in {1, 2}
  BY <1>1, <1>2, <1>3, <1>4, PlanTable DEF Configures, Context, Home, Shared
<1>5. CASE spec = 3
  BY <1>1, <1>2, <1>3, <1>5, PlanTable DEF Configures, Context, Home, Shared
<1>6. CASE spec \in 4..8
  BY <1>1, <1>2, <1>3, <1>6, PlanTable DEF Configures, Context, Home, Shared
<1>7. CASE spec \in {9, 10}
  BY <1>1, <1>2, <1>3, <1>7, PlanTable DEF Configures, Context, Home, Shared
<1>8. CASE spec = 13
  BY <1>1, <1>2, <1>3, <1>8, PlanTable DEF Configures, Context, Home, Shared
<1>9. CASE spec \in {11, 12, 14, 15}
  BY <1>1, <1>2, <1>3, <1>9 DEF Configures, Shared
<1>10. spec \in {1, 2} \/ spec = 3 \/ spec \in 4..8 \/ spec \in {9, 10} \/ spec = 13 \/ spec \in {11, 12, 14, 15}
  BY <1>3
<1> QED
  BY <1>4, <1>5, <1>6, <1>7, <1>8, <1>9, <1>10

(* An early return is one of the top BeforeAll.                            *)
LEMMA EarlyAtTop ==
  ASSUME RunInv, EarlyReturn
  PROVE  Active /\ phase = "before" /\ node = 1
<1>1. Active /\ Op.do \in {"DiscoverProfiles", "DiscoverResources"}
  BY ActionOps DEF EarlyReturn
<1> QED
  BY <1>1, OpIs DEF Ordinary, Unordinary, AtTop, Skipping, At3, Configuring

(* The steps of the runner, by their stages.                               *)
LEMMA SharedMoves ==
  ASSUME RunInv, [Next]_vars, ~ Over, ~ NextSpec, Context \in Shared
  PROVE  \/ Stage' = 0
         \/ Stage' = Stage /\ (~ (Moving /\ Active) \/ UNCHANGED suite)
         \/ Stage' = Stage + 1 /\ Moving /\ Ok
<1> DEFINE c == Context
<1>1. Stage = SharedStage(c, phase, node, step, done)
  BY DEF Stage, StageOf
<1>2. ASSUME spec' = spec PROVE Stage' = SharedStage(c, phase', node', step', done')
  <2>1. Context' = c
    BY <1>2 DEF Context
  <2> QED
    BY <2>1 DEF Stage, StageOf
<1>3. c \in Shared /\ Home(c) \in {3, 4} /\ Full(c) \in {3, 4}
  BY DEF Home, Full
<1>4. phase = "before" /\ node = Home(c) =>
         Current.once /\ Current.id = c /\ Len(Current.ops) = Full(c) + 1 /\ step \in 1..Full(c) + 1
  BY SharedAt, HomeOps
<1>5. node \in Nat \ {0} /\ step \in Nat \ {0} /\ phase \in {"before", "after"}
  BY DEF RunInv
<1>6. Moving <=> phase = "before" /\ c \notin done /\ node = Home(c) /\ step <= Full(c)
  BY DEF Moving, Shared
<1>7. Active => ~ (phase = "before" /\ node = Home(c) /\ c \in done)
  BY <1>4 DEF Active, Wanted
<1>8. Active /\ Current.id = c => phase = "before" /\ node = Home(c)
  BY OwnIds
<1> HIDE DEF c
<1> USE DEF SharedStage
<1>9. CASE Goes /\ Ok
  <2>1. Stage' = SharedStage(c, phase, node, step + 1, done) /\ step < Len(Current.ops)
    BY <1>2, <1>9 DEF Goes
  <2>2. CASE phase = "before" /\ node = Home(c)
    <3>1. c \notin done
      BY <1>7, <1>9, <2>2, OkDoes
    <3>2. step <= Full(c)
      BY <1>3, <1>4, <2>1, <2>2
    <3> QED
      BY <1>1, <1>5, <1>6, <1>9, <2>1, <2>2, <3>1, <3>2
  <2>3. CASE ~ (phase = "before" /\ node = Home(c))
    BY <1>1, <1>6, <2>1, <2>3
  <2> QED
    BY <2>2, <2>3
<1>10. CASE Return /\ (phase = "before" /\ node = Home(c) => ~ (step < Len(Current.ops)))
  <2>1. /\ Active /\ node' = node + 1 /\ step' = 1 /\ spec' = spec /\ phase' = phase
        /\ done' = IF Current.once THEN done \union {Current.id} ELSE done
    BY <1>10 DEF Return
  <2>2. CASE phase = "before" /\ node = Home(c)
    <3>1. step = Full(c) + 1 /\ c \in done' /\ c \notin done
      BY <1>3, <1>4, <1>7, <1>10, <2>1, <2>2
    <3>2. Stage' = Full(c) /\ Stage = Full(c) /\ ~ Moving
      BY <1>1, <1>2, <1>3, <1>6, <2>1, <2>2, <3>1
    <3> QED
      BY <3>2
  <2>3. CASE ~ (phase = "before" /\ node = Home(c))
    <3>1. c \in done' <=> c \in done
      BY <1>8, <2>1, <2>3
    <3>2. Stage' = IF c \in done THEN Full(c) ELSE 0
      BY <1>2, <2>1, <3>1
    <3> QED
      BY <1>1, <1>6, <2>3, <3>2
  <2> QED
    BY <2>2, <2>3
<1>11. CASE Fail \/ SkipSpec
  <2>1. Active /\ spec' = spec /\ done' = done /\ phase' = "after"
    BY <1>5, <1>11, StopDoes DEF Fails
  <2>2. Stage' = IF c \in done THEN Full(c) ELSE 0
    BY <1>2, <2>1
  <2> QED
    BY <1>1, <1>6, <2>2
<1>12. CASE PassOver
  <2>1. ~ Active /\ ~ Wanted /\ node' = node + 1 /\ step' = 1 /\ UNCHANGED <<spec, phase, done>>
    BY <1>12, PassOverDoes DEF Leaves
  <2>2. Stage' = IF c \in done THEN Full(c) ELSE 0
    BY <1>2, <2>1
  <2> QED
    BY <1>1, <2>1, <2>2
<1>13. CASE BodyDone
  <2>1. spec' = spec /\ done' = done /\ phase' = "after"
    BY <1>13 DEF BodyDone
  <2>2. Stage' = IF c \in done THEN Full(c) ELSE 0
    BY <1>2, <2>1
  <2>3. ~ Active
    BY <1>13, CurrentIs, NodeCounts DEF BodyDone, Active, RunInv
  <2> QED
    BY <1>1, <2>2, <2>3
<1>14. CASE UNCHANGED suite
  <2>1. Stage' = Stage
    BY <1>1, <1>2, <1>14 DEF suite
  <2> QED
    BY <1>14, <2>1
<1>15. CASE EarlyReturn
  <2>1. node = 1
    BY <1>15, EarlyAtTop
  <2> QED
    BY <1>3, <1>10, <1>15, <2>1 DEF EarlyReturn
<1>16. CASE Ok
  BY <1>9, <1>10, <1>16, OkDoes
<1> QED
  BY <1>11, <1>12, <1>13, <1>14, <1>15, <1>16, SuiteSteps

LEMMA RootlessAt ==
  ASSUME RunInv, ~ Over, Context = "rootless"
  PROVE  /\ spec = 3 /\ (phase = "before" => Len(Nodes) = 5)
         /\ phase = "before" /\ node = 3 =>
               Current = Rootless[1] /\ node <= Len(Nodes) /\ step \in 1..4 /\ Len(Current.ops) = 4 /\ Current.id = "rootless"
         /\ phase = "before" /\ node = 4 =>
               Current = Rootless[2] /\ node <= Len(Nodes) /\ step \in 1..4 /\ Len(Current.ops) = 4 /\ ~ Current.once
         /\ phase = "before" /\ node = 5 => ~ Current.once
<1>1. spec \in 1..15
  BY ThePlan DEF RunInv, Over
<1>2. spec = 3
  BY <1>1, PlanContexts DEF Context
<1>3. ASSUME phase = "before"
      PROVE  Len(Nodes) = 5 /\ Nodes[3] = Rootless[1] /\ Nodes[4] = Rootless[2]
             /\ Nodes[5] = Transmits(<<Start("rootless", "tx"), Start("rootless", "rx")>>)
  BY <1>2, <1>3, NodesThere DEF Nodes
<1>4. ASSUME phase = "before", node = 3
      PROVE  Current = Rootless[1] /\ node <= Len(Nodes) /\ step \in 1..4 /\ Len(Current.ops) = 4 /\ Current.id = "rootless"
  <2>1. Current = Rootless[1] /\ node <= Len(Nodes)
    <3>1. Len(Nodes) = 5 /\ Nodes[3] = Rootless[1]
      BY <1>3, <1>4
    <3> QED
      BY <1>4, <3>1 DEF Current
  <2>2. step <= Len(Current.ops) /\ step \in Nat \ {0}
    BY <2>1 DEF RunInv
  <2> QED
    BY <2>1, <2>2, Rootless1Ops, Rootless1Node
<1>5. ASSUME phase = "before", node = 4
      PROVE  Current = Rootless[2] /\ node <= Len(Nodes) /\ step \in 1..4 /\ Len(Current.ops) = 4 /\ ~ Current.once
  <2>1. Current = Rootless[2] /\ node <= Len(Nodes)
    BY <1>3, <1>5 DEF Current
  <2>2. step <= Len(Current.ops) /\ step \in Nat \ {0}
    BY <2>1 DEF RunInv
  <2> QED
    BY <2>1, <2>2, Rootless2Ops, Rootless2Node
<1>6. ASSUME phase = "before", node = 5 PROVE ~ Current.once
  <2>1. Current = Transmits(<<Start("rootless", "tx"), Start("rootless", "rx")>>)
    BY <1>3, <1>6 DEF Current
  <2> QED
    BY <2>1 DEF Transmits, It, Node
<1> QED
  BY <1>2, <1>3, <1>4, <1>5, <1>6

LEMMA RootlessMoves ==
  ASSUME RunInv, IdsInv, [Next]_vars, ~ Over, ~ NextSpec, Context = "rootless"
  PROVE  \/ Stage' = 0
         \/ Stage' = Stage /\ (~ (Moving /\ Active) \/ UNCHANGED suite)
         \/ Stage' = Stage + 1 /\ Moving /\ Ok
<1>1. Stage = RootlessStage(phase, node, step)
  BY DEF Stage, StageOf, Shared
<1>2. ASSUME spec' = spec PROVE Stage' = RootlessStage(phase', node', step')
  <2>1. Context' = "rootless"
    BY <1>2 DEF Context
  <2> QED
    BY <2>1 DEF Stage, StageOf, Shared
<1>3. node \in Nat \ {0} /\ step \in Nat \ {0} /\ phase \in {"before", "after"}
  BY DEF RunInv
<1>4. Moving <=> phase = "before" /\ ((node = 3 /\ step \in {2, 3}) \/ (node = 4 /\ step = 3))
  BY DEF Moving, Shared
<1>5. /\ phase = "before" /\ node \in {3, 4} => step \in 1..4 /\ Len(Current.ops) = 4
      /\ phase = "before" /\ node \in {3, 4, 5} => Wanted
      /\ phase = "before" => Len(Nodes) = 5
  <2>1. phase = "before" /\ node = 3 => "rootless" \notin done
    BY RootlessAt DEF IdsInv
  <2> QED
    BY <2>1, RootlessAt DEF Wanted
<1> USE DEF RootlessStage
<1>6. CASE Goes /\ Ok
  <2>1. Stage' = RootlessStage(phase, node, step + 1) /\ step < Len(Current.ops)
    BY <1>2, <1>6 DEF Goes
  <2>2. CASE phase = "before" /\ node \in {3, 4}
    <3>0. step \in 1..4 /\ step < 4
      BY <1>5, <2>1, <2>2
    <3>1. step \in 1..3
      BY <3>0
    <3> QED
      BY <1>1, <1>4, <1>6, <2>1, <2>2, <3>1
  <2>3. CASE ~ (phase = "before" /\ node \in {3, 4})
    BY <1>1, <1>3, <1>4, <2>1, <2>3
  <2> QED
    BY <2>2, <2>3
<1>7. CASE Return /\ (phase = "before" /\ node \in {3, 4} => ~ (step < Len(Current.ops)))
  <2>1. Stage' = RootlessStage(phase, node + 1, 1)
    BY <1>2, <1>7 DEF Return
  <2>2. CASE phase = "before" /\ node \in {3, 4}
    <3>1. step = 4
      BY <1>5, <1>7, <2>2
    <3> QED
      BY <1>1, <1>4, <2>1, <2>2, <3>1
  <2>3. CASE ~ (phase = "before" /\ node \in {3, 4})
    BY <1>1, <1>3, <1>4, <2>1, <2>3
  <2> QED
    BY <2>2, <2>3
<1>8. CASE Fail \/ SkipSpec
  <2>1. spec' = spec /\ phase' = "after"
    BY <1>3, <1>8, StopDoes DEF Fails
  <2> QED
    BY <1>2, <2>1
<1>9. CASE PassOver
  <2>1. ~ Active /\ ~ Wanted /\ node <= Len(Nodes) /\ node' = node + 1 /\ step' = 1 /\ UNCHANGED <<spec, phase>>
    BY <1>9, PassOverDoes DEF Leaves
  <2>2. CASE phase = "after"
    BY <1>2, <2>1, <2>2
  <2>3. CASE phase = "before"
    <3>1. node \in {1, 2}
      BY <1>3, <1>5, <2>1, <2>3
    <3> QED
      BY <1>2, <2>1, <3>1
  <2> QED
    BY <1>3, <2>2, <2>3
<1>10. CASE BodyDone
  BY <1>2, <1>10 DEF BodyDone
<1>11. CASE UNCHANGED suite
  <2>1. Stage' = Stage
    BY <1>1, <1>2, <1>11 DEF suite
  <2> QED
    BY <1>11, <2>1
<1>12. CASE EarlyReturn
  <2>1. node = 1
    BY <1>12, EarlyAtTop
  <2> QED
    BY <1>7, <1>12, <2>1 DEF EarlyReturn
<1>13. CASE Ok
  BY <1>6, <1>7, <1>13, OkDoes
<1> QED
  BY <1>8, <1>9, <1>10, <1>11, <1>12, <1>13, SuiteSteps

LEMMA VendorsAt ==
  ASSUME RunInv, ~ Over, Context = "vendors"
  PROVE  /\ spec \in {11, 12} /\ (phase = "before" => Len(Nodes) = 5)
         /\ phase = "before" /\ node = 4 =>
               Current = Vendors[2] /\ node <= Len(Nodes) /\ step \in 1..3 /\ Len(Current.ops) = 3 /\ ~ Current.once
<1>1. spec \in 1..15
  BY ThePlan DEF RunInv, Over
<1>2. spec \in {11, 12}
  <2>1. spec \in {1, 2} \/ spec = 3 \/ spec \in 4..8 \/ spec \in {9, 10} \/ spec \in {11, 12} \/ spec \in {13, 14, 15}
    BY <1>1
  <2> QED
    BY <1>1, <2>1, PlanTable DEF Context
<1>3. ASSUME phase = "before" PROVE Len(Nodes) = 5 /\ Nodes[4] = Vendors[2]
  BY <1>2, <1>3, NodesThere DEF Nodes
<1>4. ASSUME phase = "before", node = 4
      PROVE  Current = Vendors[2] /\ node <= Len(Nodes) /\ step \in 1..3 /\ Len(Current.ops) = 3 /\ ~ Current.once
  <2>1. Current = Vendors[2] /\ node <= Len(Nodes)
    BY <1>3, <1>4 DEF Current
  <2>2. step <= Len(Current.ops) /\ step \in Nat \ {0}
    BY <2>1 DEF RunInv
  <2> QED
    BY <2>1, <2>2, Vendors2Ops, Vendors2Node
<1> QED
  BY <1>2, <1>3, <1>4

LEMMA VendorsMoves ==
  ASSUME RunInv, [Next]_vars, ~ Over, ~ NextSpec, Context = "vendors"
  PROVE  \/ Stage' = 0
         \/ Stage' = Stage /\ (~ (Moving /\ Active) \/ UNCHANGED suite)
         \/ Stage' = Stage + 1 /\ Moving /\ Ok
<1>1. Stage = VendorsStage(phase, node, step)
  BY DEF Stage, StageOf, Shared
<1>2. ASSUME spec' = spec PROVE Stage' = VendorsStage(phase', node', step')
  <2>1. Context' = "vendors"
    BY <1>2 DEF Context
  <2> QED
    BY <2>1 DEF Stage, StageOf, Shared
<1>3. node \in Nat \ {0} /\ step \in Nat \ {0} /\ phase \in {"before", "after"}
  BY DEF RunInv
<1>4. Moving <=> phase = "before" /\ node = 4 /\ step = 2
  BY DEF Moving, Shared
<1>5. phase = "before" /\ node = 4 => step \in 1..3 /\ Len(Current.ops) = 3 /\ Wanted
  BY VendorsAt DEF Wanted
<1> USE DEF VendorsStage
<1>6. CASE Goes /\ Ok
  <2>1. Stage' = VendorsStage(phase, node, step + 1) /\ step < Len(Current.ops)
    BY <1>2, <1>6 DEF Goes
  <2>2. CASE phase = "before" /\ node = 4
    <3>0. step \in 1..3 /\ step < 3
      BY <1>5, <2>1, <2>2
    <3>1. step \in 1..2
      BY <3>0
    <3> QED
      BY <1>1, <1>4, <1>6, <2>1, <2>2, <3>1
  <2>3. CASE ~ (phase = "before" /\ node = 4)
    BY <1>1, <1>3, <1>4, <2>1, <2>3
  <2> QED
    BY <2>2, <2>3
<1>7. CASE Return /\ (phase = "before" /\ node = 4 => ~ (step < Len(Current.ops)))
  <2>1. Stage' = VendorsStage(phase, node + 1, 1)
    BY <1>2, <1>7 DEF Return
  <2>2. CASE phase = "before" /\ node = 4
    <3>0. step \in 1..3 /\ ~ (step < 3)
      BY <1>5, <1>7, <2>2
    <3>1. step = 3
      BY <3>0
    <3> QED
      BY <1>1, <1>4, <2>1, <2>2, <3>1
  <2>3. CASE ~ (phase = "before" /\ node = 4)
    BY <1>1, <1>3, <1>4, <2>1, <2>3
  <2> QED
    BY <2>2, <2>3
<1>8. CASE Fail \/ SkipSpec
  <2>1. spec' = spec /\ phase' = "after"
    BY <1>3, <1>8, StopDoes DEF Fails
  <2> QED
    BY <1>2, <2>1
<1>9. CASE PassOver
  <2>1. ~ Active /\ ~ Wanted /\ node' = node + 1 /\ step' = 1 /\ UNCHANGED <<spec, phase>>
    BY <1>9, PassOverDoes DEF Leaves
  <2>2. ~ (phase = "before" /\ node = 4)
    BY <1>5, <2>1
  <2> QED
    BY <1>1, <1>2, <1>3, <2>1, <2>2
<1>10. CASE BodyDone
  BY <1>2, <1>10 DEF BodyDone
<1>11. CASE UNCHANGED suite
  <2>1. Stage' = Stage
    BY <1>1, <1>2, <1>11 DEF suite
  <2> QED
    BY <1>11, <2>1
<1>12. CASE EarlyReturn
  <2>1. node = 1
    BY <1>12, EarlyAtTop
  <2> QED
    BY <1>7, <1>12, <2>1 DEF EarlyReturn
<1>13. CASE Ok
  BY <1>6, <1>7, <1>13, OkDoes
<1> QED
  BY <1>8, <1>9, <1>10, <1>11, <1>12, <1>13, SuiteSteps

LEMMA NextSpecMoves ==
  ASSUME RunInv, IdsInv, ~ Over, ~ Over', NextSpec
  PROVE  Stage' = 0 \/ (Stage' = Stage /\ Context' = Context /\ ~ Active)
<1>1. /\ spec' = spec + 1 /\ phase' = "before" /\ node' = 1 /\ step' = 1 /\ done' = done
      /\ spec \in 1..15 /\ spec' \in 1..15
  BY ThePlan DEF NextSpec, RunInv, Over
<1>2. Context' = SuitePlan[spec'].context
  BY DEF Context
<1>3. Stage' = StageOf(Context', "before", 1, 1, done)
  BY <1>1 DEF Stage
<1>4. CASE Context' \in Shared /\ Context' \in done
  <2> DEFINE c == Context'
  <2>1. First(c) <= spec
    BY <1>4 DEF IdsInv
  <2>2. /\ c = "vhostnet" => spec' \in {1, 2} /\ First(c) = 1
        /\ c = "allocated" => spec' \in 4..8 /\ First(c) = 4
        /\ c = "split" => spec' \in {9, 10} /\ First(c) = 9
        /\ c = "downward" => spec' = 13 /\ First(c) = 13
    <3>1. c \in Shared /\ SuitePlan[spec'].context = c
      BY <1>2, <1>4
    <3> HIDE DEF c
    <3>2. \/ c = "vhostnet" /\ spec' \in {1, 2}
          \/ c = "allocated" /\ spec' \in 4..8
          \/ c = "split" /\ spec' \in {9, 10}
          \/ c = "downward" /\ spec' = 13
      BY <1>1, <3>1, SharedSpecs
    <3> QED
      BY <3>2 DEF First
  <2>3. SuitePlan[spec].context = c
    <3> HIDE DEF c
    <3>1. c \in Shared
      BY <1>4 DEF c
    <3>2. CASE c = "vhostnet"
      <4>1. spec \in {1, 2}
        BY <1>1, <2>1, <2>2, <3>2
      <4> QED
        BY <1>1, <3>2, <4>1, PlanTable
    <3>3. CASE c = "allocated"
      <4>1. spec \in 4..8
        BY <1>1, <2>1, <2>2, <3>3
      <4> QED
        BY <1>1, <3>3, <4>1, PlanTable
    <3>4. CASE c = "split"
      <4>1. spec \in {9, 10}
        BY <1>1, <2>1, <2>2, <3>4
      <4> QED
        BY <1>1, <3>4, <4>1, PlanTable
    <3>5. c # "downward"
      BY <1>1, <2>1, <2>2
    <3> QED
      BY <3>1, <3>2, <3>3, <3>4, <3>5 DEF Shared
  <2>4. Context = Context'
    BY <2>3 DEF Context
  <2>5. Stage' = Full(Context) /\ Stage = Full(Context)
    BY <1>3, <1>4, <2>4 DEF Stage, StageOf, SharedStage
  <2>6. ~ Active
    BY CurrentIs, NodeCounts DEF NextSpec, SpecEnds, Active, RunInv
  <2> QED
    BY <2>4, <2>5, <2>6
<1>5. CASE Context' \in Shared /\ Context' \notin done
  BY <1>3, <1>5 DEF StageOf, SharedStage, Home
<1>6. CASE Context' \notin Shared
  BY <1>3, <1>6 DEF StageOf, RootlessStage, VendorsStage
<1> QED
  BY <1>4, <1>5, <1>6

LEMMA StageMoves ==
  ASSUME RunInv, IdsInv, [Next]_vars, ~ Over, ~ Over'
  PROVE  \/ Stage' = 0
         \/ Context' = Context /\ Stage' = Stage /\ (~ (Moving /\ Active) \/ UNCHANGED suite)
         \/ Context' = Context /\ Stage' = Stage + 1 /\ Moving /\ Ok
<1>1. CASE NextSpec
  BY <1>1, NextSpecMoves
<1>2. CASE ~ NextSpec
  <2>1. spec' = spec
    <3>1. CASE Ok
      BY <3>1, OkDoes, ReturnDoes DEF Goes, Leaves
    <3>2. CASE Fail \/ SkipSpec
      BY <3>2, StopDoes DEF Fails
    <3>3. CASE PassOver
      BY <3>3, PassOverDoes DEF Leaves
    <3>4. CASE BodyDone \/ UNCHANGED suite
      BY <3>4 DEF BodyDone, suite
    <3>5. CASE EarlyReturn
      BY <3>5, ReturnDoes DEF EarlyReturn, Leaves
    <3> QED
      BY <1>2, <3>1, <3>2, <3>3, <3>4, <3>5, SuiteSteps
  <2>2. Context' = Context
    BY <2>1 DEF Context
  <2>3. CASE Context \notin Shared \union {"rootless", "vendors"}
    BY <2>2, <2>3 DEF Stage, StageOf
  <2> QED
    BY <1>2, <2>2, <2>3, SharedMoves, RootlessMoves, VendorsMoves
<1> QED
  BY <1>1, <1>2

LEMMA IdsStep ==
  ASSUME RunInv, IdsInv, [Next]_vars
  PROVE  IdsInv'
<1>1. node \in Nat \ {0} /\ spec \in Nat \ {0} /\ phase \in {"before", "after"}
  BY DEF RunInv
<1>2. CASE Return
  <2>1. /\ Active /\ node' = node + 1 /\ spec' = spec /\ phase' = phase
        /\ done' = IF Current.once THEN done \union {Current.id} ELSE done
    BY <1>2 DEF Return
  <2>2. ASSUME NEW c \in Shared, c \in done' PROVE First(c) <= spec'
    <3>1. CASE c \in done
      BY <2>1, <3>1 DEF IdsInv
    <3>2. CASE c \notin done
      <4>1. Current.id = c
        BY <2>1, <2>2, <3>2
      <4>2. Context = c /\ ~ Over
        BY <2>1, <4>1, OwnIds DEF Active
      <4> QED
        BY <2>1, <4>2, SharedAt
    <3> QED
      BY <3>1, <3>2
  <2>3. ASSUME "rootless" \in done' PROVE spec' > 3 \/ (spec' = 3 /\ (phase' = "after" \/ node' > 3))
    <3>1. CASE "rootless" \in done
      BY <1>1, <2>1, <3>1 DEF IdsInv
    <3>2. CASE "rootless" \notin done
      <4>1. Current.id = "rootless"
        BY <2>1, <2>3, <3>2
      <4>2. spec = 3 /\ node = 3
        BY <2>1, <4>1, OwnIds
      <4> QED
        BY <2>1, <4>2
    <3> QED
      BY <3>1, <3>2
  <2> QED
    BY <2>2, <2>3 DEF IdsInv
<1>3. CASE Goes
  BY <1>3 DEF Goes, IdsInv
<1>4. CASE Ok
  BY <1>2, <1>3, <1>4, OkDoes
<1>5. CASE Fail \/ SkipSpec
  BY <1>1, <1>5, StopDoes DEF Fails, IdsInv
<1>6. CASE PassOver
  BY <1>1, <1>6, PassOverDoes DEF Leaves, IdsInv
<1>7. CASE BodyDone
  BY <1>7 DEF BodyDone, IdsInv
<1>8. CASE NextSpec
  <2>1. spec' = spec + 1 /\ done' = done
    BY <1>8 DEF NextSpec
  <2>2. \A c \in Shared : First(c) \in Nat
    BY DEF First
  <2> QED
    BY <1>1, <2>1, <2>2 DEF IdsInv
<1>9. CASE UNCHANGED suite
  BY <1>9 DEF suite, IdsInv
<1> QED
  BY <1>2, <1>4, <1>5, <1>6, <1>7, <1>8, <1>9, SuiteSteps DEF EarlyReturn

LEMMA HomeStep ==
  ASSUME RunInv, HomeInv, [Next]_vars
  PROVE  HomeInv'
<1> SUFFICES ASSUME ~ Over', Context' \in Shared, phase' = "before", node' > Home(Context')
             PROVE  Context' \in done'
  BY DEF HomeInv
<1>1. node \in Nat \ {0} /\ Home(Context') \in {3, 4}
  BY DEF RunInv, Home
<1>2. CASE Return
  <2>1. /\ Active /\ node' = node + 1 /\ spec' = spec /\ phase = "before"
        /\ done' = IF Current.once THEN done \union {Current.id} ELSE done
    BY <1>2 DEF Return
  <2>2. ~ Over /\ Context' = Context
    BY <2>1 DEF Over, Context
  <2>3. CASE node = Home(Context)
    <3>1. Current.once /\ Current.id = Context
      BY <2>1, <2>2, <2>3, SharedAt, HomeOps
    <3> QED
      BY <2>1, <2>2, <3>1
  <2>4. CASE node # Home(Context)
    <3>1. node > Home(Context)
      BY <1>1, <2>1, <2>2, <2>4
    <3> QED
      BY <2>1, <2>2, <3>1 DEF HomeInv
  <2> QED
    BY <2>3, <2>4
<1>3. CASE PassOver
  <2>1. ~ Wanted /\ node' = node + 1 /\ UNCHANGED <<spec, phase, done>> /\ ~ Over
    BY <1>3, PassOverDoes DEF Leaves
  <2>2. Context' = Context /\ phase = "before"
    BY <2>1 DEF Context
  <2>3. CASE node = Home(Context)
    <3>1. Current.id = Context
      BY <2>1, <2>2, <2>3, SharedAt, HomeOps
    <3> QED
      BY <2>1, <2>2, <3>1 DEF Wanted
  <2>4. CASE node # Home(Context)
    <3>1. node > Home(Context)
      BY <1>1, <2>1, <2>2, <2>4
    <3> QED
      BY <2>1, <2>2, <3>1 DEF HomeInv
  <2> QED
    BY <2>3, <2>4
<1>4. CASE Goes \/ UNCHANGED suite
  <2>1. UNCHANGED <<spec, phase, node, done>>
    BY <1>4 DEF Goes, suite
  <2>2. ~ Over /\ Context' = Context
    BY <2>1 DEF Over, Context
  <2> QED
    BY <2>1, <2>2 DEF HomeInv
<1>5. CASE Ok
  BY <1>2, <1>4, <1>5, OkDoes
<1>6. CASE Fail \/ SkipSpec
  BY <1>6, StopDoes DEF Fails
<1>7. CASE BodyDone
  BY <1>7 DEF BodyDone
<1>8. CASE NextSpec
  <2>1. node' = 1
    BY <1>8 DEF NextSpec
  <2> QED
    BY <1>1, <2>1
<1> QED
  BY <1>2, <1>3, <1>4, <1>5, <1>6, <1>7, <1>8, SuiteSteps DEF EarlyReturn

-----------------------------------------------------------------------------
(* The operations and the stages.                                          *)
LEMMA AtHome ==
  ASSUME RunInv, Active, Context \in Shared, phase = "before", node = Home(Context)
  PROVE  /\ Stage = step - 1 /\ Op = HomeOf(Context).ops[step] /\ step \in 1..Full(Context) + 1
         /\ Moving <=> step <= Full(Context)
<1>1. ~ Over
  BY DEF Active
<1>2. Current = HomeOf(Context) /\ step \in 1..Full(Context) + 1
  BY <1>1, SharedAt
<1>3. Context \notin done
  BY <1>2, HomeOps DEF Active, Wanted
<1>4. Stage = step - 1
  BY <1>3 DEF Stage, StageOf, SharedStage
<1>5. Moving <=> step <= Full(Context)
  BY <1>3 DEF Moving, Shared
<1> QED
  BY <1>2, <1>4, <1>5 DEF Op

LEMMA MovingOps ==
  ASSUME RunInv, Active, Moving
  PROVE  /\ Stage \in 0..3
         /\ Stage = 0 => Context = "downward" \/ (Op.do = "CleanPods" /\ Op.in \in {"any", "cluster"})
         /\ Stage = 1 => Op.do = "CleanSriov" /\ Op.in \in {"any", "cluster"}
         /\ Stage = 2 => Op.do = "CreateSriov" /\ Op.in \in {"any", "cluster"} /\ Op.ctx = Context
         /\ Stage = 3 => Op.do = "StartPod" /\ Op.in = "any" /\ Op.ctx = Context /\ Op.role = "server"
<1>1. ~ Over /\ phase = "before"
  BY DEF Active, Moving
<1>2. CASE Context \in Shared
  <2>1. node = Home(Context)
    BY <1>2 DEF Moving, Shared
  <2>2. Stage = step - 1 /\ Op = HomeOf(Context).ops[step] /\ step \in 1..Full(Context) + 1 /\ step <= Full(Context)
    BY <1>1, <1>2, <2>1, AtHome
  <2>3. step \in 1..4 /\ (step = 4 => Context # "vhostnet")
    BY <2>2 DEF Full
  <2>4. CASE step = 1
    BY <1>2, <2>2, <2>4, HomeOps
  <2>5. CASE step = 2
    BY <1>2, <2>2, <2>5, HomeOps
  <2>6. CASE step = 3
    BY <1>2, <2>2, <2>6, HomeOps
  <2>7. CASE step = 4
    BY <1>2, <2>2, <2>3, <2>7, HomeOps
  <2> QED
    BY <2>3, <2>4, <2>5, <2>6, <2>7
<1>3. CASE Context = "rootless"
  <2>1. Stage = RootlessStage(phase, node, step)
    BY <1>3 DEF Stage, StageOf, Shared
  <2>2. CASE node = 3 /\ step = 2
    BY <1>1, <1>3, <2>1, <2>2, RootlessAt, Rootless1Ops DEF RootlessStage, Op
  <2>3. CASE node = 3 /\ step = 3
    BY <1>1, <1>3, <2>1, <2>3, RootlessAt, Rootless1Ops DEF RootlessStage, Op
  <2>4. CASE node = 4 /\ step = 3
    BY <1>1, <1>3, <2>1, <2>4, RootlessAt, Rootless2Ops DEF RootlessStage, Op
  <2> QED
    BY <1>3, <2>2, <2>3, <2>4 DEF Moving, Shared
<1>4. CASE Context = "vendors"
  <2>1. Stage = VendorsStage(phase, node, step) /\ node = 4 /\ step = 2
    BY <1>4 DEF Stage, StageOf, Shared, Moving
  <2> QED
    BY <1>1, <1>4, <2>1, VendorsAt, Vendors2Ops DEF VendorsStage, Op
<1> QED
  BY <1>2, <1>3, <1>4 DEF Moving

InPlace ==
    /\ Op.do = "CleanPods" => Stage # 4
    /\ Op.do = "CleanSriov" => Stage \in {0, 1}
    /\ Op.do = "CreateSriov" => Moving \/ Stage \in {0, 1}
    /\ Op.do = "StartPod" => Op.ctx = Context /\ (Op.role = "server" => Moving)
    /\ Op.do # "DeleteNamespace"
    /\ Op.do = "DiscoveryNetwork" => Op.in = "discovery"

LEMMA OpInPlace ==
  ASSUME RunInv, Active, spec \in 1..13
  PROVE  InPlace
<1>1. /\ step \in 1..Len(Current.ops) /\ Op = Current.ops[step] /\ ~ Over /\ phase \in {"before", "after"}
      /\ spec \in 1..15
  BY HereIs DEF RunInv
<1>2. CASE phase = "after"
  <2>1. CASE spec \in {1, 2} /\ Context = "vhostnet" /\ \A j \in 1..Len(Current.ops) : Current.ops[j].do = "CleanPods"
    <3>1. Op.do = "CleanPods"
      BY <1>1, <2>1
    <3>2. Stage \in {0, 3}
      BY <1>2, <2>1 DEF Stage, StageOf, Shared, SharedStage, Full
    <3> QED
      BY <3>1, <3>2 DEF InPlace
  <2>2. CASE spec = 3 /\ Context = "rootless" /\ Current = AfterRootless
    <3>1. Stage = 0
      BY <1>2, <2>2 DEF Stage, StageOf, Shared, RootlessStage
    <3>2. Op.do \in {"UnsetBoolean", "CleanPods", "CleanSriov", "DeleteNads"}
      <4>1. \/ step = 1 /\ Op.do = "UnsetBoolean"
            \/ step = 2 /\ Op.do = "CleanPods"
            \/ step = 3 /\ Op.do = "CleanSriov"
            \/ step = 4 /\ Op.do = "DeleteNads"
        BY <1>1, <2>2, AfterRootlessOps
      <4> QED
        BY <4>1
    <3> QED
      BY <3>1, <3>2 DEF InPlace
  <2> QED
    BY <1>2, <2>1, <2>2, HereIs
<1>3. CASE phase = "before" /\ Plain(Current, Context)
  BY <1>1, <1>3 DEF Plain, InPlace
<1>4. CASE phase = "before" /\ Context \in Shared /\ node = Home(Context)
  <2>1. /\ Stage = step - 1 /\ Op = HomeOf(Context).ops[step] /\ step \in 1..Full(Context) + 1
        /\ Moving <=> step <= Full(Context)
    BY <1>4, AtHome
  <2>2. step \in 1..5 /\ (step = 5 => Context # "vhostnet")
    BY <2>1 DEF Full
  <2>3. CASE step = 1
    BY <1>4, <2>1, <2>3, HomeOps DEF InPlace
  <2>4. CASE step = 2
    BY <1>4, <2>1, <2>4, HomeOps DEF InPlace
  <2>5. CASE step = 3
    <3>1. Moving
      BY <2>1, <2>5 DEF Full
    <3> QED
      BY <1>4, <2>1, <2>5, <3>1, HomeOps DEF InPlace
  <2>6. CASE step = 4
    <3>1. Context # "vhostnet" => Moving
      BY <2>1, <2>6 DEF Full
    <3> QED
      BY <1>4, <2>1, <2>6, <3>1, HomeOps DEF InPlace
  <2>7. CASE step = 5
    BY <1>4, <2>1, <2>2, <2>7, HomeOps DEF InPlace
  <2> QED
    BY <2>2, <2>3, <2>4, <2>5, <2>6, <2>7
<1>5. CASE phase = "before" /\ Context = "rootless" /\ node \in {3, 4}
  <2>1. Stage = RootlessStage(phase, node, step)
    BY <1>5 DEF Stage, StageOf, Shared
  <2>2. CASE node = 3
    <3>1. \/ step = 1 /\ Op.do = "Skip"
          \/ step = 2 /\ Op.do = "CleanPods"
          \/ step = 3 /\ Op.do = "CleanSriov"
          \/ step = 4 /\ Op.do = "FindDevice"
      BY <1>1, <1>5, <2>2, RootlessAt, Rootless1Ops
    <3> QED
      BY <1>5, <2>1, <2>2, <3>1 DEF InPlace, RootlessStage
  <2>3. CASE node = 4
    <3>1. \/ step = 1 /\ Op.do = "CheckBoolean"
          \/ step = 2 /\ Op.do = "SetBoolean"
          \/ step = 3 /\ Op.do = "CreateSriov"
          \/ step = 4 /\ Op.do = "CreateNads"
      BY <1>1, <1>5, <2>3, RootlessAt, Rootless2Ops
    <3> QED
      BY <1>5, <2>3, <3>1 DEF InPlace, Moving
  <2> QED
    BY <1>5, <2>2, <2>3
<1>6. CASE phase = "before" /\ Context = "vendors" /\ Current \in {Vendors[2], Nic}
  <2>1. Stage \in {0, 1}
    BY <1>6 DEF Stage, StageOf, Shared, VendorsStage
  <2>2. CASE Current = Vendors[2]
    <3>1. \/ step = 1 /\ Op.do = "Skip"
          \/ step = 2 /\ Op.do = "CleanPods"
          \/ step = 3 /\ Op.do = "CleanSriov"
      BY <1>1, <2>2, Vendors2Ops
    <3> QED
      BY <2>1, <3>1 DEF InPlace
  <2>3. CASE Current = Nic
    <3>1. \/ step = 1 /\ Op.do = "FindNic"
          \/ step = 2 /\ Op.do = "CreateSriov"
          \/ step = 3 /\ Op.do = "StartPod" /\ Op.ctx = "vendors" /\ Op.role = "tx"
          \/ step = 4 /\ Op.do = "Traffic"
      BY <1>1, <2>3, NicOps
    <3> QED
      BY <1>6, <2>1, <3>1 DEF InPlace
  <2> QED
    BY <1>6, <2>2, <2>3
<1>7. ASSUME phase = "before", Configures(spec, node, Current)
      PROVE  \/ Context \in Shared /\ node = Home(Context)
             \/ Context = "rootless" /\ node \in {3, 4}
             \/ Context = "vendors" /\ Current \in {Vendors[2], Nic}
  <2>1. spec \in {1, 2} \/ spec = 3 \/ spec \in 4..8 \/ spec \in {9, 10} \/ spec \in {11, 12} \/ spec = 13
    OBVIOUS
  <2>2. CASE spec \in {1, 2}
    BY <1>1, <1>7, <2>2, PlanTable DEF Configures, Context, Shared, Home
  <2>3. CASE spec = 3
    BY <1>1, <1>7, <2>3, PlanTable DEF Configures, Context
  <2>4. CASE spec \in 4..8
    BY <1>1, <1>7, <2>4, PlanTable DEF Configures, Context, Shared, Home
  <2>5. CASE spec \in {9, 10}
    BY <1>1, <1>7, <2>5, PlanTable DEF Configures, Context, Shared, Home
  <2>6. CASE spec \in {11, 12}
    BY <1>1, <1>7, <2>6, PlanTable DEF Configures, Context
  <2>7. CASE spec = 13
    BY <1>1, <1>7, <2>7, PlanTable DEF Configures, Context, Shared, Home
  <2> QED
    BY <2>1, <2>2, <2>3, <2>4, <2>5, <2>6, <2>7
<1> QED
  BY <1>1, <1>2, <1>3, <1>4, <1>5, <1>6, <1>7, HereIs

(* A step that is not a move keeps what the stage guarantees.              *)
LEMMA KeepsOwn ==
  ASSUME Inv, OwnInv, [Next]_vars, ~ Over, spec \in 1..13, ~ (Moving /\ Active), Stage # 0
  PROVE  /\ ~ env.discovery /\ Context # "downward" /\ Stage >= 1 => \A p \in pods' : p.ctx = Context
         /\ ~ env.discovery /\ Stage = 2 => policies' = <<>> /\ networks' = {}
         /\ ~ env.discovery /\ Stage >= 3 => policies' = PoliciesOf(Context) /\ networks' = NetworksOf(Context)
         /\ Stage = 4 => workload' = Context /\ WorkloadRuns'
<1>1. RunInv
  BY DEF Inv
<1>2. ASSUME Active PROVE InPlace
  BY <1>1, <1>2, OpInPlace
<1>3. ASSUME ~ env.discovery, Stage >= 2 PROVE policies' = policies /\ networks' = networks
  <2>1. ~ CleanSriov /\ ~ CreateSriov
    BY <1>2, <1>3, ActionOps DEF InPlace
  <2>2. ~ DiscoveryNetwork
    BY <1>2, <1>3, ActionOps DEF InPlace, InMode
  <2> QED
    BY <2>1, <2>2, Frames
<1>4. ~ DeleteNamespace
  BY <1>2, ActionOps DEF InPlace
<1>5. StartPod => /\ Op.ctx = Context /\ Op.role # "server" /\ workload' = workload
                  /\ pods' \in {pods, pods \union {[ctx |-> Context, role |-> Op.role]}}
  <2> SUFFICES ASSUME StartPod
               PROVE  /\ Op.ctx = Context /\ Op.role # "server" /\ workload' = workload
                      /\ pods' \in {pods, pods \union {[ctx |-> Context, role |-> Op.role]}}
    OBVIOUS
  <2>1. Active /\ Op.do = "StartPod"
    BY ActionOps
  <2>2. Op.ctx = Context /\ Op.role # "server"
    BY <1>2, <2>1 DEF InPlace
  <2> QED
    BY <2>2 DEF StartPod
<1>6. CleanPods => pods' \in {pods, {}}
  BY DEF CleanPods
<1>7. DeletePod => pods' \in {pods, {p \in pods : p.role # "hugepages"}}
  BY DEF DeletePod
<1>8. ASSUME \A p \in pods : p.ctx = Context PROVE \A p \in pods' : p.ctx = Context
  <2>1. CASE StartPod
    BY <1>5, <1>8, <2>1
  <2> QED
    BY <1>4, <1>6, <1>7, <1>8, <2>1, Frames
<1>9. ASSUME Stage = 4 PROVE workload' = Context /\ WorkloadRuns'
  <2>1. workload = Context /\ [ctx |-> Context, role |-> "server"] \in pods
    BY <1>9 DEF OwnInv, WorkloadRuns
  <2>2. ~ CleanPods
    BY <1>2, <1>9, ActionOps DEF InPlace
  <2>3. workload' = workload
    BY <1>5, Frames
  <2>4. [ctx |-> Context, role |-> "server"] \in pods'
    <3>1. CASE StartPod
      BY <1>5, <2>1, <3>1
    <3>2. CASE DeletePod
      <4>1. [ctx |-> Context, role |-> "server"].role # "hugepages"
        OBVIOUS
      <4> QED
        BY <1>7, <2>1, <3>2, <4>1
    <3> QED
      BY <1>4, <2>1, <2>2, <3>1, <3>2, Frames
  <2> QED
    BY <2>1, <2>3, <2>4 DEF WorkloadRuns
<1>10. Stage >= 3 => Stage >= 2
  <2>1. Stage \in Int
    BY <1>1 DEF Stage, StageOf, SharedStage, RootlessStage, VendorsStage, RunInv, Full
  <2> QED
    BY <2>1
<1> QED
  BY <1>3, <1>8, <1>9, <1>10 DEF OwnInv

LEMMA PoliciesAreSeq ==
  ASSUME NEW c
  PROVE  \E S : PoliciesOf(c) \in Seq(S)
<1> DEFINE names == {"dpdknet1", "dpdknet2", "dpdknic", "regularnic"}
<1>1. Resources(c) \in Seq(names)
  <2>1. CASE c = "rootless"
    <3>1. Resources(c) = <<"dpdknet1", "dpdknet2">>
      BY <2>1 DEF Resources
    <3> QED
      BY <3>1
  <2>2. CASE c \in {"split", "downward"}
    <3>1. Resources(c) = <<"dpdknic", "regularnic">>
      BY <2>2 DEF Resources
    <3> QED
      BY <3>1
  <2>3. CASE c # "rootless" /\ c \notin {"split", "downward"}
    <3>1. Resources(c) = <<"dpdknic">>
      BY <2>3 DEF Resources
    <3> QED
      BY <3>1
  <2> QED
    BY <2>1, <2>2, <2>3
<1>2. PoliciesOf(c) \in Seq({[ctx |-> c, resource |-> r] : r \in names})
  BY <1>1 DEF PoliciesOf
<1> QED
  BY <1>2

(* A move establishes what the next stage guarantees.                      *)
LEMMA MovesOwn ==
  ASSUME Inv, OwnInv, [Next]_vars, ~ Over, Moving, Ok, NEW st, st = Stage + 1
  PROVE  /\ ~ env.discovery /\ Context # "downward" => \A p \in pods' : p.ctx = Context
         /\ ~ env.discovery /\ st = 2 => policies' = <<>> /\ networks' = {}
         /\ ~ env.discovery /\ st >= 3 => policies' = PoliciesOf(Context) /\ networks' = NetworksOf(Context)
         /\ st = 4 => workload' = Context /\ WorkloadRuns'
<1>1. RunInv /\ Active /\ phase = "before"
  BY DEF Inv, Ok, Moving
<1>2. ~ Fail /\ phase' = "before"
  <2>1. phase' = "before"
    BY <1>1, OkDoes, ReturnDoes DEF Goes, Leaves
  <2>2. Fail => phase' = "after"
    BY <1>1, StopDoes DEF Fails
  <2> QED
    BY <2>1, <2>2
<1>3. ~ UNCHANGED vars
  <2>1. Goes \/ node' = node + 1
    BY OkDoes, ReturnDoes DEF Leaves
  <2>2. step \in Nat /\ node \in Nat
    BY <1>1 DEF RunInv
  <2> QED
    BY <2>1, <2>2 DEF Goes, vars, suite
<1>4. ~ RunnerGoesOn /\ ~ Ended
  BY <1>1, <1>3, Quiescent DEF Ended
<1>5. /\ Stage \in 0..3
      /\ Stage = 0 => Context = "downward" \/ (Op.do = "CleanPods" /\ Op.in \in {"any", "cluster"})
      /\ Stage = 1 => Op.do = "CleanSriov" /\ Op.in \in {"any", "cluster"}
      /\ Stage = 2 => Op.do = "CreateSriov" /\ Op.in \in {"any", "cluster"} /\ Op.ctx = Context
      /\ Stage = 3 => Op.do = "StartPod" /\ Op.in = "any" /\ Op.ctx = Context /\ Op.role = "server"
  BY <1>1, MovingOps
<1>6. CASE Stage = 0
  <2>1. ASSUME ~ env.discovery, Context # "downward" PROVE pods' = {}
    <3>1. Op.do = "CleanPods" /\ InMode
      BY <1>5, <1>6, <2>1 DEF InMode
    <3>2. CleanPods
      BY <1>1, <1>3, <1>4, <3>1, ActionOps DEF Next, SuiteStep
    <3> QED
      BY <1>2, <3>2 DEF CleanPods, FailCall
  <2> QED
    BY <1>6, <2>1
<1>7. CASE Stage = 1
  <2>1. ASSUME ~ env.discovery
        PROVE  policies' = <<>> /\ networks' = {} /\ pods' = pods
    <3>1. Op.do = "CleanSriov" /\ InMode
      BY <1>5, <1>7, <2>1 DEF InMode
    <3>2. CleanSriov
      BY <1>1, <1>3, <1>4, <3>1, ActionOps DEF Next, SuiteStep
    <3> QED
      BY <1>2, <2>1, <3>2 DEF CleanSriov, FailCall, podState
  <2> QED
    BY <1>7, <2>1 DEF OwnInv
<1>8. CASE Stage = 2
  <2>1. ASSUME ~ env.discovery
        PROVE  policies' = PoliciesOf(Context) /\ networks' = NetworksOf(Context) /\ pods' = pods
    <3>1. Op.do = "CreateSriov" /\ InMode /\ Op.ctx = Context
      BY <1>5, <1>8, <2>1 DEF InMode
    <3>2. CreateSriov
      BY <1>1, <1>3, <1>4, <3>1, ActionOps DEF Next, SuiteStep
    <3>3. policies' = policies \o PoliciesOf(Op.ctx) /\ networks' = networks \union NetworksOf(Op.ctx) /\ pods' = pods
      BY <1>2, <3>2 DEF CreateSriov, FailCall, podState
    <3>4. policies = <<>> /\ networks = {}
      BY <1>8, <2>1 DEF OwnInv
    <3>5. policies' = <<>> \o PoliciesOf(Context) /\ networks' = NetworksOf(Context)
      BY <3>1, <3>3, <3>4
    <3>6. \E S : PoliciesOf(Context) \in Seq(S)
      BY PoliciesAreSeq
    <3>7. <<>> \o PoliciesOf(Context) = PoliciesOf(Context)
      BY <3>6
    <3> QED
      BY <3>3, <3>5, <3>7
  <2> QED
    BY <1>8, <2>1 DEF OwnInv
<1>9. CASE Stage = 3
  <2>1. Op.do = "StartPod" /\ InMode /\ Op.ctx = Context /\ Op.role = "server"
    BY <1>5, <1>9 DEF InMode
  <2>2. StartPod
    BY <1>1, <1>3, <1>4, <2>1, ActionOps DEF Next, SuiteStep
  <2>3. /\ pods' = pods \union {[ctx |-> Op.ctx, role |-> Op.role]} /\ workload' = Op.ctx
        /\ policies' = policies /\ networks' = networks
    BY <1>2, <2>1, <2>2 DEF StartPod, FailCall, sriov
  <2>4. workload' = Context /\ WorkloadRuns'
    BY <2>1, <2>3 DEF WorkloadRuns
  <2>5. ASSUME \A p \in pods : p.ctx = Context PROVE \A p \in pods' : p.ctx = Context
    BY <2>1, <2>3, <2>5
  <2> QED
    BY <1>9, <2>3, <2>4, <2>5 DEF OwnInv
<1> QED
  BY <1>5, <1>6, <1>7, <1>8, <1>9

LEMMA OwnStep ==
  ASSUME Inv, IdsInv, OwnInv, [Next]_vars
  PROVE  OwnInv'
<1> SUFFICES ASSUME ~ Over', Stage' # 0
             PROVE  /\ ~ env'.discovery /\ Context' # "downward" /\ Stage' >= 1 => \A p \in pods' : p.ctx = Context'
                    /\ ~ env'.discovery /\ Stage' = 2 => policies' = <<>> /\ networks' = {}
                    /\ ~ env'.discovery /\ Stage' >= 3 => policies' = PoliciesOf(Context') /\ networks' = NetworksOf(Context')
                    /\ Stage' = 4 => workload' = Context' /\ WorkloadRuns'
  BY DEF OwnInv
<1>1. RunInv /\ env' = env
  BY Frames DEF Inv
<1>2. ~ Over
  <2>1. spec' \in {spec, spec + 1} /\ spec \in Nat
    BY <1>1, SpecsGoOn DEF RunInv
  <2> QED
    BY <2>1, ThePlan DEF Over
<1>3. CASE Context' = Context /\ Stage' = Stage + 1 /\ Moving /\ Ok
  BY <1>1, <1>2, <1>3, MovesOwn
<1>4. CASE Context' = Context /\ Stage' = Stage /\ ~ (Moving /\ Active)
  <2>1. spec \in 1..13
    <3>1. Context \in Shared \union {"rootless", "vendors"}
      BY <1>4 DEF Stage, StageOf
    <3> QED
      BY <1>1, <1>2, <3>1, SharedAt, RootlessAt, VendorsAt
  <2> QED
    BY <1>1, <1>2, <1>4, <2>1, KeepsOwn
<1>5. CASE Context' = Context /\ Stage' = Stage /\ UNCHANGED suite /\ Moving /\ Active
  <2>1. UNCHANGED vars
    <3>1. ~ Ok /\ ~ Fail /\ ~ SkipSpec /\ ~ Return
      <4>1. step \in Nat /\ node \in Nat /\ phase = "before"
        BY <1>1, <1>5 DEF RunInv, Moving
      <4>2. ~ Return
        BY <1>5, <4>1, ReturnDoes DEF Leaves, suite
      <4>3. ~ Ok
        BY <1>5, <4>1, <4>2, OkDoes DEF Goes, suite
      <4> QED
        BY <1>1, <1>5, <4>1, <4>2, <4>3, StopDoes DEF Fails, suite
    <3>2. ~ PassOver /\ ~ BodyDone /\ ~ NextSpec
      BY <1>1, <1>5, CurrentIs, NodeCounts DEF PassOver, BodyDone, NextSpec, SpecEnds, Active, RunInv
    <3> QED
      BY <1>1, <1>5, <3>1, <3>2, EveryStep DEF EarlyReturn
  <2> QED
    BY <1>1, <1>2, <1>5, <2>1 DEF OwnInv, vars, sriov, podState, WorkloadRuns
<1> QED
  BY <1>1, <1>2, <1>3, <1>4, <1>5, StageMoves

(* The body of every spec runs on the SR-IOV configuration of its own      *)
(* context, created once, on no pod of another one and with the running    *)
(* server of its own context, on every cluster and whichever calls failed  *)
(* in the specs before and in the attempts at configuring it.              *)
THEOREM ConfigurationIsOwn == Spec => []OwnConfiguration
<1> DEFINE I == Inv /\ IdsInv /\ HomeInv /\ OwnInv
<1>1. Init => I
  <2> SUFFICES ASSUME Init PROVE IdsInv /\ HomeInv /\ OwnInv
    BY InitInv
  <2>1. spec = 1 /\ phase = "before" /\ node = 1 /\ step = 1 /\ done = {}
    BY DEF Init, RunnerInit
  <2>2. Context = "vhostnet"
    BY <2>1, PlanTable DEF Context
  <2>3. Stage = 0
    BY <2>1, <2>2 DEF Stage, StageOf, Shared, SharedStage, Home
  <2> QED
    BY <2>1, <2>2, <2>3 DEF IdsInv, HomeInv, OwnInv, Home
<1>2. I /\ [Next]_vars => I'
  BY StepInv, IdsStep, HomeStep, OwnStep DEF Inv
<1>3. I => OwnConfiguration
  <2> SUFFICES ASSUME Inv, HomeInv, OwnInv, Body
               PROVE  /\ ~ env.discovery =>
                             /\ Context # "vendors" => policies = PoliciesOf(Context) /\ networks = NetworksOf(Context)
                             /\ \A p \in pods : p.ctx = Context \/ Context = "downward"
                      /\ Context \in {"allocated", "split", "downward"} => workload = Context /\ WorkloadRuns
    BY DEF OwnConfiguration
  <2>1. RunInv /\ ~ Over /\ phase = "before" /\ node = Len(Nodes) /\ Context \in Shared \union {"rootless", "vendors"}
    BY DEF Inv, Body, InBody, Active, Contexts, Shared
  <2>2. CASE Context \in Shared
    <3>1. node > Home(Context)
      BY <2>1, <2>2, SharedAt
    <3>2. Stage = Full(Context)
      BY <2>1, <2>2, <3>1 DEF HomeInv, Stage, StageOf, SharedStage
    <3>3. /\ Stage >= 1 /\ Stage >= 3
          /\ Context \in {"allocated", "split", "downward"} => Stage = 4
      BY <3>2 DEF Full
    <3> QED
      BY <2>1, <3>3 DEF OwnInv
  <2>3. CASE Context = "rootless"
    <3>1. node = 5
      BY <2>1, <2>3, RootlessAt
    <3>2. Stage = 3
      BY <2>1, <2>3, <3>1 DEF Stage, StageOf, Shared, RootlessStage
    <3> QED
      BY <2>1, <2>3, <3>2 DEF OwnInv
  <2>4. CASE Context = "vendors"
    <3>1. node = 5
      BY <2>1, <2>4, VendorsAt
    <3>2. Stage = 1
      BY <2>1, <2>4, <3>1 DEF Stage, StageOf, Shared, VendorsStage
    <3> QED
      BY <2>1, <2>4, <3>2 DEF OwnInv
  <2> QED
    BY <2>1, <2>2, <2>3, <2>4
<1> HIDE DEF I
<1>4. Spec => []I
  BY <1>1, <1>2, PTL DEF Spec
<1> QED
  BY <1>3, <1>4, PTL
=============================================================================
