------------------- MODULE MultiNetworkPolicySuiteProofs --------------------
(***************************************************************************)
(* What the multinetworkpolicy suite guarantees whichever specs are run    *)
(* and however often, and however many calls to the cluster fail.          *)
(***************************************************************************)
EXTENDS MultiNetworkPolicySuite, SequenceTheorems, TLAPS

-----------------------------------------------------------------------------
(* The operations of the nodes, by their places.                           *)
LEMMA ForXYZ ==
  ASSUME NEW name
  PROVE  For(name, xyz) = <<[do |-> name, ns |-> "X"], [do |-> name, ns |-> "Y"],
                            [do |-> name, ns |-> "Z"]>>
  BY DEF For, xyz

LEMMA PodsABC ==
  ASSUME NEW n
  PROVE  CreatePods(n) = <<[do |-> "CreatePod", ns |-> n, label |-> "a"],
                           [do |-> "CreatePod", ns |-> n, label |-> "b"],
                           [do |-> "CreatePod", ns |-> n, label |-> "c"]>>
  BY DEF CreatePods, abc

LEMMA SuiteBeforeAllOps ==
  /\ Len(SuiteBeforeAll) = 22
  /\ SuiteBeforeAll[1] = [do |-> "IsSriovOperatorInstalled"]
  /\ SuiteBeforeAll[2] = [do |-> "CleanPods", ns |-> "X"]
  /\ SuiteBeforeAll[3] = [do |-> "CleanPods", ns |-> "Y"]
  /\ SuiteBeforeAll[4] = [do |-> "CleanPods", ns |-> "Z"]
  /\ SuiteBeforeAll[5] = [do |-> "CreateNamespace", ns |-> "X"]
  /\ SuiteBeforeAll[6] = [do |-> "CreateNamespace", ns |-> "Y"]
  /\ SuiteBeforeAll[7] = [do |-> "CreateNamespace", ns |-> "Z"]
  /\ SuiteBeforeAll[8] = [do |-> "CleanSriov"]
  /\ SuiteBeforeAll[9] = [do |-> "DiscoverNodes"]
  /\ SuiteBeforeAll[10] = [do |-> "CreateSriovPolicy"]
  /\ SuiteBeforeAll[11] = [do |-> "WaitStable"]
  /\ SuiteBeforeAll[12] = [do |-> "CreateSriovNetwork"]
  /\ SuiteBeforeAll[13] = [do |-> "WaitForNetworkAttachment"]
  /\ SuiteBeforeAll[14] = [do |-> "CreatePod", ns |-> "X", label |-> "a"]
  /\ SuiteBeforeAll[15] = [do |-> "CreatePod", ns |-> "X", label |-> "b"]
  /\ SuiteBeforeAll[16] = [do |-> "CreatePod", ns |-> "X", label |-> "c"]
  /\ SuiteBeforeAll[17] = [do |-> "CreatePod", ns |-> "Y", label |-> "a"]
  /\ SuiteBeforeAll[18] = [do |-> "CreatePod", ns |-> "Y", label |-> "b"]
  /\ SuiteBeforeAll[19] = [do |-> "CreatePod", ns |-> "Y", label |-> "c"]
  /\ SuiteBeforeAll[20] = [do |-> "CreatePod", ns |-> "Z", label |-> "a"]
  /\ SuiteBeforeAll[21] = [do |-> "CreatePod", ns |-> "Z", label |-> "b"]
  /\ SuiteBeforeAll[22] = [do |-> "CreatePod", ns |-> "Z", label |-> "c"]
<1>1. Do(<<"IsSriovOperatorInstalled">>) = <<[do |-> "IsSriovOperatorInstalled"]>>
  BY DEF Do
<1>2. Do(<<"CleanSriov", "DiscoverNodes", "CreateSriovPolicy", "WaitStable",
           "CreateSriovNetwork", "WaitForNetworkAttachment">>)
      = <<[do |-> "CleanSriov"], [do |-> "DiscoverNodes"], [do |-> "CreateSriovPolicy"],
          [do |-> "WaitStable"], [do |-> "CreateSriovNetwork"], [do |-> "WaitForNetworkAttachment"]>>
  BY DEF Do
<1>3. SuiteBeforeAll =
         <<[do |-> "IsSriovOperatorInstalled"]>>
         \o <<[do |-> "CleanPods", ns |-> "X"], [do |-> "CleanPods", ns |-> "Y"], [do |-> "CleanPods", ns |-> "Z"]>>
         \o <<[do |-> "CreateNamespace", ns |-> "X"], [do |-> "CreateNamespace", ns |-> "Y"], [do |-> "CreateNamespace", ns |-> "Z"]>>
         \o <<[do |-> "CleanSriov"], [do |-> "DiscoverNodes"], [do |-> "CreateSriovPolicy"],
              [do |-> "WaitStable"], [do |-> "CreateSriovNetwork"], [do |-> "WaitForNetworkAttachment"]>>
         \o <<[do |-> "CreatePod", ns |-> "X", label |-> "a"], [do |-> "CreatePod", ns |-> "X", label |-> "b"], [do |-> "CreatePod", ns |-> "X", label |-> "c"]>>
         \o <<[do |-> "CreatePod", ns |-> "Y", label |-> "a"], [do |-> "CreatePod", ns |-> "Y", label |-> "b"], [do |-> "CreatePod", ns |-> "Y", label |-> "c"]>>
         \o <<[do |-> "CreatePod", ns |-> "Z", label |-> "a"], [do |-> "CreatePod", ns |-> "Z", label |-> "b"], [do |-> "CreatePod", ns |-> "Z", label |-> "c"]>>
  BY <1>1, <1>2, ForXYZ, PodsABC DEF SuiteBeforeAll
<1> QED
  BY <1>3

LEMMA SuiteBeforeEachOps ==
  /\ Len(SuiteBeforeEach) = 6
  /\ SuiteBeforeEach[1] = [do |-> "SkipDiscovery"]
  /\ SuiteBeforeEach[2] = [do |-> "SkipWithoutSriov"]
  /\ SuiteBeforeEach[3] = [do |-> "FailWithoutPods"]
  /\ SuiteBeforeEach[4] = [do |-> "CleanPolicies", ns |-> "X"]
  /\ SuiteBeforeEach[5] = [do |-> "CleanPolicies", ns |-> "Y"]
  /\ SuiteBeforeEach[6] = [do |-> "CleanPolicies", ns |-> "Z"]
<1>1. Do(<<"SkipDiscovery", "SkipWithoutSriov", "FailWithoutPods">>)
      = <<[do |-> "SkipDiscovery"], [do |-> "SkipWithoutSriov"], [do |-> "FailWithoutPods"]>>
  BY DEF Do
<1>2. SuiteBeforeEach =
         <<[do |-> "SkipDiscovery"], [do |-> "SkipWithoutSriov"], [do |-> "FailWithoutPods"]>>
         \o <<[do |-> "CleanPolicies", ns |-> "X"], [do |-> "CleanPolicies", ns |-> "Y"], [do |-> "CleanPolicies", ns |-> "Z"]>>
  BY <1>1, ForXYZ DEF SuiteBeforeEach
<1> QED
  BY <1>2

LEMMA FixtureCleanupOps ==
  /\ Len(FixtureCleanup) = 4
  /\ FixtureCleanup[1] = [do |-> "SriovCleanAll"]
  /\ FixtureCleanup[2] = [do |-> "DeleteNamespace", ns |-> "X"]
  /\ FixtureCleanup[3] = [do |-> "DeleteNamespace", ns |-> "Y"]
  /\ FixtureCleanup[4] = [do |-> "DeleteNamespace", ns |-> "Z"]
<1>1. Do(<<"SriovCleanAll">>) = <<[do |-> "SriovCleanAll"]>>
  BY DEF Do
<1>2. FixtureCleanup =
         <<[do |-> "SriovCleanAll"]>>
         \o <<[do |-> "DeleteNamespace", ns |-> "X"], [do |-> "DeleteNamespace", ns |-> "Y"], [do |-> "DeleteNamespace", ns |-> "Z"]>>
  BY <1>1, ForXYZ DEF FixtureCleanup
<1> QED
  BY <1>2

-----------------------------------------------------------------------------
(* The operations of the bodies: every policy is one of namespace X.       *)
BodyNames == {"Skip", "SkipUnlessSctp", "CreatePolicy", "Check"}
IsBodyOp(op) == op.do \in BodyNames /\ (op.do = "CreatePolicy" => op.pol.ns = "X")
IsBody(s) == Len(s) \in Nat /\ Len(s) > 0 /\ \A i \in 1..Len(s) : IsBodyOp(s[i])

LEMMA PolicyNamespaces ==
  ASSUME NEW labels, NEW rule
  PROVE  /\ NewPolicy.ns = "X" /\ PolicyOn(labels).ns = "X" /\ IngressToA(rule).ns = "X"
         /\ WithEmptyIngressRules(NewPolicy).ns = "X"
         /\ WithEmptyIngressRules(PolicyOn(labels)).ns = "X"
         /\ WithEmptyEgressRules(PolicyOn(labels)).ns = "X"
         /\ WithEgressRule(PolicyOn(labels), rule).ns = "X"
  BY DEF NewPolicy, PolicyOn, IngressToA, WithEmptyIngressRules, WithEmptyEgressRules,
         WithIngressRule, WithEgressRule, WithPodSelector

LEMMA AllBodies == Len(Bodies) = 16 /\ \A b \in 1..16 : IsBody(Bodies[b])
<1> USE PolicyNamespaces DEF IsBody, IsBodyOp, BodyNames, Create, Check
<1>1. IsBody(IngressDenyPod)
  BY DEF IngressDenyPod, Checks
<1>2. IsBody(IngressDenyNamespace)
  <2>1. Len(IngressDenyNamespace) = 10 /\ \A i \in 2..10 : IngressDenyNamespace[i].do = "Check"
    BY DEF IngressDenyNamespace, Checks, ShouldReach, ShouldNotReach
  <2>2. IsBodyOp(IngressDenyNamespace[1])
    BY DEF IngressDenyNamespace, Checks, ShouldReach, ShouldNotReach
  <2> QED
    BY <2>1, <2>2
<1>3. IsBody(IngressFromLabel)
  BY DEF IngressFromLabel, Checks, ShouldReach, ShouldNotReach
<1>4. IsBody(IngressFromNamespace)
  BY DEF IngressFromNamespace, Checks, ShouldReach, ShouldNotReach, In, abc
<1>5. IsBody(IngressFromEither)
  BY DEF IngressFromEither, Checks, ShouldReach, ShouldNotReach, In, abc
<1>6. IsBody(IngressFromBoth)
  <2>1. Len(IngressFromBoth) = 11 /\ \A i \in 3..11 : IngressFromBoth[i].do = "Check"
    BY DEF IngressFromBoth, Checks, ShouldReach, ShouldNotReach, In
  <2>2. IsBodyOp(IngressFromBoth[1]) /\ IsBodyOp(IngressFromBoth[2])
    BY DEF IngressFromBoth, Checks, ShouldReach, ShouldNotReach, In
  <2> QED
    BY <2>1, <2>2
<1>7. IsBody(EgressDenyPod)
  BY DEF EgressDenyPod, Checks, ShouldReach, ShouldNotReach
<1>8. IsBody(EgressToLabel)
  BY DEF EgressToLabel, Checks, ShouldReach, ShouldNotReach
<1>9. IsBody(StackedOverlapping)
  BY DEF StackedOverlapping, Checks, ShouldReach, ShouldNotReach, In, abc
<1>10. IsBody(StackedPorts)
  <2>1. Len(StackedPorts) = 14 /\ \A i \in 3..14 : StackedPorts[i].do = "Check"
    BY DEF StackedPorts, Checks
  <2>2. IsBodyOp(StackedPorts[1]) /\ IsBodyOp(StackedPorts[2])
    BY DEF StackedPorts, Checks
  <2> QED
    BY <2>1, <2>2
<1>11. IsBody(PortTCP)
  BY DEF PortTCP, OnPort
<1>12. IsBody(PortUDP)
  BY DEF PortUDP, Checks, OnPort
<1>13. IsBody(PortSCTP)
  BY DEF PortSCTP, OnPort
<1>14. IsBody(PortTCPAndUDP)
  BY DEF PortTCPAndUDP, OnPort
<1>15. IsBody(PortUDPFromAny)
  BY DEF PortUDPFromAny, OnPort
<1>16. IsBody(IPv6FromLabel)
  BY DEF IPv6FromLabel, Checks, ShouldReach, ShouldNotReach
<1> QED
  BY <1>1, <1>2, <1>3, <1>4, <1>5, <1>6, <1>7, <1>8,
     <1>9, <1>10, <1>11, <1>12, <1>13, <1>14, <1>15, <1>16 DEF Bodies

-----------------------------------------------------------------------------
(* The specs of the plan: the chosen ones, and the fixture after them.     *)
N == Len(Chosen)
Body(s) == Bodies[Chosen[s]]
NodesOf(s) == <<BeforeEach(1, Do(<<"IsMultiEnabled">>)), BeforeAll("all", 1, SuiteBeforeAll),
                BeforeEach(1, SuiteBeforeEach), It(2, Body(s))>>

LEMMA Bounds == N \in Nat /\ \A s \in 1..N : IsBody(Body(s))
<1>1. Chosen \in Seq(1..16)
  BY ChosenAssumption, AllBodies
<1> QED
  BY <1>1, AllBodies DEF N, Body

LEMMA PlanIs ==
  /\ Len(SuitePlan) = N + 1
  /\ \A s \in 1..N : /\ SuitePlan[s].after = <<>>
                     /\ Len(SuitePlan[s].before) = 4
                     /\ \A i \in 1..4 : SuitePlan[s].before[i] = NodesOf(s)[i]
  /\ SuitePlan[N + 1] = [before |-> <<BeforeEach(0, FixtureCleanup)>>, after |-> <<>>]
<1> DEFINE first == <<BeforeEach(1, Do(<<"IsMultiEnabled">>)), BeforeAll("all", 1, SuiteBeforeAll),
                      BeforeEach(1, SuiteBeforeEach)>>
           one(s) == [before |-> first \o <<It(2, Body(s))>>, after |-> <<>>]
           last == [before |-> <<BeforeEach(0, FixtureCleanup)>>, after |-> <<>>]
           chosen == [s \in 1..N |-> one(s)]
           All == {one(s) : s \in 1..N} \union {last}
<1>1. N \in Nat /\ DOMAIN Chosen = 1..N
  BY ChosenAssumption DEF N
<1>2. SuitePlan = chosen \o <<last>>
  BY <1>1 DEF SuitePlan, Body
<1>3. \A s \in 1..N : Len(one(s).before) = 4 /\ one(s).after = <<>>
                      /\ \A i \in 1..4 : one(s).before[i] = NodesOf(s)[i]
  BY DEF NodesOf
<1> HIDE DEF one, last
<1>4. chosen \in Seq(All) /\ Len(chosen) = N /\ <<last>> \in Seq(All) /\ Len(<<last>>) = 1 /\ <<last>>[1] = last
  BY <1>1
<1>5. \A s \in 1..N : chosen[s] = one(s)
  OBVIOUS
<1> HIDE DEF All, chosen
<1>6. /\ Len(chosen \o <<last>>) = N + 1
      /\ \A i \in 1..N + 1 : (chosen \o <<last>>)[i] = IF i <= N THEN chosen[i] ELSE <<last>>[i - N]
  BY <1>1, <1>4, ConcatProperties
<1>7. Len(SuitePlan) = N + 1 /\ SuitePlan[N + 1] = last /\ \A s \in 1..N : SuitePlan[s] = one(s)
  BY <1>1, <1>2, <1>4, <1>5, <1>6
<1> QED
  BY <1>3, <1>7 DEF last

LEMMA FirstNodeOps == Len(Do(<<"IsMultiEnabled">>)) = 1 /\ Do(<<"IsMultiEnabled">>)[1] = [do |-> "IsMultiEnabled"]
  BY DEF Do

-----------------------------------------------------------------------------
(* Where the binary is, and what the runner's steps do there.              *)
RunInv ==
    /\ spec \in 1..N + 2 /\ phase \in {"before", "after"}
    /\ node \in Nat \ {0} /\ step \in Nat \ {0}
    /\ phase = "before" /\ spec <= N =>
          /\ node = 1 => step = 1
          /\ node = 2 => step <= 22
          /\ node = 3 => step <= 6
          /\ node = 4 => step <= Len(Body(spec))
          /\ node <= 5
    /\ phase = "before" /\ spec = N + 1 => node <= 2 /\ (node = 1 => step <= 4)

InSpec(n) == spec \in 1..N /\ phase = "before" /\ node = n
InSetup == InSpec(2) /\ "all" \notin done /\ step \in 1..22
InGuards == InSpec(3) /\ step \in 1..6
InIt == InSpec(4) /\ step \in 1..Len(Body(spec))
InFixture == spec = N + 1 /\ phase = "before" /\ node = 1 /\ step \in 1..4

LEMMA NodeFields ==
  ASSUME NEW id, NEW level, NEW ops
  PROVE  /\ BeforeEach(level, ops).ops = ops /\ ~ BeforeEach(level, ops).once
         /\ BeforeAll(id, level, ops).ops = ops /\ BeforeAll(id, level, ops).once
         /\ BeforeAll(id, level, ops).id = id
         /\ It(level, ops).ops = ops /\ ~ It(level, ops).once
  BY DEF BeforeEach, BeforeAll, It, Node

LEMMA NodesAre ==
  ASSUME RunInv
  PROVE  /\ Over <=> spec = N + 2
         /\ ~ Over /\ phase = "after" => Len(Nodes) = 0
         /\ phase = "before" /\ spec <= N => Len(Nodes) = 4 /\ \A i \in 1..4 : Nodes[i] = NodesOf(spec)[i]
         /\ phase = "before" /\ spec = N + 1 => Len(Nodes) = 1 /\ Nodes[1] = BeforeEach(0, FixtureCleanup)
<1>1. spec \in 1..N + 2 /\ phase \in {"before", "after"} /\ N \in Nat
  BY Bounds DEF RunInv
<1>2. Over <=> spec = N + 2
  BY <1>1, PlanIs DEF Over
<1>3. ASSUME ~ Over, phase = "after" PROVE Len(Nodes) = 0
  <2>1. spec \in 1..N \/ spec = N + 1
    BY <1>1, <1>2, <1>3
  <2>2. Nodes = <<>>
    BY <1>3, <2>1, PlanIs DEF Nodes
  <2> QED
    BY <2>2
<1>4. ASSUME phase = "before", spec <= N
      PROVE  Len(Nodes) = 4 /\ \A i \in 1..4 : Nodes[i] = NodesOf(spec)[i]
  <2>1. spec \in 1..N /\ Nodes = SuitePlan[spec].before
    BY <1>1, <1>4 DEF Nodes
  <2> QED
    BY <2>1, PlanIs
<1>5. ASSUME phase = "before", spec = N + 1
      PROVE  Len(Nodes) = 1 /\ Nodes[1] = BeforeEach(0, FixtureCleanup)
  BY <1>1, <1>5, PlanIs DEF Nodes
<1> QED
  BY <1>2, <1>3, <1>4, <1>5

LEMMA CurrentIs ==
  ASSUME RunInv, ~ Over, node <= Len(Nodes)
  PROVE  /\ phase = "before"
         /\ \/ InSpec(1) /\ step = 1 /\ Current = BeforeEach(1, Do(<<"IsMultiEnabled">>))
            \/ InSpec(2) /\ step \in 1..22 /\ Current = BeforeAll("all", 1, SuiteBeforeAll)
            \/ InGuards /\ Current = BeforeEach(1, SuiteBeforeEach)
            \/ InIt /\ Current = It(2, Body(spec))
            \/ InFixture /\ Current = BeforeEach(0, FixtureCleanup)
<1>1. /\ spec \in 1..N + 2 /\ phase \in {"before", "after"} /\ N \in Nat /\ node \in Nat \ {0}
      /\ step \in Nat \ {0} /\ spec # N + 2
  BY Bounds, NodesAre DEF RunInv
<1>2. phase = "before"
  BY <1>1, NodesAre
<1>3. CASE spec = N + 1
  <2>1. Len(Nodes) = 1 /\ Nodes[1] = BeforeEach(0, FixtureCleanup)
    BY <1>2, <1>3, NodesAre
  <2>2. node = 1
    BY <1>1, <2>1
  <2>3. Current = BeforeEach(0, FixtureCleanup)
    BY <2>1, <2>2 DEF Current
  <2> QED
    BY <1>1, <1>2, <1>3, <2>2, <2>3 DEF InFixture, RunInv
<1>4. CASE spec <= N
  <2>1. Len(Nodes) = 4 /\ \A i \in 1..4 : Nodes[i] = NodesOf(spec)[i]
    BY <1>2, <1>4, NodesAre
  <2>2. node \in 1..4 /\ spec \in 1..N
    BY <1>1, <1>4, <2>1
  <2>3. Current = NodesOf(spec)[node]
    BY <2>1, <2>2 DEF Current
  <2>4. CASE node = 1
    <3>1. Current = BeforeEach(1, Do(<<"IsMultiEnabled">>))
      BY <2>3, <2>4 DEF NodesOf
    <3>2. step = 1
      BY <1>1, <1>2, <2>2, <2>4 DEF RunInv
    <3> QED
      BY <1>2, <2>2, <2>4, <3>1, <3>2 DEF InSpec
  <2>5. CASE node = 2
    <3>1. Current = BeforeAll("all", 1, SuiteBeforeAll)
      BY <2>3, <2>5 DEF NodesOf
    <3>2. step \in 1..22
      BY <1>1, <1>2, <2>2, <2>5 DEF RunInv
    <3> QED
      BY <1>2, <2>2, <2>5, <3>1, <3>2 DEF InSpec
  <2>6. CASE node = 3
    <3>1. Current = BeforeEach(1, SuiteBeforeEach)
      BY <2>3, <2>6 DEF NodesOf
    <3>2. step \in 1..6
      BY <1>1, <1>2, <2>2, <2>6 DEF RunInv
    <3> QED
      BY <1>2, <2>2, <2>6, <3>1, <3>2 DEF InSpec, InGuards
  <2>7. CASE node = 4
    <3>1. Current = It(2, Body(spec))
      BY <2>3, <2>7 DEF NodesOf
    <3>2. Len(Body(spec)) \in Nat
      BY <2>2, Bounds DEF IsBody
    <3>3. step \in 1..Len(Body(spec))
      BY <1>1, <1>2, <2>2, <2>7, <3>2 DEF RunInv
    <3> QED
      BY <1>2, <2>2, <2>7, <3>1, <3>3 DEF InSpec, InIt
  <2> QED
    BY <2>2, <2>4, <2>5, <2>6, <2>7
<1> QED
  BY <1>1, <1>2, <1>3, <1>4

LEMMA ActiveAt ==
  ASSUME RunInv, Active
  PROVE  \/ InSpec(1) /\ step = 1 /\ Op.do = "IsMultiEnabled" /\ ~ Current.once /\ Len(Current.ops) = 1
         \/ InSetup /\ Op = SuiteBeforeAll[step] /\ Current.once /\ Current.id = "all" /\ Len(Current.ops) = 22
         \/ InGuards /\ Op = SuiteBeforeEach[step] /\ ~ Current.once /\ Len(Current.ops) = 6
         \/ InIt /\ Op = Body(spec)[step] /\ ~ Current.once /\ Len(Current.ops) = Len(Body(spec))
         \/ InFixture /\ Op = FixtureCleanup[step] /\ ~ Current.once /\ Len(Current.ops) = 4
<1>1. ~ Over /\ node <= Len(Nodes) /\ phase = "before" /\ ~ (Current.once /\ Current.id \in done)
  BY CurrentIs DEF Active, Wanted
<1>2. CASE InSpec(1) /\ step = 1 /\ Current = BeforeEach(1, Do(<<"IsMultiEnabled">>))
  BY <1>2, FirstNodeOps DEF Op, BeforeEach, Node
<1>3. CASE InSpec(2) /\ step \in 1..22 /\ Current = BeforeAll("all", 1, SuiteBeforeAll)
  BY <1>1, <1>3, SuiteBeforeAllOps DEF Op, BeforeAll, Node, InSetup
<1>4. CASE InGuards /\ Current = BeforeEach(1, SuiteBeforeEach)
  BY <1>4, SuiteBeforeEachOps DEF Op, BeforeEach, Node
<1>5. CASE InIt /\ Current = It(2, Body(spec))
  BY <1>5 DEF Op, It, Node
<1>6. CASE InFixture /\ Current = BeforeEach(0, FixtureCleanup)
  BY <1>6, FixtureCleanupOps DEF Op, BeforeEach, Node
<1> QED
  BY <1>1, <1>2, <1>3, <1>4, <1>5, <1>6, CurrentIs

(* The place of every operation.                                           *)
SetupPlaces ==
    /\ Op.do = "IsSriovOperatorInstalled" => InSetup /\ step = 1
    /\ Op.do = "CleanPods" => InSetup /\ step \in 2..4
    /\ Op.do = "CreateNamespace" => InSetup /\ step \in 5..7 /\ Op.ns = xyz[step - 4]
    /\ Op.do = "CleanSriov" => InSetup /\ step = 8
    /\ Op.do = "DiscoverNodes" => InSetup /\ step = 9
    /\ Op.do = "CreateSriovPolicy" => InSetup /\ step = 10
    /\ Op.do = "WaitStable" => InSetup /\ step = 11
    /\ Op.do = "CreateSriovNetwork" => InSetup /\ step = 12
    /\ Op.do = "WaitForNetworkAttachment" => InSetup /\ step = 13
    /\ Op.do = "CreatePod" =>
          /\ InSetup
          /\ \/ step \in 14..16 /\ Op.ns = "X" /\ Op.label = abc[step - 13]
             \/ step \in 17..19 /\ Op.ns = "Y" /\ Op.label = abc[step - 16]
             \/ step \in 20..22 /\ Op.ns = "Z" /\ Op.label = abc[step - 19]

OtherPlaces ==
    /\ Op.do = "IsMultiEnabled" => InSpec(1)
    /\ Op.do = "SkipDiscovery" => InGuards /\ step = 1
    /\ Op.do = "SkipWithoutSriov" => InGuards /\ step = 2
    /\ Op.do = "FailWithoutPods" => InGuards /\ step = 3
    /\ Op.do = "CleanPolicies" => InGuards /\ step \in 4..6 /\ Op.ns = xyz[step - 3]
    /\ Op.do \in BodyNames => InIt
    /\ Op.do = "CreatePolicy" => Op.pol.ns = "X"
    /\ Op.do = "SriovCleanAll" => InFixture /\ step = 1
    /\ Op.do = "DeleteNamespace" => InFixture /\ step \in 2..4 /\ Op.ns = xyz[step - 1]

LEMMA Places ==
  ASSUME RunInv, Active
  PROVE  SetupPlaces /\ OtherPlaces
<1>1. CASE InSpec(1) /\ step = 1 /\ Op.do = "IsMultiEnabled"
  BY <1>1 DEF SetupPlaces, OtherPlaces, BodyNames
<1>2. CASE InSetup /\ Op = SuiteBeforeAll[step]
  <2>1. step \in 1..22
    BY <1>2 DEF InSetup
  <2>2. CASE step = 1
    BY <1>2, <2>2, SuiteBeforeAllOps DEF SetupPlaces, OtherPlaces, BodyNames
  <2>3. CASE step \in 2..7
    BY <1>2, <2>3, SuiteBeforeAllOps DEF SetupPlaces, OtherPlaces, BodyNames, xyz
  <2>4. CASE step \in 8..13
    BY <1>2, <2>4, SuiteBeforeAllOps DEF SetupPlaces, OtherPlaces, BodyNames
  <2>5. CASE step \in 14..22
    BY <1>2, <2>5, SuiteBeforeAllOps DEF SetupPlaces, OtherPlaces, BodyNames, abc
  <2> QED
    BY <2>1, <2>2, <2>3, <2>4, <2>5
<1>3. CASE InGuards /\ Op = SuiteBeforeEach[step]
  <2>1. step \in 1..6
    BY <1>3 DEF InGuards
  <2> QED
    BY <1>3, <2>1, SuiteBeforeEachOps DEF SetupPlaces, OtherPlaces, BodyNames, xyz
<1>4. CASE InIt /\ Op = Body(spec)[step]
  <2>1. IsBodyOp(Op)
    BY <1>4, Bounds DEF InIt, InSpec, IsBody
  <2> QED
    BY <1>4, <2>1 DEF IsBodyOp, BodyNames, SetupPlaces, OtherPlaces
<1>5. CASE InFixture /\ Op = FixtureCleanup[step]
  <2>1. step \in 1..4
    BY <1>5 DEF InFixture
  <2> QED
    BY <1>5, <2>1, FixtureCleanupOps DEF SetupPlaces, OtherPlaces, BodyNames, xyz
<1> QED
  BY <1>1, <1>2, <1>3, <1>4, <1>5, ActiveAt

(* What a step of the runner does, from where the binary is.               *)
Goes == step' = step + 1 /\ UNCHANGED <<spec, phase, node, done, verdict>>
Returns(d) == node' = node + 1 /\ step' = 1 /\ done' = d /\ UNCHANGED <<spec, phase, verdict>>
Stops == /\ phase = "before" /\ phase' = "after" /\ node' = 1 /\ step' = 1
         /\ verdict' # "passed" /\ UNCHANGED <<spec, done>>

LEMMA OkDoes ==
  ASSUME RunInv, Ok
  PROVE  \/ InSetup /\ step < 22 /\ Goes
         \/ InSetup /\ step = 22 /\ Returns(done \union {"all"})
         \/ InSpec(1) /\ Returns(done)
         \/ InGuards /\ step < 6 /\ Goes
         \/ InGuards /\ step = 6 /\ Returns(done)
         \/ InIt /\ step < Len(Body(spec)) /\ Goes
         \/ InIt /\ Returns(done)
         \/ InFixture /\ step < 4 /\ Goes
         \/ InFixture /\ step = 4 /\ Returns(done)
<1>1. Active /\ IF step < Len(Current.ops) THEN NextOp ELSE Return
  BY DEF Ok
<1>2. CASE InSpec(1) /\ step = 1 /\ ~ Current.once /\ Len(Current.ops) = 1
  BY <1>1, <1>2 DEF Return, Returns
<1>3. CASE InSetup /\ Current.once /\ Current.id = "all" /\ Len(Current.ops) = 22
  BY <1>1, <1>3 DEF Return, Returns, NextOp, Goes, InSetup
<1>4. CASE InGuards /\ ~ Current.once /\ Len(Current.ops) = 6
  BY <1>1, <1>4 DEF Return, Returns, NextOp, Goes, InGuards
<1>5. CASE InIt /\ ~ Current.once /\ Len(Current.ops) = Len(Body(spec))
  BY <1>1, <1>5 DEF Return, Returns, NextOp, Goes, InIt
<1>6. CASE InFixture /\ ~ Current.once /\ Len(Current.ops) = 4
  BY <1>1, <1>6 DEF Return, Returns, NextOp, Goes, InFixture
<1> QED
  BY <1>1, <1>2, <1>3, <1>4, <1>5, <1>6, ActiveAt

LEMMA ReturnDoes ==
  ASSUME RunInv, Return, InSetup
  PROVE  Returns(done \union {"all"})
<1>1. Active
  BY DEF Return
<1>2. Current.once /\ Current.id = "all"
  BY <1>1, ActiveAt DEF InSetup, InSpec, InGuards, InIt, InFixture
<1> QED
  BY <1>2 DEF Return, Returns

LEMMA StopDoes ==
  ASSUME RunInv, Fail \/ SkipSpec
  PROVE  Stops
<1>1. Active
  BY DEF Fail, SkipSpec, Stop
<1>2. phase = "before"
  BY <1>1, CurrentIs DEF Active
<1> QED
  BY <1>2 DEF Fail, SkipSpec, Stop, Stops

LEMMA MovesDo ==
  ASSUME RunInv, RunnerMoves
  PROVE  \/ InSpec(2) /\ "all" \in done /\ Returns(done)
         \/ /\ phase = "before" /\ (spec = N + 1 => node > 1)
            /\ phase' = "after" /\ node' = 1 /\ step' = 1 /\ UNCHANGED <<spec, done, verdict>>
<1>1. CASE PassOver
  <2>1. ~ Over /\ node <= Len(Nodes) /\ ~ Wanted
    BY <1>1 DEF PassOver
  <2>2. Current.once /\ Current.id \in done
    BY <2>1, CurrentIs DEF Wanted
  <2>3. InSpec(2) /\ Current = BeforeAll("all", 1, SuiteBeforeAll)
    <3>1. /\ ~ BeforeEach(1, Do(<<"IsMultiEnabled">>)).once /\ ~ BeforeEach(1, SuiteBeforeEach).once
          /\ ~ It(2, Body(spec)).once /\ ~ BeforeEach(0, FixtureCleanup).once
      BY NodeFields
    <3> QED
      BY <2>1, <2>2, <3>1, CurrentIs
  <2>4. "all" \in done
    BY <2>2, <2>3, NodeFields
  <2> QED
    BY <1>1, <2>3, <2>4 DEF PassOver, Returns
<1>2. CASE BodyDone
  BY <1>2, NodesAre, Bounds DEF BodyDone, RunInv
<1> QED
  BY <1>1, <1>2 DEF RunnerMoves

LEMMA NextSpecDoes ==
  ASSUME RunInv, NextSpec
  PROVE  /\ spec <= N + 1 /\ spec' = spec + 1 /\ phase' = "before" /\ node' = 1 /\ step' = 1
         /\ done' = done /\ verdict' = "passed" /\ phase = "after"
  BY NodesAre, Bounds DEF NextSpec, SpecEnds, RunInv

-----------------------------------------------------------------------------
(* The inductive invariant.  SetUpTo(k): what the first k - 1 operations   *)
(* of BeforeAll have left behind.                                          *)
TypeInv ==
    /\ podVar \in [Namespaces -> {"nil", "live", "gone"}]
    /\ namespaces \subseteq Namespaces /\ podsIn \subseteq Pods
    /\ \A p \in policies : p.ns = "X"

SetUpTo(k) ==
    /\ k > 1 => sriovEnabled
    /\ \A i \in 1..3 : k > 4 + i => xyz[i] \in namespaces
    /\ k > 8 /\ ~ env.discovery => sriovPolicies = IF k > 10 THEN 1 ELSE 0
    /\ k > 12 => sriovNetwork
    /\ \A i \in 1..3 : /\ k > 13 + i => Pod("X", abc[i]) \in podsIn
                       /\ k > 16 + i => Pod("Y", abc[i]) \in podsIn
                       /\ k > 19 + i => Pod("Z", abc[i]) \in podsIn
    /\ k > 16 => podVar["X"] = "live"
    /\ k > 19 => podVar["Y"] = "live"
    /\ k > 22 => podVar["Z"] = "live"

SetupInv ==
    /\ InSpec(2) /\ "all" \notin done => SetUpTo(step)
    /\ spec <= N /\ "all" \in done /\ sriovEnabled => SetUpTo(23)

GuardInv ==
    spec <= N /\ phase = "before" =>
        /\ node > 2 => "all" \in done
        /\ node = 3 => (step > 1 => ~ env.discovery) /\ (step > 2 => sriovEnabled)
        /\ node > 3 => ~ env.discovery /\ sriovEnabled

Gone(n) == /\ n \notin namespaces
           /\ \A p \in podsIn : p.ns # n
           /\ \A p \in policies : p.ns # n

CleanInv ==
    spec = N + 1 /\ verdict = "passed" =>
        \A i \in 1..3 : phase = "after" \/ node > 1 \/ step > 1 + i => Gone(xyz[i])

Inv == RunInv /\ TypeInv /\ SetupInv /\ GuardInv /\ CleanInv

LEMMA InitInv == Init => Inv
  BY Bounds DEF Init, RunnerInit, Inv, RunInv, TypeInv, SetupInv, SetUpTo, GuardInv, CleanInv, InSpec

-----------------------------------------------------------------------------
(* Steps of the runner, with what they need of the cluster.                *)
Quiet == UNCHANGED <<env, sriovEnabled, podVar, namespaces, podsIn, sriovPolicies, sriovNetwork>>

LEMMA Indices == xyz[1] = "X" /\ xyz[2] = "Y" /\ xyz[3] = "Z" /\ abc[1] = "a" /\ abc[2] = "b" /\ abc[3] = "c"
  BY DEF xyz, abc

LEMMA SetupGoesOn ==
  ASSUME Inv, InSetup, Ok, TypeInv', NEW k \in Nat, k = step + 1, SetUpTo(k)'
  PROVE  Inv'
<1>1. (step < 22 /\ Goes) \/ (step = 22 /\ Returns(done \union {"all"}))
  BY OkDoes DEF Inv, InSetup, InSpec, InGuards, InIt, InFixture
<1>2. N \in Nat
  BY Bounds
<1>3. CASE step < 22 /\ Goes
  <2>1. RunInv'
    BY <1>2, <1>3 DEF Goes, Inv, RunInv, InSetup, InSpec
  <2>2. SetupInv'
    BY <1>3 DEF Goes, SetupInv, InSetup, InSpec
  <2>3. GuardInv' /\ CleanInv'
    BY <1>2, <1>3 DEF Goes, GuardInv, CleanInv, InSetup, InSpec
  <2> QED
    BY <2>1, <2>2, <2>3 DEF Inv
<1>4. CASE step = 22 /\ Returns(done \union {"all"})
  <2>1. RunInv'
    BY <1>2, <1>4 DEF Returns, Inv, RunInv, InSetup, InSpec
  <2>2. SetupInv'
    BY <1>4 DEF Returns, SetupInv, InSetup, InSpec
  <2>3. GuardInv' /\ CleanInv'
    BY <1>2, <1>4 DEF Returns, GuardInv, CleanInv, InSetup, InSpec
  <2> QED
    BY <2>1, <2>2, <2>3 DEF Inv
<1> QED
  BY <1>1, <1>3, <1>4

LEMMA SetupStops ==
  ASSUME Inv, InSetup, Fail \/ SkipSpec, TypeInv'
  PROVE  Inv'
<1>1. Stops /\ N \in Nat
  BY StopDoes, Bounds DEF Inv
<1>2. RunInv' /\ SetupInv' /\ GuardInv' /\ CleanInv'
  BY <1>1 DEF Stops, Inv, RunInv, InSetup, InSpec, SetupInv, GuardInv, CleanInv
<1> QED
  BY <1>2 DEF Inv

LEMMA QuietStops ==
  ASSUME Inv, Quiet, Fail \/ SkipSpec, TypeInv'
  PROVE  Inv'
<1>1. Stops /\ N \in Nat
  BY StopDoes, Bounds DEF Inv
<1>2. RunInv' /\ GuardInv' /\ CleanInv'
  BY <1>1 DEF Stops, Inv, RunInv, GuardInv, CleanInv
<1>3. SetupInv'
  BY <1>1 DEF Stops, Quiet, Inv, SetupInv, SetUpTo, InSpec
<1> QED
  BY <1>2, <1>3 DEF Inv

LEMMA QuietOk ==
  ASSUME Inv, Quiet, Ok, TypeInv', ~ InSetup, ~ InFixture,
         InGuards /\ step = 1 => ~ env.discovery,
         InGuards /\ step = 2 => sriovEnabled
  PROVE  Inv'
<1>1. N \in Nat /\ RunInv
  BY Bounds DEF Inv
<1>2. \/ InSpec(1) /\ Returns(done)
      \/ InGuards /\ step < 6 /\ Goes
      \/ InGuards /\ step = 6 /\ Returns(done)
      \/ InIt /\ step < Len(Body(spec)) /\ Goes
      \/ InIt /\ Returns(done)
  BY <1>1, OkDoes
<1>3. spec \in 1..N /\ Len(Body(spec)) \in Nat /\ Len(Body(spec)) > 0
  BY <1>2, Bounds DEF InSpec, InGuards, InIt, IsBody
<1>4. RunInv'
  BY <1>1, <1>2, <1>3 DEF RunInv, InSpec, InGuards, InIt, Returns, Goes
<1>5. SetupInv'
  <2>1. spec' = spec /\ phase' = phase /\ done' = done
    BY <1>2 DEF Returns, Goes
  <2>2. InSpec(2)' => InSpec(1) /\ node' = 2 /\ step' = 1
    BY <1>2 DEF InSpec, InGuards, InIt, Returns, Goes
  <2>3. InSpec(2)' => SetUpTo(step)'
    BY <2>2 DEF SetUpTo
  <2> QED
    BY <2>1, <2>3 DEF Quiet, Inv, SetupInv, SetUpTo
<1>6. GuardInv'
  BY <1>1, <1>2, <1>3 DEF Quiet, Inv, GuardInv, InSpec, InGuards, InIt, Returns, Goes
<1>7. CleanInv'
  BY <1>1, <1>2, <1>3 DEF CleanInv, Returns, Goes
<1> QED
  BY <1>4, <1>5, <1>6, <1>7 DEF Inv

LEMMA FixtureGoesOn ==
  ASSUME Inv, InFixture, Ok, TypeInv',
         \A i \in 1..3 : step > i => Gone(xyz[i])'
  PROVE  Inv'
<1>1. N \in Nat /\ RunInv
  BY Bounds DEF Inv
<1>2. (step < 4 /\ Goes) \/ (step = 4 /\ Returns(done))
  BY <1>1, OkDoes DEF InSetup, InSpec, InGuards, InIt, InFixture
<1>3. RunInv' /\ SetupInv' /\ GuardInv'
  BY <1>1, <1>2 DEF RunInv, InFixture, Returns, Goes, SetupInv, GuardInv, InSpec
<1>4. CleanInv'
  BY <1>1, <1>2 DEF RunInv, InFixture, Returns, Goes, CleanInv
<1> QED
  BY <1>3, <1>4 DEF Inv

LEMMA FixtureStops ==
  ASSUME Inv, InFixture, Fail \/ SkipSpec, TypeInv'
  PROVE  Inv'
<1>1. Stops /\ N \in Nat
  BY StopDoes, Bounds DEF Inv
<1>2. RunInv' /\ SetupInv' /\ GuardInv' /\ CleanInv'
  BY <1>1 DEF Stops, Inv, RunInv, InFixture, InSpec, SetupInv, GuardInv, CleanInv
<1> QED
  BY <1>2 DEF Inv

-----------------------------------------------------------------------------
(* The operations.                                                         *)
LEMMA AtPlaces ==
  ASSUME Inv, NEW name, At(name)
  PROVE  SetupPlaces /\ OtherPlaces /\ Op.do = name /\ RunInv
  BY Places DEF At, Inv

LEMMA IsMultiEnabledInv == ASSUME Inv, IsMultiEnabled PROVE Inv'
<1>1. InSpec(1)
  BY AtPlaces DEF IsMultiEnabled, OtherPlaces
<1>2. Quiet /\ TypeInv'
  BY DEF IsMultiEnabled, Quiet, Inv, TypeInv, cluster, flags
<1>3. ~ InSetup /\ ~ InGuards /\ ~ InFixture
  BY <1>1, Bounds DEF InSpec, InSetup, InGuards, InFixture
<1>4. CASE Ok
  BY <1>2, <1>3, <1>4, QuietOk
<1>5. CASE Fail
  BY <1>2, <1>5, QuietStops
<1> QED
  BY <1>4, <1>5 DEF IsMultiEnabled, OkCall, FailCall

LEMMA IsSriovOperatorInstalledInv == ASSUME Inv, IsSriovOperatorInstalled PROVE Inv'
<1>1. InSetup /\ step = 1 /\ RunInv
  BY AtPlaces DEF IsSriovOperatorInstalled, SetupPlaces
<1>2. TypeInv' /\ UNCHANGED <<env, cluster>>
  BY DEF IsSriovOperatorInstalled, Inv, TypeInv, cluster
<1>3. CASE sriovEnabled' = env.operator /\ env.operator /\ Ok
  <2>1. SetUpTo(2)'
    BY <1>3 DEF SetUpTo
  <2> QED
    BY <1>1, <1>2, <1>3, <2>1, SetupGoesOn
<1>4. CASE sriovEnabled' = env.operator /\ ~ env.operator /\ Return
  <2>1. Returns(done \union {"all"}) /\ N \in Nat
    BY <1>1, <1>4, ReturnDoes, Bounds
  <2>2. RunInv' /\ SetupInv' /\ GuardInv' /\ CleanInv'
    BY <1>1, <1>4, <2>1 DEF Returns, Inv, RunInv, InSetup, InSpec, SetupInv, GuardInv, CleanInv
  <2> QED
    BY <1>2, <2>2 DEF Inv
<1>5. CASE Fail
  BY <1>1, <1>2, <1>5, SetupStops
<1> QED
  BY <1>3, <1>4, <1>5 DEF IsSriovOperatorInstalled, FailCall

LEMMA PodsGoneTypes ==
  ASSUME TypeInv, NEW nss, PodsGone(nss)
  PROVE  podsIn' \subseteq podsIn /\ podsIn' \subseteq Pods /\ podVar' \in [Namespaces -> {"nil", "live", "gone"}]
  BY DEF TypeInv, PodsGone

LEMMA CleanPodsInv == ASSUME Inv, CleanPods PROVE Inv'
<1>1. InSetup /\ step \in 2..4 /\ RunInv
  BY AtPlaces DEF CleanPods, SetupPlaces
<1>2. UNCHANGED <<namespaces, sriovPolicies, sriovNetwork, policies, env, sriovEnabled>>
  BY DEF CleanPods, flags
<1>3. TypeInv'
  <2>1. CASE PodsGone({Op.ns})
    BY <1>2, <2>1, PodsGoneTypes DEF Inv, TypeInv
  <2>2. CASE UNCHANGED <<podsIn, podVar>>
    BY <1>2, <2>2 DEF Inv, TypeInv
  <2> QED
    BY <2>1, <2>2 DEF CleanPods
<1>4. CASE Ok
  <2>2. SetUpTo(step)
    BY <1>1 DEF Inv, SetupInv, InSetup
  <2>3. sriovEnabled
    BY <1>1, <2>2 DEF SetUpTo
  <2>4. ASSUME NEW j \in 3..5 PROVE SetUpTo(j)'
    BY <1>2, <2>3, <2>4 DEF SetUpTo
  <2> QED
    BY <1>1, <1>3, <1>4, <2>4, SetupGoesOn
<1>5. CASE Fail
  BY <1>1, <1>3, <1>5, SetupStops
<1> QED
  BY <1>4, <1>5 DEF CleanPods, OkCall, FailCall

LEMMA CreateNamespaceInv == ASSUME Inv, CreateNamespace PROVE Inv'
<1>1. InSetup /\ step \in 5..7 /\ Op.ns = xyz[step - 4] /\ RunInv
  BY AtPlaces DEF CreateNamespace, SetupPlaces
<1>2. UNCHANGED <<podVar, podsIn, sriovPolicies, sriovNetwork, policies, env, sriovEnabled>>
  BY DEF CreateNamespace, flags
<1>3. Op.ns \in Namespaces
  BY <1>1, Indices DEF Namespaces
<1>4. TypeInv'
  BY <1>2, <1>3 DEF CreateNamespace, Inv, TypeInv
<1>5. CASE Ok /\ namespaces' = namespaces \union {Op.ns}
  <2>1. SetUpTo(step)
    BY <1>1 DEF Inv, SetupInv, InSetup
  <2>2. ASSUME NEW k \in Nat, k = step + 1 PROVE SetUpTo(k)'
    <3>1. k \in 6..8 /\ \A i \in 1..3 : k > 4 + i => xyz[i] \in namespaces'
      BY <1>1, <1>5, <2>1, <2>2 DEF SetUpTo
    <3>2. sriovEnabled'
      BY <1>1, <1>2, <2>1 DEF SetUpTo
    <3> QED
      BY <3>1, <3>2 DEF SetUpTo
  <2> QED
    BY <1>1, <1>4, <1>5, <2>2, SetupGoesOn
<1>6. CASE Fail
  BY <1>1, <1>4, <1>6, SetupStops
<1> QED
  BY <1>5, <1>6 DEF CreateNamespace, OkCall, FailCall

(* One step of BeforeAll on the SR-IOV objects, or on none.                *)
LEMMA SriovGoesOn ==
  ASSUME Inv, InSetup, step \in 8..13, Ok,
         UNCHANGED <<podVar, namespaces, podsIn, policies, env, sriovEnabled>>,
         NEW k \in Nat, k = step + 1,
         ~ env.discovery => sriovPolicies' = IF k > 10 THEN 1 ELSE 0,
         k > 12 => sriovNetwork'
  PROVE  Inv'
<1>1. SetUpTo(step)
  BY DEF Inv, SetupInv, InSetup
<1>2. SetUpTo(k)'
  <2>1. k \in 9..14 /\ sriovEnabled' /\ \A i \in 1..3 : xyz[i] \in namespaces'
    BY <1>1 DEF SetUpTo
  <2> QED
    BY <2>1 DEF SetUpTo
<1>3. TypeInv'
  BY DEF Inv, TypeInv
<1> QED
  BY <1>2, <1>3, SetupGoesOn

LEMMA SriovStops ==
  ASSUME Inv, InSetup, Fail, UNCHANGED <<podVar, namespaces, podsIn, policies>>
  PROVE  Inv'
  BY SetupStops DEF Inv, TypeInv

LEMMA SetupSoFar ==
  ASSUME Inv, InSetup
  PROVE  /\ step > 8 /\ ~ env.discovery => sriovPolicies = IF step > 10 THEN 1 ELSE 0
         /\ step > 12 => sriovNetwork
  BY DEF Inv, SetupInv, InSetup, SetUpTo

LEMMA CleanSriovInv == ASSUME Inv, CleanSriov PROVE Inv'
<1>1. InSetup /\ step = 8
  BY AtPlaces DEF CleanSriov, SetupPlaces
<1>2. UNCHANGED <<podVar, namespaces, podsIn, policies, env, sriovEnabled>>
  BY DEF CleanSriov, flags
<1>3. CASE Ok /\ sriovPolicies' = IF env.discovery THEN sriovPolicies ELSE 0
  BY <1>1, <1>2, <1>3, SriovGoesOn
<1>4. CASE Fail
  BY <1>1, <1>2, <1>4, SriovStops
<1> QED
  BY <1>3, <1>4 DEF CleanSriov, OkCall, FailCall

LEMMA DiscoverNodesInv == ASSUME Inv, DiscoverNodes PROVE Inv'
<1>1. InSetup /\ step = 9
  BY AtPlaces DEF DiscoverNodes, SetupPlaces
<1>2. UNCHANGED <<podVar, namespaces, podsIn, policies, env, sriovEnabled, sriovPolicies>>
  BY DEF DiscoverNodes, cluster
<1>3. CASE Ok
  BY <1>1, <1>2, <1>3, SetupSoFar, SriovGoesOn
<1>4. CASE Fail
  BY <1>1, <1>2, <1>4, SriovStops
<1> QED
  BY <1>3, <1>4 DEF DiscoverNodes, OkCall, FailCall

LEMMA CreateSriovPolicyInv == ASSUME Inv, CreateSriovPolicy PROVE Inv'
<1>1. InSetup /\ step = 10
  BY AtPlaces DEF CreateSriovPolicy, SetupPlaces
<1>2. UNCHANGED <<podVar, namespaces, podsIn, policies, env, sriovEnabled>>
  BY DEF CreateSriovPolicy, flags
<1>3. CASE Ok /\ sriovPolicies' = sriovPolicies + 1
  BY <1>1, <1>2, <1>3, SetupSoFar, SriovGoesOn
<1>4. CASE Fail
  BY <1>1, <1>2, <1>4, SriovStops
<1> QED
  BY <1>3, <1>4 DEF CreateSriovPolicy, OkCall, FailCall

LEMMA CreateSriovNetworkInv == ASSUME Inv, CreateSriovNetwork PROVE Inv'
<1>1. InSetup /\ step = 12
  BY AtPlaces DEF CreateSriovNetwork, SetupPlaces
<1>2. UNCHANGED <<podVar, namespaces, podsIn, policies, env, sriovEnabled, sriovPolicies>>
  BY DEF CreateSriovNetwork, flags
<1>3. CASE Ok /\ sriovNetwork'
  BY <1>1, <1>2, <1>3, SetupSoFar, SriovGoesOn
<1>4. CASE Fail
  BY <1>1, <1>2, <1>4, SriovStops
<1> QED
  BY <1>3, <1>4 DEF CreateSriovNetwork, FailCall

LEMMA WaitForClusterInv == ASSUME Inv, WaitForCluster PROVE Inv'
<1>1. InSetup /\ step \in {11, 13}
  BY AtPlaces DEF WaitForCluster, SetupPlaces
<1>2. UNCHANGED <<podVar, namespaces, podsIn, policies, env, sriovEnabled, sriovPolicies, sriovNetwork>>
  BY DEF WaitForCluster, cluster, flags
<1>3. CASE Ok
  BY <1>1, <1>2, <1>3, SetupSoFar, SriovGoesOn
<1>4. CASE Fail
  BY <1>1, <1>2, <1>4, SriovStops
<1> QED
  BY <1>3, <1>4 DEF WaitForCluster, OkCall, FailCall

LEMMA CreatePodInv == ASSUME Inv, CreatePod PROVE Inv'
<1> DEFINE pod == Pod(Op.ns, Op.label)
<1>1. /\ InSetup /\ RunInv
      /\ \/ step \in 14..16 /\ Op.ns = "X" /\ Op.label = abc[step - 13]
         \/ step \in 17..19 /\ Op.ns = "Y" /\ Op.label = abc[step - 16]
         \/ step \in 20..22 /\ Op.ns = "Z" /\ Op.label = abc[step - 19]
  BY AtPlaces DEF CreatePod, SetupPlaces
<1>2. UNCHANGED <<namespaces, sriovPolicies, sriovNetwork, policies, env, sriovEnabled>>
  BY DEF CreatePod, flags
<1>3. Op.ns \in Namespaces /\ Op.label \in Labels /\ pod \in Pods
  BY <1>1, Indices DEF Namespaces, Labels, Pod, Pods
<1>4. CASE Ok /\ podsIn' = podsIn \union {pod}
           /\ podVar' = IF Op.label = "c" THEN [podVar EXCEPT ![Op.ns] = "live"] ELSE podVar
  <2>1. SetUpTo(step)
    BY <1>1 DEF Inv, SetupInv, InSetup
  <2>2. TypeInv'
    BY <1>2, <1>3, <1>4 DEF Inv, TypeInv
  <2>3. podVar \in [Namespaces -> {"nil", "live", "gone"}] /\ Namespaces = {"X", "Y", "Z"}
    BY DEF Inv, TypeInv, Namespaces
  <2>4. \A n \in Namespaces : podVar[n] = "live" => podVar'[n] = "live"
    BY <1>4, <2>3
  <2>5. Op.label = "c" => podVar'[Op.ns] = "live"
    BY <1>3, <1>4, <2>3
  <2>6. Op.label = "c" <=> step \in {16, 19, 22}
    BY <1>1, Indices
  <2>7. ASSUME NEW k \in Nat, k = step + 1 PROVE SetUpTo(k)'
    <3>1. /\ k > 14 /\ sriovEnabled' /\ (\A i \in 1..3 : xyz[i] \in namespaces') /\ sriovNetwork'
          /\ ~ env.discovery' => sriovPolicies' = 1
      BY <1>1, <1>2, <2>1, <2>7 DEF SetUpTo
    <3>2. \A i \in 1..3 : /\ k > 13 + i => Pod("X", abc[i]) \in podsIn'
                          /\ k > 16 + i => Pod("Y", abc[i]) \in podsIn'
                          /\ k > 19 + i => Pod("Z", abc[i]) \in podsIn'
      BY <1>1, <1>4, <2>1, <2>7 DEF SetUpTo
    <3>3. /\ k > 16 => podVar'["X"] = "live"
          /\ k > 19 => podVar'["Y"] = "live"
          /\ k > 22 => podVar'["Z"] = "live"
      BY <1>1, <2>1, <2>3, <2>4, <2>5, <2>6, <2>7 DEF SetUpTo
    <3> QED
      BY <3>1, <3>2, <3>3 DEF SetUpTo
  <2> QED
    BY <1>1, <1>4, <2>2, <2>7, SetupGoesOn
<1>5. CASE Fail /\ podsIn' \in {podsIn, podsIn \union {pod}} /\ UNCHANGED podVar
  <2>1. TypeInv'
    BY <1>2, <1>3, <1>5 DEF Inv, TypeInv
  <2> QED
    BY <1>1, <1>5, <2>1, SetupStops
<1> QED
  BY <1>4, <1>5 DEF CreatePod, OkCall, FailCall

LEMMA SuiteGuardsInv == ASSUME Inv, SuiteGuards PROVE Inv'
<1>1. InGuards /\ step \in 1..3 /\ Op.do \in {"SkipDiscovery", "SkipWithoutSriov", "FailWithoutPods"}
  BY AtPlaces DEF SuiteGuards, OtherPlaces
<1>2. Quiet /\ TypeInv'
  BY DEF SuiteGuards, Quiet, Inv, TypeInv, cluster, flags
<1>3. ~ InSetup /\ ~ InFixture
  BY <1>1 DEF InSetup, InGuards, InFixture, InSpec
<1>4. CASE Fail \/ SkipSpec
  BY <1>2, <1>4, QuietStops
<1>5. CASE Ok /\ ~ (Fail \/ SkipSpec)
  <2>1. (step = 1 => ~ env.discovery) /\ (step = 2 => sriovEnabled)
    BY <1>1, <1>5, AtPlaces DEF SuiteGuards, OtherPlaces
  <2> QED
    BY <1>2, <1>3, <1>5, <2>1, QuietOk
<1> QED
  BY <1>4, <1>5 DEF SuiteGuards

LEMMA CleanPoliciesInv == ASSUME Inv, CleanPolicies PROVE Inv'
<1>1. InGuards /\ step \in 4..6
  BY AtPlaces DEF CleanPolicies, OtherPlaces
<1>2. Quiet /\ policies' \subseteq policies
  BY DEF CleanPolicies, Quiet, flags
<1>3. TypeInv'
  BY <1>2 DEF Quiet, Inv, TypeInv
<1>4. ~ InSetup /\ ~ InFixture
  BY <1>1 DEF InSetup, InGuards, InFixture, InSpec
<1>5. CASE Ok
  BY <1>1, <1>2, <1>3, <1>4, <1>5, QuietOk
<1>6. CASE Fail
  BY <1>2, <1>3, <1>6, QuietStops
<1> QED
  BY <1>5, <1>6 DEF CleanPolicies, OkCall, FailCall

(* The operations of the bodies leave the setup alone.                     *)
LEMMA BodyOpInv ==
  ASSUME Inv, InIt, Quiet, TypeInv', Ok \/ Fail \/ SkipSpec
  PROVE  Inv'
<1>1. ~ InSetup /\ ~ InGuards /\ ~ InFixture
  BY DEF InSetup, InGuards, InIt, InFixture, InSpec
<1> QED
  BY <1>1, QuietOk, QuietStops

LEMMA SkipInBodyInv == ASSUME Inv, SkipInBody PROVE Inv'
<1>1. InIt
  BY AtPlaces DEF SkipInBody, OtherPlaces, BodyNames
<1>2. Quiet /\ TypeInv'
  BY DEF SkipInBody, Quiet, Inv, TypeInv, cluster, flags
<1> QED
  BY <1>1, <1>2, BodyOpInv DEF SkipInBody

LEMMA CreatePolicyInv == ASSUME Inv, CreatePolicy PROVE Inv'
<1>1. InIt /\ Op.pol.ns = "X"
  BY AtPlaces DEF CreatePolicy, OtherPlaces, BodyNames
<1>2. Quiet /\ policies' \subseteq policies \union {Op.pol}
  BY DEF CreatePolicy, Quiet, flags
<1>3. TypeInv'
  BY <1>1, <1>2 DEF Quiet, Inv, TypeInv
<1> QED
  BY <1>1, <1>2, <1>3, BodyOpInv DEF CreatePolicy, OkCall, FailCall

LEMMA CheckInv == ASSUME Inv, CheckEnds \/ CheckTimesOut PROVE Inv'
<1>1. InIt
  BY AtPlaces DEF CheckEnds, CheckTimesOut, OtherPlaces, BodyNames
<1>2. Quiet /\ TypeInv'
  BY DEF CheckEnds, CheckTimesOut, Quiet, Inv, TypeInv, cluster, flags
<1> QED
  BY <1>1, <1>2, BodyOpInv DEF CheckEnds, CheckTimesOut

(* What is gone stays gone while the fixture cleans up.                    *)
LEMMA StillGone ==
  ASSUME NEW n, Gone(n), namespaces' \subseteq namespaces, podsIn' \subseteq podsIn, policies' \subseteq policies
  PROVE  Gone(n)'
  BY DEF Gone

LEMMA SriovCleanAllInv == ASSUME Inv, SriovCleanAll PROVE Inv'
<1>1. InFixture /\ step = 1 /\ Ok
  BY AtPlaces DEF SriovCleanAll, OtherPlaces
<1>2. TypeInv'
  BY DEF SriovCleanAll, Inv, TypeInv
<1> QED
  BY <1>1, <1>2, FixtureGoesOn

LEMMA SpecIsOverInv == ASSUME Inv, SpecIsOver PROVE Inv'
<1>1. /\ spec <= N + 1 /\ spec' = spec + 1 /\ phase' = "before" /\ node' = 1 /\ step' = 1
      /\ done' = done /\ phase = "after" /\ N \in Nat
  BY NextSpecDoes, Bounds DEF Inv, SpecIsOver
<1>2. TypeInv' /\ Quiet
  BY DEF SpecIsOver, Quiet, Inv, TypeInv, cluster, flags
<1>3. RunInv'
  <2>1. spec' \in 1..N + 2
    BY <1>1 DEF Inv, RunInv
  <2> QED
    BY <1>1, <2>1 DEF RunInv
<1>4. SetupInv' /\ GuardInv' /\ CleanInv'
  BY <1>1, <1>2 DEF Inv, RunInv, SetupInv, SetUpTo, GuardInv, CleanInv, InSpec, Quiet
<1> QED
  BY <1>2, <1>3, <1>4 DEF Inv

LEMMA DeleteNamespaceInv == ASSUME Inv, DeleteNamespace PROVE Inv'
<1>1. InFixture /\ step \in 2..4 /\ Op.ns = xyz[step - 1] /\ RunInv
  BY AtPlaces DEF DeleteNamespace, OtherPlaces
<1>2. namespaces' \subseteq namespaces /\ podsIn' \subseteq podsIn /\ policies' \subseteq policies
  BY PodsGoneTypes DEF DeleteNamespace, Inv, PodsGone
<1>3. podVar' \in [Namespaces -> {"nil", "live", "gone"}]
  BY PodsGoneTypes DEF DeleteNamespace, Inv, TypeInv
<1>4. TypeInv'
  BY <1>2, <1>3 DEF Inv, TypeInv
<1>5. CASE Fail
  BY <1>1, <1>4, <1>5, FixtureStops
<1>6. CASE Ok /\ ~ Fail
  <2>1. /\ namespaces' = namespaces \ {Op.ns} /\ policies' = {p \in policies : p.ns # Op.ns}
        /\ podsIn' = {p \in podsIn : p.ns \notin {Op.ns}}
    BY <1>6 DEF DeleteNamespace, FailCall, PodsGone
  <2>2. ASSUME NEW n, n = Op.ns PROVE Gone(n)'
    BY <2>1, <2>2 DEF Gone
  <2>3. CASE verdict = "passed"
    <3>1. \A i \in 1..3 : step > 1 + i => Gone(xyz[i])
      BY <1>1, <2>3 DEF Inv, CleanInv, InFixture
    <3>2. ASSUME NEW i \in 1..3, step > i PROVE Gone(xyz[i])'
      <4>1. CASE i = step - 1
        BY <1>1, <2>2, <4>1
      <4>2. CASE step > 1 + i
        BY <1>2, <3>1, <4>2, StillGone
      <4> QED
        BY <1>1, <3>2, <4>1, <4>2
    <3> QED
      BY <1>1, <1>4, <1>6, <3>2, FixtureGoesOn
  <2>4. CASE verdict # "passed"
    <3>1. N \in Nat /\ ((step < 4 /\ Goes) \/ (step = 4 /\ Returns(done)))
      BY <1>1, <1>6, OkDoes, Bounds DEF InSetup, InSpec, InGuards, InIt, InFixture
    <3>2. RunInv' /\ SetupInv' /\ GuardInv' /\ CleanInv'
      BY <1>1, <2>4, <3>1 DEF RunInv, InFixture, Returns, Goes, SetupInv, GuardInv, CleanInv, InSpec
    <3> QED
      BY <1>4, <3>2 DEF Inv
  <2> QED
    BY <2>3, <2>4
<1> QED
  BY <1>5, <1>6 DEF DeleteNamespace, OkCall, FailCall

LEMMA RunnerGoesOnInv == ASSUME Inv, RunnerGoesOn PROVE Inv'
<1>1. TypeInv' /\ Quiet /\ policies' = policies
  BY DEF RunnerGoesOn, Quiet, Inv, TypeInv, cluster, flags
<1>2. N \in Nat /\ RunInv /\ RunnerMoves
  BY Bounds DEF Inv, RunnerGoesOn
<1>3. CASE InSpec(2) /\ "all" \in done /\ Returns(done)
  <2>1. RunInv' /\ GuardInv' /\ CleanInv'
    BY <1>2, <1>3 DEF RunInv, GuardInv, CleanInv, InSpec, Returns
  <2>2. SetupInv'
    BY <1>1, <1>3 DEF Inv, SetupInv, SetUpTo, Quiet, InSpec, Returns
  <2> QED
    BY <1>1, <2>1, <2>2 DEF Inv
<1>4. CASE /\ phase = "before" /\ (spec = N + 1 => node > 1)
           /\ phase' = "after" /\ node' = 1 /\ step' = 1 /\ UNCHANGED <<spec, done, verdict>>
  <2>1. RunInv' /\ GuardInv'
    BY <1>2, <1>4 DEF RunInv, GuardInv
  <2>2. SetupInv'
    BY <1>1, <1>4 DEF Inv, SetupInv, SetUpTo, Quiet, InSpec
  <2>3. CleanInv'
    BY <1>1, <1>4 DEF Inv, CleanInv, Gone, Quiet
  <2> QED
    BY <1>1, <2>1, <2>2, <2>3 DEF Inv
<1> QED
  BY <1>2, <1>3, <1>4, MovesDo

(* The daemon touches nothing the invariant speaks of.                     *)
LEMMA IdleInv ==
  ASSUME Inv, UNCHANGED suite, Quiet, policies' = policies
  PROVE  Inv'
<1>1. RunInv' /\ TypeInv' /\ GuardInv'
  BY DEF Inv, suite, Quiet, RunInv, TypeInv, GuardInv
<1>2. SetupInv' /\ CleanInv'
  BY DEF Inv, suite, Quiet, SetupInv, SetUpTo, InSpec, CleanInv, Gone
<1> QED
  BY <1>1, <1>2 DEF Inv

LEMMA StepInv == Inv /\ [Next]_vars => Inv'
<1> SUFFICES ASSUME Inv, [Next]_vars PROVE Inv'
  OBVIOUS
<1>1. CASE SuiteStep
  BY <1>1, IsMultiEnabledInv, IsSriovOperatorInstalledInv, CleanPodsInv, CreateNamespaceInv,
     CleanSriovInv, DiscoverNodesInv, CreateSriovPolicyInv, CreateSriovNetworkInv,
     WaitForClusterInv, CreatePodInv, SuiteGuardsInv, CleanPoliciesInv, SkipInBodyInv,
     CreatePolicyInv, CheckInv, SriovCleanAllInv, DeleteNamespaceInv, SpecIsOverInv,
     RunnerGoesOnInv DEF SuiteStep
<1>2. CASE DaemonStep
  BY <1>2, IdleInv DEF DaemonStep, Sync, DaemonStops, Quiet, cluster, flags
<1>3. CASE UNCHANGED vars
  BY <1>3, IdleInv DEF vars, Quiet, cluster, flags
<1> QED
  BY <1>1, <1>2, <1>3 DEF Next, Ended

LEMMA InvAlways == Spec => []Inv
  BY InitInv, StepInv, PTL DEF Spec

-----------------------------------------------------------------------------
(* The variables of namespace Z are assigned by the last operation of      *)
(* BeforeAll, with which its body returns.                                 *)
LiveIsDone == podVar["Z"] = "live" => "all" \in done

Setup == <<podVar, namespaces, podsIn, sriovPolicies, sriovNetwork>>

(* The body of BeforeAll is not run again, and the fixture waits for the   *)
(* last spec.                                                              *)
LEMMA SetupIsLeftAlone ==
  ASSUME Inv, [Next]_vars, "all" \in done, spec <= N
  PROVE  UNCHANGED Setup
<1>1. \A name \in {"CleanPods", "CreateNamespace", "CleanSriov", "CreateSriovPolicy",
                    "CreateSriovNetwork", "CreatePod"} : ~ At(name)
  BY AtPlaces DEF SetupPlaces, InSetup
<1>2. ~ At("SriovCleanAll") /\ ~ At("DeleteNamespace")
  BY AtPlaces, Bounds DEF OtherPlaces, InFixture
<1>3. CASE SuiteStep
  BY <1>1, <1>2, <1>3 DEF SuiteStep, Setup, cluster, IsMultiEnabled, IsSriovOperatorInstalled,
     CleanPods, CreateNamespace, CleanSriov, DiscoverNodes, CreateSriovPolicy, CreateSriovNetwork,
     WaitForCluster, CreatePod, SuiteGuards, CleanPolicies, SkipInBody, CreatePolicy, CheckEnds,
     CheckTimesOut, SriovCleanAll, DeleteNamespace, SpecIsOver, RunnerGoesOn
<1>4. CASE DaemonStep
  BY <1>4 DEF DaemonStep, Sync, DaemonStops, Setup, cluster
<1>5. CASE UNCHANGED vars
  BY <1>5 DEF vars, Setup, cluster
<1> QED
  BY <1>3, <1>4, <1>5 DEF Next, Ended

LEMMA DoneGrows ==
  ASSUME Inv, [Next]_vars
  PROVE  done \subseteq done'
<1>1. RunInv
  BY DEF Inv
<1>2. CASE Ok \/ Fail \/ SkipSpec \/ RunnerMoves \/ NextSpec
  BY <1>1, <1>2, OkDoes, StopDoes, MovesDo, NextSpecDoes DEF Goes, Returns, Stops
<1>3. CASE Return
  BY <1>3 DEF Return
<1>4. CASE UNCHANGED suite
  BY <1>4 DEF suite
<1>5. CASE SuiteStep
  BY <1>2, <1>3, <1>5 DEF SuiteStep, OkCall, FailCall, IsMultiEnabled, IsSriovOperatorInstalled,
     CleanPods, CreateNamespace, CleanSriov, DiscoverNodes, CreateSriovPolicy, CreateSriovNetwork,
     WaitForCluster, CreatePod, SuiteGuards, CleanPolicies, SkipInBody, CreatePolicy, CheckEnds,
     CheckTimesOut, SriovCleanAll, DeleteNamespace, SpecIsOver, RunnerGoesOn
<1>6. CASE DaemonStep \/ UNCHANGED vars
  BY <1>4, <1>6 DEF DaemonStep, Sync, DaemonStops, vars
<1> QED
  BY <1>5, <1>6 DEF Next, Ended

LEMMA LiveIsDoneStep == Inv /\ LiveIsDone /\ [Next]_vars => LiveIsDone'
<1> SUFFICES ASSUME Inv, LiveIsDone, [Next]_vars, podVar'["Z"] = "live" PROVE "all" \in done'
  BY DEF LiveIsDone
<1>1. CASE podVar["Z"] = "live"
  BY <1>1, DoneGrows DEF LiveIsDone
<1>2. CASE podVar["Z"] # "live" /\ CreatePod
  <2>1. /\ InSetup /\ RunInv
        /\ \/ step \in 14..16 /\ Op.ns = "X" /\ Op.label = abc[step - 13]
           \/ step \in 17..19 /\ Op.ns = "Y" /\ Op.label = abc[step - 16]
           \/ step \in 20..22 /\ Op.ns = "Z" /\ Op.label = abc[step - 19]
    BY <1>2, AtPlaces DEF CreatePod, SetupPlaces
  <2>2. podVar \in [Namespaces -> {"nil", "live", "gone"}]
    BY DEF Inv, TypeInv
  <2>3. Ok /\ Op.label = "c" /\ Op.ns = "Z"
    <3>1. podVar' # podVar
      BY <1>2
    <3>2. Ok /\ podVar' = IF Op.label = "c" THEN [podVar EXCEPT ![Op.ns] = "live"] ELSE podVar
      BY <1>2, <3>1 DEF CreatePod, OkCall
    <3>3. Op.label = "c" /\ podVar' = [podVar EXCEPT ![Op.ns] = "live"]
      BY <3>1, <3>2
    <3>4. "Z" \in Namespaces
      BY DEF Namespaces
    <3> QED
      BY <1>2, <2>2, <3>2, <3>3, <3>4
  <2>4. step = 22
    BY <2>1, <2>3, Indices
  <2>5. ~ InSpec(1) /\ ~ InGuards /\ ~ InIt /\ ~ InFixture
    BY <2>1, Bounds DEF InSetup, InSpec, InGuards, InIt, InFixture
  <2> QED
    BY <2>1, <2>3, <2>4, <2>5, OkDoes DEF Returns
<1>3. CASE podVar["Z"] # "live" /\ ~ CreatePod
  <2>1. "Z" \in Namespaces
    BY DEF Namespaces
  <2>2. podVar' = podVar \/ podVar'["Z"] # "live"
    <3>1. \A nss : PodsGone(nss) => podVar'["Z"] # "live"
      BY <1>3, <2>1 DEF PodsGone
    <3>2. CASE SuiteStep
      BY <1>3, <3>1, <3>2 DEF SuiteStep, cluster, IsMultiEnabled, IsSriovOperatorInstalled,
         CleanPods, CreateNamespace, CleanSriov, DiscoverNodes, CreateSriovPolicy,
         CreateSriovNetwork, WaitForCluster, SuiteGuards, CleanPolicies, SkipInBody,
         CreatePolicy, CheckEnds, CheckTimesOut, SriovCleanAll, DeleteNamespace, SpecIsOver,
         RunnerGoesOn
    <3>3. CASE DaemonStep \/ UNCHANGED vars
      BY <3>3 DEF DaemonStep, Sync, DaemonStops, vars, cluster
    <3> QED
      BY <3>2, <3>3 DEF Next, Ended
  <2> QED
    BY <1>3, <2>2
<1> QED
  BY <1>1, <1>2, <1>3

(* Whichever specs are chosen, however often they fail and however the     *)
(* daemon behaves: once the nine pods have been created, none of them, of  *)
(* their namespaces and of what they run on is touched before the fixture. *)
THEOREM SetupIsKept == Spec => SetupKept
<1>1. Init => LiveIsDone
  BY DEF Init, LiveIsDone, Namespaces
<1>2. Inv /\ LiveIsDone /\ [Next]_vars =>
         [spec <= Len(Chosen) /\ (\A n \in Namespaces : podVar[n] = "live")
             => UNCHANGED <<podVar, namespaces, podsIn, sriovPolicies, sriovNetwork>>]_vars
  <2> SUFFICES ASSUME Inv, LiveIsDone, [Next]_vars, spec <= N,
                      \A n \in Namespaces : podVar[n] = "live"
               PROVE  UNCHANGED Setup
    BY DEF N, Setup
  <2>1. "all" \in done
    BY DEF LiveIsDone, Namespaces
  <2> QED
    BY <2>1, SetupIsLeftAlone
<1> QED
  BY <1>1, <1>2, LiveIsDoneStep, InvAlways, PTL DEF Spec, SetupKept

(* In the body of a spec the nine pods run and their variables point at    *)
(* them, on one SR-IOV policy and its network, for any choice of specs and *)
(* any number of failed calls: a setup that broke off is begun again from  *)
(* its start, and the guards keep every spec out until one has come to its *)
(* end.                                                                    *)
THEOREM PodsInEveryBody == Spec => []BodyHasItsPods
<1>1. Inv => BodyHasItsPods
  <2> SUFFICES ASSUME Inv, SpecBody
               PROVE  /\ \A n \in Namespaces : podVar[n] = "live"
                      /\ podsIn = Pods /\ namespaces = Namespaces
                      /\ sriovPolicies = 1 /\ sriovNetwork
    BY DEF BodyHasItsPods
  <2>1. RunInv /\ Active /\ phase = "before" /\ node = Len(Nodes) /\ spec <= N
    BY DEF Inv, SpecBody, InBody, N
  <2>2. node = 4
    BY <2>1, NodesAre
  <2>3. "all" \in done /\ ~ env.discovery /\ sriovEnabled
    BY <2>1, <2>2 DEF Inv, GuardInv
  <2>4. SetUpTo(23)
    BY <2>1, <2>3 DEF Inv, SetupInv
  <2>5. sriovPolicies = 1 /\ sriovNetwork /\ \A n \in Namespaces : podVar[n] = "live"
    BY <2>3, <2>4 DEF SetUpTo, Namespaces
  <2>6. namespaces = Namespaces
    <3>1. "X" \in namespaces /\ "Y" \in namespaces /\ "Z" \in namespaces
      BY <2>4, Indices DEF SetUpTo
    <3> QED
      BY <3>1 DEF Inv, TypeInv, Namespaces
  <2>7. \A n \in Namespaces, l \in Labels : Pod(n, l) \in podsIn
    BY <2>4, Indices DEF SetUpTo, Namespaces, Labels
  <2>8. podsIn = Pods
    <3>1. \A p \in Pods : p = Pod(p.ns, p.label) /\ p.ns \in Namespaces /\ p.label \in Labels
      BY DEF Pods, Pod
    <3>2. Pods \subseteq podsIn
      BY <2>7, <3>1
    <3> QED
      BY <3>2 DEF Inv, TypeInv
  <2> QED
    BY <2>5, <2>6, <2>8
<1> QED
  BY <1>1, InvAlways, PTL

(* When the fixture's Cleanup passes, no namespace, pod or policy of the   *)
(* suite is left, whatever the specs and their failures left behind.       *)
THEOREM CleanupLeavesNothing == Spec => []CleanedUp
<1>1. Inv => CleanedUp
  <2> SUFFICES ASSUME Inv, SpecEnds, spec > N, verdict = "passed"
               PROVE  namespaces = {} /\ podsIn = {} /\ policies = {}
    BY DEF CleanedUp, N
  <2>1. RunInv /\ N \in Nat /\ phase = "after" /\ ~ Over
    BY Bounds DEF Inv, SpecEnds
  <2>2. spec = N + 1
    BY <2>1, NodesAre DEF RunInv
  <2>3. Gone("X") /\ Gone("Y") /\ Gone("Z")
    BY <2>1, <2>2, Indices DEF Inv, CleanInv
  <2>4. namespaces = {}
    BY <2>3 DEF Gone, Inv, TypeInv, Namespaces
  <2>5. podsIn = {}
    <3>1. \A p \in Pods : p.ns \in {"X", "Y", "Z"}
      BY DEF Pods, Namespaces
    <3> QED
      BY <2>3, <3>1 DEF Gone, Inv, TypeInv
  <2>6. policies = {}
    BY <2>3 DEF Gone, Inv, TypeInv
  <2> QED
    BY <2>4, <2>5, <2>6
<1> QED
  BY <1>1, InvAlways, PTL

-----------------------------------------------------------------------------
(* What the policies of a body mean for its checks.                        *)
Sel(p, pod, type) == p.ns = pod.ns /\ pod.label \in p.sel /\ type \in p.types

InForce(pols, pod) == {p \in pols : p.ns = pod.ns /\ pod.label \in p.sel}

(* What a set of policies means for a connection.                          *)
Meaning(pols, from, to, port) ==
    \/ from = to
    \/ /\ \/ \A p \in pols : ~ Sel(p, to, "Ingress")
          \/ \E p \in pols : Sel(p, to, "Ingress") /\ \E r \in p.ingress : from \in r.peers /\ port \in r.ports
       /\ \/ \A p \in pols : ~ Sel(p, from, "Egress")
          \/ \E p \in pols : Sel(p, from, "Egress") /\ \E r \in p.egress : to \in r.peers /\ port \in r.ports

LEMMA ReachesIs ==
  ASSUME NEW pols, NEW from, NEW to, NEW port, NEW rules,
         rules[to] = InForce(pols, to), rules[from] = InForce(pols, from)
  PROVE  Reaches(rules, from, to, port) <=> Meaning(pols, from, to, port)
<1>1. \A pod, type : Selecting(InForce(pols, pod), pod, type) = {p \in pols : Sel(p, pod, type)}
  BY DEF Selecting, InForce, Sel
<1>2. Admitted(rules[to], "Ingress", Ingress, to, from, port)
      <=> \/ \A p \in pols : ~ Sel(p, to, "Ingress")
          \/ \E p \in pols : Sel(p, to, "Ingress") /\ \E r \in p.ingress : from \in r.peers /\ port \in r.ports
  BY <1>1 DEF Admitted, Ingress
<1>3. Admitted(rules[from], "Egress", Egress, from, to, port)
      <=> \/ \A p \in pols : ~ Sel(p, from, "Egress")
          \/ \E p \in pols : Sel(p, from, "Egress") /\ \E r \in p.egress : to \in r.peers /\ port \in r.ports
  BY <1>1 DEF Admitted, Egress
<1> QED
  BY <1>2, <1>3 DEF Reaches, Meaning

LEMMA IngressToAIs ==
  ASSUME NEW rule
  PROVE  /\ IngressToA(rule).ns = "X" /\ IngressToA(rule).sel = {"a"}
         /\ IngressToA(rule).types = {"Ingress"} /\ IngressToA(rule).ingress = {rule}
  BY DEF IngressToA, WithIngressRule, PolicyOn, WithPodSelector, NewPolicy

LEMMA OtherPolicies ==
  ASSUME NEW rule
  PROVE  /\ WithEmptyIngressRules(NewPolicy).ns = "X" /\ WithEmptyIngressRules(NewPolicy).sel = Labels
         /\ WithEmptyIngressRules(NewPolicy).types = {"Ingress"} /\ WithEmptyIngressRules(NewPolicy).ingress = {}
         /\ WithEmptyIngressRules(PolicyOn({"a"})).ns = "X" /\ WithEmptyIngressRules(PolicyOn({"a"})).sel = {"a"}
         /\ WithEmptyIngressRules(PolicyOn({"a"})).types = {"Ingress"}
         /\ WithEmptyIngressRules(PolicyOn({"a"})).ingress = {}
         /\ WithEmptyEgressRules(PolicyOn({"a"})).ns = "X" /\ WithEmptyEgressRules(PolicyOn({"a"})).sel = {"a"}
         /\ WithEmptyEgressRules(PolicyOn({"a"})).types = {"Egress"}
         /\ WithEmptyEgressRules(PolicyOn({"a"})).egress = {}
         /\ WithEgressRule(PolicyOn({"a"}), rule).ns = "X" /\ WithEgressRule(PolicyOn({"a"}), rule).sel = {"a"}
         /\ WithEgressRule(PolicyOn({"a"}), rule).types = {"Egress"}
         /\ WithEgressRule(PolicyOn({"a"}), rule).egress = {rule}
  BY DEF WithEmptyIngressRules, WithEmptyEgressRules, WithEgressRule, PolicyOn, WithPodSelector, NewPolicy

IsXa(p) == p.ns = "X" /\ p.label = "a"
Admits(rule, peer, port) == peer \in rule.peers /\ port \in rule.ports

LEMMA MeaningOfIngress ==
  ASSUME NEW rule, NEW other, NEW from, NEW to, NEW port
  PROVE  /\ Meaning({IngressToA(rule)}, from, to, port)
            <=> from = to \/ ~ IsXa(to) \/ Admits(rule, from, port)
         /\ Meaning({IngressToA(rule), IngressToA(other)}, from, to, port)
            <=> from = to \/ ~ IsXa(to) \/ Admits(rule, from, port) \/ Admits(other, from, port)
<1>1. \A pod, r : /\ Sel(IngressToA(r), pod, "Ingress") <=> IsXa(pod)
                  /\ ~ Sel(IngressToA(r), pod, "Egress")
  BY IngressToAIs DEF Sel, IsXa
<1> QED
  BY <1>1, IngressToAIs DEF Meaning, Admits

LEMMA MeaningOfOthers ==
  ASSUME NEW rule, NEW from, NEW to, NEW port, to.label \in Labels
  PROVE  /\ Meaning({WithEmptyIngressRules(NewPolicy)}, from, to, port) <=> from = to \/ to.ns # "X"
         /\ Meaning({WithEmptyIngressRules(PolicyOn({"a"}))}, from, to, port) <=> from = to \/ ~ IsXa(to)
         /\ Meaning({WithEmptyEgressRules(PolicyOn({"a"}))}, from, to, port) <=> from = to \/ ~ IsXa(from)
         /\ Meaning({WithEgressRule(PolicyOn({"a"}), rule)}, from, to, port)
            <=> from = to \/ ~ IsXa(from) \/ Admits(rule, to, port)
<1>1. Meaning({WithEmptyIngressRules(NewPolicy)}, from, to, port) <=> from = to \/ to.ns # "X"
  BY OtherPolicies DEF Meaning, Sel
<1>2. Meaning({WithEmptyIngressRules(PolicyOn({"a"}))}, from, to, port) <=> from = to \/ ~ IsXa(to)
  BY OtherPolicies DEF Meaning, Sel, IsXa
<1>3. Meaning({WithEmptyEgressRules(PolicyOn({"a"}))}, from, to, port) <=> from = to \/ ~ IsXa(from)
  BY OtherPolicies DEF Meaning, Sel, IsXa
<1>4. Meaning({WithEgressRule(PolicyOn({"a"}), rule)}, from, to, port)
      <=> from = to \/ ~ IsXa(from) \/ Admits(rule, to, port)
  BY OtherPolicies DEF Meaning, Sel, IsXa, Admits
<1> QED
  BY <1>1, <1>2, <1>3, <1>4

(* The policies a body has created before its k-th operation, and that     *)
(* every check expects what they mean.                                     *)
CreatedBy(s, k) == {s[i].pol : i \in {j \in 1..k - 1 : s[j].do = "CreatePolicy"}}
Holds(truth, op) == IF truth THEN op.want = TRUE ELSE op.want = FALSE
AsMeant(pols, op) == Holds(Meaning(pols, op.from, op.to, op.port), op)
Meant(s) == \A k \in 1..Len(s) : s[k].do = "Check" => AsMeant(CreatedBy(s, k), s[k])

LEMMA MeantBy ==
  ASSUME NEW s, NEW n \in Nat, Len(s) = n, NEW m \in 2..3, NEW pols, CreatedBy(s, m) = pols,
         \A k \in 1..m - 1 : s[k].do # "Check",
         \A k \in m..n : s[k].do = "Check" /\ AsMeant(pols, s[k])
  PROVE  Meant(s)
<1> SUFFICES ASSUME NEW k \in m..n PROVE AsMeant(CreatedBy(s, k), s[k])
  BY DEF Meant
<1>1. {j \in 1..k - 1 : s[j].do = "CreatePolicy"} = {j \in 1..m - 1 : s[j].do = "CreatePolicy"}
  OBVIOUS
<1>2. CreatedBy(s, k) = pols
  BY <1>1 DEF CreatedBy
<1> QED
  BY <1>2

LEMMA MeantFrom2 ==
  ASSUME NEW s, NEW n \in Nat, Len(s) = n, NEW pols, CreatedBy(s, 2) = pols, s[1].do = "CreatePolicy",
         \A k \in 2..n : s[k].do = "Check", \A k \in 2..n : AsMeant(pols, s[k])
  PROVE  Meant(s)
<1>1. \A k \in 1..2 - 1 : s[k].do # "Check"
  OBVIOUS
<1>2. 2 \in 2..3 /\ \A k \in 2..n : s[k].do = "Check" /\ AsMeant(pols, s[k])
  OBVIOUS
<1> QED
  BY <1>1, <1>2, MeantBy

LEMMA MeantFrom3 ==
  ASSUME NEW s, NEW n \in Nat, Len(s) = n, NEW pols, CreatedBy(s, 3) = pols,
         s[1].do \in {"CreatePolicy", "Skip", "SkipUnlessSctp"}, s[2].do = "CreatePolicy",
         \A k \in 3..n : s[k].do = "Check", \A k \in 3..n : AsMeant(pols, s[k])
  PROVE  Meant(s)
<1>1. \A k \in 1..3 - 1 : s[k].do # "Check"
  OBVIOUS
<1>2. 3 \in 2..3 /\ \A k \in 3..n : s[k].do = "Check" /\ AsMeant(pols, s[k])
  OBVIOUS
<1> QED
  BY <1>1, <1>2, MeantBy

LEMMA CreatedFirst ==
  ASSUME NEW s
  PROVE  /\ s[1].do = "CreatePolicy" => CreatedBy(s, 2) = {s[1].pol}
         /\ s[1].do # "CreatePolicy" /\ s[2].do = "CreatePolicy" => CreatedBy(s, 3) = {s[2].pol}
         /\ s[1].do = "CreatePolicy" /\ s[2].do = "CreatePolicy" => CreatedBy(s, 3) = {s[1].pol, s[2].pol}
<1>1. s[1].do = "CreatePolicy" => {j \in 1..2 - 1 : s[j].do = "CreatePolicy"} = {1}
  OBVIOUS
<1>2. s[1].do # "CreatePolicy" /\ s[2].do = "CreatePolicy"
      => {j \in 1..3 - 1 : s[j].do = "CreatePolicy"} = {2}
  OBVIOUS
<1>3. s[1].do = "CreatePolicy" /\ s[2].do = "CreatePolicy"
      => {j \in 1..3 - 1 : s[j].do = "CreatePolicy"} = {1, 2}
  OBVIOUS
<1> QED
  BY <1>1, <1>2, <1>3 DEF CreatedBy

(* The pods of the checks, told apart.                                     *)
LEMMA PodFacts ==
  /\ IsXa(Xa) /\ ~ IsXa(Xb) /\ ~ IsXa(Xc) /\ Xa # Xb /\ Xa # Xc /\ Xb # Xc
  /\ \A n \in {"Y", "Z"}, l \in {"a", "b", "c"} :
        Pod(n, l) # Xa /\ ~ IsXa(Pod(n, l)) /\ Pod(n, l).ns = n /\ Pod(n, l).label = l
  /\ Xa.ns = "X" /\ Xb.ns = "X" /\ Xc.ns = "X"
  /\ Xa.label = "a" /\ Xb.label = "b" /\ Xc.label = "c"
  BY DEF IsXa, Xa, Xb, Xc, Pod

LEMMA MeantByIngressFromLabel == Meant(IngressFromLabel)
<1> DEFINE rule == FromPeers(PodSelector({"b"}))
<1>1. /\ Len(IngressFromLabel) = 4
      /\ IngressFromLabel[1].do = "CreatePolicy" /\ IngressFromLabel[1].pol = IngressToA(rule)
      /\ \A k \in 2..4 : IngressFromLabel[k].do = "Check"
  BY DEF IngressFromLabel, Create, ShouldReach, ShouldNotReach, Checks, Check
<1>2. CreatedBy(IngressFromLabel, 2) = {IngressToA(rule)}
  BY <1>1, CreatedFirst
<1>3. Admits(rule, Xb, Default) /\ ~ Admits(rule, Xc, Default)
  BY DEF FromPeers, PodSelector, Admits, Xb, Xc, Pod, Pods, Namespaces, Labels, Default, AllPorts, Ports, Protocols
<1>4. IsXa(Xa) /\ ~ IsXa(Xc) /\ Xb # Xa /\ Xc # Xa
  BY PodFacts
<1> HIDE DEF rule
<1>5. ASSUME NEW k \in 2..4
      PROVE  Holds(IngressFromLabel[k].from = IngressFromLabel[k].to \/ ~ IsXa(IngressFromLabel[k].to) \/ Admits(rule, IngressFromLabel[k].from, IngressFromLabel[k].port),
                   IngressFromLabel[k])
  BY <1>3, <1>4 DEF Holds, IngressFromLabel, Create, ShouldReach, ShouldNotReach, Checks, Check
<1>6. ASSUME NEW k \in 2..4 PROVE AsMeant({IngressToA(rule)}, IngressFromLabel[k])
  BY <1>5, MeaningOfIngress DEF AsMeant, Holds
<1> QED
  BY <1>1, <1>2, <1>6, MeantFrom2

LEMMA MeantByIngressFromNamespace == Meant(IngressFromNamespace)
<1> DEFINE rule == FromPeers(NamespaceSelector({"Y"}))
<1>1. /\ Len(IngressFromNamespace) = 9
      /\ IngressFromNamespace[1].do = "CreatePolicy" /\ IngressFromNamespace[1].pol = IngressToA(rule)
      /\ \A k \in 2..9 : IngressFromNamespace[k].do = "Check"
  BY DEF IngressFromNamespace, Create, ShouldReach, ShouldNotReach, Checks, Check, In, abc
<1>2. CreatedBy(IngressFromNamespace, 2) = {IngressToA(rule)}
  BY <1>1, CreatedFirst
<1>3. /\ \A l \in {"a", "b", "c"} : Admits(rule, Pod("Y", l), Default) /\ ~ Admits(rule, Pod("Z", l), Default)
      /\ ~ Admits(rule, Xb, Default) /\ ~ Admits(rule, Xc, Default)
  BY DEF FromPeers, Admits, PodSelector, NamespaceSelector, BothSelectors, Xb, Xc, Pod, Pods, Namespaces, Labels, Default, AllPorts, Ports, Protocols
<1>4. IsXa(Xa) /\ ~ IsXa(Xb) /\ ~ IsXa(Xc) /\ Xb # Xa /\ Xc # Xa
      /\ \A n \in {"Y", "Z"}, l \in {"a", "b", "c"} : Pod(n, l) # Xa
  BY PodFacts
<1> HIDE DEF rule
<1>5. ASSUME NEW k \in 2..9
      PROVE  Holds(IngressFromNamespace[k].from = IngressFromNamespace[k].to \/ ~ IsXa(IngressFromNamespace[k].to) \/ Admits(rule, IngressFromNamespace[k].from, IngressFromNamespace[k].port),
                   IngressFromNamespace[k])
  BY <1>3, <1>4 DEF Holds, IngressFromNamespace, Create, ShouldReach, ShouldNotReach, Checks, Check, In, abc
<1>6. ASSUME NEW k \in 2..9 PROVE AsMeant({IngressToA(rule)}, IngressFromNamespace[k])
  BY <1>5, MeaningOfIngress DEF AsMeant, Holds
<1> QED
  BY <1>1, <1>2, <1>6, MeantFrom2

LEMMA MeantByIngressFromEither == Meant(IngressFromEither)
<1> DEFINE rule == FromPeers(NamespaceSelector({"Y"}) \union PodSelector({"b"}))
<1>1. /\ Len(IngressFromEither) = 9
      /\ IngressFromEither[1].do = "CreatePolicy" /\ IngressFromEither[1].pol = IngressToA(rule)
      /\ \A k \in 2..9 : IngressFromEither[k].do = "Check"
  BY DEF IngressFromEither, Create, ShouldReach, ShouldNotReach, Checks, Check, In, abc
<1>2. CreatedBy(IngressFromEither, 2) = {IngressToA(rule)}
  BY <1>1, CreatedFirst
<1>3. /\ \A l \in {"a", "b", "c"} : Admits(rule, Pod("Y", l), Default) /\ ~ Admits(rule, Pod("Z", l), Default)
      /\ Admits(rule, Xb, Default) /\ ~ Admits(rule, Xc, Default)
  BY DEF FromPeers, Admits, PodSelector, NamespaceSelector, BothSelectors, Xb, Xc, Pod, Pods, Namespaces, Labels, Default, AllPorts, Ports, Protocols
<1>4. IsXa(Xa) /\ ~ IsXa(Xb) /\ ~ IsXa(Xc) /\ Xb # Xa /\ Xc # Xa
      /\ \A n \in {"Y", "Z"}, l \in {"a", "b", "c"} : Pod(n, l) # Xa
  BY PodFacts
<1> HIDE DEF rule
<1>5. ASSUME NEW k \in 2..9
      PROVE  Holds(IngressFromEither[k].from = IngressFromEither[k].to \/ ~ IsXa(IngressFromEither[k].to) \/ Admits(rule, IngressFromEither[k].from, IngressFromEither[k].port),
                   IngressFromEither[k])
  BY <1>3, <1>4 DEF Holds, IngressFromEither, Create, ShouldReach, ShouldNotReach, Checks, Check, In, abc
<1>6. ASSUME NEW k \in 2..9 PROVE AsMeant({IngressToA(rule)}, IngressFromEither[k])
  BY <1>5, MeaningOfIngress DEF AsMeant, Holds
<1> QED
  BY <1>1, <1>2, <1>6, MeantFrom2

LEMMA MeantByIngressFromBoth == Meant(IngressFromBoth)
<1> DEFINE rule == FromPeers(BothSelectors({"Y", "Z"}, {"b", "c"}))
<1>1. /\ Len(IngressFromBoth) = 11
      /\ IngressFromBoth[2].do = "CreatePolicy" /\ IngressFromBoth[2].pol = IngressToA(rule)
      /\ IngressFromBoth[1].do \in {"Skip", "SkipUnlessSctp"}
      /\ \A k \in 3..11 : IngressFromBoth[k].do = "Check"
  BY DEF IngressFromBoth, Create, ShouldReach, ShouldNotReach, Checks, Check, In, abc
<1>2. CreatedBy(IngressFromBoth, 3) = {IngressToA(rule)}
  BY <1>1, CreatedFirst
<1>3. /\ \A n \in {"Y", "Z"} : /\ Admits(rule, Pod(n, "b"), Default) /\ Admits(rule, Pod(n, "c"), Default)
                             /\ ~ Admits(rule, Pod(n, "a"), Default)
      /\ ~ Admits(rule, Xb, Default) /\ ~ Admits(rule, Xc, Default)
  BY DEF FromPeers, Admits, PodSelector, NamespaceSelector, BothSelectors, Xb, Xc, Pod, Pods, Namespaces, Labels, Default, AllPorts, Ports, Protocols
<1>4. IsXa(Xa) /\ ~ IsXa(Xb) /\ ~ IsXa(Xc) /\ Xb # Xa /\ Xc # Xa
      /\ \A n \in {"Y", "Z"}, l \in {"a", "b", "c"} : Pod(n, l) # Xa
  BY PodFacts
<1> HIDE DEF rule
<1>5. ASSUME NEW k \in 3..11
      PROVE  Holds(IngressFromBoth[k].from = IngressFromBoth[k].to \/ ~ IsXa(IngressFromBoth[k].to) \/ Admits(rule, IngressFromBoth[k].from, IngressFromBoth[k].port),
                   IngressFromBoth[k])
  BY <1>3, <1>4 DEF Holds, IngressFromBoth, Create, ShouldReach, ShouldNotReach, Checks, Check, In, abc
<1>6. ASSUME NEW k \in 3..11 PROVE AsMeant({IngressToA(rule)}, IngressFromBoth[k])
  BY <1>5, MeaningOfIngress DEF AsMeant, Holds
<1> QED
  BY <1>1, <1>2, <1>6, MeantFrom3

LEMMA MeantByIngressDenyPod == Meant(IngressDenyPod)
<1>1. /\ Len(IngressDenyPod) = 7
      /\ IngressDenyPod[1].do = "CreatePolicy" /\ IngressDenyPod[1].pol = WithEmptyIngressRules(PolicyOn({"a"}))
      /\ \A k \in 2..7 : IngressDenyPod[k].do = "Check"
  BY DEF IngressDenyPod, Create, ShouldReach, ShouldNotReach, Checks, Check
<1>2. CreatedBy(IngressDenyPod, 2) = {WithEmptyIngressRules(PolicyOn({"a"}))}
  BY <1>1, CreatedFirst
<1>4. /\ IsXa(Xa) /\ ~ IsXa(Xc) /\ Xb # Xa /\ Xc # Xa
      /\ Xa.label = "a" /\ Xb.label = "b" /\ Xc.label = "c"
  BY PodFacts
<1>a. /\ IngressDenyPod[2].from = Xb /\ IngressDenyPod[2].to = Xc /\ IngressDenyPod[2].want = TRUE
      /\ IngressDenyPod[3].from = Xb /\ IngressDenyPod[3].to = Xc /\ IngressDenyPod[3].want = TRUE
      /\ IngressDenyPod[4].from = Xb /\ IngressDenyPod[4].to = Xa /\ IngressDenyPod[4].want = FALSE
      /\ IngressDenyPod[5].from = Xb /\ IngressDenyPod[5].to = Xa /\ IngressDenyPod[5].want = FALSE
      /\ IngressDenyPod[6].from = Xc /\ IngressDenyPod[6].to = Xa /\ IngressDenyPod[6].want = FALSE
      /\ IngressDenyPod[7].from = Xc /\ IngressDenyPod[7].to = Xa /\ IngressDenyPod[7].want = FALSE
  BY DEF IngressDenyPod, Create, ShouldReach, ShouldNotReach, Checks, Check
<1>5. ASSUME NEW k \in 2..7
      PROVE  /\ Holds(IngressDenyPod[k].from = IngressDenyPod[k].to \/ ~ IsXa(IngressDenyPod[k].to),
                      IngressDenyPod[k])
             /\ IngressDenyPod[k].to.label \in Labels
  BY <1>4, <1>a DEF Holds, Labels
<1>6. ASSUME NEW k \in 2..7 PROVE AsMeant({WithEmptyIngressRules(PolicyOn({"a"}))}, IngressDenyPod[k])
  BY <1>5, MeaningOfOthers DEF AsMeant, Holds
<1> QED
  BY <1>1, <1>2, <1>6, MeantFrom2

LEMMA MeantByIngressDenyNamespace == Meant(IngressDenyNamespace)
<1>1. /\ Len(IngressDenyNamespace) = 10
      /\ IngressDenyNamespace[1].do = "CreatePolicy" /\ IngressDenyNamespace[1].pol = WithEmptyIngressRules(NewPolicy)
      /\ \A k \in 2..10 : IngressDenyNamespace[k].do = "Check"
  BY DEF IngressDenyNamespace, Create, ShouldReach, ShouldNotReach, Checks, Check
<1>2. CreatedBy(IngressDenyNamespace, 2) = {WithEmptyIngressRules(NewPolicy)}
  BY <1>1, CreatedFirst
<1>4. /\ Xa # Xb /\ Xb # Xc /\ Xa # Xc /\ Xa.ns = "X" /\ Xb.ns = "X" /\ Xc.ns = "X"
      /\ \A n \in {"Y", "Z"}, l \in {"a", "b", "c"} : Pod(n, l) # Xa /\ Pod(n, l).ns = n /\ Pod(n, l).label = l
      /\ Xa.label = "a" /\ Xb.label = "b" /\ Xc.label = "c"
  BY PodFacts
<1>a. /\ IngressDenyNamespace[2].from = Xa /\ IngressDenyNamespace[2].to = Xb /\ IngressDenyNamespace[2].want = FALSE
      /\ IngressDenyNamespace[3].from = Xb /\ IngressDenyNamespace[3].to = Xc /\ IngressDenyNamespace[3].want = FALSE
      /\ IngressDenyNamespace[4].from = Xc /\ IngressDenyNamespace[4].to = Xa /\ IngressDenyNamespace[4].want = FALSE
      /\ IngressDenyNamespace[5].from = Pod("Y", "a") /\ IngressDenyNamespace[5].to = Xa /\ IngressDenyNamespace[5].want = FALSE
      /\ IngressDenyNamespace[6].from = Pod("Z", "a") /\ IngressDenyNamespace[6].to = Xa /\ IngressDenyNamespace[6].want = FALSE
      /\ IngressDenyNamespace[7].from = Pod("Y", "a") /\ IngressDenyNamespace[7].to = Pod("Y", "b") /\ IngressDenyNamespace[7].want = TRUE
      /\ IngressDenyNamespace[8].from = Pod("Z", "a") /\ IngressDenyNamespace[8].to = Pod("Z", "b") /\ IngressDenyNamespace[8].want = TRUE
      /\ IngressDenyNamespace[9].from = Pod("Y", "a") /\ IngressDenyNamespace[9].to = Pod("Z", "a") /\ IngressDenyNamespace[9].want = TRUE
      /\ IngressDenyNamespace[10].from = Pod("Z", "b") /\ IngressDenyNamespace[10].to = Pod("Y", "c") /\ IngressDenyNamespace[10].want = TRUE
  BY DEF IngressDenyNamespace, Create, ShouldReach, ShouldNotReach, Checks, Check
<1>5. ASSUME NEW k \in 2..10
      PROVE  /\ Holds(IngressDenyNamespace[k].from = IngressDenyNamespace[k].to \/ IngressDenyNamespace[k].to.ns # "X",
                      IngressDenyNamespace[k])
             /\ IngressDenyNamespace[k].to.label \in Labels
  BY <1>4, <1>a DEF Holds, Labels
<1>6. ASSUME NEW k \in 2..10 PROVE AsMeant({WithEmptyIngressRules(NewPolicy)}, IngressDenyNamespace[k])
  BY <1>5, MeaningOfOthers DEF AsMeant, Holds
<1> QED
  BY <1>1, <1>2, <1>6, MeantFrom2

LEMMA MeantByEgressDenyPod == Meant(EgressDenyPod)
<1>1. /\ Len(EgressDenyPod) = 4
      /\ EgressDenyPod[1].do = "CreatePolicy" /\ EgressDenyPod[1].pol = WithEmptyEgressRules(PolicyOn({"a"}))
      /\ \A k \in 2..4 : EgressDenyPod[k].do = "Check"
  BY DEF EgressDenyPod, Create, ShouldReach, ShouldNotReach, Checks, Check
<1>2. CreatedBy(EgressDenyPod, 2) = {WithEmptyEgressRules(PolicyOn({"a"}))}
  BY <1>1, CreatedFirst
<1>4. /\ IsXa(Xa) /\ ~ IsXa(Xb) /\ Xb # Xa /\ Xc # Xa
      /\ Xa.label = "a" /\ Xb.label = "b" /\ Xc.label = "c"
  BY PodFacts
<1>5. ASSUME NEW k \in 2..4
      PROVE  /\ Holds(EgressDenyPod[k].from = EgressDenyPod[k].to \/ ~ IsXa(EgressDenyPod[k].from),
                      EgressDenyPod[k])
             /\ EgressDenyPod[k].to.label \in Labels
  BY <1>4 DEF Holds, Labels, EgressDenyPod, Create, ShouldReach, ShouldNotReach, Checks, Check
<1>6. ASSUME NEW k \in 2..4 PROVE AsMeant({WithEmptyEgressRules(PolicyOn({"a"}))}, EgressDenyPod[k])
  BY <1>5, MeaningOfOthers DEF AsMeant, Holds
<1> QED
  BY <1>1, <1>2, <1>6, MeantFrom2

LEMMA MeantByEgressToLabel == Meant(EgressToLabel)
<1> DEFINE rule == FromPeers(PodSelector({"b"}))
<1>1. /\ Len(EgressToLabel) = 4
      /\ EgressToLabel[1].do = "CreatePolicy" /\ EgressToLabel[1].pol = WithEgressRule(PolicyOn({"a"}), rule)
      /\ \A k \in 2..4 : EgressToLabel[k].do = "Check"
  BY DEF EgressToLabel, Create, ShouldReach, ShouldNotReach, Checks, Check
<1>2. CreatedBy(EgressToLabel, 2) = {WithEgressRule(PolicyOn({"a"}), rule)}
  BY <1>1, CreatedFirst
<1>3. Admits(rule, Xb, Default) /\ ~ Admits(rule, Xc, Default)
  BY DEF FromPeers, Admits, PodSelector, NamespaceSelector, BothSelectors, Xb, Xc, Pod, Pods, Namespaces, Labels, Default, AllPorts, Ports, Protocols
<1>4. /\ IsXa(Xa) /\ ~ IsXa(Xb) /\ Xb # Xa /\ Xc # Xa
      /\ Xa.label = "a" /\ Xb.label = "b" /\ Xc.label = "c"
  BY PodFacts
<1> HIDE DEF rule
<1>5. ASSUME NEW k \in 2..4
      PROVE  /\ Holds(EgressToLabel[k].from = EgressToLabel[k].to \/ ~ IsXa(EgressToLabel[k].from) \/ Admits(rule, EgressToLabel[k].to, EgressToLabel[k].port),
                      EgressToLabel[k])
             /\ EgressToLabel[k].to.label \in Labels
  BY <1>3, <1>4 DEF Holds, Labels, EgressToLabel, Create, ShouldReach, ShouldNotReach, Checks, Check
<1>6. ASSUME NEW k \in 2..4 PROVE AsMeant({WithEgressRule(PolicyOn({"a"}), rule)}, EgressToLabel[k])
  BY <1>5, MeaningOfOthers DEF AsMeant, Holds
<1> QED
  BY <1>1, <1>2, <1>6, MeantFrom2

LEMMA MeantByStackedOverlapping == Meant(StackedOverlapping)
<1> DEFINE rule == FromPeers(PodSelector({"b"}))
           other == FromPeers(NamespaceSelector({"Y"}))
<1>1. /\ Len(StackedOverlapping) = 10
      /\ StackedOverlapping[1].do = "CreatePolicy" /\ StackedOverlapping[1].pol = IngressToA(rule)
      /\ StackedOverlapping[2].do = "CreatePolicy" /\ StackedOverlapping[2].pol = IngressToA(other)
      /\ \A k \in 3..10 : StackedOverlapping[k].do = "Check"
  BY DEF StackedOverlapping, Create, ShouldReach, ShouldNotReach, Checks, Check, In, abc
<1>2. CreatedBy(StackedOverlapping, 3) = {IngressToA(rule), IngressToA(other)}
  BY <1>1, CreatedFirst
<1>3. /\ \A l \in {"a", "b", "c"} : Admits(other, Pod("Y", l), Default) /\ ~ Admits(other, Pod("Z", l), Default) /\ ~ Admits(rule, Pod("Z", l), Default)
      /\ Admits(rule, Xb, Default) /\ ~ Admits(rule, Xc, Default) /\ ~ Admits(other, Xc, Default)
  BY DEF FromPeers, Admits, PodSelector, NamespaceSelector, BothSelectors, Xb, Xc, Pod, Pods, Namespaces, Labels, Default, AllPorts, Ports, Protocols
<1>4. IsXa(Xa) /\ ~ IsXa(Xb) /\ ~ IsXa(Xc) /\ Xb # Xa /\ Xc # Xa
      /\ \A n \in {"Y", "Z"}, l \in {"a", "b", "c"} : Pod(n, l) # Xa
  BY PodFacts
<1> HIDE DEF rule, other
<1>5. ASSUME NEW k \in 3..10
      PROVE  Holds(StackedOverlapping[k].from = StackedOverlapping[k].to \/ ~ IsXa(StackedOverlapping[k].to)
                     \/ Admits(rule, StackedOverlapping[k].from, StackedOverlapping[k].port)
                     \/ Admits(other, StackedOverlapping[k].from, StackedOverlapping[k].port),
                   StackedOverlapping[k])
  BY <1>3, <1>4 DEF Holds, StackedOverlapping, Create, ShouldReach, ShouldNotReach, Checks, Check, In, abc
<1>6. ASSUME NEW k \in 3..10 PROVE AsMeant({IngressToA(rule), IngressToA(other)}, StackedOverlapping[k])
  BY <1>5, MeaningOfIngress DEF AsMeant, Holds
<1> QED
  BY <1>1, <1>2, <1>6, MeantFrom3

LEMMA MeantByStackedPorts == Meant(StackedPorts)
<1> DEFINE rule == FromPeersOnPorts(PodSelector({"b"}), {Default})
           other == FromPeersOnPorts(PodSelector({"c"}), {<<6666, "TCP">>})
<1>1. /\ Len(StackedPorts) = 14
      /\ StackedPorts[1].do = "CreatePolicy" /\ StackedPorts[1].pol = IngressToA(rule)
      /\ StackedPorts[2].do = "CreatePolicy" /\ StackedPorts[2].pol = IngressToA(other)
      /\ \A k \in 3..14 : StackedPorts[k].do = "Check"
  BY DEF StackedPorts, Create, Checks, Check
<1>2. CreatedBy(StackedPorts, 3) = {IngressToA(rule), IngressToA(other)}
  BY <1>1, CreatedFirst
<1>3. /\ \A n \in {"Y", "Z"}, l \in {"b", "c"}, port \in {Default, <<6666, "TCP">>} :
            ~ Admits(rule, Pod(n, l), port) /\ ~ Admits(other, Pod(n, l), port)
      /\ Admits(rule, Xb, Default) /\ Admits(other, Xc, <<6666, "TCP">>)
      /\ ~ Admits(rule, Xb, <<6666, "TCP">>) /\ ~ Admits(other, Xb, <<6666, "TCP">>)
      /\ ~ Admits(rule, Xc, Default) /\ ~ Admits(other, Xc, Default)
  BY DEF FromPeersOnPorts, Admits, PodSelector, NamespaceSelector, BothSelectors, Xb, Xc, Pod, Pods, Namespaces, Labels, Default, AllPorts, Ports, Protocols
<1>4. IsXa(Xa) /\ ~ IsXa(Xb) /\ ~ IsXa(Xc) /\ Xb # Xa /\ Xc # Xa
      /\ \A n \in {"Y", "Z"}, l \in {"a", "b", "c"} : Pod(n, l) # Xa
  BY PodFacts
<1> HIDE DEF rule, other
<1>a. /\ StackedPorts[3].from = Xb /\ StackedPorts[3].to = Xa /\ StackedPorts[3].want = TRUE /\ StackedPorts[3].port = Default
      /\ StackedPorts[4].from = Xc /\ StackedPorts[4].to = Xa /\ StackedPorts[4].want = TRUE /\ StackedPorts[4].port = <<6666, "TCP">>
      /\ StackedPorts[5].from = Xb /\ StackedPorts[5].to = Xa /\ StackedPorts[5].want = FALSE /\ StackedPorts[5].port = <<6666, "TCP">>
      /\ StackedPorts[6].from = Pod("Y", "b") /\ StackedPorts[6].to = Xa /\ StackedPorts[6].want = FALSE /\ StackedPorts[6].port = <<6666, "TCP">>
      /\ StackedPorts[7].from = Pod("Z", "b") /\ StackedPorts[7].to = Xa /\ StackedPorts[7].want = FALSE /\ StackedPorts[7].port = <<6666, "TCP">>
      /\ StackedPorts[8].from = Pod("Y", "c") /\ StackedPorts[8].to = Xa /\ StackedPorts[8].want = FALSE /\ StackedPorts[8].port = <<6666, "TCP">>
      /\ StackedPorts[9].from = Pod("Z", "c") /\ StackedPorts[9].to = Xa /\ StackedPorts[9].want = FALSE /\ StackedPorts[9].port = <<6666, "TCP">>
      /\ StackedPorts[10].from = Pod("Y", "b") /\ StackedPorts[10].to = Xa /\ StackedPorts[10].want = FALSE /\ StackedPorts[10].port = Default
      /\ StackedPorts[11].from = Pod("Z", "b") /\ StackedPorts[11].to = Xa /\ StackedPorts[11].want = FALSE /\ StackedPorts[11].port = Default
      /\ StackedPorts[12].from = Xc /\ StackedPorts[12].to = Xa /\ StackedPorts[12].want = FALSE /\ StackedPorts[12].port = Default
      /\ StackedPorts[13].from = Pod("Y", "c") /\ StackedPorts[13].to = Xa /\ StackedPorts[13].want = FALSE /\ StackedPorts[13].port = Default
      /\ StackedPorts[14].from = Pod("Z", "c") /\ StackedPorts[14].to = Xa /\ StackedPorts[14].want = FALSE /\ StackedPorts[14].port = Default
  BY DEF StackedPorts, Create, Checks, Check
<1>5. ASSUME NEW k \in 3..14
      PROVE  Holds(StackedPorts[k].from = StackedPorts[k].to \/ ~ IsXa(StackedPorts[k].to)
                     \/ Admits(rule, StackedPorts[k].from, StackedPorts[k].port)
                     \/ Admits(other, StackedPorts[k].from, StackedPorts[k].port),
                   StackedPorts[k])
  BY <1>3, <1>4, <1>a DEF Holds
<1>6. ASSUME NEW k \in 3..14 PROVE AsMeant({IngressToA(rule), IngressToA(other)}, StackedPorts[k])
  BY <1>5, MeaningOfIngress DEF AsMeant, Holds
<1> QED
  BY <1>1, <1>2, <1>6, MeantFrom3

LEMMA MeantByPortTCP == Meant(PortTCP)
<1> DEFINE rule == FromPeersOnPorts(PodSelector({"b"}), {Default})
<1>1. /\ Len(PortTCP) = 7
      /\ PortTCP[1].do = "CreatePolicy" /\ PortTCP[1].pol = IngressToA(rule)
      /\ \A k \in 2..7 : PortTCP[k].do = "Check"
  BY DEF PortTCP, Create, OnPort, Checks, Check
<1>2. CreatedBy(PortTCP, 2) = {IngressToA(rule)}
  BY <1>1, CreatedFirst
<1>3. /\ Admits(rule, Xb, <<5555, "TCP">>)
      /\ ~ Admits(rule, Xb, <<5555, "UDP">>)
      /\ ~ Admits(rule, Xb, <<5555, "SCTP">>)
      /\ ~ Admits(rule, Xb, <<6666, "TCP">>)
      /\ ~ Admits(rule, Xb, <<6666, "UDP">>)
      /\ ~ Admits(rule, Xb, <<6666, "SCTP">>)
  BY DEF FromPeersOnPorts, FromAnyOnPorts, Admits, PodSelector, NamespaceSelector, BothSelectors, Xb, Xc, Pod, Pods, Namespaces, Labels, Default, AllPorts, Ports, Protocols
<1>4. IsXa(Xa) /\ Xb # Xa /\ Xc # Xa
  BY PodFacts
<1> HIDE DEF rule
<1>5. ASSUME NEW k \in 2..7
      PROVE  Holds(PortTCP[k].from = PortTCP[k].to \/ ~ IsXa(PortTCP[k].to) \/ Admits(rule, PortTCP[k].from, PortTCP[k].port),
                   PortTCP[k])
  BY <1>3, <1>4 DEF Holds, PortTCP, Create, OnPort, Checks, Check
<1>6. ASSUME NEW k \in 2..7 PROVE AsMeant({IngressToA(rule)}, PortTCP[k])
  BY <1>5, MeaningOfIngress DEF AsMeant, Holds
<1> QED
  BY <1>1, <1>2, <1>6, MeantFrom2

LEMMA MeantByPortUDP == Meant(PortUDP)
<1> DEFINE rule == FromPeersOnPorts(PodSelector({"b"}), {<<6666, "UDP">>})
<1>1. /\ Len(PortUDP) = 8
      /\ PortUDP[1].do = "CreatePolicy" /\ PortUDP[1].pol = IngressToA(rule)
      /\ \A k \in 2..8 : PortUDP[k].do = "Check"
  BY DEF PortUDP, Create, OnPort, Checks, Check
<1>2. CreatedBy(PortUDP, 2) = {IngressToA(rule)}
  BY <1>1, CreatedFirst
<1>3. /\ Admits(rule, Xb, <<6666, "UDP">>)
      /\ ~ Admits(rule, Xb, <<5555, "TCP">>)
      /\ ~ Admits(rule, Xb, <<5555, "UDP">>)
      /\ ~ Admits(rule, Xb, <<5555, "SCTP">>)
      /\ ~ Admits(rule, Xb, <<6666, "TCP">>)
      /\ ~ Admits(rule, Xb, <<6666, "SCTP">>)
      /\ ~ Admits(rule, Xc, <<6666, "UDP">>)
  BY DEF FromPeersOnPorts, FromAnyOnPorts, Admits, PodSelector, NamespaceSelector, BothSelectors, Xb, Xc, Pod, Pods, Namespaces, Labels, Default, AllPorts, Ports, Protocols
<1>4. IsXa(Xa) /\ Xb # Xa /\ Xc # Xa
  BY PodFacts
<1> HIDE DEF rule
<1>a. /\ PortUDP[2].from = Xb /\ PortUDP[2].to = Xa /\ PortUDP[2].want = TRUE /\ PortUDP[2].port = <<6666, "UDP">>
      /\ PortUDP[3].from = Xb /\ PortUDP[3].to = Xa /\ PortUDP[3].want = FALSE /\ PortUDP[3].port = <<6666, "TCP">>
      /\ PortUDP[4].from = Xb /\ PortUDP[4].to = Xa /\ PortUDP[4].want = FALSE /\ PortUDP[4].port = <<5555, "UDP">>
      /\ PortUDP[5].from = Xb /\ PortUDP[5].to = Xa /\ PortUDP[5].want = FALSE /\ PortUDP[5].port = <<5555, "TCP">>
      /\ PortUDP[6].from = Xc /\ PortUDP[6].to = Xa /\ PortUDP[6].want = FALSE /\ PortUDP[6].port = <<6666, "UDP">>
      /\ PortUDP[7].from = Xb /\ PortUDP[7].to = Xa /\ PortUDP[7].want = FALSE /\ PortUDP[7].port = <<6666, "SCTP">>
      /\ PortUDP[8].from = Xb /\ PortUDP[8].to = Xa /\ PortUDP[8].want = FALSE /\ PortUDP[8].port = <<5555, "SCTP">>
  BY DEF PortUDP, Create, OnPort, Checks, Check
<1>5. ASSUME NEW k \in 2..8
      PROVE  Holds(PortUDP[k].from = PortUDP[k].to \/ ~ IsXa(PortUDP[k].to) \/ Admits(rule, PortUDP[k].from, PortUDP[k].port),
                   PortUDP[k])
  BY <1>3, <1>4, <1>a DEF Holds
<1>6. ASSUME NEW k \in 2..8 PROVE AsMeant({IngressToA(rule)}, PortUDP[k])
  BY <1>5, MeaningOfIngress DEF AsMeant, Holds
<1> QED
  BY <1>1, <1>2, <1>6, MeantFrom2

LEMMA MeantByPortSCTP == Meant(PortSCTP)
<1> DEFINE rule == FromPeersOnPorts(PodSelector({"b"}), {<<6666, "SCTP">>})
<1>1. /\ Len(PortSCTP) = 8
      /\ PortSCTP[2].do = "CreatePolicy" /\ PortSCTP[2].pol = IngressToA(rule)
      /\ PortSCTP[1].do \in {"Skip", "SkipUnlessSctp"}
      /\ \A k \in 3..8 : PortSCTP[k].do = "Check"
  BY DEF PortSCTP, Create, OnPort, Checks, Check
<1>2. CreatedBy(PortSCTP, 3) = {IngressToA(rule)}
  BY <1>1, CreatedFirst
<1>3. /\ Admits(rule, Xb, <<6666, "SCTP">>)
      /\ ~ Admits(rule, Xb, <<5555, "TCP">>)
      /\ ~ Admits(rule, Xb, <<5555, "UDP">>)
      /\ ~ Admits(rule, Xb, <<5555, "SCTP">>)
      /\ ~ Admits(rule, Xb, <<6666, "TCP">>)
      /\ ~ Admits(rule, Xb, <<6666, "UDP">>)
  BY DEF FromPeersOnPorts, FromAnyOnPorts, Admits, PodSelector, NamespaceSelector, BothSelectors, Xb, Xc, Pod, Pods, Namespaces, Labels, Default, AllPorts, Ports, Protocols
<1>4. IsXa(Xa) /\ Xb # Xa /\ Xc # Xa
  BY PodFacts
<1> HIDE DEF rule
<1>5. ASSUME NEW k \in 3..8
      PROVE  Holds(PortSCTP[k].from = PortSCTP[k].to \/ ~ IsXa(PortSCTP[k].to) \/ Admits(rule, PortSCTP[k].from, PortSCTP[k].port),
                   PortSCTP[k])
  BY <1>3, <1>4 DEF Holds, PortSCTP, Create, OnPort, Checks, Check
<1>6. ASSUME NEW k \in 3..8 PROVE AsMeant({IngressToA(rule)}, PortSCTP[k])
  BY <1>5, MeaningOfIngress DEF AsMeant, Holds
<1> QED
  BY <1>1, <1>2, <1>6, MeantFrom3

LEMMA MeantByPortTCPAndUDP == Meant(PortTCPAndUDP)
<1> DEFINE rule == FromPeersOnPorts(PodSelector({"b"}), {Default, <<6666, "UDP">>})
<1>1. /\ Len(PortTCPAndUDP) = 5
      /\ PortTCPAndUDP[1].do = "CreatePolicy" /\ PortTCPAndUDP[1].pol = IngressToA(rule)
      /\ \A k \in 2..5 : PortTCPAndUDP[k].do = "Check"
  BY DEF PortTCPAndUDP, Create, OnPort, Checks, Check
<1>2. CreatedBy(PortTCPAndUDP, 2) = {IngressToA(rule)}
  BY <1>1, CreatedFirst
<1>3. /\ Admits(rule, Xb, <<5555, "TCP">>) /\ Admits(rule, Xb, <<6666, "UDP">>)
      /\ ~ Admits(rule, Xb, <<5555, "UDP">>)
      /\ ~ Admits(rule, Xb, <<5555, "SCTP">>)
      /\ ~ Admits(rule, Xb, <<6666, "TCP">>)
      /\ ~ Admits(rule, Xb, <<6666, "SCTP">>)
  BY DEF FromPeersOnPorts, FromAnyOnPorts, Admits, PodSelector, NamespaceSelector, BothSelectors, Xb, Xc, Pod, Pods, Namespaces, Labels, Default, AllPorts, Ports, Protocols
<1>4. IsXa(Xa) /\ Xb # Xa /\ Xc # Xa
  BY PodFacts
<1> HIDE DEF rule
<1>5. ASSUME NEW k \in 2..5
      PROVE  Holds(PortTCPAndUDP[k].from = PortTCPAndUDP[k].to \/ ~ IsXa(PortTCPAndUDP[k].to) \/ Admits(rule, PortTCPAndUDP[k].from, PortTCPAndUDP[k].port),
                   PortTCPAndUDP[k])
  BY <1>3, <1>4 DEF Holds, PortTCPAndUDP, Create, OnPort, Checks, Check
<1>6. ASSUME NEW k \in 2..5 PROVE AsMeant({IngressToA(rule)}, PortTCPAndUDP[k])
  BY <1>5, MeaningOfIngress DEF AsMeant, Holds
<1> QED
  BY <1>1, <1>2, <1>6, MeantFrom2

LEMMA MeantByPortUDPFromAny == Meant(PortUDPFromAny)
<1> DEFINE rule == FromAnyOnPorts({<<6666, "UDP">>})
<1>1. /\ Len(PortUDPFromAny) = 5
      /\ PortUDPFromAny[1].do = "CreatePolicy" /\ PortUDPFromAny[1].pol = IngressToA(rule)
      /\ \A k \in 2..5 : PortUDPFromAny[k].do = "Check"
  BY DEF PortUDPFromAny, Create, OnPort, Checks, Check
<1>2. CreatedBy(PortUDPFromAny, 2) = {IngressToA(rule)}
  BY <1>1, CreatedFirst
<1>3. /\ Admits(rule, Xb, <<6666, "UDP">>)
      /\ ~ Admits(rule, Xb, <<5555, "TCP">>)
      /\ ~ Admits(rule, Xb, <<5555, "UDP">>)
      /\ ~ Admits(rule, Xb, <<5555, "SCTP">>)
      /\ ~ Admits(rule, Xb, <<6666, "TCP">>)
      /\ ~ Admits(rule, Xb, <<6666, "SCTP">>)
  BY DEF FromPeersOnPorts, FromAnyOnPorts, Admits, PodSelector, NamespaceSelector, BothSelectors, Xb, Xc, Pod, Pods, Namespaces, Labels, Default, AllPorts, Ports, Protocols
<1>4. IsXa(Xa) /\ Xb # Xa /\ Xc # Xa
  BY PodFacts
<1> HIDE DEF rule
<1>5. ASSUME NEW k \in 2..5
      PROVE  Holds(PortUDPFromAny[k].from = PortUDPFromAny[k].to \/ ~ IsXa(PortUDPFromAny[k].to) \/ Admits(rule, PortUDPFromAny[k].from, PortUDPFromAny[k].port),
                   PortUDPFromAny[k])
  BY <1>3, <1>4 DEF Holds, PortUDPFromAny, Create, OnPort, Checks, Check
<1>6. ASSUME NEW k \in 2..5 PROVE AsMeant({IngressToA(rule)}, PortUDPFromAny[k])
  BY <1>5, MeaningOfIngress DEF AsMeant, Holds
<1> QED
  BY <1>1, <1>2, <1>6, MeantFrom2

LEMMA MeantByIPv6FromLabel == Meant(IPv6FromLabel)
<1> DEFINE rule == FromPeers(PodSelector({"b"}))
<1>1. /\ Len(IPv6FromLabel) = 7
      /\ IPv6FromLabel[1].do = "CreatePolicy" /\ IPv6FromLabel[1].pol = IngressToA(rule)
      /\ \A k \in 2..7 : IPv6FromLabel[k].do = "Check"
  BY DEF IPv6FromLabel, Create, ShouldReach, ShouldNotReach, Checks, Check
<1>2. CreatedBy(IPv6FromLabel, 2) = {IngressToA(rule)}
  BY <1>1, CreatedFirst
<1>3. Admits(rule, Xb, Default) /\ ~ Admits(rule, Xc, Default)
  BY DEF FromPeers, PodSelector, Admits, Xb, Xc, Pod, Pods, Namespaces, Labels, Default, AllPorts, Ports, Protocols
<1>4. IsXa(Xa) /\ ~ IsXa(Xc) /\ Xb # Xa /\ Xc # Xa
  BY PodFacts
<1> HIDE DEF rule
<1>5. ASSUME NEW k \in 2..7
      PROVE  Holds(IPv6FromLabel[k].from = IPv6FromLabel[k].to \/ ~ IsXa(IPv6FromLabel[k].to) \/ Admits(rule, IPv6FromLabel[k].from, IPv6FromLabel[k].port),
                   IPv6FromLabel[k])
  BY <1>3, <1>4 DEF Holds, IPv6FromLabel, Create, ShouldReach, ShouldNotReach, Checks, Check
<1>6. ASSUME NEW k \in 2..7 PROVE AsMeant({IngressToA(rule)}, IPv6FromLabel[k])
  BY <1>5, MeaningOfIngress DEF AsMeant, Holds
<1> QED
  BY <1>1, <1>2, <1>6, MeantFrom2

-----------------------------------------------------------------------------
(* A spec only sees its own policies.                                      *)
ChecksPods(s) == \A k \in 1..Len(s) : s[k].do = "Check" => s[k].from \in Pods /\ s[k].to \in Pods

LEMMA BodiesCheckPods == \A b \in 1..16 : ChecksPods(Bodies[b])
<1>1. /\ Xa \in Pods /\ Xb \in Pods /\ Xc \in Pods
      /\ \A n \in {"Y", "Z"}, l \in {"a", "b", "c"} : Pod(n, l) \in Pods
  BY DEF Xa, Xb, Xc, Pod, Pods, Namespaces, Labels
<1> USE <1>1 DEF ChecksPods, Create, Check
<1>2. ChecksPods(IngressDenyPod)
  BY DEF IngressDenyPod, Checks
<1>3. ChecksPods(IngressDenyNamespace)
  <2> USE DEF IngressDenyNamespace, Checks, ShouldReach, ShouldNotReach
  <2>1. Len(IngressDenyNamespace) = 10 /\ IngressDenyNamespace[1].do # "Check"
    OBVIOUS
  <2>2. \A k \in 2..10 : IngressDenyNamespace[k].from \in Pods
    OBVIOUS
  <2>3. \A k \in 2..10 : IngressDenyNamespace[k].to \in Pods
    OBVIOUS
  <2> HIDE DEF IngressDenyNamespace
  <2> QED
    BY <2>1, <2>2, <2>3
<1>4. ChecksPods(IngressFromLabel)
  BY DEF IngressFromLabel, Checks, ShouldReach, ShouldNotReach
<1>5. ChecksPods(IngressFromNamespace)
  BY DEF IngressFromNamespace, Checks, ShouldReach, ShouldNotReach, In, abc
<1>6. ChecksPods(IngressFromEither)
  BY DEF IngressFromEither, Checks, ShouldReach, ShouldNotReach, In, abc
<1>7. ChecksPods(IngressFromBoth)
  BY DEF IngressFromBoth, Checks, ShouldReach, ShouldNotReach, In, abc
<1>8. ChecksPods(EgressDenyPod)
  BY DEF EgressDenyPod, Checks, ShouldReach, ShouldNotReach
<1>9. ChecksPods(EgressToLabel)
  BY DEF EgressToLabel, Checks, ShouldReach, ShouldNotReach
<1>10. ChecksPods(StackedOverlapping)
  BY DEF StackedOverlapping, Checks, ShouldReach, ShouldNotReach, In, abc
<1>11. ChecksPods(StackedPorts)
  <2>1. /\ Len(StackedPorts) = 14 /\ StackedPorts[1].do # "Check" /\ StackedPorts[2].do # "Check"
        /\ \A k \in 3..14 : StackedPorts[k].to = Xa
    BY DEF StackedPorts, Checks
  <2>2. \A k \in 3..9 : StackedPorts[k].from \in Pods
    BY DEF StackedPorts, Checks
  <2>3. \A k \in 10..14 : StackedPorts[k].from \in Pods
    BY DEF StackedPorts, Checks
  <2> QED
    BY <2>1, <2>2, <2>3
<1>12. ChecksPods(PortTCP)
  BY DEF PortTCP, OnPort
<1>13. ChecksPods(PortUDP)
  BY DEF PortUDP, Checks, OnPort
<1>14. ChecksPods(PortSCTP)
  BY DEF PortSCTP, OnPort
<1>15. ChecksPods(PortTCPAndUDP)
  BY DEF PortTCPAndUDP, OnPort
<1>16. ChecksPods(PortUDPFromAny)
  BY DEF PortUDPFromAny, OnPort
<1>17. ChecksPods(IPv6FromLabel)
  BY DEF IPv6FromLabel, Checks, ShouldReach, ShouldNotReach
<1> HIDE <1>1 DEF ChecksPods, Create, Check
<1> QED
  BY <1>2, <1>3, <1>4, <1>5, <1>6, <1>7, <1>8, <1>9, <1>10, <1>11, <1>12, <1>13, <1>14, <1>15,
     <1>16, <1>17 DEF Bodies

LEMMA BodiesMeant == \A b \in 1..16 : Meant(Bodies[b])
  BY MeantByIngressDenyPod, MeantByIngressDenyNamespace, MeantByIngressFromLabel,
     MeantByIngressFromNamespace, MeantByIngressFromEither, MeantByIngressFromBoth,
     MeantByEgressDenyPod, MeantByEgressToLabel, MeantByStackedOverlapping, MeantByStackedPorts,
     MeantByPortTCP, MeantByPortUDP, MeantByPortSCTP, MeantByPortTCPAndUDP,
     MeantByPortUDPFromAny, MeantByIPv6FromLabel DEF Bodies

LEMMA ChosenBodies == \A s \in 1..N : Meant(Body(s)) /\ ChecksPods(Body(s))
<1>1. Chosen \in Seq(1..16)
  BY ChosenAssumption, AllBodies
<1> QED
  BY <1>1, BodiesMeant, BodiesCheckPods DEF N, Body

(* The policies are the running spec's own, and the rules of namespaces    *)
(* other than X are never touched.                                         *)
OwnPolicies ==
    /\ InSpec(3) /\ step > 4 => policies = {}
    /\ InSpec(4) => policies = CreatedBy(Body(spec), step)

RulesInX ==
    /\ enforced = [p \in Pods |-> enforced[p]]
    /\ \A p \in Pods : p.ns # "X" => enforced[p] = {}

LEMMA RulesStayInX == Inv /\ RulesInX /\ [Next]_vars => RulesInX'
<1> SUFFICES ASSUME Inv, RulesInX, [Next]_vars PROVE RulesInX'
  OBVIOUS
<1>1. CASE UNCHANGED enforced
  BY <1>1 DEF RulesInX
<1>2. CASE \E nss : PodsGone(nss)
  BY <1>2 DEF RulesInX, PodsGone
<1>3. CASE \E p \in XPods : Sync(p)
  BY <1>3 DEF RulesInX, Sync, XPods
<1> QED
  BY <1>1, <1>2, <1>3 DEF Next, SuiteStep, DaemonStep, DaemonStops, Ended, vars, cluster,
     IsMultiEnabled, IsSriovOperatorInstalled, CleanPods, CreateNamespace, CleanSriov, DiscoverNodes,
     CreateSriovPolicy, CreateSriovNetwork, WaitForCluster, CreatePod, SuiteGuards, CleanPolicies,
     SkipInBody, CreatePolicy, CheckEnds, CheckTimesOut, SriovCleanAll, DeleteNamespace, SpecIsOver,
     RunnerGoesOn

(* Steps after which neither conjunct of OwnPolicies says anything.        *)
Elsewhere == ~ InSpec(4)' /\ (InSpec(3)' => step' = 1)

LEMMA ElsewhereOwn == Elsewhere => OwnPolicies'
  BY DEF Elsewhere, OwnPolicies

LEMMA StopsElsewhere == ASSUME RunInv, Fail \/ SkipSpec PROVE Elsewhere
  BY StopDoes DEF Stops, Elsewhere, InSpec

LEMMA SetupElsewhere ==
  ASSUME RunInv, InSetup \/ InSpec(1) \/ InFixture, Ok \/ (InSetup /\ Return) \/ Fail \/ SkipSpec
  PROVE  Elsewhere
<1>1. N \in Nat
  BY Bounds
<1>2. CASE Fail \/ SkipSpec
  BY <1>2, StopsElsewhere
<1>3. CASE InSetup /\ Return
  BY <1>1, <1>3, ReturnDoes DEF Returns, Elsewhere, InSetup, InSpec
<1>4. CASE Ok
  BY <1>1, <1>4, OkDoes DEF Returns, Goes, Elsewhere, InSetup, InGuards, InIt, InFixture, InSpec
<1> QED
  BY <1>2, <1>3, <1>4

LEMMA CreatedNext ==
  ASSUME NEW s, NEW k \in Nat \ {0}
  PROVE  /\ CreatedBy(s, 1) = {}
         /\ s[k].do = "CreatePolicy" => CreatedBy(s, k + 1) = CreatedBy(s, k) \union {s[k].pol}
         /\ s[k].do # "CreatePolicy" => CreatedBy(s, k + 1) = CreatedBy(s, k)
<1>1. {j \in 1..1 - 1 : s[j].do = "CreatePolicy"} = {}
  OBVIOUS
<1>2. s[k].do = "CreatePolicy"
      => {j \in 1..k + 1 - 1 : s[j].do = "CreatePolicy"} = {j \in 1..k - 1 : s[j].do = "CreatePolicy"} \union {k}
  OBVIOUS
<1>3. s[k].do # "CreatePolicy"
      => {j \in 1..k + 1 - 1 : s[j].do = "CreatePolicy"} = {j \in 1..k - 1 : s[j].do = "CreatePolicy"}
  OBVIOUS
<1> QED
  BY <1>1, <1>2, <1>3 DEF CreatedBy

LEMMA OwnUnchanged == ASSUME OwnPolicies, UNCHANGED suite, policies' = policies PROVE OwnPolicies'
  BY DEF OwnPolicies, suite, InSpec

LEMMA CleanPoliciesOwn == ASSUME Inv, OwnPolicies, CleanPolicies PROVE OwnPolicies'
<1>1. InGuards /\ step \in 4..6 /\ Op.ns = xyz[step - 3] /\ RunInv
  BY AtPlaces DEF CleanPolicies, OtherPlaces
<1>2. CASE Fail
  BY <1>1, <1>2, StopsElsewhere, ElsewhereOwn
<1>3. CASE Ok /\ policies' = {p \in policies : p.ns # Op.ns}
  <2>1. policies' = {}
    <3>1. CASE step = 4
      BY <1>1, <1>3, <3>1, Indices DEF Inv, TypeInv
    <3>2. CASE step \in 5..6
      BY <1>1, <1>3, <3>2 DEF OwnPolicies, InGuards
    <3> QED
      BY <1>1, <3>1, <3>2
  <2>2. (step < 6 /\ Goes) \/ (step = 6 /\ Returns(done))
    BY <1>1, <1>3, OkDoes, Bounds DEF InSetup, InSpec, InGuards, InIt, InFixture
  <2>3. CASE Goes
    BY <1>1, <2>1, <2>3 DEF Goes, OwnPolicies, InGuards, InSpec
  <2>4. CASE Returns(done)
    <3>1. CreatedBy(Body(spec'), step') = {}
      BY <2>4, CreatedNext DEF Returns
    <3> QED
      BY <1>1, <2>1, <2>4, <3>1 DEF Returns, OwnPolicies, InGuards, InSpec
  <2> QED
    BY <2>2, <2>3, <2>4
<1> QED
  BY <1>2, <1>3 DEF CleanPolicies, OkCall, FailCall

LEMMA InItAt ==
  ASSUME Inv, InIt, Active
  PROVE  Op = Body(spec)[step]
  BY ActiveAt DEF Inv, InSetup, InSpec, InGuards, InIt, InFixture

LEMMA BodyOwn ==
  ASSUME Inv, OwnPolicies, InIt, Ok,
         policies' = IF Op.do = "CreatePolicy" THEN policies \union {Op.pol} ELSE policies
  PROVE  OwnPolicies'
<1>1. Active /\ RunInv
  BY DEF Inv, Ok
<1>2. Op = Body(spec)[step] /\ step \in Nat \ {0} /\ policies = CreatedBy(Body(spec), step)
  BY <1>1, InItAt DEF RunInv, InIt, OwnPolicies
<1>3. policies' = CreatedBy(Body(spec), step + 1)
  BY <1>2, CreatedNext
<1>4. Goes \/ Returns(done)
  BY <1>1, OkDoes, Bounds DEF InSetup, InSpec, InGuards, InIt, InFixture
<1>5. CASE Goes
  <2>1. spec' = spec /\ step' = step + 1 /\ node' = 4
    BY <1>5 DEF Goes, InIt, InSpec
  <2>2. policies' = CreatedBy(Body(spec'), step')
    BY <1>3, <2>1
  <2>3. ~ InSpec(3)'
    BY <2>1 DEF InSpec
  <2>4. OwnPolicies' <=> (InSpec(4)' => (policies = CreatedBy(Body(spec), step))')
    BY <2>3 DEF OwnPolicies
  <2> QED
    BY <2>2, <2>4
<1>6. CASE Returns(done)
  BY <1>6 DEF Returns, OwnPolicies, InIt, InSpec
<1> QED
  BY <1>4, <1>5, <1>6

LEMMA BodyOpsOwn ==
  ASSUME Inv, OwnPolicies, SkipInBody \/ CreatePolicy \/ CheckEnds \/ CheckTimesOut
  PROVE  OwnPolicies'
<1>1. InIt /\ RunInv
  BY AtPlaces DEF SkipInBody, CreatePolicy, CheckEnds, CheckTimesOut, OtherPlaces, BodyNames
<1>2. CASE Fail \/ SkipSpec
  BY <1>1, <1>2, StopsElsewhere, ElsewhereOwn
<1>3. CASE Ok /\ ~ (Fail \/ SkipSpec)
  <2>1. policies' = IF Op.do = "CreatePolicy" THEN policies \union {Op.pol} ELSE policies
    BY <1>3 DEF SkipInBody, CreatePolicy, CheckEnds, CheckTimesOut, At, FailCall, cluster
  <2> QED
    BY <1>1, <1>3, <2>1, BodyOwn
<1> QED
  BY <1>2, <1>3 DEF SkipInBody, CreatePolicy, CheckEnds, CheckTimesOut, OkCall, FailCall

LEMMA SetupOwn ==
  ASSUME Inv, \/ IsMultiEnabled \/ IsSriovOperatorInstalled \/ CleanPods \/ CreateNamespace
              \/ CleanSriov \/ DiscoverNodes \/ CreateSriovPolicy \/ CreateSriovNetwork
              \/ WaitForCluster \/ CreatePod \/ SriovCleanAll \/ DeleteNamespace
  PROVE  OwnPolicies'
<1>1. RunInv /\ (InSetup \/ InSpec(1) \/ InFixture)
  BY AtPlaces DEF IsMultiEnabled, IsSriovOperatorInstalled, CleanPods, CreateNamespace,
     CleanSriov, DiscoverNodes, CreateSriovPolicy, CreateSriovNetwork, WaitForCluster, CreatePod,
     SriovCleanAll, DeleteNamespace, SetupPlaces, OtherPlaces
<1>2. IsSriovOperatorInstalled => InSetup
  BY AtPlaces DEF IsSriovOperatorInstalled, SetupPlaces
<1>3. Ok \/ (InSetup /\ Return) \/ Fail
  BY <1>2 DEF IsMultiEnabled, IsSriovOperatorInstalled, CleanPods, CreateNamespace,
     CleanSriov, DiscoverNodes, CreateSriovPolicy, CreateSriovNetwork, WaitForCluster, CreatePod,
     SriovCleanAll, DeleteNamespace, OkCall, FailCall
<1> QED
  BY <1>1, <1>3, SetupElsewhere, ElsewhereOwn

LEMMA GuardsOwn == ASSUME Inv, OwnPolicies, SuiteGuards PROVE OwnPolicies'
<1>1. InGuards /\ step \in 1..3 /\ RunInv
  BY AtPlaces DEF SuiteGuards, OtherPlaces
<1>2. CASE Fail \/ SkipSpec
  BY <1>1, <1>2, StopsElsewhere, ElsewhereOwn
<1>3. CASE Ok
  <2>1. Goes
    BY <1>1, <1>3, OkDoes, Bounds DEF InSetup, InSpec, InGuards, InIt, InFixture
  <2> QED
    BY <1>1, <2>1 DEF Goes, OwnPolicies, InGuards, InSpec
<1> QED
  BY <1>2, <1>3 DEF SuiteGuards

LEMMA BetweenOwn == ASSUME Inv, SpecIsOver \/ RunnerGoesOn PROVE OwnPolicies'
<1>1. CASE SpecIsOver
  BY <1>1, NextSpecDoes, ElsewhereOwn DEF SpecIsOver, Inv, Elsewhere, InSpec
<1>2. CASE RunnerGoesOn
  BY <1>2, MovesDo, ElsewhereOwn DEF RunnerGoesOn, Inv, Elsewhere, InSpec, Returns
<1> QED
  BY <1>1, <1>2

LEMMA OwnStep == Inv /\ OwnPolicies /\ [Next]_vars => OwnPolicies'
<1> SUFFICES ASSUME Inv, OwnPolicies, [Next]_vars PROVE OwnPolicies'
  OBVIOUS
<1>1. CASE SuiteStep
  BY <1>1, SetupOwn, GuardsOwn, CleanPoliciesOwn, BodyOpsOwn, BetweenOwn DEF SuiteStep
<1>2. CASE DaemonStep
  BY <1>2, OwnUnchanged DEF DaemonStep, Sync, DaemonStops, cluster
<1>3. CASE UNCHANGED vars
  BY <1>3, OwnUnchanged DEF vars, cluster
<1> QED
  BY <1>1, <1>2, <1>3 DEF Next, Ended

(* Once the daemon has caught up at every pod, each of the reachabilities  *)
(* the sixteen specs wait for is the one the policies mean: the second     *)
(* BeforeEach leaves no policy of an earlier spec, whatever specs are run, *)
(* in whatever order and however often, and however they ended; and each   *)
(* body expects what its own policies say.                                 *)
THEOREM SpecsExpectTheirOwnPolicies == Spec => []SyncedMeansExpected
<1>1. Init => OwnPolicies /\ RulesInX
  BY DEF Init, RunnerInit, OwnPolicies, RulesInX, InSpec, NoRules
<1>2. Inv /\ OwnPolicies /\ RulesInX => SyncedMeansExpected
  <2> SUFFICES ASSUME Inv, OwnPolicies, RulesInX, At("Check"),
                      \A p \in XPods : enforced[p] = PoliciesFor(p)
               PROVE  Delivered = Op.want
    BY DEF SyncedMeansExpected
  <2>1. InIt /\ Active /\ Op.do = "Check"
    BY AtPlaces DEF OtherPlaces, BodyNames, At
  <2>2. /\ Op = Body(spec)[step] /\ spec \in 1..N /\ step \in 1..Len(Body(spec))
        /\ policies = CreatedBy(Body(spec), step)
    BY <2>1, InItAt DEF InIt, InSpec, OwnPolicies
  <2>3. AsMeant(policies, Op) /\ Op.from \in Pods /\ Op.to \in Pods
    BY <2>1, <2>2, ChosenBodies DEF Meant, ChecksPods
  <2>4. \A p \in Pods : enforced[p] = InForce(policies, p)
    <3> SUFFICES ASSUME NEW p \in Pods PROVE enforced[p] = InForce(policies, p)
      OBVIOUS
    <3>1. CASE p.ns = "X"
      BY <3>1 DEF XPods, PoliciesFor, InForce
    <3>2. CASE p.ns # "X"
      BY <3>2 DEF RulesInX, InForce, Inv, TypeInv
    <3> QED
      BY <3>1, <3>2
  <2>5. Delivered <=> Meaning(policies, Op.from, Op.to, Op.port)
    BY <2>3, <2>4, ReachesIs DEF Delivered
  <2>6. Delivered \in BOOLEAN
    BY DEF Delivered, Reaches
  <2>7. Op.want = IF Delivered THEN TRUE ELSE FALSE
    BY <2>3, <2>5 DEF AsMeant, Holds
  <2>8. Delivered = IF Delivered THEN TRUE ELSE FALSE
    BY <2>6
  <2> QED
    BY <2>7, <2>8
<1> QED
  BY <1>1, <1>2, InvAlways, RulesStayInX, OwnStep, PTL DEF Spec
=============================================================================
