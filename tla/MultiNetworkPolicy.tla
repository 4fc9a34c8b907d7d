------------------------- MODULE MultiNetworkPolicy -------------------------
(***************************************************************************)
(* The data of the multinetworkpolicy suite: three namespaces with three   *)
(* pods each, the policies its specs create with the option functions of   *)
(* pkg/networkpolicy, and the reachability the specs expect.  What a set   *)
(* of policies means for a connection is Kubernetes' network policy        *)
(* semantics, external to the repository.                                  *)
(*                                                                         *)
(* A label selector is the set of values of the label "pod" it matches.    *)
(* The IP family of a check is left out: policies do not tell them apart.  *)
(***************************************************************************)
EXTENDS Integers, Sequences

Namespaces == {"X", "Y", "Z"}
Labels == {"a", "b", "c"}
Ports == {5555, 6666}
Protocols == {"TCP", "UDP", "SCTP"}
Pods == [ns : Namespaces, label : Labels]
AllPorts == Ports \X Protocols

Pod(ns, label) == [ns |-> ns, label |-> label]
In(ns, labels) == [i \in DOMAIN labels |-> Pod(ns, labels[i])]
Xa == Pod("X", "a")
Xb == Pod("X", "b")
Xc == Pod("X", "c")

-----------------------------------------------------------------------------
(* Peers of a rule of a policy in namespace X: a pod selector alone stays  *)
(* in the policy's namespace, a namespace selector alone takes every pod   *)
(* of it, the two together the intersection.                               *)
PodSelector(labels) == {p \in Pods : p.ns = "X" /\ p.label \in labels}
NamespaceSelector(nss) == {p \in Pods : p.ns \in nss}
BothSelectors(nss, labels) == {p \in Pods : p.ns \in nss /\ p.label \in labels}

(* A rule without From admits every peer, one without Ports every port.    *)
FromPeers(peers) == [peers |-> peers, ports |-> AllPorts]
FromPeersOnPorts(peers, ports) == [peers |-> peers, ports |-> ports]
FromAnyOnPorts(ports) == [peers |-> Pods, ports |-> ports]

(* The option functions; CreateInNamespace is the operation CreatePolicy.  *)
NewPolicy == [ns |-> "X", sel |-> Labels, types |-> {}, ingress |-> {}, egress |-> {}]
WithPodSelector(pol, labels) == [pol EXCEPT !.sel = labels]
WithEmptyIngressRules(pol) == [pol EXCEPT !.types = @ \union {"Ingress"}, !.ingress = {}]
WithEmptyEgressRules(pol) == [pol EXCEPT !.types = @ \union {"Egress"}, !.egress = {}]
WithIngressRule(pol, rule) ==
    [pol EXCEPT !.types = @ \union {"Ingress"}, !.ingress = @ \union {rule}]
WithEgressRule(pol, rule) ==
    [pol EXCEPT !.types = @ \union {"Egress"}, !.egress = @ \union {rule}]

PolicyOn(labels) == WithPodSelector(NewPolicy, labels)
IngressToA(rule) == WithIngressRule(PolicyOn({"a"}), rule)

-----------------------------------------------------------------------------
(* Kubernetes: a pod is isolated in a direction by the policies that       *)
(* select it for this direction, and then admits what one of their rules   *)
(* admits.                                                                 *)
Selecting(pols, pod, type) ==
    {p \in pols : p.ns = pod.ns /\ pod.label \in p.sel /\ type \in p.types}

Admitted(pols, type, rules(_), pod, peer, port) ==
    LET selecting == Selecting(pols, pod, type)
    IN  \/ selecting = {}
        \/ \E p \in selecting : \E r \in rules(p) : peer \in r.peers /\ port \in r.ports

Ingress(p) == p.ingress
Egress(p) == p.egress

(* rules[p] are the policies in force at pod p; a pod always reaches       *)
(* itself.                                                                 *)
Reaches(rules, from, to, port) ==
    \/ from = to
    \/ /\ Admitted(rules[to], "Ingress", Ingress, to, from, port)
       /\ Admitted(rules[from], "Egress", Egress, from, to, port)

-----------------------------------------------------------------------------
(* The operations of the spec bodies.  Reach defaults to TCP on 5555; a    *)
(* check under `if sctpEnabled' has sctp = TRUE.                           *)
Create(pol) == <<[do |-> "CreatePolicy", pol |-> pol]>>
Check(from, to, port, want, sctp) ==
    [do |-> "Check", from |-> from, to |-> to, port |-> port, want |-> want, sctp |-> sctp]
Checks(froms, to, port, want) ==
    [i \in DOMAIN froms |-> Check(froms[i], to, port, want, FALSE)]
OnPort(port, protos, want, sctp) ==
    [i \in DOMAIN protos |-> Check(Xb, Xa, <<port, protos[i]>>, want, sctp)]

Default == <<5555, "TCP">>
ShouldReach(froms, to) == Checks(froms, to, Default, TRUE)
ShouldNotReach(froms, to) == Checks(froms, to, Default, FALSE)
abc == <<"a", "b", "c">>

-----------------------------------------------------------------------------
(* The It nodes, in the order of the file.                                 *)
IngressDenyPod ==
    Create(WithEmptyIngressRules(PolicyOn({"a"})))
    \o Checks(<<Xb>>, Xc, Default, TRUE) \o Checks(<<Xb>>, Xc, <<5555, "UDP">>, TRUE)
    \o Checks(<<Xb>>, Xa, Default, FALSE) \o Checks(<<Xb>>, Xa, <<5555, "UDP">>, FALSE)
    \o Checks(<<Xc>>, Xa, Default, FALSE) \o Checks(<<Xc>>, Xa, <<5555, "UDP">>, FALSE)

IngressDenyNamespace ==
    Create(WithEmptyIngressRules(NewPolicy))
    \o ShouldNotReach(<<Xa>>, Xb) \o ShouldNotReach(<<Xb>>, Xc) \o ShouldNotReach(<<Xc>>, Xa)
    \o ShouldNotReach(<<Pod("Y", "a"), Pod("Z", "a")>>, Xa)
    \o ShouldReach(<<Pod("Y", "a")>>, Pod("Y", "b")) \o ShouldReach(<<Pod("Z", "a")>>, Pod("Z", "b"))
    \o ShouldReach(<<Pod("Y", "a")>>, Pod("Z", "a")) \o ShouldReach(<<Pod("Z", "b")>>, Pod("Y", "c"))

IngressFromLabel ==
    Create(IngressToA(FromPeers(PodSelector({"b"}))))
    \o ShouldReach(<<Xb>>, Xa) \o ShouldNotReach(<<Xc>>, Xa) \o ShouldReach(<<Xb>>, Xc)

IngressFromNamespace ==
    Create(IngressToA(FromPeers(NamespaceSelector({"Y"}))))
    \o ShouldReach(In("Y", abc), Xa)
    \o ShouldNotReach(In("Z", abc), Xa) \o ShouldNotReach(<<Xb, Xc>>, Xa)

IngressFromEither ==
    Create(IngressToA(FromPeers(NamespaceSelector({"Y"}) \union PodSelector({"b"}))))
    \o ShouldReach(In("Y", abc), Xa) \o ShouldReach(<<Xb>>, Xa)
    \o ShouldNotReach(In("Z", abc), Xa) \o ShouldNotReach(<<Xc>>, Xa)

(* The body begins with a Skip; the rest is kept as the code keeps it.     *)
IngressFromBoth ==
    <<[do |-> "Skip"]>>
    \o Create(IngressToA(FromPeers(BothSelectors({"Y", "Z"}, {"b", "c"}))))
    \o ShouldReach(In("Y", <<"b", "c">>) \o In("Z", <<"b", "c">>) \o <<Xa>>, Xa)
    \o ShouldNotReach(<<Xb, Xc, Pod("Y", "a"), Pod("Z", "a")>>, Xa)

EgressDenyPod ==
    Create(WithEmptyEgressRules(PolicyOn({"a"})))
    \o ShouldReach(<<Xb>>, Xc) \o ShouldNotReach(<<Xa>>, Xb) \o ShouldNotReach(<<Xa>>, Xc)

EgressToLabel ==
    Create(WithEgressRule(PolicyOn({"a"}), FromPeers(PodSelector({"b"}))))
    \o ShouldReach(<<Xa>>, Xb) \o ShouldNotReach(<<Xa>>, Xc) \o ShouldReach(<<Xb>>, Xc)

StackedOverlapping ==
    Create(IngressToA(FromPeers(PodSelector({"b"}))))
    \o Create(IngressToA(FromPeers(NamespaceSelector({"Y"}))))
    \o ShouldReach(In("Y", abc), Xa) \o ShouldReach(<<Xb>>, Xa)
    \o ShouldNotReach(In("Z", abc), Xa) \o ShouldNotReach(<<Xc>>, Xa)

StackedPorts ==
    LET yzB == <<Pod("Y", "b"), Pod("Z", "b")>>
        yzC == <<Pod("Y", "c"), Pod("Z", "c")>>
        tcp6666 == <<6666, "TCP">>
    IN  Create(IngressToA(FromPeersOnPorts(PodSelector({"b"}), {Default})))
        \o Create(IngressToA(FromPeersOnPorts(PodSelector({"c"}), {tcp6666})))
        \o Checks(<<Xb>>, Xa, Default, TRUE) \o Checks(<<Xc>>, Xa, tcp6666, TRUE)
        \o Checks(<<Xb>> \o yzB \o yzC, Xa, tcp6666, FALSE)
        \o Checks(yzB \o <<Xc>> \o yzC, Xa, Default, FALSE)

PortTCP ==
    Create(IngressToA(FromPeersOnPorts(PodSelector({"b"}), {Default})))
    \o OnPort(5555, <<"TCP">>, TRUE, FALSE)
    \o OnPort(6666, <<"TCP", "UDP">>, FALSE, FALSE) \o OnPort(5555, <<"UDP">>, FALSE, FALSE)
    \o OnPort(6666, <<"SCTP">>, FALSE, TRUE) \o OnPort(5555, <<"SCTP">>, FALSE, TRUE)

PortUDP ==
    Create(IngressToA(FromPeersOnPorts(PodSelector({"b"}), {<<6666, "UDP">>})))
    \o OnPort(6666, <<"UDP">>, TRUE, FALSE)
    \o OnPort(6666, <<"TCP">>, FALSE, FALSE) \o OnPort(5555, <<"UDP", "TCP">>, FALSE, FALSE)
    \o Checks(<<Xc>>, Xa, <<6666, "UDP">>, FALSE)
    \o OnPort(6666, <<"SCTP">>, FALSE, TRUE) \o OnPort(5555, <<"SCTP">>, FALSE, TRUE)

PortSCTP ==
    <<[do |-> "SkipUnlessSctp"]>>
    \o Create(IngressToA(FromPeersOnPorts(PodSelector({"b"}), {<<6666, "SCTP">>})))
    \o OnPort(6666, <<"SCTP">>, TRUE, FALSE) \o OnPort(6666, <<"UDP", "TCP">>, FALSE, FALSE)
    \o OnPort(5555, <<"TCP", "UDP", "SCTP">>, FALSE, FALSE)

PortTCPAndUDP ==
    Create(IngressToA(FromPeersOnPorts(PodSelector({"b"}), {Default, <<6666, "UDP">>})))
    \o OnPort(5555, <<"TCP">>, TRUE, FALSE) \o OnPort(6666, <<"UDP">>, TRUE, FALSE)
    \o OnPort(6666, <<"TCP">>, FALSE, FALSE) \o OnPort(5555, <<"UDP">>, FALSE, FALSE)

PortUDPFromAny ==
    Create(IngressToA(FromAnyOnPorts({<<6666, "UDP">>})))
    \o OnPort(6666, <<"UDP">>, TRUE, FALSE)
    \o OnPort(5555, <<"TCP", "UDP">>, FALSE, FALSE) \o OnPort(6666, <<"TCP">>, FALSE, FALSE)

(* The three checks are made over IPv4 and then over IPv6.                 *)
IPv6FromLabel ==
    LET once == ShouldReach(<<Xb>>, Xa) \o ShouldNotReach(<<Xc>>, Xa) \o ShouldReach(<<Xb>>, Xc)
    IN  Create(IngressToA(FromPeers(PodSelector({"b"})))) \o once \o once

Bodies == <<IngressDenyPod, IngressDenyNamespace, IngressFromLabel, IngressFromNamespace,
            IngressFromEither, IngressFromBoth, EgressDenyPod, EgressToLabel,
            StackedOverlapping, StackedPorts, PortTCP, PortUDP, PortSCTP, PortTCPAndUDP,
            PortUDPFromAny, IPv6FromLabel>>
=============================================================================
