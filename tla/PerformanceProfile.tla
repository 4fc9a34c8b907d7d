------------------------- MODULE PerformanceProfile -------------------------
(***************************************************************************)
(* What the dpdk tests ask of a performance profile, and how they choose   *)
(* a profile and an SR-IOV policy in discovery mode.  A profile has the    *)
(* number of its isolated CPUs (Unparsable when the list is not one; the   *)
(* API server refuses a profile without the list), its hugepage pools in   *)
(* their order, and meta: labels or annotations.  node tells a pool tied   *)
(* to one NUMA node.                                                       *)
(***************************************************************************)
EXTENDS Integers, Sequences, SequencesExt

Unparsable == -1
NoProfile == [cpus |-> -2, pages |-> <<>>, meta |-> FALSE]

Page(size, count, node) == [size |-> size, count |-> count, node |-> node]
Profiles == [cpus : Nat \union {Unparsable}, meta : BOOLEAN,
             pages : Seq([size : STRING, count : Nat, node : BOOLEAN])]

(* What RestorePerformanceProfile keeps: the spec, with ObjectMeta{Name}.  *)
Bare(profile) == [cpus |-> profile.cpus, pages |-> profile.pages, meta |-> FALSE]

MutEnoughPages(page) ==     \* bug: the pages of both NUMA nodes counted for one
    \/ page.size = "1G" /\ page.count >= 5
    \/ page.size = "512M" /\ page.count >= 4

(* The loop of ValidatePerformanceProfile: the pools that would do.  The   *)
(* kernel splits a pool without a node over two NUMA nodes.                *)
EnoughPages(page) ==
    \/ page.size = "1G" /\ page.count >= IF page.node THEN 5 ELSE 10
    \/ page.size = "512M" /\ page.count >= 4

Enough(profile) == {i \in DOMAIN profile.pages : EnoughPages(profile.pages[i])}

ValidatePerformanceProfile(profile) == profile.cpus >= 6 /\ Enough(profile) # {}

(* The value the validation leaves in HugePageSize: the loop breaks at the *)
(* first pool that would do.                                               *)
HugePageSizeOf(profile, before) ==
    IF ValidatePerformanceProfile(profile) THEN profile.pages[Min(Enough(profile))].size ELSE before

(* CreatePerformanceProfile: the profile of the tests, by architecture.    *)
MutTestPages(arch) == Page("2M", 10, FALSE)     \* bug: a size the tests do not know
TestPages(arch) == IF arch = "amd64" THEN Page("1G", 10, FALSE) ELSE Page("512M", 32, FALSE)
TestProfile(arch) == [cpus |-> 8, pages |-> <<TestPages(arch)>>, meta |-> arch # "amd64"]

(* What the pods ask for, and a page, in units of half a Gi: 2Gi each      *)
(* (DefineDPDKWorkload), 1Gi (DefineWithHugePages).                        *)
HalfGi(size) == IF size = "1G" THEN 2 ELSE 1
WorkloadAsks == 4
HugePagesAsks == 2

-----------------------------------------------------------------------------
(* DiscoverPerformanceProfileAndPolicyWithAvailableNodes.  An offer is a   *)
(* policy on a node its profile selects, in the order of the three loops:  *)
(* its resource, how many the node has, and whether the node has a device  *)
(* with virtual functions the policy configures for DPDK.  A resource may  *)
(* be offered on several nodes.                                            *)
AllOffers == [profile : STRING, resource : STRING \ {"none"}, count : Nat, device : BOOLEAN]

Usable(offer) == offer.count > 0 /\ offer.device

NoOffer == [profile |-> "none", resource |-> "none", count |-> 0, device |-> FALSE]

MutDiscoverResources(offers, valid, preferred) ==     \* bug: the preferred resource is not
    LET best[i \in 0..Len(offers)] ==
            IF i = 0 THEN NoOffer
            ELSE IF /\ offers[i].profile \in valid /\ Usable(offers[i])
                    /\ offers[i].count > best[i - 1].count
                 THEN offers[i] ELSE best[i - 1]
    IN  best[Len(offers)]

(* The loops, which end at the preferred resource; valid are the profiles. *)
DiscoverResources(offers, valid, preferred) ==
    LET best[i \in 0..Len(offers)] ==
            IF i = 0 THEN NoOffer
            ELSE IF /\ offers[i].profile \in valid /\ Usable(offers[i])
                    /\ best[i - 1].resource # preferred
                    /\ offers[i].resource = preferred \/ offers[i].count > best[i - 1].count
                 THEN offers[i] ELSE best[i - 1]
    IN  best[Len(offers)]
=============================================================================
