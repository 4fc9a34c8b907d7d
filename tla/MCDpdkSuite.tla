---------------------------- MODULE MCDpdkSuite -----------------------------
(***************************************************************************)
(* The clusters the dpdk suite is run on: every kind of profile under the  *)
(* name the suite uses, at the borders of the validation, with and without *)
(* another profile; and for discovery mode what the policies offer.        *)
(***************************************************************************)
EXTENDS DpdkSuite

Good == TestProfile("amd64")
Split1G == [cpus |-> 6, pages |-> <<Page("1G", 9, FALSE), Page("1G", 5, TRUE)>>, meta |-> FALSE]
Arm == [cpus |-> 6, pages |-> <<Page("512M", 4, FALSE)>>, meta |-> TRUE]
FewPages == [cpus |-> 8, pages |-> <<Page("1G", 9, FALSE), Page("512M", 3, TRUE)>>, meta |-> TRUE]
FewCpus == [Good EXCEPT !.cpus = 5]
Broken == [Good EXCEPT !.cpus = Unparsable]

Offer(p, resource, count, device) ==
    [profile |-> p, resource |-> resource, count |-> count, device |-> device]
Two == <<Offer("other", "a", 2, TRUE), Offer("performance", "b", 2, TRUE), Offer("performance", "c", 4, FALSE)>>
Most == <<Offer("other", "a", 0, TRUE), Offer("performance", "c", 1, TRUE), Offer("performance", "b", 2, TRUE), Offer("performance", "c", 3, TRUE)>>
Best == <<Offer("other", "a", 4, TRUE), Offer("performance", "dpdknic", 1, TRUE), Offer("performance", "c", 5, TRUE)>>
Deviceless == <<Offer("performance", "dpdknic", 4, FALSE)>>

Env(discovery, main, other, cudOn, offers, two) ==
    [discovery |-> discovery, enforced |-> two, sno |-> two, vhost |-> two, arch |-> IF two THEN "arm64" ELSE "amd64",
     nics |-> [i \in {0, 1} |-> two \/ i = 0], cud |-> cudOn, offers |-> offers,
     profiles |-> [n \in {"performance", "other"} |-> IF n = "other" THEN other ELSE main]]

ClusterEnvs ==
    {Env(FALSE, p, o, c, <<>>, c) : p \in {NoProfile, Split1G, FewPages, FewCpus, Broken},
                                    o \in {NoProfile, Arm}, c \in BOOLEAN}
DiscoveryEnvs ==
    {Env(TRUE, p, o, FALSE, offers, t) : p \in {NoProfile, Good, FewCpus}, o \in {NoProfile, Split1G, Arm},
                                         offers \in {Two, Most, Best, Deviceless}, t \in BOOLEAN}

AllEnvs == ClusterEnvs \union DiscoveryEnvs
=============================================================================
