------------------------- MODULE MCSiteConfigConverter -------------------------
(***************************************************************************)
(* Small manifest directories, SiteConfigs and command lines for TLC.      *)
(***************************************************************************)
EXTENDS SiteConfigConverter

Yaml(docs) == [kind |-> "yaml", docs |-> docs]
Blank  == [kind |-> "blank", docs |-> <<>>]
Broken == [kind |-> "broken", docs |-> <<>>]

NoRender == [r \in {"master", "worker"} |-> Blank]

File(n, text) == [name |-> n, type |-> "file", text |-> text, rendered |-> NoRender]
Template(n, m, w) ==
  [name |-> n, type |-> "template", text |-> Broken,
   rendered |-> [r \in {"master", "worker"} |-> IF r = "master" THEN m ELSE w]]
Workload(text) == [name |-> "workload", type |-> "workload", text |-> text, rendered |-> NoRender]
Hidden == [name |-> ".git", type |-> "skipped", text |-> Broken, rendered |-> NoRender]

(* default is the container's directory, site overrides one of its files,  *)
(* user adds one and none may collide; the others fail in their own ways.  *)
MCDirectories ==
  [default  |-> <<Hidden, File("a.yaml", Yaml(<<"a1">>)),
                  Template("t.yaml.tmpl", Yaml(<<"tm">>), Blank), Workload(Yaml(<<"w">>))>>,
   site     |-> <<File("a.yaml", Yaml(<<"a2", "a3">>)), File("empty.yaml", Blank),
                  File("master-t.yaml", Yaml(<<"m">>))>>,
   user     |-> <<File("notes.txt", Yaml(<<"n">>)), File("u.yaml", Yaml(<<"u">>))>>,
   taken    |-> <<File("a.yaml", Yaml(<<"mine">>))>>,
   rendered |-> <<File("03-master.yaml", Yaml(<<"mine">>))>>,
   broken   |-> <<File("a.yaml", Broken)>>,
   comments |-> <<File("c.yaml", Yaml(<<>>))>>,
   badtmpl  |-> <<Template("x.yaml.tmpl", Yaml(<<"x">>), Broken)>>,
   badwork  |-> <<Workload(Broken)>>]

MCRenderedName ==
  (<<"master", "t.yaml.tmpl">> :> "master-t.yaml") @@
  (<<"worker", "t.yaml.tmpl">> :> "worker-t.yaml") @@
  (<<"master", "x.yaml.tmpl">> :> "master-x.yaml") @@
  (<<"worker", "x.yaml.tmpl">> :> "worker-x.yaml")

MCWorkloadName == [r \in {"master", "worker"} |-> IF r = "master" THEN "03-master.yaml" ELSE "03-worker.yaml"]

MCYamlFiles ==
  {"a.yaml", "u.yaml", "c.yaml", "empty.yaml", "master-t.yaml", "worker-t.yaml",
   "master-x.yaml", "worker-x.yaml", "03-master.yaml", "03-worker.yaml"}

Node(role, cpuset) == [role |-> role, cpuset |-> cpuset]
SNO      == <<Node("master", TRUE)>>
PlainSNO == <<Node("master", FALSE)>>
MNO      == <<Node("master", TRUE), Node("worker", FALSE)>>

Filter(d, i, x) == [inclusionDefault |-> d, include |-> i, exclude |-> x]

NoVIPs   == [apiVIP |-> [one |-> "", all |-> <<>>], ingressVIP |-> [one |-> "", all |-> <<>>]]
SomeVIPs ==
  {NoVIPs,
   [NoVIPs EXCEPT !.apiVIP.one = "v1"],
   [NoVIPs EXCEPT !.apiVIP = [one |-> "v1", all |-> <<"v1", "v2">>]],
   [NoVIPs EXCEPT !.ingressVIP = [one |-> "v1", all |-> <<"v2", "v1">>]]}

Cluster(n, nodes, paths, user, filter) ==
  [name |-> n, nodes |-> nodes, searchPaths |-> paths, extraManifestPath |-> user,
   filter |-> filter, vips |-> NoVIPs, settings |-> {}, manifestsConfigMapRefs |-> <<>>]

SiteConfig(settings, clusters) ==
  [kind |-> "SiteConfig", settings |-> settings, clusters |-> clusters]

(* Every combination of nodes, paths and filter for a single cluster. *)
Paths ==
  {Nil, <<>>, <<"default">>, <<"default", "site">>, <<"site", "default">>, <<"default", "rendered">>,
   <<"site", "badtmpl">>, <<"broken">>, <<"default", "badwork">>, <<"missing">>}
UserPaths == {Nil, "user", "taken", "rendered", "comments", "missing"}
Filters ==
  {Nil, Filter("include", <<>>, <<>>), Filter("include", <<>>, <<"a.yaml">>),
   Filter("include", <<>>, <<"a.yaml", "a.yaml">>), Filter("include", <<"a.yaml">>, <<>>),
   Filter("exclude", <<"a.yaml", "master-t.yaml">>, <<>>), Filter("exclude", <<>>, <<"a.yaml">>),
   Filter("exclude", <<"zz.yaml">>, <<>>), Filter("neither", <<>>, <<>>)}
Singles ==
  {Cluster("c1", n, p, u, f) :
     n \in {SNO, PlainSNO, MNO}, p \in Paths, u \in UserPaths, f \in Filters}

(* One or two clusters with settings that are lost or displaced. *)
Lossy(n) ==
  {[Cluster(n, SNO, <<"default">>, Nil, Nil) EXCEPT !.settings = s, !.vips = v] :
     s \in {{}, {"tpm2"}, {"diskPartition", "crTemplates"}}, v \in SomeVIPs}

SingleConfigs ==
  {SiteConfig({}, <<c>>) : c \in Singles}
    \cup {SiteConfig(s, <<c, d>>) : s \in {{}, {"biosConfigRef"}}, c \in Lossy("c1"), d \in Lossy("c2")}

(* A few clusters that ask for different files, in pairs, for several runs. *)
Asking(n) ==
  {Cluster(n, SNO, <<"default">>, Nil, Nil),
   Cluster(n, MNO, <<"default", "site">>, Nil, Filter("include", <<>>, <<"a.yaml">>)),
   Cluster(n, PlainSNO, <<"site">>, Nil, Nil),
   Cluster(n, MNO, Nil, "user", Nil),
   Cluster(n, PlainSNO, <<"missing">>, Nil, Nil)}

RerunConfigs ==
  {SiteConfig({}, <<c>>) : c \in Asking("c1")}
    \cup {SiteConfig({}, <<c, d>>) : c \in Asking("c1"), d \in Asking("c2")}
    \cup {SiteConfig({}, <<>>), [SiteConfig({}, <<>>) EXCEPT !.kind = "List"]}

MCSiteConfigs == SingleConfigs \cup RerunConfigs

(* Referenced ConfigMaps and -w are independent of each other.             *)
GoodArguments ==
  {[clusterTemplates |-> << <<"ns", "ai">>, <<>> >>, nodeTemplates |-> << <<"ns", "ai">> >>,
    refs |-> IF w THEN <<>> ELSE <<"cm1">>, writeWarnings |-> w] : w \in BOOLEAN}
MCArguments ==
  GoodArguments
    \cup [clusterTemplates : {<< <<"ns", "ai">> >>}, nodeTemplates : {<< <<"ns", "">> >>, << <<"ai">> >>},
          refs : {<<>>}, writeWarnings : {FALSE}]
=============================================================================
