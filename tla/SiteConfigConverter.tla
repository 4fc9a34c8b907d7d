-------------------------- MODULE SiteConfigConverter --------------------------
(***************************************************************************)
(* The SiteConfig converter: main.go and convert.go.  One run reads a      *)
(* SiteConfig, writes a ClusterInstance for every cluster, then collects   *)
(* the extra manifests of every cluster in one directory and writes the    *)
(* configMapGenerator snippet that lists them.  The output directory stays *)
(* as it is between runs, so that a later run, of the same or of another   *)
(* SiteConfig, or after a failure, finds the files of the earlier ones.    *)
(*                                                                         *)
(* A SiteConfig is [kind, settings, clusters], a cluster a record with its *)
(* name, nodes, vips, the places of its extra manifests and the settings   *)
(* (its own and its nodes') that a ClusterInstance cannot express.  Fields *)
(* that are copied from one structure to the other are left out.           *)
(***************************************************************************)
EXTENDS ExtraManifests

CONSTANTS
  SiteConfigs,    \* the inputs
  Arguments,      \* the command lines: [clusterTemplates, nodeTemplates, refs, writeWarnings]
  YamlFiles,      \* the file names that end in .yaml or .yml
  ConfigMapName,  \* extra-manifests-cm
  Reruns,         \* bound: the inputs of a sequence of more than one run
  MaxRuns         \* bound on the number of runs

ASSUME MaxRunsAssumption == MaxRuns \in Nat

VARIABLES
  input,      \* the SiteConfig of this run
  args,       \* the command line of this run
  pc,         \* where the run is
  idx,        \* the cluster it is at
  pending,    \* the manifests of that cluster that are not written yet
  warned,     \* the collected warnings
  printed,    \* the warnings this run has printed to the console
  instances,  \* cluster name -> the ClusterInstance in the output directory
  manifests,  \* file name -> the manifest in the extra-manifests directory
  snippet,    \* the configMapGenerator snippet in the output directory
  result,     \* how the last run ended
  runs        \* the number of runs

run  == <<input, args, pc, idx, pending, warned, printed, result, runs>>
disk == <<instances, manifests, snippet>>
vars == <<run, disk>>

(* Writing a file: its name is new or the file is replaced. *)
Put(directory, name, file) ==
  [n \in DOMAIN directory \cup {name} |-> IF n = name THEN file ELSE directory[n]]

-----------------------------------------------------------------------------
(* parseTemplateReferences: empty entries are skipped, the others must be  *)
(* a namespace and a name.                                                 *)
ValidReferences(refs) ==
  \A i \in DOMAIN refs :
    refs[i] = <<>> \/ (Len(refs[i]) = 2 /\ \A j \in 1..2 : refs[i][j] # "")

(* The settings of the SiteConfig itself, and of a cluster and its nodes,  *)
(* that are looked for and reported as not supported.                      *)
WarnedSpecSettings == {"sshPrivateKeySecretRef", "biosConfigRef", "crTemplates"}

WarnedSettings ==
  {"biosConfigRef", "crTemplates", "mergeDefaultMachineConfigs", "extraManifestOnly",
   "siteConfigMap", "tpm2", "diskPartition", "userData"}

(* The inputs are SiteConfigs as the decoder returns them.  Of the         *)
(* settings that a ClusterInstance cannot express they use those the       *)
(* converter looks for (crAnnotations of the SiteConfig is not among them: *)
(* it is dropped without a word).                                          *)
ASSUME SiteConfigsAssumption ==
  \A sc \in SiteConfigs :
    /\ sc.settings \subseteq WarnedSpecSettings
    /\ sc.clusters \in Seq(ToSet(sc.clusters))
    /\ \A i \in DOMAIN sc.clusters :
         /\ sc.clusters[i].settings \subseteq WarnedSettings
         /\ DOMAIN sc.clusters[i].vips = {"apiVIP", "ingressVIP"}
         /\ sc.clusters[i].manifestsConfigMapRefs \in Seq(STRING)
         /\ LET paths == sc.clusters[i].searchPaths
            IN  paths # Nil => paths \in Seq(ToSet(paths))

ASSUME ArgumentsAssumption ==
  \A a \in Arguments : a.refs \in Seq(STRING) /\ a.writeWarnings \in BOOLEAN

Warning(setting, owner) == [about |-> "unsupported", setting |-> setting, owner |-> owner]

Mismatch(vip, owner) == [about |-> "mismatch", setting |-> vip, owner |-> owner]

(* What is reported of a cluster before any is converted. *)
ClusterWarnings(c) ==
  {Warning(s, c.name) : s \in
     (c.settings \cap WarnedSettings)
       \cup {v \in {"apiVIP", "ingressVIP"} : c.vips[v].one # ""}
       \cup {p \in {"extraManifestPath"} : c.extraManifestPath # Nil}
       \cup {p \in {"cpuset"} : \E i \in DOMAIN c.nodes : c.nodes[i].cpuset}}

SpecWarnings(sc, a) ==
  {Warning(s, "") : s \in (sc.settings \cap WarnedSpecSettings) \cup ToSet(a.refs)}

FieldWarnings(sc, a) ==
  SpecWarnings(sc, a) \cup UNION {ClusterWarnings(sc.clusters[i]) : i \in DOMAIN sc.clusters}

(* The list of VIPs: the plural field if it is there, else the singular.   *)
VIPs(vip) ==
  CASE vip.all # <<>> -> vip.all
    [] vip.all = <<>> /\ vip.one # "" -> <<vip.one>>
    [] OTHER -> <<>>

MismatchedVIPs(c) ==
  {v \in {"apiVIP", "ingressVIP"} :
     /\ c.vips[v].one # ""
     /\ c.vips[v].all # <<>>
     /\ c.vips[v].one # c.vips[v].all[1]}

(* The warnings convertClusterToClusterInstance adds. *)
ConversionWarnings(c) ==
  {Mismatch(v, c.name) : v \in MismatchedVIPs(c)}
    \cup {Warning(ConfigMapName, "")}

MutClusterInstance(c, a, comments) ==
  [namespace |-> c.name,
   clusterType |-> IF Len(c.nodes) = 1 THEN "SNO" ELSE "HighlyAvailable",
   vips |-> [v \in DOMAIN c.vips |-> VIPs(c.vips[v])],
   extraManifestsRefs |-> <<ConfigMapName>> \o c.manifestsConfigMapRefs \o a.refs,
   comments |-> IF a.writeWarnings THEN comments ELSE {}]

(* convertClusterToClusterInstance, with the comments of -w. *)
ClusterInstance(c, a, comments) ==
  [namespace |-> c.name,
   clusterType |-> IF Len(c.nodes) = 1 THEN "SNO" ELSE "HighlyAvailable",
   vips |-> [v \in DOMAIN c.vips |-> VIPs(c.vips[v])],
   extraManifestsRefs |-> c.manifestsConfigMapRefs \o a.refs \o <<ConfigMapName>>,
   comments |-> IF a.writeWarnings THEN comments ELSE {}]

-----------------------------------------------------------------------------
(* Before the first run there is neither an input nor a command line. *)
NoInput == [kind |-> "", settings |-> {}, clusters |-> <<>>]

Init ==
  /\ input = NoInput
  /\ args = Nil
  /\ pc = "idle"
  /\ idx = 1
  /\ pending = NoManifests
  /\ warned = {}
  /\ printed = {}
  /\ instances = [n \in {} |-> Nil]
  /\ manifests = NoManifests
  /\ snippet = Nil
  /\ result = "none"
  /\ runs = 0

Exit(r) == pc' = "idle" /\ result' = r

MutStart ==
  /\ pc = "idle"
  /\ runs < MaxRuns
  /\ runs' = runs + 1
  /\ runs > 0 => input \in Reruns
  /\ input' \in SiteConfigs
  /\ runs > 0 => input' \in Reruns
  /\ args' \in Arguments
  /\ idx' = 1
  /\ pending' = NoManifests
  /\ printed' = {}
  /\ warned' = FieldWarnings(input', args')
  /\ pc' = "convert"
  /\ result' = "none"
  /\ manifests' = NoManifests
  /\ UNCHANGED <<instances, snippet>>

(* The program is started; between two runs the file may be edited.  The   *)
(* input is checked, then the template references, then the fields that    *)
(* cannot be converted are collected.                                      *)
Start ==
  /\ pc = "idle"
  /\ runs < MaxRuns
  /\ runs' = runs + 1
  /\ runs > 0 => input \in Reruns
  /\ input' \in SiteConfigs
  /\ runs > 0 => input' \in Reruns
  /\ args' \in Arguments
  /\ idx' = 1
  /\ pending' = NoManifests
  /\ printed' = {}
  /\ IF /\ input'.kind = "SiteConfig"
        /\ ValidReferences(args'.clusterTemplates)
        /\ ValidReferences(args'.nodeTemplates)
     THEN /\ warned' = FieldWarnings(input', args')
          /\ pc' = "convert"
          /\ result' = "none"
     ELSE warned' = {} /\ Exit("failed")
  /\ UNCHANGED disk

MutConvertCluster ==
  /\ pc = "convert"
  /\ idx <= Len(input.clusters)
  /\ LET c == input.clusters[idx]
     IN  /\ instances' = Put(instances, c.name, ClusterInstance(c, args, warned))
         /\ warned' = warned \cup ConversionWarnings(c)
  /\ idx' = idx + 1
  /\ UNCHANGED <<input, args, pc, pending, printed, result, runs, manifests, snippet>>

(* One cluster is converted and its file written; the file of an earlier   *)
(* run is replaced.                                                        *)
ConvertCluster ==
  /\ pc = "convert"
  /\ idx <= Len(input.clusters)
  /\ LET c == input.clusters[idx]
     IN  /\ warned' = warned \cup ConversionWarnings(c)
         /\ instances' = Put(instances, c.name, ClusterInstance(c, args, warned'))
  /\ idx' = idx + 1
  /\ UNCHANGED <<input, args, pc, pending, printed, result, runs, manifests, snippet>>

(* All are converted: without -w the warnings are printed.  Without a      *)
(* cluster there are no extra manifests either.                            *)
EndConversion ==
  /\ pc = "convert"
  /\ idx > Len(input.clusters)
  /\ printed' = IF args.writeWarnings THEN {} ELSE warned
  /\ idx' = 1
  /\ IF input.clusters = <<>> THEN Exit("ok")
                              ELSE pc' = "collect" /\ UNCHANGED result
  /\ UNCHANGED <<input, args, pending, warned, runs, disk>>

(* generateExtraManifests: the manifests of one cluster are collected...   *)
CollectManifests ==
  /\ pc = "collect"
  /\ idx <= Len(input.clusters)
  /\ LET c == input.clusters[idx]
     IN  IF GetExtraManifestFails(c)
         THEN Exit("failed") /\ UNCHANGED pending
         ELSE /\ pending' = GetExtraManifest(c)
              /\ pc' = "write"
              /\ UNCHANGED result
  /\ UNCHANGED <<input, args, idx, warned, printed, runs, disk>>

MutWriteManifest ==
  /\ pc = "write"
  /\ \E f \in DOMAIN pending :
       /\ manifests' = manifests @@ (f :> pending[f])
       /\ pending' = Restrict(pending, DOMAIN pending \ {f})
  /\ UNCHANGED <<input, args, pc, idx, warned, printed, result, runs, instances, snippet>>

(* ...and written, in the order in which Go visits a map: any. *)
WriteManifest ==
  /\ pc = "write"
  /\ \E f \in DOMAIN pending :
       /\ manifests' = Put(manifests, f, pending[f])
       /\ pending' = Restrict(pending, DOMAIN pending \ {f})
  /\ UNCHANGED <<input, args, pc, idx, warned, printed, result, runs, instances, snippet>>

NextCluster ==
  /\ pc = "write"
  /\ DOMAIN pending = {}
  /\ pc' = "collect"
  /\ idx' = idx + 1
  /\ UNCHANGED <<input, args, pending, warned, printed, result, runs, disk>>

(* generateKustomizationYAML lists what is in the directory, and is called *)
(* with the first cluster's name as the namespace.                         *)
GenerateKustomization ==
  /\ pc = "collect"
  /\ idx > Len(input.clusters)
  /\ snippet' = [namespace |-> input.clusters[1].name,
                 files |-> DOMAIN manifests \cap YamlFiles]
  /\ Exit("ok")
  /\ UNCHANGED <<input, args, idx, pending, warned, printed, runs, instances, manifests>>

(* A directory cannot be made or a file cannot be opened for writing. *)
WriteFailure ==
  /\ pc \in {"convert", "collect", "write"}
  /\ Exit("failed")
  /\ UNCHANGED <<input, args, idx, pending, warned, printed, runs, disk>>

Next ==
  \/ Start
  \/ ConvertCluster
  \/ EndConversion
  \/ CollectManifests
  \/ WriteManifest
  \/ NextCluster
  \/ GenerateKustomization
  \/ WriteFailure

Spec == Init /\ [][Next]_vars

-----------------------------------------------------------------------------
(* Type invariant: the runs visit only the places of the program, and the  *)
(* output directory maps names to files, each ClusterInstance in the       *)
(* namespace of its own cluster and referring to the generated ConfigMap   *)
(* last.                                                                   *)
TypeOK ==
  /\ input \in SiteConfigs \cup {NoInput}
  /\ args \in Arguments \cup {Nil}
  /\ pc \in {"idle", "convert", "collect", "write"}
  /\ idx \in 1 .. (Len(input.clusters) + 1)
  /\ result \in {"none", "ok", "failed"}
  /\ runs \in 0..MaxRuns
  /\ \A n \in DOMAIN instances :
       /\ instances[n].namespace = n
       /\ Last(instances[n].extraManifestsRefs) = ConfigMapName

(* A kustomize build of the output directory finds every file the snippet  *)
(* lists, in any order of runs and failures: what a run has written is     *)
(* only ever replaced.                                                     *)
SnippetFilesExist == snippet # Nil => snippet.files \subseteq DOMAIN manifests

Succeeded == result = "ok" /\ input.clusters # <<>>

(* After a successful run everything the last cluster asks for is in the   *)
(* directory, as that cluster needs it, and everything YAML of it is       *)
(* listed.                                                                 *)
LastClusterComplete ==
  Succeeded =>
    LET m == GetExtraManifest(Last(input.clusters))
    IN  \A f \in DOMAIN m :
          /\ f \in DOMAIN manifests
          /\ manifests[f] = m[f]
          /\ f \in YamlFiles => f \in snippet.files

(* What a sequence of maps provides, told without assigning one after the *)
(* other: under each name the manifest of the last map that has one.       *)
Provided(maps) == UNION {DOMAIN maps[i] : i \in DOMAIN maps}

LastProvided(maps, f) == maps[Max({i \in DOMAIN maps : f \in DOMAIN maps[i]})][f]

Kept(filter, f) ==
  CASE filter = Nil -> TRUE
    [] filter # Nil /\ filter.inclusionDefault = "exclude" -> f \in ToSet(filter.include)
    [] OTHER -> f \notin ToSet(filter.exclude)

(* In a new directory a single cluster gets exactly the files that its     *)
(* paths provide and its filter keeps.  The workload manifest of a single  *)
(* node goes before the other pre-defined ones, of any kind the last path  *)
(* that has it counts, and the files of extraManifestPath replace none.    *)
SnippetExact ==
  (Succeeded /\ runs = 1 /\ Len(input.clusters) = 1) =>
    LET c == input.clusters[1]
        W == WorkloadMaps(c, PredefinedPaths(c))
        E == FileMaps(c, PredefinedPaths(c))
        U == UserMaps(c)
        Names == {f \in Provided(W) \cup Provided(E) \cup Provided(U) : Kept(c.filter, f)}
    IN  /\ DOMAIN manifests = Names
        /\ snippet.files = Names \cap YamlFiles
        /\ \A f \in Names :
             manifests[f] = CASE f \in Provided(W)               -> LastProvided(W, f)
                              [] f \in Provided(E) \ Provided(W) -> LastProvided(E, f)
                              [] OTHER                           -> LastProvided(U, f)

(* The settings a ClusterInstance cannot express, and the VIPs that the    *)
(* plural field displaces.                                                 *)
Lost(c) ==
  {Warning(s, c.name) : s \in c.settings}
    \cup {Mismatch(v, c.name) :
            v \in {w \in DOMAIN c.vips : c.vips[w].one # ""
                                         /\ c.vips[w].one # VIPs(c.vips[w])[1]}}

LostOfSpec(sc) == {Warning(s, "") : s \in sc.settings}

(* No setting that the converter looks for is dropped in silence: once the *)
(* clusters are converted, each of those that is lost was reported, on the *)
(* console or at the head of the file of the cluster it belongs to (of     *)
(* every cluster if it is global).  It looks for a fixed list; what is not *)
(* on it, as spec.crAnnotations, is dropped without a word.                *)
LossReported ==
  (pc \in {"collect", "write"} \/ Succeeded) =>
    \A i \in DOMAIN input.clusters :
      LET c == input.clusters[i]
      IN  (Lost(c) \cup LostOfSpec(input)) \subseteq (printed \cup instances[c.name].comments)

-----------------------------------------------------------------------------
(* What the tool's messages and README say, which the code does not do.    *)

(* "This configmap is created automatically": the ConfigMap a              *)
(* ClusterInstance refers to, in its own namespace, is generated.          *)
ConfigMapForEveryInstance ==
  Succeeded => \A i \in DOMAIN input.clusters : snippet.namespace = input.clusters[i].name
=============================================================================
