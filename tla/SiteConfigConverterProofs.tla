----------------------- MODULE SiteConfigConverterProofs -----------------------
(***************************************************************************)
(* Proofs about the SiteConfig converter, for every set of SiteConfigs,    *)
(* command lines and manifest directories, and any number of runs.         *)
(***************************************************************************)
EXTENDS SiteConfigConverter, WellFoundedInduction, TLAPS

(* The clusters of an input are a sequence: its indices are numbers.       *)
LEMMA InputClusters ==
  ASSUME input \in SiteConfigs \cup {NoInput}
  PROVE  /\ Len(input.clusters) \in Nat
         /\ DOMAIN input.clusters = 1 .. Len(input.clusters)
<1>1. CASE input \in SiteConfigs
  BY <1>1, SiteConfigsAssumption
<1>2. CASE input = NoInput
  <2>1. input.clusters = <<>>
    BY <1>2 DEF NoInput
  <2> QED BY <2>1
<1> QED BY <1>1, <1>2

(* Every ClusterInstance is in the namespace of its cluster and refers to  *)
(* the generated ConfigMap after all others.                               *)
LEMMA InstanceShape ==
  ASSUME NEW sc \in SiteConfigs, NEW i \in DOMAIN sc.clusters,
         NEW a \in Arguments, NEW w
  PROVE  LET ci == ClusterInstance(sc.clusters[i], a, w)
         IN  /\ ci.namespace = sc.clusters[i].name
             /\ Last(ci.extraManifestsRefs) = ConfigMapName
             /\ a.writeWarnings => ci.comments = w
<1> DEFINE c == sc.clusters[i]
           refs == c.manifestsConfigMapRefs \o a.refs
           ci == ClusterInstance(c, a, w)
<1>1. refs \in Seq(STRING)
  BY SiteConfigsAssumption, ArgumentsAssumption
<1>2. Last(refs \o <<ConfigMapName>>) = ConfigMapName
  <2> HIDE DEF refs
  <2> QED BY <1>1 DEF Last
<1>3. /\ ci.namespace = c.name
      /\ ci.extraManifestsRefs = refs \o <<ConfigMapName>>
      /\ a.writeWarnings => ci.comments = w
  BY DEF ClusterInstance
<1> QED BY <1>2, <1>3

-----------------------------------------------------------------------------
(* Between its start and its exit a run has an input and a command line,   *)
(* and no result yet; extra manifests are made only if there are clusters. *)
RunInv ==
  /\ pc # "idle" => /\ result = "none"
                    /\ input \in SiteConfigs
                    /\ args \in Arguments
  /\ pc \in {"collect", "write"} => input.clusters # <<>>
  /\ pc = "write" => idx <= Len(input.clusters)

LEMMA TypeInit == Init => TypeOK /\ RunInv
<1> SUFFICES ASSUME Init PROVE TypeOK /\ RunInv
  OBVIOUS
<1>1. Len(input.clusters) = 0
  BY DEF Init, NoInput
<1>2. \A n \in DOMAIN instances : FALSE
  BY DEF Init
<1> QED BY <1>1, <1>2, MaxRunsAssumption DEF Init, TypeOK, RunInv

LEMMA TypeNext == TypeOK /\ RunInv /\ [Next]_vars => (TypeOK /\ RunInv)'
<1> SUFFICES ASSUME TypeOK, RunInv, [Next]_vars PROVE (TypeOK /\ RunInv)'
  OBVIOUS
<1> USE MaxRunsAssumption
<1>0. /\ Len(input.clusters) \in Nat
      /\ DOMAIN input.clusters = 1 .. Len(input.clusters)
  BY InputClusters DEF TypeOK
<1>1. CASE Start
  <2>1. /\ input' \in SiteConfigs /\ args' \in Arguments
        /\ idx' = 1 /\ runs' = runs + 1 /\ runs < MaxRuns
        /\ UNCHANGED instances
    BY <1>1 DEF Start, disk
  <2>2. Len(input'.clusters) \in Nat
    BY <2>1, SiteConfigsAssumption
  <2>3. \/ pc' = "convert" /\ result' = "none"
        \/ pc' = "idle" /\ result' = "failed"
    BY <1>1 DEF Start, Exit
  <2> QED BY <2>1, <2>2, <2>3 DEF TypeOK, RunInv
<1>2. CASE ConvertCluster
  <2> DEFINE c == input.clusters[idx]
             ci == ClusterInstance(c, args, warned')
  <2>1. input \in SiteConfigs /\ args \in Arguments /\ idx \in DOMAIN input.clusters
    BY <1>0, <1>2 DEF ConvertCluster, TypeOK, RunInv
  <2>2. instances' = Put(instances, c.name, ci)
    BY <1>2 DEF ConvertCluster
  <2>3. ci.namespace = c.name /\ Last(ci.extraManifestsRefs) = ConfigMapName
    BY <2>1, InstanceShape
  <2>4. \A n \in DOMAIN instances' : /\ instances'[n].namespace = n
                                     /\ Last(instances'[n].extraManifestsRefs) = ConfigMapName
    <3> HIDE DEF c, ci
    <3> QED BY <2>2, <2>3 DEF TypeOK, Put
  <2>5. /\ UNCHANGED <<input, args, pc, result, runs>>
        /\ pc = "convert"
        /\ idx <= Len(input.clusters) /\ idx' = idx + 1
    BY <1>2 DEF ConvertCluster
  <2>6. RunInv'
    BY <2>5 DEF RunInv
  <2> HIDE DEF c, ci
  <2> QED BY <1>0, <2>4, <2>5, <2>6 DEF TypeOK
<1>3. CASE EndConversion
  BY <1>0, <1>3 DEF EndConversion, Exit, TypeOK, RunInv, disk
<1>4. CASE CollectManifests
  BY <1>4 DEF CollectManifests, Exit, TypeOK, RunInv, disk
<1>5. CASE WriteManifest
  BY <1>5 DEF WriteManifest, TypeOK, RunInv
<1>6. CASE NextCluster
  BY <1>0, <1>6 DEF NextCluster, TypeOK, RunInv, disk
<1>7. CASE GenerateKustomization
  BY <1>7 DEF GenerateKustomization, Exit, TypeOK, RunInv
<1>8. CASE WriteFailure
  BY <1>8 DEF WriteFailure, Exit, TypeOK, RunInv, disk
<1>9. CASE UNCHANGED vars
  BY <1>9 DEF TypeOK, RunInv, vars, run, disk
<1> QED BY <1>1, <1>2, <1>3, <1>4, <1>5, <1>6, <1>7, <1>8, <1>9 DEF Next

(* Type correctness: a converter that starts in an empty directory keeps   *)
(* its own state and the directory well-formed over any number of runs:    *)
(* in particular each ClusterInstance stays in its cluster's namespace.    *)
THEOREM TypeCorrect == Spec => []TypeOK
BY TypeInit, TypeNext, PTL DEF Spec

-----------------------------------------------------------------------------
(* Files are only ever replaced, so that the snippet of any earlier run    *)
(* stays valid.                                                            *)
LEMMA FilesNext == SnippetFilesExist /\ [Next]_vars => SnippetFilesExist'
<1> SUFFICES ASSUME SnippetFilesExist, [Next]_vars PROVE SnippetFilesExist'
  OBVIOUS
<1>1. CASE WriteManifest
  <2>1. PICK f \in DOMAIN pending : manifests' = Put(manifests, f, pending[f])
    BY <1>1 DEF WriteManifest
  <2>2. DOMAIN manifests \subseteq DOMAIN manifests'
    BY <2>1 DEF Put
  <2> QED BY <1>1, <2>2 DEF WriteManifest, SnippetFilesExist
<1>2. CASE GenerateKustomization
  BY <1>2 DEF GenerateKustomization, SnippetFilesExist
<1>3. CASE UNCHANGED <<manifests, snippet>>
  BY <1>3 DEF SnippetFilesExist
<1>4. \/ WriteManifest \/ GenerateKustomization \/ UNCHANGED <<manifests, snippet>>
  BY DEF Next, Start, ConvertCluster, EndConversion, CollectManifests, NextCluster,
         WriteFailure, vars, disk
<1> QED BY <1>1, <1>2, <1>3, <1>4

(* The files that the snippet lists are in the directory, after any number *)
(* of runs on it and wherever one of them failed.                          *)
THEOREM ListedFilesExist == Spec => []SnippetFilesExist
<1>1. Init => SnippetFilesExist
  BY DEF Init, SnippetFilesExist
<1> QED BY <1>1, FilesNext, PTL DEF Spec

-----------------------------------------------------------------------------
(* What the report of cluster i must contain, and where it is once the     *)
(* cluster is written and once all clusters are.                           *)
Owed(i) == FieldWarnings(input, args) \cup ConversionWarnings(input.clusters[i])

Comments(i) == instances[input.clusters[i].name].comments

Written(i) ==
  /\ Owed(i) \subseteq warned
  /\ input.clusters[i].name \in DOMAIN instances
  /\ args.writeWarnings => Owed(i) \subseteq Comments(i)

(* The inductive part behind LossReported: the warnings of the fields are  *)
(* collected before the first cluster is written, those of a cluster       *)
(* before its own file is, and a file that is written again (two clusters  *)
(* of one name) still has all of them.                                     *)
ReportInv ==
  /\ pc = "convert" => /\ FieldWarnings(input, args) \subseteq warned
                       /\ \A i \in 1 .. (idx - 1) : Written(i)
  /\ (pc \in {"collect", "write"} \/ Succeeded) =>
       \A i \in DOMAIN input.clusters : Owed(i) \subseteq (printed \cup Comments(i))

(* What a cluster loses is among what is owed to it. *)
LEMMA LostIsOwed ==
  ASSUME input \in SiteConfigs, NEW i \in DOMAIN input.clusters
  PROVE  Lost(input.clusters[i]) \cup LostOfSpec(input) \subseteq Owed(i)
<1> DEFINE c == input.clusters[i]
<1>1. LostOfSpec(input) \subseteq Owed(i)
  BY SiteConfigsAssumption DEF LostOfSpec, Owed, FieldWarnings, SpecWarnings
<1>2. ASSUME NEW s \in c.settings PROVE Warning(s, c.name) \in Owed(i)
  <2>1. s \in WarnedSettings
    BY <1>2, SiteConfigsAssumption
  <2>2. Warning(s, c.name) \in ClusterWarnings(c)
    BY <1>2, <2>1 DEF ClusterWarnings
  <2> QED BY <2>2 DEF Owed, FieldWarnings
<1>3. ASSUME NEW v \in DOMAIN c.vips, c.vips[v].one # "", c.vips[v].one # VIPs(c.vips[v])[1]
      PROVE  Mismatch(v, c.name) \in Owed(i)
  <2>1. v \in {"apiVIP", "ingressVIP"}
    BY <1>3, SiteConfigsAssumption
  <2>2. CASE c.vips[v].all = <<>>
    <3>1. VIPs(c.vips[v]) = <<c.vips[v].one>>
      BY <1>3, <2>2 DEF VIPs
    <3>2. VIPs(c.vips[v])[1] = c.vips[v].one
      BY <3>1
    <3> QED BY <1>3, <3>2
  <2>3. CASE c.vips[v].all # <<>>
    <3>1. VIPs(c.vips[v]) = c.vips[v].all
      BY <2>3 DEF VIPs
    <3>2. v \in MismatchedVIPs(c)
      BY <1>3, <2>1, <2>3, <3>1 DEF MismatchedVIPs
    <3> QED BY <3>2 DEF Owed, ConversionWarnings
  <2> QED BY <2>2, <2>3
<1> QED BY <1>1, <1>2, <1>3 DEF Lost

LEMMA ReportNext == TypeOK /\ RunInv /\ ReportInv /\ [Next]_vars => ReportInv'
<1> SUFFICES ASSUME TypeOK, RunInv, ReportInv, [Next]_vars PROVE ReportInv'
  OBVIOUS
<1>0. /\ Len(input.clusters) \in Nat
      /\ DOMAIN input.clusters = 1 .. Len(input.clusters)
      /\ idx \in 1 .. (Len(input.clusters) + 1)
  BY InputClusters DEF TypeOK
<1>1. CASE Start
  <2>1. /\ idx' = 1
        /\ \/ pc' = "idle" /\ result' = "failed"
           \/ pc' = "convert" /\ result' = "none" /\ warned' = FieldWarnings(input', args')
    BY <1>1 DEF Start, Exit
  <2>2. FieldWarnings(input, args)' = FieldWarnings(input', args')
    BY DEF FieldWarnings, SpecWarnings, ClusterWarnings
  <2> QED BY <2>1, <2>2 DEF ReportInv, Succeeded
<1>2. CASE ConvertCluster
  <2> DEFINE c == input.clusters[idx]
             ci == ClusterInstance(c, args, warned')
  <2>1. /\ pc = "convert" /\ pc' = "convert" /\ result' = "none"
        /\ input \in SiteConfigs /\ args \in Arguments
        /\ idx \in DOMAIN input.clusters /\ idx' = idx + 1
        /\ UNCHANGED <<input, args>>
    BY <1>0, <1>2 DEF ConvertCluster, RunInv
  <2>2. /\ warned' = warned \cup ConversionWarnings(c)
        /\ instances' = Put(instances, c.name, ci)
    BY <1>2 DEF ConvertCluster
  <2>3. args.writeWarnings => ci.comments = warned'
    BY <2>1, InstanceShape
  <2>4. \A i : Owed(i)' = Owed(i)
    BY <2>1 DEF Owed
  <2>5. Owed(idx) \subseteq warned'
    BY <2>1, <2>2 DEF Owed, ReportInv
  <2>6. ASSUME NEW i \in 1 .. idx PROVE Written(i)'
    <3>1. Owed(i) \subseteq warned'
      BY <1>0, <2>1, <2>2, <2>5 DEF ReportInv, Written
    <3>2. CASE input.clusters[i].name = c.name
      <4>1. /\ c.name \in DOMAIN instances'
            /\ instances'[c.name] = ci
        BY <2>2 DEF Put
      <4> QED BY <2>1, <2>3, <2>4, <3>1, <3>2, <4>1 DEF Written, Comments
    <3>3. CASE input.clusters[i].name # c.name
      <4>1. Written(i)
        BY <1>0, <2>1, <3>3 DEF ReportInv
      <4>2. /\ input.clusters[i].name \in DOMAIN instances'
            /\ instances'[input.clusters[i].name] = instances[input.clusters[i].name]
        BY <2>2, <3>3, <4>1 DEF Put, Written
      <4> QED BY <2>1, <2>4, <3>1, <4>1, <4>2 DEF Written, Comments
    <3> QED BY <3>2, <3>3
  <2>7. FieldWarnings(input, args)' \subseteq warned'
    BY <2>1, <2>2 DEF ReportInv
  <2>8. \A i \in 1 .. (idx - 1)' : Written(i)'
    BY <1>0, <2>1, <2>6
  <2> QED BY <2>1, <2>7, <2>8 DEF ReportInv, Succeeded
<1>3. CASE EndConversion
  <2>1. /\ pc = "convert" /\ idx > Len(input.clusters)
        /\ printed' = IF args.writeWarnings THEN {} ELSE warned
        /\ pc' \in {"idle", "collect"}
        /\ UNCHANGED <<input, args, instances>>
        /\ args \in Arguments
    BY <1>3 DEF EndConversion, Exit, disk, RunInv
  <2>2. ASSUME NEW i \in DOMAIN input.clusters
        PROVE  Owed(i) \subseteq (printed' \cup Comments(i))
    <3>1. Written(i)
      BY <1>0, <2>1 DEF ReportInv
    <3> QED BY <2>1, <3>1, ArgumentsAssumption DEF Written
  <2>3. \A i : Owed(i)' = Owed(i) /\ Comments(i)' = Comments(i)
    BY <2>1 DEF Owed, Comments
  <2> QED BY <2>1, <2>2, <2>3 DEF ReportInv
<1>4. CASE \/ CollectManifests \/ WriteManifest \/ NextCluster
           \/ GenerateKustomization \/ WriteFailure
  <2>1. /\ UNCHANGED <<input, args, printed, instances>>
        /\ pc' # "convert"
        /\ \/ pc \in {"collect", "write"}
           \/ pc' = "idle" /\ result' = "failed"
    BY <1>4 DEF CollectManifests, WriteManifest, NextCluster, GenerateKustomization,
                WriteFailure, Exit, disk
  <2>2. \A i : Owed(i)' = Owed(i) /\ Comments(i)' = Comments(i)
    BY <2>1 DEF Owed, Comments
  <2> QED BY <2>1, <2>2 DEF ReportInv, Succeeded
<1>5. CASE UNCHANGED vars
  <2>1. /\ UNCHANGED <<input, args, pc, idx, warned, printed, result, instances>>
    BY <1>5 DEF vars, run, disk
  <2>2. \A i : Owed(i)' = Owed(i) /\ Comments(i)' = Comments(i)
    BY <2>1 DEF Owed, Comments
  <2> QED BY <2>1, <2>2 DEF ReportInv, Succeeded, Written
<1> QED BY <1>1, <1>2, <1>3, <1>4, <1>5 DEF Next

(* Nothing the converter looks for is dropped in silence, for any number   *)
(* of clusters, with or without -w, also when clusters share a name.       *)
THEOREM LossAlwaysReported == Spec => []LossReported
<1> DEFINE IInv == TypeOK /\ RunInv /\ ReportInv
<1>1. Init => ReportInv
  BY DEF Init, ReportInv, Succeeded
<1>2. IInv => LossReported
  <2> SUFFICES ASSUME IInv, pc \in {"collect", "write"} \/ Succeeded,
                      NEW i \in DOMAIN input.clusters
               PROVE  Lost(input.clusters[i]) \cup LostOfSpec(input)
                        \subseteq (printed \cup Comments(i))
    BY DEF LossReported, Comments
  <2>1. input \in SiteConfigs
    <3>1. CASE pc \in {"collect", "write"}
      BY <3>1 DEF RunInv
    <3>2. CASE Succeeded
      <4>1. NoInput.clusters = <<>>
        BY DEF NoInput
      <4> QED BY <3>2, <4>1 DEF Succeeded, TypeOK
    <3> QED BY <3>1, <3>2
  <2>2. Owed(i) \subseteq (printed \cup Comments(i))
    BY DEF ReportInv
  <2> QED BY <2>1, <2>2, LostIsOwed
<1> QED BY <1>1, <1>2, TypeInit, TypeNext, ReportNext, PTL DEF Spec

-----------------------------------------------------------------------------
(* The extra manifests that cluster i asks for.                            *)
Wanted(i) == GetExtraManifest(input.clusters[i])

Refused(i) == GetExtraManifestFails(input.clusters[i])

(* They are in the directory, as that cluster needs them.                  *)
Stored(i) ==
  \A f \in DOMAIN Wanted(i) : f \in DOMAIN manifests /\ manifests[f] = Wanted(i)[f]

(* The inductive part behind LastClusterComplete: while the manifests of a *)
(* cluster are written each of them is still pending or already in the     *)
(* directory, in whatever order, and in between the ones of the cluster    *)
(* before are; nothing is written between the last of them and the         *)
(* snippet.                                                                *)
OutputInv ==
  /\ pc = "write" =>
       /\ ~ Refused(idx)
       /\ DOMAIN pending \subseteq DOMAIN Wanted(idx)
       /\ \A f \in DOMAIN pending : pending[f] = Wanted(idx)[f]
       /\ \A f \in DOMAIN Wanted(idx) \ DOMAIN pending :
            f \in DOMAIN manifests /\ manifests[f] = Wanted(idx)[f]
  /\ pc = "collect" =>
       \A i \in DOMAIN input.clusters :
         idx = i + 1 => Stored(i) /\ ~ Refused(i)
  /\ Succeeded =>
       /\ Stored(Len(input.clusters))
       /\ ~ Refused(Len(input.clusters))
       /\ snippet.files = DOMAIN manifests \cap YamlFiles

(* And the one behind SnippetExact: in the first run, with one cluster,    *)
(* nothing but what it wants is ever in the directory.                     *)
FirstRunInv ==
  /\ runs = 0 => pc = "idle" /\ result = "none" /\ DOMAIN manifests = {}
  /\ (runs = 1 /\ Len(input.clusters) = 1) =>
       /\ pc = "convert" \/ (pc = "collect" /\ idx = 1) => DOMAIN manifests = {}
       /\ pc = "write" \/ (pc = "collect" /\ idx # 1) \/ Succeeded =>
            DOMAIN manifests \subseteq DOMAIN Wanted(1)

LEMMA WantedKept ==
  ASSUME UNCHANGED input
  PROVE  \A i : Wanted(i)' = Wanted(i) /\ Refused(i)' = Refused(i)
BY DEF Wanted, Refused

LEMMA OutputNext == TypeOK /\ RunInv /\ OutputInv /\ [Next]_vars => OutputInv'
<1> SUFFICES ASSUME TypeOK, RunInv, OutputInv, [Next]_vars PROVE OutputInv'
  OBVIOUS
<1>0. /\ Len(input.clusters) \in Nat
      /\ DOMAIN input.clusters = 1 .. Len(input.clusters)
      /\ idx \in 1 .. (Len(input.clusters) + 1)
  BY InputClusters DEF TypeOK
<1>1. CASE Start
  <2>1. \/ pc' = "idle" /\ result' = "failed"
        \/ pc' = "convert" /\ result' = "none"
    BY <1>1 DEF Start, Exit
  <2> QED BY <2>1 DEF OutputInv, Succeeded
<1>2. CASE ConvertCluster
  <2>1. pc' = "convert" /\ result' = "none"
    BY <1>2 DEF ConvertCluster, RunInv
  <2> QED BY <2>1 DEF OutputInv, Succeeded
<1>3. CASE EndConversion
  <2>1. /\ idx' = 1 /\ UNCHANGED input
        /\ \/ input.clusters = <<>> /\ pc' = "idle"
           \/ pc' = "collect" /\ result' = "none"
    BY <1>3 DEF EndConversion, Exit, RunInv
  <2>2. \A i \in DOMAIN input.clusters : idx' # i + 1
    BY <1>0, <2>1
  <2> QED BY <2>1, <2>2 DEF OutputInv, Succeeded
<1>4. CASE CollectManifests
  <2>1. /\ UNCHANGED <<input, idx>>
        /\ \/ pc' = "idle" /\ result' = "failed"
           \/ /\ pc' = "write" /\ result' = "none" /\ ~ Refused(idx)
              /\ pending' = Wanted(idx)
    BY <1>4 DEF CollectManifests, Exit, Wanted, Refused, RunInv
  <2> QED BY <2>1, WantedKept DEF OutputInv, Succeeded
<1>5. CASE WriteManifest
  <2>1. PICK f \in DOMAIN pending :
          /\ manifests' = Put(manifests, f, pending[f])
          /\ pending' = Restrict(pending, DOMAIN pending \ {f})
    BY <1>5 DEF WriteManifest
  <2>2. /\ pc = "write" /\ pc' = "write" /\ result' = "none"
        /\ UNCHANGED <<input, idx>>
    BY <1>5 DEF WriteManifest, RunInv
  <2>3. /\ DOMAIN pending' = DOMAIN pending \ {f}
        /\ \A g \in DOMAIN pending' : pending'[g] = pending[g]
    BY <2>1 DEF Restrict
  <2>4. /\ f \in DOMAIN manifests' /\ manifests'[f] = pending[f]
        /\ \A g \in DOMAIN manifests : /\ g \in DOMAIN manifests'
                                       /\ g # f => manifests'[g] = manifests[g]
    BY <2>1 DEF Put
  <2>5. ASSUME NEW g \in DOMAIN Wanted(idx) \ DOMAIN pending'
        PROVE  g \in DOMAIN manifests' /\ manifests'[g] = Wanted(idx)[g]
    <3>1. CASE g = f
      BY <2>2, <2>4, <3>1 DEF OutputInv
    <3>2. CASE g # f
      BY <2>2, <2>3, <2>4, <3>2 DEF OutputInv
    <3> QED BY <3>1, <3>2
  <2> QED BY <2>2, <2>3, <2>5, WantedKept DEF OutputInv, Succeeded
<1>6. CASE NextCluster
  <2>1. /\ pc = "write" /\ DOMAIN pending = {}
        /\ pc' = "collect" /\ idx' = idx + 1 /\ result' = "none"
        /\ UNCHANGED <<input, manifests>>
    BY <1>6 DEF NextCluster, RunInv, disk
  <2>2. Stored(idx) /\ ~ Refused(idx)
    BY <2>1 DEF OutputInv, Stored
  <2>3. \A i : Stored(i)' = Stored(i)
    BY <2>1, WantedKept DEF Stored
  <2>4. \A i \in DOMAIN input.clusters : idx' = i + 1 => i = idx
    BY <1>0, <2>1
  <2> QED BY <2>1, <2>2, <2>3, <2>4, WantedKept DEF OutputInv, Succeeded
<1>7. CASE GenerateKustomization
  <2>1. /\ pc = "collect" /\ idx > Len(input.clusters)
        /\ snippet'.files = DOMAIN manifests \cap YamlFiles
        /\ pc' = "idle"
        /\ UNCHANGED <<input, manifests>>
    BY <1>7 DEF GenerateKustomization, Exit
  <2>2. input.clusters # <<>> /\ input \in SiteConfigs
    BY <2>1 DEF RunInv
  <2>3. Len(input.clusters) # 0
    <3>1. input.clusters \in Seq(ToSet(input.clusters))
      BY <2>2, SiteConfigsAssumption
    <3> QED BY <2>2, <3>1
  <2>4. /\ Len(input.clusters) \in DOMAIN input.clusters
        /\ idx = Len(input.clusters) + 1
    BY <1>0, <2>1, <2>3
  <2>5. Stored(Len(input.clusters)) /\ ~ Refused(Len(input.clusters))
    BY <2>1, <2>4 DEF OutputInv
  <2>6. \A i : Stored(i)' = Stored(i)
    BY <2>1, WantedKept DEF Stored
  <2> QED BY <2>1, <2>5, <2>6, WantedKept DEF OutputInv
<1>8. CASE WriteFailure
  <2>1. pc' = "idle" /\ result' = "failed"
    BY <1>8 DEF WriteFailure, Exit
  <2> QED BY <2>1 DEF OutputInv, Succeeded
<1>9. CASE UNCHANGED vars
  <2>1. UNCHANGED <<input, pc, idx, pending, result, manifests, snippet>>
    BY <1>9 DEF vars, run, disk
  <2>2. \A i : Stored(i)' = Stored(i)
    BY <2>1, WantedKept DEF Stored
  <2> QED BY <2>1, <2>2, WantedKept DEF OutputInv, Succeeded
<1> QED BY <1>1, <1>2, <1>3, <1>4, <1>5, <1>6, <1>7, <1>8, <1>9 DEF Next

(* After any run that ends well, whatever earlier runs and clusters left   *)
(* in the directory, it holds every extra manifest of the last cluster, as *)
(* that cluster needs it, and the snippet lists the YAML files of them.    *)
THEOREM LastAlwaysComplete == Spec => []LastClusterComplete
<1> DEFINE IInv == TypeOK /\ RunInv /\ OutputInv
<1>1. Init => OutputInv
  BY DEF Init, OutputInv, Succeeded
<1>2. IInv => LastClusterComplete
  <2> SUFFICES ASSUME IInv, Succeeded PROVE LastClusterComplete
    BY DEF LastClusterComplete
  <2>1. GetExtraManifest(Last(input.clusters)) = Wanted(Len(input.clusters))
    BY DEF Wanted, Last
  <2>2. Stored(Len(input.clusters)) /\ snippet.files = DOMAIN manifests \cap YamlFiles
    BY DEF OutputInv
  <2> QED BY <2>1, <2>2 DEF LastClusterComplete, Stored
<1> QED BY <1>1, <1>2, TypeInit, TypeNext, OutputNext, PTL DEF Spec

-----------------------------------------------------------------------------
LEMMA FirstRunNext ==
  TypeOK /\ RunInv /\ OutputInv /\ FirstRunInv /\ [Next]_vars => FirstRunInv'
<1> SUFFICES ASSUME TypeOK, RunInv, OutputInv, FirstRunInv, [Next]_vars PROVE FirstRunInv'
  OBVIOUS
<1>0. /\ Len(input.clusters) \in Nat
      /\ idx \in 1 .. (Len(input.clusters) + 1)
      /\ runs \in Nat
  BY InputClusters, MaxRunsAssumption DEF TypeOK
<1>1. CASE Start
  <2>1. /\ runs' = runs + 1 /\ UNCHANGED manifests
        /\ \/ pc' = "idle" /\ result' = "failed"
           \/ pc' = "convert" /\ result' = "none"
    BY <1>1 DEF Start, Exit, disk
  <2>2. runs' # 0 /\ (runs' = 1 => runs = 0)
    BY <1>0, <2>1
  <2> QED BY <2>1, <2>2 DEF FirstRunInv, Succeeded
<1>2. CASE ConvertCluster \/ EndConversion \/ CollectManifests \/ NextCluster \/ WriteFailure
  <2>1. /\ pc # "idle" /\ UNCHANGED <<input, runs, manifests>>
        /\ result = "none" /\ input \in SiteConfigs
    BY <1>2 DEF ConvertCluster, EndConversion, CollectManifests, NextCluster, WriteFailure,
                RunInv, disk
  <2>2. runs # 0
    BY <2>1 DEF FirstRunInv
  <2>3. CASE ConvertCluster \/ WriteFailure
    <3>1. \/ pc = "convert" /\ pc' = "convert" /\ result' = "none"
          \/ pc' = "idle" /\ result' = "failed"
      BY <2>1, <2>3 DEF ConvertCluster, WriteFailure, Exit
    <3> QED BY <2>1, <2>2, <3>1 DEF FirstRunInv, Succeeded
  <2>4. CASE EndConversion
    <3>1. /\ pc = "convert"
          /\ \/ input.clusters = <<>>
             \/ pc' = "collect" /\ idx' = 1 /\ result' = "none"
      BY <2>1, <2>4 DEF EndConversion
    <3>2. input.clusters = <<>> => Len(input.clusters) # 1
      OBVIOUS
    <3> QED BY <2>1, <2>2, <3>1, <3>2 DEF FirstRunInv, Succeeded
  <2>5. CASE CollectManifests
    <3>1. /\ pc = "collect" /\ idx <= Len(input.clusters)
          /\ \/ pc' = "write" /\ result' = "none"
             \/ pc' = "idle" /\ result' = "failed"
      BY <2>1, <2>5 DEF CollectManifests, Exit
    <3>2. Len(input.clusters) = 1 => idx = 1
      BY <1>0, <3>1
    <3> QED BY <2>1, <2>2, <3>1, <3>2 DEF FirstRunInv, Succeeded
  <2>6. CASE NextCluster
    <3>1. pc = "write" /\ pc' = "collect" /\ idx' = idx + 1 /\ result' = "none"
      BY <2>1, <2>6 DEF NextCluster
    <3>2. idx' # 1
      BY <1>0, <3>1
    <3> QED BY <2>1, <2>2, <3>1, <3>2, WantedKept DEF FirstRunInv, Succeeded
  <2> QED BY <1>2, <2>3, <2>4, <2>5, <2>6
<1>3. CASE WriteManifest
  <2>1. PICK f \in DOMAIN pending : manifests' = Put(manifests, f, pending[f])
    BY <1>3 DEF WriteManifest
  <2>2. /\ pc = "write" /\ pc' = "write" /\ result' = "none"
        /\ UNCHANGED <<input, idx, runs>>
        /\ idx <= Len(input.clusters)
    BY <1>3 DEF WriteManifest, RunInv
  <2>3. runs # 0
    BY <2>2 DEF FirstRunInv
  <2>4. f \in DOMAIN Wanted(idx)
    BY <2>2 DEF OutputInv
  <2>5. DOMAIN manifests' = DOMAIN manifests \cup {f}
    BY <2>1 DEF Put
  <2>6. Len(input.clusters) = 1 => idx = 1
    BY <1>0, <2>2
  <2> QED BY <2>2, <2>3, <2>4, <2>5, <2>6, WantedKept DEF FirstRunInv, Succeeded
<1>4. CASE GenerateKustomization
  <2>1. /\ pc = "collect" /\ pc' = "idle" /\ idx > Len(input.clusters)
        /\ UNCHANGED <<input, idx, runs, manifests>>
    BY <1>4 DEF GenerateKustomization, Exit
  <2>2. runs # 0
    BY <2>1 DEF FirstRunInv
  <2>3. Len(input.clusters) = 1 => idx # 1
    BY <1>0, <2>1
  <2> QED BY <2>1, <2>2, <2>3, WantedKept DEF FirstRunInv
<1>5. CASE UNCHANGED vars
  <2>1. UNCHANGED <<input, pc, idx, result, runs, manifests>>
    BY <1>5 DEF vars, run, disk
  <2> QED BY <2>1, WantedKept DEF FirstRunInv, Succeeded
<1> QED BY <1>1, <1>2, <1>3, <1>4, <1>5 DEF Next

-----------------------------------------------------------------------------
(* Loops over sequences.  A set of numbers that is not empty has a least   *)
(* element.                                                                *)
LEMMA Least ==
  ASSUME NEW T, T \subseteq Nat, T # {}
  PROVE  \E x \in T : \A y \in Nat : y < x => y \notin T
<1> DEFINE R == {p \in Nat \X Nat : p[1] < p[2]}
<1>1. IsWellFoundedOn(R, Nat)
  BY NatLessThanWellFounded DEF OpToRel
<1>2. \A x, y \in Nat : y < x => <<y, x>> \in R
  OBVIOUS
<1> HIDE DEF R
<1>3. PICK x \in T : \A y \in T : ~ (<<y, x>> \in R)
  BY <1>1, WFMin
<1> QED BY <1>2, <1>3

(* d[i] is dataMap after the first i maps are stored.                      *)
Stores(d, n, maps) ==
  d = [i \in 0..n |-> IF i = 0 THEN NoManifests ELSE Over(maps[i], d[i - 1])]

(* The recursive definition of dataMap has a solution: by the least number *)
(* of maps for which there would be none.                                  *)
LEMMA StoresExists ==
  ASSUME NEW n \in Nat, NEW maps
  PROVE  \E d : Stores(d, n, maps)
<1> DEFINE Bad == {k \in Nat : ~ \E d : Stores(d, k, maps)}
<1> SUFFICES ASSUME Bad # {} PROVE FALSE
  OBVIOUS
<1>1. PICK m \in Bad : \A y \in Nat : y < m => y \notin Bad
  BY Least
<1>2. m # 0
  <2> DEFINE d == [i \in 0..0 |-> NoManifests]
  <2>1. d = [i \in 0..0 |-> IF i = 0 THEN NoManifests ELSE Over(maps[i], d[i - 1])]
    OBVIOUS
  <2> HIDE DEF d
  <2>2. Stores(d, 0, maps)
    BY <2>1 DEF Stores
  <2> QED BY <2>2
<1>3. m \in Nat /\ m - 1 \in Nat
  BY <1>2
<1>4. m - 1 \notin Bad
  <2> HIDE DEF Bad
  <2> QED BY <1>1, <1>3
<1>5. PICK g : Stores(g, m - 1, maps)
  BY <1>3, <1>4
<1> DEFINE d == [i \in 0..m |-> IF i = m THEN Over(maps[m], g[m - 1]) ELSE g[i]]
<1>6. ASSUME NEW i \in 0..m
      PROVE  d[i] = IF i = 0 THEN NoManifests ELSE Over(maps[i], d[i - 1])
  <2>1. i # 0 => d[i - 1] = g[i - 1]
    BY <1>3
  <2>2. CASE i = m
    <3>1. d[i] = Over(maps[m], g[m - 1])
      BY <2>2
    <3> HIDE DEF d
    <3> QED BY <1>2, <2>1, <2>2, <3>1
  <2>3. CASE i # m
    <3>1. i \in 0..(m - 1) /\ d[i] = g[i]
      BY <1>3, <2>3
    <3>2. g[i] = IF i = 0 THEN NoManifests ELSE Over(maps[i], g[i - 1])
      BY <1>5, <3>1 DEF Stores
    <3> HIDE DEF d
    <3> QED BY <2>1, <3>1, <3>2
  <2> QED BY <2>2, <2>3
<1>7. d = [i \in 0..m |-> d[i]]
  OBVIOUS
<1> HIDE DEF d
<1>8. Stores(d, m, maps)
  BY <1>6, <1>7 DEF Stores
<1> QED BY <1>8

(* The maps up to k that have a manifest named f, and the last of them.    *)
LastUpTo(maps, k, f, j) ==
  j \in 1..k /\ f \in DOMAIN maps[j] /\ \A i \in (j + 1) .. k : f \notin DOMAIN maps[i]

(* dataMap after k maps has the names of all of them, each as the last map *)
(* that has it.                                                            *)
StoredUpTo(m, k, maps) ==
  /\ DOMAIN m = UNION {DOMAIN maps[i] : i \in 1..k}
  /\ \A f \in DOMAIN m : \E j \in 1..k : LastUpTo(maps, k, f, j) /\ m[f] = maps[j][f]

LEMMA StoredStep ==
  ASSUME NEW k \in Nat, NEW maps, NEW m, StoredUpTo(m, k, maps)
  PROVE  StoredUpTo(Over(maps[k + 1], m), k + 1, maps)
<1> DEFINE x == maps[k + 1]
           r == Over(x, m)
<1>1. /\ DOMAIN r = DOMAIN x \cup DOMAIN m
      /\ \A f \in DOMAIN r : r[f] = IF f \in DOMAIN x THEN x[f] ELSE m[f]
  BY DEF Over
<1>2. DOMAIN r = UNION {DOMAIN maps[i] : i \in 1 .. (k + 1)}
  <2>1. 1 .. (k + 1) = (1..k) \cup {k + 1}
    OBVIOUS
  <2> HIDE DEF r
  <2> QED BY <1>1, <2>1 DEF StoredUpTo
<1>3. ASSUME NEW f \in DOMAIN r
      PROVE  \E j \in 1 .. (k + 1) : LastUpTo(maps, k + 1, f, j) /\ r[f] = maps[j][f]
  <2>1. CASE f \in DOMAIN x
    <3>1. LastUpTo(maps, k + 1, f, k + 1)
      BY <2>1 DEF LastUpTo
    <3> HIDE DEF r
    <3>2. r[f] = maps[k + 1][f]
      BY <1>1, <1>3, <2>1
    <3> QED BY <3>1, <3>2 DEF LastUpTo
  <2>2. CASE f \notin DOMAIN x
    <3>1. f \in DOMAIN m /\ r[f] = m[f]
      <4> HIDE DEF r
      <4> QED BY <1>1, <1>3, <2>2
    <3>2. PICK j \in 1..k : LastUpTo(maps, k, f, j) /\ m[f] = maps[j][f]
      BY <3>1 DEF StoredUpTo
    <3>3. LastUpTo(maps, k + 1, f, j)
      BY <2>2, <3>2 DEF LastUpTo
    <3> HIDE DEF r
    <3>4. j \in 1 .. (k + 1)
      BY <3>2
    <3> QED BY <3>1, <3>2, <3>3, <3>4
  <2> QED BY <2>1, <2>2
<1> HIDE DEF r
<1>4. StoredUpTo(r, k + 1, maps)
  BY <1>2, <1>3 DEF StoredUpTo
<1> QED BY <1>4 DEF r

LEMMA AssignedIs ==
  ASSUME NEW maps, Len(maps) \in Nat
  PROVE  StoredUpTo(Assigned(maps), Len(maps), maps)
<1> DEFINE n == Len(maps)
           d == CHOOSE e : Stores(e, n, maps)
<1>1. Stores(d, n, maps)
  BY StoresExists
<1>2. Assigned(maps) = d[n]
  BY DEF Assigned, Stores
<1> HIDE DEF d
<1>3. \A k \in 0..n : d[k] = IF k = 0 THEN NoManifests ELSE Over(maps[k], d[k - 1])
  BY <1>1 DEF Stores
<1> DEFINE Bad == {k \in 0..n : ~ StoredUpTo(d[k], k, maps)}
<1>4. Bad = {}
  <2> SUFFICES ASSUME Bad # {} PROVE FALSE
    OBVIOUS
  <2>1. PICK k \in Bad : \A y \in Nat : y < k => y \notin Bad
    <3>1. Bad \subseteq Nat
      OBVIOUS
    <3> HIDE DEF Bad
    <3> QED BY <3>1, Least
  <2>2. k # 0
    <3>1. d[0] = NoManifests
      BY <1>3
    <3>2. StoredUpTo(NoManifests, 0, maps)
      BY DEF StoredUpTo, NoManifests
    <3> QED BY <3>1, <3>2
  <2>3. k \in 0..n /\ k - 1 \in Nat /\ k - 1 \in 0..n
    BY <2>2
  <2>4. k - 1 \notin Bad
    <3> HIDE DEF Bad
    <3> QED BY <2>1, <2>3
  <2>5. StoredUpTo(d[k - 1], k - 1, maps)
    BY <2>3, <2>4
  <2>6. StoredUpTo(Over(maps[(k - 1) + 1], d[k - 1]), (k - 1) + 1, maps)
    BY <2>3, <2>5, StoredStep
  <2>7. (k - 1) + 1 = k
    BY <2>3
  <2>8. d[k] = Over(maps[k], d[k - 1])
    BY <1>3, <2>2, <2>3
  <2>9. StoredUpTo(d[k], k, maps)
    <3> HIDE DEF Bad
    <3> QED BY <2>6, <2>7, <2>8
  <2> QED BY <2>9
<1>5. n \in 0..n
  OBVIOUS
<1> QED BY <1>2, <1>4, <1>5

(* What SnippetExact says of a sequence of maps is what the loop makes of  *)
(* it.                                                                     *)
LEMMA AssignedProvides ==
  ASSUME NEW maps, Len(maps) \in Nat, DOMAIN maps = 1 .. Len(maps)
  PROVE  /\ DOMAIN Assigned(maps) = Provided(maps)
         /\ \A f \in Provided(maps) : Assigned(maps)[f] = LastProvided(maps, f)
<1> DEFINE n == Len(maps)
           m == Assigned(maps)
<1>1. StoredUpTo(m, n, maps)
  BY AssignedIs
<1> HIDE DEF m
<1>2. DOMAIN m = Provided(maps)
  BY <1>1 DEF StoredUpTo, Provided
<1>3. ASSUME NEW f \in Provided(maps) PROVE m[f] = LastProvided(maps, f)
  <2> DEFINE P == {i \in DOMAIN maps : f \in DOMAIN maps[i]}
  <2>1. PICK j \in 1..n : LastUpTo(maps, n, f, j) /\ m[f] = maps[j][f]
    BY <1>1, <1>2 DEF StoredUpTo
  <2>2. j \in P /\ \A y \in P : j >= y
    BY <2>1 DEF LastUpTo
  <2>3. \A x \in P : (\A y \in P : x >= y) => x = j
    BY <2>2
  <2>4. Max(P) = j
    <3> HIDE DEF P
    <3> QED BY <2>2, <2>3 DEF Max
  <2> QED BY <2>1, <2>4 DEF LastProvided
<1> QED BY <1>2, <1>3 DEF m

(* A function on 1..n is as long as n.                                     *)
LEMMA FunctionLength ==
  ASSUME NEW n \in Nat, NEW s, s = [i \in 1..n |-> s[i]]
  PROVE  Len(s) = n /\ DOMAIN s = 1..n
<1> DEFINE S == {s[i] : i \in 1..n}
<1>1. s \in [1..n -> S]
  OBVIOUS
<1> HIDE DEF S
<1>2. s \in Seq(S) /\ DOMAIN s = 1..n
  BY <1>1
<1> QED BY <1>2

(* FlattenSeq of sequences is a sequence.                                  *)
Flat(f, n, ss) == f = [i \in 1..n |-> IF i = 1 THEN ss[i] ELSE f[i - 1] \o ss[i]]

LEMMA FlatExists ==
  ASSUME NEW n \in Nat, NEW ss
  PROVE  \E f : Flat(f, n, ss)
<1> DEFINE Bad == {k \in Nat : ~ \E f : Flat(f, k, ss)}
<1> SUFFICES ASSUME Bad # {} PROVE FALSE
  OBVIOUS
<1>1. PICK m \in Bad : \A y \in Nat : y < m => y \notin Bad
  BY Least
<1>2. m # 0
  <2>1. \A f : f = [i \in 1..0 |-> 0] => Flat(f, 0, ss)
    BY DEF Flat
  <2> QED BY <2>1
<1>3. m \in Nat /\ m - 1 \in Nat
  BY <1>2
<1>4. m - 1 \notin Bad
  <2> HIDE DEF Bad
  <2> QED BY <1>1, <1>3
<1>5. PICK g : Flat(g, m - 1, ss)
  BY <1>3, <1>4
<1> DEFINE f == [i \in 1..m |-> IF i = m THEN (IF m = 1 THEN ss[m] ELSE g[m - 1] \o ss[m]) ELSE g[i]]
<1>6. ASSUME NEW i \in 1..m
      PROVE  f[i] = IF i = 1 THEN ss[i] ELSE f[i - 1] \o ss[i]
  <2>1. i # 1 => i - 1 \in 1..m /\ i - 1 # m
    BY <1>3
  <2>2. i # 1 => f[i - 1] = g[i - 1]
    BY <2>1
  <2>3. CASE i = m
    <3>1. f[i] = IF m = 1 THEN ss[m] ELSE g[m - 1] \o ss[m]
      BY <2>3
    <3> HIDE DEF f
    <3> QED BY <2>2, <2>3, <3>1
  <2>4. CASE i # m
    <3>1. i \in 1..(m - 1) /\ f[i] = g[i]
      BY <1>3, <2>4
    <3>2. g[i] = IF i = 1 THEN ss[i] ELSE g[i - 1] \o ss[i]
      BY <1>5, <3>1 DEF Flat
    <3> HIDE DEF f
    <3> QED BY <2>2, <3>1, <3>2
  <2> QED BY <2>3, <2>4
<1>7. f = [i \in 1..m |-> f[i]]
  OBVIOUS
<1> HIDE DEF f
<1>8. Flat(f, m, ss)
  BY <1>6, <1>7 DEF Flat
<1> QED BY <1>8

LEMMA FlattenIsSeq ==
  ASSUME NEW S, NEW ss, Len(ss) \in Nat, Len(ss) = 0 => ss = <<>>,
         \A i \in 1 .. Len(ss) : ss[i] \in Seq(S)
  PROVE  FlattenSeq(ss) \in Seq(S)
<1> DEFINE n == Len(ss)
           f == CHOOSE g : Flat(g, n, ss)
<1>1. CASE n = 0
  <2>1. FlattenSeq(ss) = <<>>
    BY <1>1 DEF FlattenSeq
  <2> QED BY <2>1
<1>2. CASE n # 0
  <2>1. Flat(f, n, ss)
    BY FlatExists
  <2>2. FlattenSeq(ss) = f[n]
    BY <1>2 DEF FlattenSeq, Flat
  <2> HIDE DEF f
  <2>3. \A k \in 1..n : f[k] = IF k = 1 THEN ss[k] ELSE f[k - 1] \o ss[k]
    BY <2>1 DEF Flat
  <2> DEFINE Bad == {k \in 1..n : f[k] \notin Seq(S)}
  <2>4. Bad = {}
    <3> SUFFICES ASSUME Bad # {} PROVE FALSE
      OBVIOUS
    <3>1. Bad \subseteq Nat
      OBVIOUS
    <3>2. PICK k \in Bad : \A y \in Nat : y < k => y \notin Bad
      <4> HIDE DEF Bad
      <4> QED BY <3>1, Least
    <3>3. k \in 1..n /\ f[k] \notin Seq(S)
      OBVIOUS
    <3>4. k # 1
      BY <2>3, <3>3
    <3>5. k - 1 \in 1..n /\ k - 1 \in Nat /\ k - 1 < k
      BY <3>3, <3>4
    <3>6. k - 1 \notin Bad
      <4> HIDE DEF Bad
      <4> QED BY <3>2, <3>5
    <3>7. f[k - 1] \in Seq(S) /\ ss[k] \in Seq(S)
      BY <3>3, <3>5, <3>6
    <3>8. f[k] = f[k - 1] \o ss[k]
      <4> HIDE DEF Bad
      <4> QED BY <2>3, <3>3, <3>4
    <3>9. f[k - 1] \o ss[k] \in Seq(S)
      <4> HIDE DEF Bad
      <4> QED BY <3>7
    <3> HIDE DEF Bad
    <3> QED BY <3>3, <3>8, <3>9
  <2>5. n \in 1..n
    BY <1>2
  <2> QED BY <2>2, <2>4, <2>5
<1> QED BY <1>1, <1>2

-----------------------------------------------------------------------------
(* The entries of directories that are there are a sequence.               *)
LEMMA EntriesAreSeq ==
  ASSUME NEW paths, paths \in Seq(ToSet(paths)), ToSet(paths) \subseteq DOMAIN Directories
  PROVE  Len(Entries(paths)) \in Nat /\ DOMAIN Entries(paths) = 1 .. Len(Entries(paths))
<1> DEFINE ss == [i \in DOMAIN paths |-> Directories[paths[i]]]
           S == UNION {ToSet(Directories[d]) : d \in DOMAIN Directories}
           n == Len(paths)
<1>1. n \in Nat /\ DOMAIN paths = 1..n
  OBVIOUS
<1>2. ss = [i \in 1..n |-> ss[i]]
  BY <1>1
<1>3. Len(ss) = n
  <2> HIDE DEF ss
  <2> QED BY <1>1, <1>2, FunctionLength
<1>4. ASSUME NEW i \in 1..n PROVE ss[i] \in Seq(S)
  <2>1. paths[i] \in DOMAIN Directories /\ ss[i] = Directories[paths[i]]
    BY <1>1 DEF ToSet
  <2> DEFINE d == Directories[paths[i]]
  <2>2. d \in Seq(ToSet(d)) /\ ToSet(d) \subseteq S
    BY <2>1, DirectoriesAssumption
  <2> HIDE DEF d, S
  <2>3. d \in Seq(S)
    BY <2>2
  <2> QED BY <2>1, <2>3 DEF d
<1>5. Len(ss) = 0 => ss = <<>>
  <2>1. n = 0 => \A i \in 1..n : FALSE
    OBVIOUS
  <2> QED BY <1>1, <1>3, <2>1
<1> HIDE DEF ss, S, n
<1>6. FlattenSeq(ss) \in Seq(S)
  BY <1>1, <1>3, <1>4, <1>5, FlattenIsSeq
<1>7. Entries(paths) = FlattenSeq(ss)
  BY DEF Entries, ss
<1> QED BY <1>6, <1>7

(* What SnippetExact says of the directory, of any map of manifests.       *)
ProvidedNames(c) ==
  Provided(WorkloadMaps(c, PredefinedPaths(c)))
    \cup Provided(FileMaps(c, PredefinedPaths(c)))
    \cup Provided(UserMaps(c))

ProvidedManifest(c, f) ==
  LET W == WorkloadMaps(c, PredefinedPaths(c))
      E == FileMaps(c, PredefinedPaths(c))
      U == UserMaps(c)
  IN  CASE f \in Provided(W)                -> LastProvided(W, f)
        [] f \in Provided(E) \ Provided(W)  -> LastProvided(E, f)
        [] OTHER                            -> LastProvided(U, f)

(* The pre-defined manifests: what the loops over files and workload       *)
(* directories leave in dataMap.                                           *)
LEMMA PredefinedIs ==
  ASSUME NEW sc \in SiteConfigs, NEW k \in DOMAIN sc.clusters,
         ~ GetExtraManifestFails(sc.clusters[k])
  PROVE  LET c == sc.clusters[k]
             W == WorkloadMaps(c, PredefinedPaths(c))
             E == FileMaps(c, PredefinedPaths(c))
         IN  /\ DOMAIN Predefined(c) = Provided(W) \cup Provided(E)
             /\ \A f \in DOMAIN Predefined(c) :
                  Predefined(c)[f] = IF f \in Provided(W) THEN LastProvided(W, f)
                                                          ELSE LastProvided(E, f)
<1> DEFINE c == sc.clusters[k]
           paths == PredefinedPaths(c)
           es == Entries(paths)
           W == WorkloadMaps(c, paths)
           E == FileMaps(c, paths)
<1>1. ~ GetExtraManifestMapsFails(c, paths)
  BY DEF GetExtraManifestFails
<1>2. \A i \in DOMAIN paths : paths[i] \in DOMAIN Directories
  <2> HIDE DEF paths
  <2> QED BY <1>1 DEF GetExtraManifestMapsFails
<1>3. paths \in Seq(ToSet(paths))
  <2>1. CASE c.searchPaths # Nil
    <3>1. paths = c.searchPaths
      BY <2>1 DEF PredefinedPaths
    <3>2. c.searchPaths \in Seq(ToSet(c.searchPaths))
      BY <2>1, SiteConfigsAssumption
    <3> HIDE DEF paths
    <3> QED BY <3>1, <3>2
  <2>2. CASE c.searchPaths = Nil
    <3>1. paths = <<DefaultDir>> \/ paths = <<>>
      BY <2>2 DEF PredefinedPaths
    <3> HIDE DEF paths
    <3>2. CASE paths = <<>>
      BY <3>2
    <3>3. CASE paths = <<DefaultDir>>
      <4>1. DefaultDir \in ToSet(paths)
        BY <3>3 DEF ToSet
      <4>2. <<DefaultDir>> \in Seq(ToSet(paths))
        BY <4>1
      <4> QED BY <3>3, <4>2
    <3> QED BY <3>1, <3>2, <3>3
  <2> QED BY <2>1, <2>2
<1>4. ToSet(paths) \subseteq DOMAIN Directories
  <2> HIDE DEF paths
  <2> QED BY <1>2 DEF ToSet
<1> HIDE DEF c, paths
<1>5. Len(es) \in Nat /\ DOMAIN es = 1 .. Len(es)
  BY <1>3, <1>4, EntriesAreSeq
<1>6. /\ W = [i \in 1 .. Len(es) |-> W[i]]
      /\ E = [i \in 1 .. Len(es) |-> E[i]]
  BY <1>5 DEF WorkloadMaps, FileMaps
<1> HIDE DEF es, W, E
<1>7. /\ Len(W) = Len(es) /\ DOMAIN W = 1 .. Len(es)
      /\ Len(E) = Len(es) /\ DOMAIN E = 1 .. Len(es)
  BY <1>5, <1>6, FunctionLength
<1>8. /\ DOMAIN Assigned(W) = Provided(W)
      /\ \A f \in Provided(W) : Assigned(W)[f] = LastProvided(W, f)
  BY <1>5, <1>7, AssignedProvides
<1>9. /\ DOMAIN Assigned(E) = Provided(E)
      /\ \A f \in Provided(E) : Assigned(E)[f] = LastProvided(E, f)
  BY <1>5, <1>7, AssignedProvides
<1>10. Predefined(c) = Over(Assigned(W), Assigned(E))
  BY DEF Predefined, GetExtraManifestMaps, W, E, paths
<1>11. /\ DOMAIN Predefined(c) = Provided(W) \cup Provided(E)
       /\ \A f \in DOMAIN Predefined(c) :
            Predefined(c)[f] = IF f \in Provided(W) THEN LastProvided(W, f)
                                                    ELSE LastProvided(E, f)
  BY <1>8, <1>9, <1>10 DEF Over
<1> QED BY <1>11 DEF c, W, E, paths

(* The files of extraManifestPath come on top and have other names.        *)
LEMMA WithUserIs ==
  ASSUME NEW sc \in SiteConfigs, NEW k \in DOMAIN sc.clusters,
         ~ GetExtraManifestFails(sc.clusters[k])
  PROVE  LET c == sc.clusters[k]
         IN  /\ DOMAIN WithUser(c) = ProvidedNames(c)
             /\ \A f \in DOMAIN WithUser(c) : WithUser(c)[f] = ProvidedManifest(c, f)
<1> DEFINE c == sc.clusters[k]
           W == WorkloadMaps(c, PredefinedPaths(c))
           E == FileMaps(c, PredefinedPaths(c))
           U == UserMaps(c)
           es == UserEntries(c)
<1>1. /\ DOMAIN Predefined(c) = Provided(W) \cup Provided(E)
      /\ \A f \in DOMAIN Predefined(c) :
           Predefined(c)[f] = IF f \in Provided(W) THEN LastProvided(W, f)
                                                   ELSE LastProvided(E, f)
  BY PredefinedIs
<1>2. ~ UserFails(c)
  BY DEF GetExtraManifestFails
<1> HIDE DEF c
<1>3. Len(es) \in Nat /\ DOMAIN es = 1 .. Len(es)
  <2>1. CASE HasUserPath(c)
    <3>1. c.extraManifestPath \in DOMAIN Directories
      BY <1>2, <2>1 DEF UserFails
    <3>2. es = Directories[c.extraManifestPath]
      BY <2>1 DEF UserEntries
    <3> HIDE DEF es
    <3>3. es \in Seq(ToSet(es))
      BY <3>1, <3>2, DirectoriesAssumption
    <3> QED BY <3>3
  <2>2. CASE ~ HasUserPath(c)
    <3>1. es = <<>>
      BY <2>2 DEF UserEntries
    <3> HIDE DEF es
    <3> QED BY <3>1
  <2> QED BY <2>1, <2>2
<1>4. U = [i \in 1 .. Len(es) |-> U[i]]
  BY <1>3 DEF UserMaps
<1>5. \A i \in DOMAIN es : DOMAIN U[i] = {} \/ (es[i] \in UserFiles(c) /\ DOMAIN U[i] = {es[i].name})
  <2>1. \A i \in DOMAIN es : U[i] = IF es[i] \in UserFiles(c) THEN FromFile(es[i]) ELSE NoManifests
    BY DEF UserMaps
  <2>2. DOMAIN NoManifests = {}
    BY DEF NoManifests
  <2>3. \A e : DOMAIN FromFile(e) = {} \/ DOMAIN FromFile(e) = {e.name}
    BY <2>2 DEF FromFile
  <2> HIDE DEF U, es
  <2> QED BY <2>1, <2>2, <2>3
<1>6. \A e \in UserFiles(c) : e.name \notin DOMAIN Predefined(c)
  <2>1. CASE HasUserPath(c)
    BY <1>2, <2>1 DEF UserFails
  <2>2. CASE ~ HasUserPath(c)
    <3>1. UserEntries(c) = <<>>
      BY <2>2 DEF UserEntries
    <3>2. UserFiles(c) = {}
      BY <3>1 DEF UserFiles, ToSet
    <3> QED BY <3>2
  <2> QED BY <2>1, <2>2
<1> HIDE DEF es, U, W, E
<1>7. Len(U) = Len(es) /\ DOMAIN U = 1 .. Len(es)
  BY <1>3, <1>4, FunctionLength
<1>8. /\ DOMAIN Assigned(U) = Provided(U)
      /\ \A f \in Provided(U) : Assigned(U)[f] = LastProvided(U, f)
  BY <1>3, <1>7, AssignedProvides
<1>9. \A f \in Provided(U) : f \notin DOMAIN Predefined(c)
  <2> SUFFICES ASSUME NEW f \in Provided(U) PROVE f \notin DOMAIN Predefined(c)
    OBVIOUS
  <2>1. PICK i \in DOMAIN U : f \in DOMAIN U[i]
    BY DEF Provided
  <2>2. es[i] \in UserFiles(c) /\ f = es[i].name
    BY <1>3, <1>5, <1>7, <2>1
  <2> QED BY <1>6, <2>2
<1>10. WithUser(c) = Over(Assigned(U), Predefined(c))
  BY DEF WithUser, U
<1>11. /\ DOMAIN WithUser(c) = Provided(U) \cup DOMAIN Predefined(c)
       /\ \A f \in DOMAIN WithUser(c) :
            WithUser(c)[f] = IF f \in Provided(U) THEN LastProvided(U, f) ELSE Predefined(c)[f]
  BY <1>8, <1>10 DEF Over
<1>12. DOMAIN WithUser(c) = ProvidedNames(c)
  BY <1>1, <1>11 DEF ProvidedNames, U, W, E
<1>13. ASSUME NEW f \in DOMAIN WithUser(c) PROVE WithUser(c)[f] = ProvidedManifest(c, f)
  <2>1. ProvidedManifest(c, f) =
          CASE f \in Provided(W)               -> LastProvided(W, f)
            [] f \in Provided(E) \ Provided(W) -> LastProvided(E, f)
            [] OTHER                           -> LastProvided(U, f)
    BY DEF ProvidedManifest, W, E, U
  <2>2. CASE f \in Provided(U)
    <3>1. f \notin Provided(W) /\ f \notin Provided(E)
      BY <1>1, <1>9, <2>2
    <3> QED BY <1>11, <2>1, <2>2, <3>1
  <2>3. CASE f \notin Provided(U)
    BY <1>1, <1>11, <1>13, <2>1, <2>3
  <2> QED BY <2>2, <2>3
<1> QED BY <1>12, <1>13 DEF c

(* The filter keeps some of the names and changes no manifest.             *)
LEMMA FilterIs ==
  ASSUME NEW m, NEW filter, ~ FilterFails(m, filter)
  PROVE  LET r == FilterExtraManifests(m, filter)
         IN  /\ DOMAIN r = {f \in DOMAIN m : Kept(filter, f)}
             /\ \A f \in DOMAIN r : r[f] = m[f]
<1> DEFINE r == FilterExtraManifests(m, filter)
<1>1. CASE filter = Nil
  BY <1>1 DEF FilterExtraManifests, Kept
<1>2. CASE filter # Nil /\ filter.inclusionDefault = "exclude"
  <2>1. ToSet(filter.include) \subseteq DOMAIN m
    BY <1>2 DEF FilterFails
  <2>2. r = Restrict(m, ToSet(filter.include))
    BY <1>2 DEF FilterExtraManifests
  <2>3. \A f : Kept(filter, f) <=> f \in ToSet(filter.include)
    BY <1>2 DEF Kept
  <2> HIDE DEF r
  <2> QED BY <2>1, <2>2, <2>3 DEF Restrict, r
<1>3. CASE filter # Nil /\ filter.inclusionDefault # "exclude"
  <2>2. r = Restrict(m, DOMAIN m \ ToSet(filter.exclude))
    BY <1>3 DEF FilterExtraManifests
  <2>3. \A f : Kept(filter, f) <=> f \notin ToSet(filter.exclude)
    BY <1>3 DEF Kept
  <2> HIDE DEF r
  <2> QED BY <2>2, <2>3 DEF Restrict, r
<1> QED BY <1>1, <1>2, <1>3

(* Into a new directory the converter writes, for a single cluster, the    *)
(* files that its paths provide and its filter keeps, no other, each from  *)
(* where the code promises it: for all directories, paths and filters.     *)
THEOREM SnippetAlwaysExact == Spec => []SnippetExact
<1> DEFINE IInv == TypeOK /\ RunInv /\ OutputInv /\ FirstRunInv
<1>1. Init => OutputInv /\ FirstRunInv
  <2>1. DOMAIN NoManifests = {}
    BY DEF NoManifests
  <2> QED BY <2>1 DEF Init, OutputInv, FirstRunInv, Succeeded
<1>2. IInv => SnippetExact
  <2> SUFFICES ASSUME IInv, Succeeded, runs = 1, Len(input.clusters) = 1 PROVE SnippetExact
    BY DEF SnippetExact
  <2> DEFINE c == input.clusters[1]
             Names == {f \in ProvidedNames(c) : Kept(c.filter, f)}
  <2>1. input \in SiteConfigs /\ 1 \in DOMAIN input.clusters
    <3>1. NoInput.clusters = <<>>
      BY DEF NoInput
    <3>2. input \in SiteConfigs
      BY <3>1 DEF Succeeded, TypeOK
    <3> QED BY <3>2, InputClusters DEF TypeOK
  <2>2. Wanted(1) = GetExtraManifest(c) /\ (Refused(1) <=> GetExtraManifestFails(c))
    BY DEF Wanted, Refused
  <2>3. Stored(1) /\ ~ Refused(1) /\ snippet.files = DOMAIN manifests \cap YamlFiles
    BY DEF OutputInv
  <2>4. DOMAIN manifests \subseteq DOMAIN Wanted(1)
    BY DEF FirstRunInv
  <2>5. /\ DOMAIN WithUser(c) = ProvidedNames(c)
        /\ \A f \in DOMAIN WithUser(c) : WithUser(c)[f] = ProvidedManifest(c, f)
    BY <2>1, <2>2, <2>3, WithUserIs
  <2>6. ~ FilterFails(WithUser(c), c.filter)
    BY <2>2, <2>3 DEF GetExtraManifestFails
  <2>7. /\ DOMAIN GetExtraManifest(c) = {f \in DOMAIN WithUser(c) : Kept(c.filter, f)}
        /\ \A f \in DOMAIN GetExtraManifest(c) : GetExtraManifest(c)[f] = WithUser(c)[f]
    BY <2>6, FilterIs DEF GetExtraManifest
  <2> HIDE DEF c
  <2>8. DOMAIN manifests = Names
    BY <2>2, <2>3, <2>4, <2>5, <2>7 DEF Stored
  <2>9. \A f \in Names : manifests[f] = ProvidedManifest(c, f)
    BY <2>2, <2>3, <2>5, <2>7 DEF Stored
  <2> QED BY <2>3, <2>8, <2>9 DEF SnippetExact, c, ProvidedNames, ProvidedManifest
<1> QED BY <1>1, <1>2, TypeInit, TypeNext, OutputNext, FirstRunNext, PTL DEF Spec
=============================================================================
