# A TLA+ model of cnf-features-deploy

This directory holds TLA+ modules that model parts of `cnf-features-deploy`, the
TLC configurations that model-check them on small instances, and theorems about
them that TLAPS checks. Paths below are relative to the repository (`src/` in
`PROJECT.json`). `PROJECT.json` maps every definition to the source lines that it
stands for, and lists the runs, the mutated definitions that show that each
property can fail, the hazards, the findings and the theorems.

To run it: `tlc -config <Run>.cfg <MC module>` for a run, `tlapm <Module>Proofs.tla`
for the proofs of a module.

## 1. Inventory

The repository has three programs of its own with state and logic, end-to-end test
suites that act on a live OpenShift cluster, with their helpers, and a large amount
of configuration.

| Part | State it keeps | Operations | Interacts with |
|---|---|---|---|
| **policygenerator** `ztp/policygenerator/policyGen` (`PolicyBuilder.Build`, `policyHelper`, `utils/filesHandler.go`) | the map of policies being built, the list of binding subjects, the output map | read a source file, create a policy, append to a policy, emit a plain CR, create placement rule and binding | the driver, which reads PolicyGenTemplates and writes the map to files; ACM, which consumes the policies |
| policygenerator driver `policyGenerator.go` | the output directory | one Build per template, in sequence; `log.Fatalf` on the first error | Build, the kustomize plugin |
| **siteconfig-converter** `ztp/tools/siteconfig-converter` | the output directory (ClusterInstances, `extra-manifests/`, the kustomization snippet), the collector of warnings | read a SiteConfig, warn, convert each cluster, collect, filter and write extra manifests, write the snippet | the manifest directories of the ZTP container and of the user; the siteconfig operator, which consumes the output |
| **pgt2acmpg** `ztp/tools/pgt2acmpg` | the output directory: copied source CRs, ACM templates, placements, `ns.yaml`, the kustomization | copy and render source CRs, convert each PolicyGenTemplate, inject merge keys, extend `ns.yaml` | shares its input with policygenerator; kustomize and ACM consume its output, which should mean the same |
| policy-object-template-diff | none | compare the object templates of two policies | - |
| **machineconfigpool** helpers `cnf-tests/testsuites/pkg/machineconfigpool`, with the role labels of `pkg/nodes` | the cluster: KubeletConfig, pools, role labels; in memory: the node's previous role | apply a KubeletConfig to a node through a pool of its own, revert, wait for pools | runs concurrently with the Machine Config Operator (MCO), over an API whose calls may fail |
| **performanceprofile** helpers `pkg/performanceprofile` | `OriginalPerformanceProfile`, the page size | validate, override, restore, discover | MCO, node tuning operator, the dpdk suite |
| **execute.BeforeAll** `pkg/execute/ginkgo.go` | one flag per BeforeAll | run a function before the first spec of its container | ginkgo, every suite |
| **multinetworkpolicy suite** `e2esuite/multinetworkpolicy` | nine pod variables, the two enabled flags; the cluster | set up pods on an SR-IOV network, create policies, poll reachability, print the connectivity matrix | API server, SR-IOV operator, the policy daemon of the node |
| **dpdk suite** `e2esuite/dpdk` | `dpdkWorkloadPod`, the discovered resources, the SELinux flag, attachments; the cluster | set up profile, SR-IOV policies, networks and pods for each context, run testpmd, restore | performanceprofile, discovery, sriov helpers, SELinux on a node |
| namespaces, pods, networks, sriov, discovery, features helpers | cluster objects | create, delete, wait until stable, look for usable resources | API server and operators; modelled as far as the two suites use them |
| images, client | none that changes | queries | - |
| junit-merger, j2html | none | format reports | - |
| the other e2e, the validation and configuration suites | the cluster | test scripts | all the helpers |
| `hack/` scripts (feature-deploy, feature-wait, run-functests) | retry counters | apply features, wait, run the suites | `oc` |
| feature-configs, source-crs, `.tekton`, tools, vendored and generated code | - | configuration and third-party code | - |

What is hard in the parts in bold, and what makes them correct:

* *policygenerator*. One template is processed entry by entry, and what an entry
  may do depends on the policy that the entries before it built: the first CR that
  declares a deploy wave fixes the policy's wave, a second entry may or may not
  change remediation action and evaluation intervals, an empty file makes a policy
  nobody can append to. The order of the entries is the user's, and the tests try a
  few orders. Correct means: the wave is that of the CRs, no CR is lost or moved,
  the settings agree whatever the order, names fit into ACM's limit, and every
  policy is bound.
* *machineconfigpool*. Two actors: the suite moves a node between pools with
  separate API calls, the MCO renders, syncs and reboots at its own pace, and the
  suite sees only pool conditions that are as old as the last sync. Calls fail, or
  take effect without an answer; waits time out; a node can get stuck. Correct
  means: success of `ApplyKubeletConfigToNode` means that the node runs the
  rendered configuration, it is never in two custom pools, it is never rebooted
  for a configuration that it does not keep, and every call returns.
* *siteconfig-converter*. One directory receives the manifests of several clusters
  and of several runs, a run may fail between any two writes, and names can collide
  between pre-defined files, rendered templates and user files. Correct means: the
  snippet lists only files that exist, a successful run leaves what the last
  cluster asked for, and a setting that the tool cannot convert is reported.
* *pgt2acmpg*. Templates of one directory share their copied source CRs, which every
  one of them renders in place, for its own machine config pool; the copies of an
  earlier run are kept; lists are patched by position in a PolicyGenTemplate and by
  key in kustomize; whether a line belongs to a key is decided from indentation.
  Correct means: the converted template selects the same clusters, deploys the same
  CRs in the same wave, no line is lost that is not a placeholder, and an exit code
  of 0 means that the output is complete.
* *BeforeAll* and the two suites. A suite is a program that is started over after
  each failure: a BeforeAll that failed half-way is run again by the next spec on
  what the first attempt left, contexts replace each other's configuration, and
  AfterEach nodes run after a setup that may not have happened. Correct means: a
  spec body runs on its own complete setup and on nothing of another spec, what an
  administrator had in the cluster comes back, and the run ends.
* *Reachability*. The policies are put in force by a daemon, later than the API
  server stores them. Correct means: a spec measures its own policies, and a daemon
  that has stopped is noticed. The connectivity matrix is filled by one goroutine
  per pair of pods through a channel; correct means that none panics or blocks and
  that the printed matrix says what the probes answered.

## 2. Modules

| Module | Role |
|---|---|
| `PolicyHelper` | operators of `policyHelper.go`: name length, intervals, binding rules, placement rule, deploy wave |
| `PolicyBuilder` | the state machine of `Build` |
| `MCPolicyBuilder` | catalogues of source files and templates; the documented conflict rule that Build does not follow |
| `PolicyBuilderProofs` | theorems about `PolicyBuilder` |
| `KubeletConfigRollout` | the suite's apply and revert with the MCO as a concurrent environment |
| `MCKubeletConfigRollout` | the order in which pools are listed |
| `KubeletConfigRolloutProofs` | theorems about `KubeletConfigRollout` |
| `ExtraManifests` | operators of `extraManifests.go`: the manifests one cluster gets |
| `SiteConfigConverter` | the state machine of `main.go` and `convert.go` over several runs |
| `MCSiteConfigConverter` | manifest directories, SiteConfigs and command lines |
| `SiteConfigConverterProofs` | theorems about `SiteConfigConverter` |
| `SourceCRLines` | the line rendering of `fileutils.go`: placeholders and the keys above them |
| `PGT2ACMPG` | the state machine of pgt2acmpg over several runs, compared with `PolicyHelper` |
| `MCPGT2ACMPG` | flags, templates and documents |
| `PGT2ACMPGProofs` | theorems about `SourceCRLines` and `PGT2ACMPG` |
| `Ginkgo` | the order in which nodes of specs run, and `execute.BeforeAll` |
| `GinkgoTree` | constructors of nodes |
| `MultiNetworkPolicy` | the policy builders, what policies mean, and the sixteen specs |
| `MultiNetworkPolicySuite` | the suite on `Ginkgo`, a failing cluster and the policy daemon |
| `MCMultiNetworkPolicySuite` | the specs that are run |
| `MultiNetworkPolicySuiteProofs` | theorems about `MultiNetworkPolicySuite` |
| `ReachabilityReport` | what the connectivity matrix promises: the abstract specification |
| `ConnectivityMatrix` | the goroutines of `makeConnectivityMatrix`; implements `ReachabilityReport` |
| `ConnectivityMatrixProofs` | its invariant and the refinement |
| `PerformanceProfile` | validation of profiles and the profile the tests create |
| `DpdkSuite` | the dpdk suite on `Ginkgo`, with override, restore and discovery |
| `MCDpdkSuite` | the clusters the suite is run on |
| `DpdkSuiteProofs` | theorems about `DpdkSuite` |

`MultiNetworkPolicySuite` and `DpdkSuite` compose `Ginkgo` (INSTANCE, with the plan
of specs as its constant) with the cluster: every operation of a suite is one step
of the runner and one step of the cluster.

Definitions whose name starts with `Mut` are faulty variants of the definition
that follows. No specification uses them; `PROJECT.json` ("mutants") names the
property that each one breaks.

### 2.1 PolicyBuilder

`pgt` is the PolicyGenTemplate, `entries` the source file entries processed so
far, `acmPolicies` the policies in Build's `policies` map, `plainCRs` the CRs
emitted without a policy, `subjects` the binding subjects, `placement` the two
placement objects, and `result` how Build ended. The entries are chosen one by one
(`\E s \in SourceFiles`), so that a run covers every list up to `MaxSourceFiles`.

| Action | Code |
|---|---|
| `RejectTemplate` | the checks before the loop |
| `SourceFileError` | a file that cannot be read or parsed, or without metadata |
| `WritePlainCR`, `PlainCRPanic` | an entry without a policy name (or `wrapInPolicy: false`); a CR without a name panics |
| `NewPolicy`, `NewPolicyError` | first entry of a policy: `createAcmPolicy` and its checks |
| `AppendToPolicy`, `AppendError` | later entry: `appendAcmPolicy`, wave, conflict checks |
| `Finish`, `FinishWithoutPolicies`, `PlacementError` | placement rule and binding at the end |

A file is a sequence of documents, a document its kind, name, namespace and wave.
A name is a sequence of its dash-separated parts, because plain CRs are keyed by
joined names and two of them can coincide. A wave that YAML reads as a number is
`NonStringWave`, for the code's type assertion drops it. Lengths are numbers,
checked against 63. The deep merge of `spec`, `data` and `status` (`setValues`) is
reduced to whether there is an overlay.

### 2.2 KubeletConfigRollout

The cluster is `kubeletConfig`, `poolExists`, `rendered` (the spec rendered for the
pool), the node's `roles`, `config` and `desired` configuration, the pools'
reported `status`, and `degraded`. The suite is `pc`, `round`, the requested `spec`,
`previousRole`, `machineCount` (of the pool object it holds), `nextPool` (of the
loop over pools) and `outcome`. `rebooted` records the reboots of one apply.

Every API call of the suite is an action of its own, so that the MCO can act
between any two. With `ApiFaults` a call may fail, and a label patch may take
effect and still return an error; a poll whose API calls fail continues or ends in
an error as the code says. `RenderKubeletConfig`, `SyncPool(p)`, `Reboot` and
`Degrade` are the MCO, which is not in the repository: they are modelled from the
conditions the suite polls. `SyncPool` is the only action that changes a pool's
reported conditions, which is why they may be stale.

The revert function for a node without a custom role patches a label with an empty
role, which the API server refuses: `RevertAddRole` fails in that case, as in the
code.

### 2.3 ExtraManifests and SiteConfigConverter

`ExtraManifests` says which manifests a cluster gets: directories of files,
templates (rendered per role) and the workload script, in search-path order, later
over earlier; user manifests that may not replace pre-defined ones; the filter. The
loops over paths and files make one map each (`FileMaps`, `WorkloadMaps`, `UserMaps`),
and `Assigned` assigns a sequence of maps one over the other, as a recursive function of
how many have been assigned. A manifest is its sequence of documents, and
`AddZTPAnnotation` keeps the first only, as the code does.

`SiteConfigConverter` has the current run (`input`, `args`, `pc`, `idx`, `pending`,
`warned`, `printed`, `result`, `runs`) and the disk (`instances`, `manifests`,
`snippet`). `Start` reads and checks, `ConvertCluster` writes one ClusterInstance,
`EndConversion` passes on to the manifests, `CollectManifests`, `WriteManifest` (one
file per step) and `NextCluster` write them, `GenerateKustomization` writes the
snippet, and `WriteFailure` ends a run at any write. The next run finds the disk as
it is.

### 2.4 PGT2ACMPG and SourceCRLines

`conf` is the command line and the templates, `crs` the reference source CRs,
`out` the copied ones per template directory, `written`, `placements`, `bindings`
(of `ns.yaml`) and `generators` the output, `exit` what the exit code tells. While a
template is converted, `todo` is the set of its policies that are still to be done, in
the order of their names, and a manifest is identified by the index of its entry in the
template's `sourceFiles`. `InputAssumption` is what the
proofs need of an input: well-typed source CRs whose merge keys are distinct, and a
pool that is not literally called `$mcp`.

| Action | Code |
|---|---|
| `AddSourceCRsInTemplateDir` | copying of source CRs; a file that is there is left as it is, a failure leaves a part |
| `ReadTemplate`, `ConvertPolicy` | reading; placement, wave and manifests of one policy |
| `RenderManifest` | `RenderMCPLines`, commenting out of placeholders, validation and `-a` patches of one manifest; a failure may leave the file for a pool as it is written first, with its placeholders |
| `WriteTemplate` | merge keys, the selector, writing of the ACM template |
| `ProcessKustomization`, `RenderPolicies` | kustomization and `ns.yaml`, whose errors are only printed; `-g` |
| `RunAgain` | the user runs the tool again, perhaps with newer source CRs |

A line of a source CR is its indentation and its kind, which is what the regular
expressions and scans of the code tell apart; a list of a CR is the sequence of its
merge keys, a patch a sequence of items with or without a key. `Kustomized`
(external) merges by key, and `PGT == INSTANCE PolicyHelper` gives the meaning the
template had before the conversion.

### 2.5 Ginkgo

A spec is the list of its BeforeEach and BeforeAll nodes with its It node at the
end, and the list of its AfterEach nodes; a node is a list of operations. `Ok`,
`Return`, `Fail` and `SkipSpec` are how an operation can end, `done` is the set of
BeforeAll nodes whose variable `first` is FALSE. The runner is the vendored ginkgo,
modelled as the suites use it: after a failure the AfterEach nodes down to the level
reached are run.

### 2.6 MultiNetworkPolicySuite

The operations are those of BeforeEach, BeforeAll, the bodies and the fixture, in
the order of the code; any call to the cluster may fail before or after it took
effect. `policies` is what the API server stores, `enforced[p]` what is in force at
a pod: `Sync(p)` brings a pod up to date, at any time or never, and `DaemonStops`
ends it. `Reaches` says which connections a set of policies admits (external, from
the API's definition). `CheckEnds` is the poll that ends an `Eventually`, including
one whose server log was read before the message arrived; `CheckTimesOut` its
failure. `Chosen`, the specs that are run, may be any sequence of the sixteen
(`ChosenAssumption`), as a ginkgo focus or another seed would give; the run has all of
them in the order of the file.

### 2.7 ConnectivityMatrix and ReachabilityReport

One producer per ordered pair (`ReturnNil`, `CanSendTraffic`, `Send`), the collector
(`Collect`, `CollectorReturns`) and the caller (`CloseData`, `ConvertToString`). The
channel is a set with a capacity, because each result is a message of its own and
the map does not depend on the order. `ReachabilityReport` knows two variables, the
answers and the report, and the same two of `ConnectivityMatrix` refine them.

### 2.8 DpdkSuite and PerformanceProfile

Seven contexts, each with its BeforeAll, BeforeEach and AfterEach nodes, then
"restoring configuration" and the fixture. `in` of an operation is the branch of
`if discovery.Enabled()` it stands in. `OverrideUntil(stage)` is
`OverridePerformanceProfile` up to any of its calls: find, save, delete, create,
wait. Policies have generated names and are therefore a sequence in which
duplicates can appear; networks have fixed names. `workload` is the context that
assigned `dpdkWorkloadPod` last, `pods` is the set of those that exist, each with the
context and the role it was created for.

`DiscoverResources` is the loop of `discovery.go` over the offers of the cluster, the
triples of profile, SR-IOV resource and node in the order in which the code lists
them; a resource may be offered on several nodes. It is a recursive function of how
many offers have been looked at. `EnvsAssumption` says that a cluster has a profile or
none under each of the two names and a sequence of such offers.

## 3. What the runs check

### Passing runs

| Run | Instance | Properties |
|---|---|---|
| `PolicyBuilder` | all lists of up to 3 entries of the catalogue, 9 templates | `TypeOK`, `WavesAgree`, `BindingCoversPolicies`, `NamesFit`, `NothingLost`, `SettingsSound`, `SettingsResolved`, `PolicyGrows` |
| `KubeletConfig` | two rounds, API faults, a node that may get stuck | `TypeOK`, `SingleCustomRole`, `AppliedMeansRolledOut`, `NeverBeforeRendered`, `SuiteReturns`, `RevertCompletes` |
| `Converter` | combinations of 3 node layouts, 10 search paths, 6 user paths and 9 filters; pairs of clusters with lost settings; a second run on the same directory, failures at any write | `TypeOK`, `SnippetFilesExist`, `LastClusterComplete`, `SnippetExact`, `LossReported` |
| `PGT2ACMPG` | two templates in one or two directories, every flag, two runs, one failing file operation; every well-formed document of up to four lines | `TypeOK`, `ManifestsRendered`, `NothingRealLost`, `ConvertedMeaning`, `OutputComplete` |
| `MultiNetworkPolicy` | all sixteen specs in order, with and without the CRD, the operator, SCTP and discovery mode, one failing call, a daemon that may stop | `SetupKept`, `BodyHasItsPods`, `SyncedMeansExpected`, `StoppedDaemonIsReported`, `CleanedUp`, `SuiteEnds` |
| `ConnectivityMatrix` | two pods, four producers, a channel for two results, any pods nil, any probes failing | `TypeOK`, `ResultsSafe`, `ImplementsReport`, `Terminates` |
| `Dpdk` | the whole suite on 20 clusters, and in discovery mode on 72, with two failing calls | `TypeOK`, `OwnConfiguration`, `PagesFit`, `FoundIsKept`, `Restored`, `DiscoversBest` |

* `WavesAgree`: a policy's deploy wave is declared by one of its CRs, and equals
  that of every CR that declares one. `PolicyGrows`: no step drops, moves or changes
  a CR of a policy, or replaces its wave.
* `NothingLost`: a policy holds exactly the CRs of its entries in template order, at
  every moment and in what Build returns (but for the two names that the placement
  objects overwrite, section 5), and the plain CR kept under a key is that of the last
  entry with that key.
  `BindingCoversPolicies`: the binding lists each policy once and nothing else.
  `NamesFit`: nothing a successful Build returns exceeds 63 characters.
* `SettingsSound`: inside a policy the remediation actions agree and all intervals
  were validated. `SettingsResolved`: a setting is the one override its entries
  give, or the template's default, whatever their order.
* `SingleCustomRole`: at most one custom role, wherever the suite stopped.
  `AppliedMeansRolledOut`: when apply returns successfully the node runs the
  rendered configuration of the test's pool. `NeverBeforeRendered`: the node is
  never configured for that pool without the kubelet config. `SuiteReturns`: every
  apply and revert returns, unless the node cannot be updated any more.
  `RevertCompletes`: the revert may return early, because it looks at the pools one
  after another and does not tell them apart, but the node does get back to its pool.
* `SnippetExact`: a fresh directory holds, and the snippet lists, exactly the manifests
  that the search paths, the user's path and the filter give, each with the content of
  the last provider of its name (`LastProvided`) and not by the code's merging; a user
  file never replaces a pre-defined one. `LossReported`: each setting that the tool
  looks for and drops is in a warning, on the console or in the cluster's file.
  `SnippetFilesExist`: the snippet on disk, of whichever run, lists only files that
  are there. `LastClusterComplete`: after a successful run the manifests of the
  last cluster are on disk as it asked for them.
* `ManifestsRendered`: whatever template or run comes later, a manifest of a written
  template exists and has the name of its own pool or of none. It has no placeholder left
  and would not change if rendered again, unless a file operation failed: the file for a
  pool is written with its placeholders first (`fileutils.go:137`) and read and written
  again without them (`:142`), so a failure in between spoils it, also for a template
  written before, until a run has converted that template again. `NothingRealLost`: a line that is no placeholder is
  commented out only if it is a key with nothing but placeholders under it.
  `ConvertedMeaning` says what the conversion keeps of the meaning that PolicyBuilder gives
  a template, and where it does not: the written patch makes through kustomize what
  PolicyBuilder made of the template's, as long as the template names no other merge keys
  and no more items (`PatchesMeanTheSame`); the selector selects, of the same clusters,
  those without any excluded label, whatever its value (`ClustersSelected`); the wave is
  that of the last CR, which is PolicyBuilder's if that CR declares one, and otherwise
  none at all (`WaveOfTheLast`). `OutputComplete`: no source file is lost or doubled, every generator
  and placement that is named exists, and an exit code of 0 means that every template
  was written.
* `SetupKept`: once BeforeAll has created its nine pods, no spec creates, deletes or
  replaces any of them, of their namespaces or of the SR-IOV objects under them, however
  it ends: `first` has to be false by then. `BodyHasItsPods`: in a spec body all nine variables point at
  running pods, on one SR-IOV policy, although the guard looks at one variable only; it
  would not if `first` were false before the function has come to its end.
  `SyncedMeansExpected`: once the daemon has caught up, each expectation of each spec
  is what the policies in the API server mean, so nothing of an earlier spec is left.
  `StoppedDaemonIsReported`: a daemon that stopped before the last spec makes a spec
  fail, unless a log was read too early. `CleanedUp`, `SuiteEnds`: a clean-up that
  passes is complete, and the run ends even if nothing is ever enforced.
* `TypeOK` of `ConnectivityMatrix` includes the bound of the channel. `ResultsSafe`: no send on a closed channel, no read of the map while it is written,
  no result lost or stored twice. `ImplementsReport`: the refinement. `Terminates`:
  the call returns.
* `OwnConfiguration`: a spec body runs on the SR-IOV policies, networks, pods and
  workload of its own context; in discovery mode, where a context neither creates policies
  nor cleans up before it starts, only what it says of the workload is claimed.
  `PagesFit`: the profile in use has the CPUs, and a pool of the size that the pods ask
  for: of 1G pages, one NUMA node holds two workload pods and the hugepages pod after the
  kernel has split the pool; of 512M pages, all of them together hold one workload pod,
  for the code does not consider the split there (section 5). In discovery mode it
  presupposes that the valid profiles agree on the size. `FoundIsKept`: the spec of the
  administrator's profile is always in the cluster or in `OriginalPerformanceProfile`, the
  SELinux boolean is reset unless the call for it fails, discovery mode changes no
  configuration. `Restored`: exactly what is there when "restoring configuration" passes.
  No SR-IOV object and no pod of the suite is left. The profiles are as found if none was
  replaced; the test profile stays if there was none of its name; and otherwise only the
  profile of that name is there, without its labels and annotations, and all others are
  gone (section 5). `DiscoversBest`: the chosen resource is the one
  that the comment of `discovery.go` promises, `dpdknic` or one of which some node has
  the most. It says this of the resource and not of the node: a second attempt at the
  BeforeAll asks for the resource of the first, and takes the first node that offers it.

Each of these properties has a mutated definition that TLC must refute under the
same configuration.

### Runs that show a disagreement

| Run | Property | What TLC finds |
|---|---|---|
| `PolicyBuilderConflict` | `RemediationConflictDetected` | entries `inform` then `enforce` of one policy are accepted when `inform` is the template's default; in the other order they are refused |
| `KubeletConfigBlocked` | `WaitsEnd` | the timeout of `WaitForMCPUpdated` is 30 minutes times a machine count of 0, which the polling library takes as no timeout: with a stuck node apply never returns |
| `KubeletConfigRebootTwice` | `RebootedOnlyOnce` | a node that had a custom role passes through the worker pool and can be rebooted there first |
| `ConverterNamespace` | `ConfigMapForEveryInstance` | the ConfigMap is generated in the first cluster's namespace only |
| `PlaceholderParent` | `NothingRealLost` | a key whose list is written flush with it is commented out although the list has real items after the placeholder |

The lines of the repository that each contradicts are quoted in `PROJECT.json`
("findings").

### Bounds

* `MaxSourceFiles = 3`. Every check in Build compares one entry with one policy's
  accumulated state. Two entries give every pair of create and append, the third
  shows that what an append left behind is seen by the next append. The theorems
  remove the bound for the properties that are proved.
* `PolicyBuilder` template names have lengths 20, 47 and 48: at 47 the binding's
  name has exactly 63 characters.
* `MaxRounds = 2`: the second round starts from whatever the first left, including
  a failed one. One node, one custom pool and the worker pool: the code handles one
  node, and pools it does not touch only appear in the two loops over all pools.
* Converter: `MaxRuns = 2` and two clusters, for a stale file needs one earlier run or
  cluster. `Reruns` are the SiteConfigs a second run may be given.
* PGT2ACMPG: `MaxRuns = 2`, for a stale copy needs one earlier run, and
  `MaxFaults = 1`. Documents have up to four lines and three levels of indentation: a
  key, a placeholder, a sibling before or after it and a line outside. Lists written
  flush with their key are the subject of `PlaceholderParent` and excluded from the
  passing run.
* MultiNetworkPolicy: `MaxFaults = 1`: a setup that fails once is tried again, and
  every further failure starts from the same kind of remains. Specs run once, in the
  order of the file.
* ConnectivityMatrix: `Capacity = 2` with four producers blocks two of them, as 81
  would with more than nine pods. The theorems remove both bounds.
* Dpdk: `MaxFaults = 2`: a failure in one context and one in the clean-up after it, or
  two failed attempts at a BeforeAll. The clusters have no profile or one at a border
  of the validation under the tests' name, with or without another, and the two sets
  of properties (SNO, SELinux, architecture, NICs) at their extremes.

`CHECK_DEADLOCK FALSE` is set in the runs of `PolicyBuilder`, `KubeletConfigRollout`
and `SiteConfigConverter`: a program that has built its output or used up its rounds
or runs has ended. The other modules end in an explicit step, so that their runs also
show that no state is a dead end.

### Fairness

`FairSpec` of `KubeletConfigRollout` has weak fairness of the suite's `Step` (a
running program takes its next step; a poll repeats), of `RenderKubeletConfig`, of
`SyncPool(p)` for each pool (operator controllers resync periodically) and of
`Reboot`. It does not assume that a new round is ever started, that API calls fail
or succeed, or that a node degrades. A node that degrades excuses `SuiteReturns` and
`RevertCompletes`, for the code waits without a limit there; that is what
`KubeletConfigBlocked` shows.

`FairSpec` of `MultiNetworkPolicySuite` has weak fairness of the suite's own steps
only: every poll has a timeout, so nothing has to be asked of the daemon.

`FairSpec` of `ConnectivityMatrix` has weak fairness of each goroutine, which the Go
scheduler gives. For a producer it also says that the remote `exec` of the probe returns:
the command is `nc` with a timeout (`-w`).

## 4. What is proved

Each theorem holds for all values of the constants that satisfy the named
assumptions: any catalogue of files and templates, any set of roles and specs, any
SiteConfigs and directories, any input of pgt2acmpg, any selection and order of the
multinetworkpolicy specs, any cluster for the dpdk suite, any number of entries,
rounds, runs and failing calls.

**`PolicyBuilderProofs`** (assumptions `InputAssumption`, `NilAssumption`,
`WaveAssumption`: the inputs are well typed and `Nil` is not a policy). `TypeCorrect`
first, then each property on top of it:

* `WavesAlwaysAgree`, `SettingsAlwaysSound`: one lemma for what `CreateAcmPolicy`
  and one for what `AppendAcmPolicy` returns; a policy changes in no other way.
* `PoliciesOnlyGrow`: the action property, from the same lemma on append.
* `NamesAlwaysFit`: needs `NamesInv`. The policy's own name is checked when the
  policy is created and the binding's at the end, so the invariant says that the
  policies made so far fit while Build is still running.
* `BindingAlwaysCovers`: needs `BindingInv`, that `subjects` lists exactly the live
  policies, each once, at every moment and not only at the end.
* `NothingEverLost`: needs `GivenInv`. `PolicyCRsKept` speaks of the policies there are;
  the invariant adds that a policy which is not there yet has been given nothing, so
  that its first entry makes it hold. What is compared is a concatenation over all
  entries so far; `FlattenAppend` says what one more entry adds to it.
* `SettingsAlwaysResolved`: a setting is the one override that its entries give, in any
  order. It is inductive with `GivenInv` and what `CreateAcmPolicy` and
  `AppendAcmPolicy` return.
* `RejectedSelectsNothing`: a rule pair that `CheckBindingRules` refuses yields a
  placement rule that selects no cluster, so nothing useful is refused.

**`KubeletConfigRolloutProofs`** (`RolloutAssumption`: the roles and `None` are
distinct, the pools are listed without omission). The inductive invariant is
`Inv == TypeOK /\ RolesInv /\ RenderedInv /\ StatusInv`:

* `RolesInv` relates `roles` to `pc` and `previousRole`: the role that will be
  removed is the one the node has, and before a role is added it has none.
* `RenderedInv`: from the end of the rendering wait on, the pool is rendered, so a
  node that joins it can only be given the rendered configuration.
* `StatusInv`: from the moment Updating was seen, a report of Updated comes from a
  sync after the node joined. `AppliedMeansRolledOut` is not inductive without it,
  because a stale Updated from before the label would satisfy the wait.

It gives `TypeCorrect`, `AlwaysSingleCustomRole`, `AlwaysRenderedFirst` and
`AppliedAlwaysRolledOut`.

**`SiteConfigConverterProofs`** (`SiteConfigsAssumption`, `ArgumentsAssumption`,
`MaxRunsAssumption`, `DirectoriesAssumption`: clusters, search paths and the files of a
directory are sequences, as in the Go slices; nothing is assumed of their contents but
the known settings). The inductive invariant is `TypeOK /\ RunInv /\ ReportInv`:

* `ListedFilesExist`: files are only added or replaced, and the snippet lists the
  directory as it was when the snippet was written.
* `LossAlwaysReported`: `ReportInv` splits the duty over the run: what is `Owed` for
  a cluster is in the collector before its file is written, and afterwards on the
  console or in the file's `Comments`.
* `LastAlwaysComplete`: needs `OutputInv`. While the manifests of a cluster are written,
  in whatever order, each is pending or already in the directory as that cluster wants
  it; the clusters after it may replace them, and after the last nothing does.
* `SnippetAlwaysExact`: `FirstRunInv` adds the other direction, that in a first run with
  one cluster nothing else gets into the directory. What remains is that `Assigned`
  yields the last provider of each name, for any number of paths and files.

**`ConnectivityMatrixProofs`** (`CapacityAssumption`; any set of pods). The inductive
invariant is `TypeOK`, `NoSendAfterClose`, `ResultIsSomewhere`, and three facts that
the refinement needs: what the caller knows by where it is (`CallerKnows`: nothing is
printed before the end, the channel is closed from the join on, the collector returns
when the closed channel is empty), and that a producer has an answer once it has
started, unless a pod is nil, and not before (`StartedIsAnswered`,
`NotStartedIsUnanswered`).

* `TypeCorrect`, `Invariance`: `TypeOK`, with the bound of the channel by its capacity, and
  `ResultsSafe`.
* `Refinement`: `Spec => ImplementsReport`. `CanSendTraffic` is the abstract `Probe`,
  `ConvertToString` is `Publish` (with a nil pod it panics and publishes nothing),
  everything else a stutter. `PrintedIsShown` says that the map, when it is printed,
  holds exactly the pairs whose probe did not fail.

**`PGT2ACMPGProofs`** (`InputAssumption`). First the rendering of lines, for every
document: it is idempotent, leaves no placeholder, and `OnlySoleChildrensParents`: if
no list is written flush with its key, then a line that is no placeholder is commented
out only if it is a key with nothing but placeholders under it. (`PlaceholderParent`
shows why the hypothesis is needed.) The inductive invariant of the program is
`Inv == ControlInv /\ FilesInv /\ ConversionInv /\ WrittenInv /\ RenderedInv`:

* `ControlInv`: where the program is, and which templates are written by then: all
  before the current one, and all of them when the exit code is 0.
* `FilesInv`: a file below `source-crs` is a version of the reference file, as it was
  copied or rendered, or the copy for a pool made from such a file, rendered or not.
* `ConversionInv`: the template being converted. Each of its policies is either
  converted or in `todo`, and the manifests before the one at hand are rendered.
* `WrittenInv`: what stays true of a written template while other templates and
  later runs change the shared files.
* `RenderedInv`: a written template is also rendered, as long as nothing failed or once the
  current run has converted it. It is a part of its own because a failure takes it away
  from templates that the failing step is not about.

It gives all five properties of the run: `TypeCorrect`, `ManifestsAlwaysRendered`,
`OutputAlwaysComplete`, `MeaningKept` (`ConvertedMeaning`, from one lemma on merge keys, one
on selectors and one on waves), and, with the hypothesis of `OnlySoleChildrensParents` for every
source CR, `RealLinesAlwaysKept`.

**`MultiNetworkPolicySuiteProofs`** (`ChosenAssumption`). The inductive invariant is
`Inv == RunInv /\ TypeInv /\ SetupInv /\ GuardInv /\ CleanInv`:

* `RunInv`: the runner is at an operation that exists.
* `SetupInv`: inside of the BeforeAll node, `SetUpTo(step)` describes what its
  operations so far have left; once it is done, `SetUpTo(23)` holds for the rest of
  the specs. `SetUpTo(1)` presupposes nothing, so an attempt after a failed one
  may start on whatever that one left, and each operation has to make its own part
  true from there.
* `GuardInv`: which skip conditions a spec has passed by the node it has reached.
* `CleanInv`: which namespaces are gone after which operations of the clean-up.

It gives `PodsInEveryBody`, `CleanupLeavesNothing` and, with the fact that all nine pod
variables are live only when the BeforeAll node is done (`LiveIsDone`), the action property
of `SetupIsKept`. With two
more invariants, `OwnPolicies` (while a body runs, the API server has exactly the
policies which that body has created so far) and `RulesInX` (a rule in force is for a
pod of namespace X), `SpecsExpectTheirOwnPolicies`: for each of the sixteen bodies,
each expectation is computed from the policies, whatever spec came before.

**`DpdkSuiteProofs`** (`FaultsAssumption`, `EnvsAssumption`). The plan of the suite is
fixed, so the first lemmas tabulate its nodes and operations. The inductive invariant is
`Inv == RunInv /\ EnvInv /\ OrigInv /\ BoolTypes /\ BoolInv /\ DiscInv /\ RestoreInv`:

* `OrigInv`: the profile under the tests' name is the one found (with or without its
  metadata), none or the test profile, and `OriginalPerformanceProfile` is nil or the one
  found. That the found one is saved before it is deleted is inductive only with this:
  otherwise a second override could save the test profile over it. If none was found, or a
  valid one, the profiles are those found, or those and the test profile.
* `BoolInv`: unless resetting it failed, the SELinux boolean is as found, or the
  suite has recorded that it changed it and is at a place where the AfterEach that
  resets it is still to come (`MayBeSet`).
* `DiscInv`: in discovery mode nothing is changed, because the branches that change
  something are not reached.
* `RestoreInv`: what the operations of "restoring configuration" have given back.

`FoundIsNeverLost` follows; `TypeCorrect` adds `TypeInv`. Three further theorems are about
discovery, page sizes and what is restored, with the invariant
`PagesInv == TopInv /\ BestInv /\ ClusterPages /\ DiscoveryPages /\ DiscoveryGate`:

* `AlwaysDiscoversBest`: `TopInv` says that the BeforeAll of the suite has come to its
  end wherever a later node runs and in every spec that passes, `BestInv` that what it discovered is best. What the loop
  returns is shown by a least counterexample over its index (`LoopFinds`).
* `PagesAlwaysFit`: from the operation of the suite's BeforeAll on that settles it, the
  profile under the tests' name is valid and `hugePageSize` is the size of its pages
  (`ClusterPages`), or, in discovery mode, the size of those of a valid profile
  (`DiscoveryPages`), and no context is reached without a discovered resource
  (`DiscoveryGate`). `ValidFits` is the arithmetic: what validation accepts is
  enough for three pods (1G) or for one (512M).
* `RestoringGivesBack`: the spec can only pass after the BeforeAll, so that a profile found
  under the tests' name is valid and untouched, or saved; or, if there was none, the test
  profile is there (`ClusterPages`, which goes on holding after the specs if nothing was
  saved).

`ConfigurationIsOwn` is the theorem about `OwnConfiguration`. It needs the progress of
the setup of each context, which is `Stage`, a number read off from where the runner is:
0 nothing is known, 1 the pods of the contexts before are gone, 2 so are their policies
and networks, 3 the context's own are there, 4 its server runs. `OwnInv` says what each
stage guarantees. It is inductive because a stage is left upwards only by the operation
that establishes the next (`Moving`, `MovesOwn`), and every other operation keeps what
the stage guarantees or is at a place whose stage is lower (`StageMoves`, `KeepsOwn`). Two
more invariants tie the stage to the BeforeAll nodes, which run once for all specs of a
context: no context is in `done` before its first spec (`IdsInv`), and past its BeforeAll
it is (`HomeInv`). A BeforeAll that failed half-way is at stage 0 again when the
next spec tries it.

### Only model-checked

* `SuiteReturns`, `RevertCompletes`, `SuiteEnds`, `Terminates`: liveness under
  fairness, which is out of the prover's reach.
* `StoppedDaemonIsReported` is about the list of all specs in the order of the file:
  with a focus on `StackedPorts` and `PortTCP` only, a daemon that stops between the
  two is not noticed (TLC, `Chosen = <<10, 11>>`), because the second passes on the
  rules of the first. It is therefore no theorem about every `Chosen`.

The induction theorems of the library take an operator as a parameter, which the
installed provers cannot instantiate. The loops of the code are therefore recursive
functions of an index, and what they compute is proved by a least counterexample, which
is first-order: if the claim fails at some index it fails at a smallest one, and one
step of the recursion refutes that (`LoopFinds` of `DiscoverResources`, the lemmas on
`Assigned`, `FlattenAppend`, the smallest element of a set in `PGT2ACMPGProofs`).

## 5. What is not modelled

* `setValues`, the overlay of user values on a source CR; copying of YAML comments
  (`-c`), `suppressedManifests` and the fields that siteconfig-converter copies as
  they are; the names pgt2acmpg gives its output when it is started on a single file.
* The pure lookups of machineconfigpool (`FindMCPByMCLabel`,
  `FindNodeSelectorByMCLabel`, `DecodeMCYaml`).
* The other e2e suites (ovs_qos, sctp, vrf, bond and so on): they are built from the
  same nodes and fixtures, and their bodies measure traffic and kernel settings that
  are outside of a model. The validation and configuration suites are single queries.
* testpmd, the parsing of its output and of interface addresses: an arbitrary outcome.
* A write that fails half-way: `os.WriteFile` truncates before it writes and the copy loop
  of pgt2acmpg writes in blocks, so an empty or shortened file may be left. In the models a
  failing write leaves the old file or the new one.
* siteconfig-converter reads its input a second time to write the snippet (`main.go:328`);
  the models read it once, that is, the file is not edited while the program runs.
* Documents of the policygenerator whose `metadata` is no mapping or whose `namespace` is no
  string: they panic like the ones without a kind or a name, which are modelled.
* The components marked `not_modelled` in `PROJECT.json`, with the reason there.

Three lines of the repository say something else than the code does, and the properties
state what the code does:

* `ztp/tools/pgt2acmpg/README.md:787-789`: "The policy wave is retrieved from the first
  manifest defined in the policy. All manifest must have the same wave number". The loop
  of `main.go:448-465` takes the wave of each manifest in turn, so that the last one's
  remains; that they are alike is checked nowhere, and a last manifest without a wave
  leaves the policy without one. `WaveOfTheLast` (of `ConvertedMeaning`) is the rule that
  the code follows.
* `cnf-tests/testsuites/e2esuite/dpdk/dpdk.go:816`: "should restore the cluster to the
  original status". `CleanPerformanceProfiles` (`performanceprofile.go:257-272`) has deleted
  every profile, only the one with the tests' name is created again, and line 296 replaces
  its metadata; a test profile created where there was none is left. `Restored` says what is
  there when the spec passes.
* `performanceprofile.go:115-116`: "if there is no Node in the performance profile we need
  10 pages because the kernel will split the number". For 512M pages the doubling is
  commented out under a TODO (`:131-134`): four pages without a node are accepted, which is
  1Gi on each of two NUMA nodes, while a workload pod asks for 2Gi (`pkg/pods/pods.go:233`).
  `PagesFit` claims no more of them than the code checks.

Other facts met on the way are behaviour of the code about which the documents say
nothing:

* *policygenerator*: a policy named `placementrules` or `placementbinding` is
  overwritten; plain CRs whose joined names coincide replace one another; a numeric
  wave counts as none.
* *machineconfigpool*: the revert of a node without a custom role fails;
  `WaitForAllMCPStable` checks pools one after another; the KubeletConfig of an
  earlier round is not updated, so the node gets the earlier spec.
* *siteconfig-converter*: a manifest with several documents keeps the first, and one
  with comments only panics; the warning that `extraManifestPath` "will be ignored" is
  wrong without search paths; `spec.crAnnotations` of a SiteConfig is lost without a
  warning; manifests excluded since an earlier run stay in the directory; clusters
  with different manifests of one name overwrite each other's.
* *pgt2acmpg*: copies of source CRs are never refreshed on a second run, and a
  half-copied file is kept; the bindings of `ns.yaml` are appended again by each run;
  an excluded label with a value becomes DoesNotExist; a policy loses its wave when its
  last CR declares none; `-a` applies patches before merge keys are injected; an error
  in the kustomization leaves an exit code of 0; `placementPath` is that of the last
  policy.
* *multinetworkpolicy*: BeforeAll sets the cluster up before the discovery-mode skip is
  reached; the error of `sriovClean.All` is dropped by the fixture; a nil pod makes
  `shortName` panic; a spec can pass on the rules the one before left in force.
* *dpdk*: a `SetDisableNodeDrainState` that took effect but returned an error is not
  recorded, so the next attempt finds draining disabled and it is never enabled again; in
  discovery
  mode the page size can be that of another valid profile than the one used; a second
  attempt at discovery prefers the resource of the first and takes the first node that
  offers it, even if another has more (`pkg/discovery/discovery.go:108`);
  `DeleteNads` panics when an attachment was not created; "Downward API" leaves pods of
  the vendors context; the discovery network has a fixed name, so a second attempt at
  BeforeAll fails on the network of the first; the operator's drain setting is given
  back only by `sriovClean.All`, which fixtures of other features call.

## 6. Plan

What is left, the most important first:

1. `PolicyGen`, the driver (`policyGenerator.go`): composes `PolicyBuilder` over
   several templates; what is on disk after a failure, templates that share an
   output key. With it an abstract specification of Build, the map from policy name
   to its CRs, which `PolicyBuilder` refines.
2. `FeatureDeploy`: the retry loops of `hack/feature-deploy.sh`,
   `hack/feature-wait.sh` and `hack/run-functests.sh`, with their limits.
3. `ObjectTemplateDiff` and `setValues` as pure algorithms, against a reference
   definition over small trees.
4. siteconfig-converter: comment copying and suppressed manifests.
5. Further suites on `Ginkgo`, sctp and ovs_qos first, for they change node
   configuration.

Theorems: every invariant of the passing runs is proved but `StoppedDaemonIsReported`,
which would need the full list of specs as a hypothesis. Worth adding: an abstract
apply/revert (node in its pool, moving, in the test's pool) that `KubeletConfigRollout`
refines.
