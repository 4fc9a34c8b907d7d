------------------------ MODULE KubeletConfigRollout ------------------------
(***************************************************************************)
(* ApplyKubeletConfigToNode and the function it returns                    *)
(* (cnf-tests/testsuites/pkg/machineconfigpool/machineconfigpool.go), as   *)
(* numa_node_sriov.go calls them: the test suite creates a KubeletConfig   *)
(* and a MachineConfigPool, moves one node to that pool by its role label, *)
(* waits for the rollout, runs its tests and moves the node back.  The     *)
(* Machine Config Operator (MCO) runs concurrently: it renders the config  *)
(* into the pool, moves the node between configurations, rebooting it, and *)
(* reports per pool whether it is updating.                                *)
(*                                                                         *)
(* Every API call of the suite may fail, before or after it took effect.   *)
(* A suite that fails stops, and may be run again on the same cluster: a   *)
(* round is one such run.  Polling sees the pool status only as the MCO    *)
(* last reported it, and a wait with a timeout may give up at any time.    *)
(***************************************************************************)
EXTENDS Naturals, Sequences

CONSTANTS
    CustomRoles,   \* roles, other than worker and the test's, with a pool of their own
    TestRole,      \* the name given to the KubeletConfig, the pool and the role
    Worker,        \* the pool of a node without a custom role
    Specs,         \* kubelet configurations a round may ask for
    None,          \* "" as a role, nil as a spec
    PoolOrder,     \* the pools in the order the API server lists them
    MaxRounds,     \* bound on the number of rounds
    ApiFaults,     \* whether API calls may fail
    MayDegrade     \* whether a rollout may get stuck for good

Pools == {Worker, TestRole} \cup CustomRoles

ASSUME RolloutAssumption ==
    /\ TestRole \notin CustomRoles /\ Worker \notin CustomRoles /\ TestRole # Worker
    /\ None \notin Pools \cup Specs
    /\ \A p \in Pools : \E i \in DOMAIN PoolOrder : PoolOrder[i] = p
    /\ MaxRounds \in Nat
    /\ {ApiFaults, MayDegrade} \subseteq BOOLEAN

VARIABLES
    \* the cluster
    kubeletConfig, \* spec of the KubeletConfig, or None
    poolExists,    \* whether the test's pool has been created
    rendered,      \* the spec in the pool's 99-<name>-generated-kubelet source
    roles,         \* the custom roles in the node's labels
    config,        \* the configuration the node runs
    desired,       \* the configuration the MCO has told it to run
    status,        \* pool -> machine count and conditions, as last reported
    degraded,      \* the node can no longer be updated
    \* the suite
    pc, round,
    spec,          \* the configuration this round asks for
    previousRole,  \* FindRoleLabel of the node before the move
    machineCount,  \* Status.MachineCount in the suite's copy of the pool
    nextPool,      \* loop index of WaitForAllMCPStable
    outcome,       \* how the last finished call ended
    rebooted       \* the configurations rebooted into since the round began

cluster == <<kubeletConfig, poolExists, rendered, roles, config, desired, status, degraded>>
suite == <<pc, round, spec, previousRole, machineCount, nextPool, outcome>>
vars == <<cluster, suite, rebooted>>

-----------------------------------------------------------------------------
(* The Machine Config Operator                                             *)

Target(pool) == [pool |-> pool, spec |-> IF pool = TestRole THEN rendered ELSE None]

(* A node with two custom roles belongs to no pool.                        *)
Members(pool) ==
    IF pool = Worker THEN roles = {} ELSE roles = {pool}

UpToDate(pool) == config = Target(pool) /\ desired = Target(pool)

Report(pool) ==
    [machines |-> IF Members(pool) THEN 1 ELSE 0,
     updating |-> Members(pool) /\ ~UpToDate(pool),
     updated  |-> Members(pool) => UpToDate(pool)]

RenderKubeletConfig ==
    /\ poolExists
    /\ kubeletConfig # rendered
    /\ rendered' = kubeletConfig
    /\ UNCHANGED <<kubeletConfig, poolExists, roles, config, desired, status, degraded>>
    /\ UNCHANGED <<suite, rebooted>>

(* One sync of the node controller: a node at rest is told the pool's      *)
(* configuration, and the pool's status is reported.                       *)
SyncPool(pool) ==
    /\ pool = TestRole => poolExists
    /\ desired' = IF Members(pool) /\ config = desired THEN Target(pool) ELSE desired
    /\ status' = [status EXCEPT ![pool] = Report(pool)]
    /\ <<desired', status'>> # <<desired, status>>
    /\ UNCHANGED <<kubeletConfig, poolExists, rendered, roles, config, degraded>>
    /\ UNCHANGED <<suite, rebooted>>

(* The node drains, reboots and comes back in the desired configuration.   *)
(* That takes minutes: by then the pool that asked for it has said so,     *)
(* unless the node has left that pool.                                     *)
Reboot ==
    /\ config # desired
    /\ ~degraded
    /\ Members(desired.pool) => status[desired.pool].updating
    /\ config' = desired
    /\ rebooted' = Append(rebooted, desired)
    /\ UNCHANGED <<kubeletConfig, poolExists, rendered, roles, desired, status, degraded>>
    /\ UNCHANGED suite

Degrade ==
    /\ MayDegrade
    /\ ~degraded
    /\ config # desired
    /\ degraded' = TRUE
    /\ UNCHANGED <<kubeletConfig, poolExists, rendered, roles, config, desired, status>>
    /\ UNCHANGED <<suite, rebooted>>

MCO == RenderKubeletConfig \/ (\E p \in Pools : SyncPool(p)) \/ Reboot \/ Degrade

-----------------------------------------------------------------------------
(* The suite                                                               *)

Init ==
    /\ kubeletConfig = None
    /\ poolExists = FALSE
    /\ rendered = None
    /\ roles \in {{}} \cup {{r} : r \in CustomRoles}
    /\ config = IF roles = {} THEN Target(Worker) ELSE Target(CHOOSE r \in roles : TRUE)
    /\ desired = config
    /\ status = [p \in Pools |-> Report(p)]
    /\ degraded = FALSE
    /\ pc = "idle"
    /\ round = 0
    /\ spec = None
    /\ previousRole = None
    /\ machineCount = 0
    /\ nextPool = 1
    /\ outcome = "none"
    /\ rebooted = <<>>

Goto(from, to) == pc = from /\ pc' = to

(* An error: Expect(err).ToNot(HaveOccurred()) ends the round, and the     *)
(* revert function returned with the error is never registered.            *)
Error(from) == Goto(from, "idle") /\ outcome' = "error"

Continue(from, to) == Goto(from, to) /\ UNCHANGED outcome

Fault(from) == ApiFaults /\ Error(from)

(* A patch of the node's role labels.                                      *)
SetLabel(from, to, newRoles) ==
    /\ \/ Continue(from, to) /\ roles' = newRoles
       \/ Fault(from) /\ roles' \in {roles, newRoles}
    /\ UNCHANGED <<kubeletConfig, poolExists, rendered, config, desired, status, degraded>>

\* Mutant: the worker role is not skipped.
MutFindRoleLabel == IF roles = {} THEN Worker ELSE CHOOSE r \in roles : TRUE

(* FindRoleLabel: any of the custom roles of the node the suite has read.  *)
FindRoleLabel == IF roles = {} THEN None ELSE CHOOSE r \in roles : TRUE

(* Only Create can happen: CreateOrUpdate is called with a mutate function *)
(* that does nothing, so an object that exists is left as it is.           *)
CreateKubeletConfig ==
    \E s \in Specs :
        /\ round < MaxRounds
        /\ pc = "idle"
        /\ round' = round + 1
        /\ spec' = s
        /\ previousRole' = FindRoleLabel
        /\ rebooted' = <<>>
        /\ LET created == IF kubeletConfig = None THEN s ELSE kubeletConfig
           IN  \/ Continue("idle", "createMCP") /\ kubeletConfig' = created
               \/ Fault("idle") /\ kubeletConfig' \in {kubeletConfig, created}
        /\ UNCHANGED <<poolExists, rendered, roles, config, desired, status, degraded,
                       machineCount, nextPool>>

CreateMCP ==
    /\ \/ Continue("createMCP", "waitRendered") /\ poolExists' = TRUE
       \/ Fault("createMCP") /\ poolExists' \in {poolExists, TRUE}
    /\ machineCount' = IF poolExists THEN status[TestRole].machines ELSE 0
    /\ UNCHANGED <<kubeletConfig, rendered, roles, config, desired, status, degraded>>
    /\ UNCHANGED <<round, spec, previousRole, nextPool, rebooted>>

(* The calls that poll or patch change nothing else of the suite.          *)
Rest == UNCHANGED <<round, spec, previousRole, machineCount, rebooted>>

\* Mutant: the node is moved without waiting for the rendered config.
MutWaitUntilKubeletConfigHasUpdatedTheMCP ==
    /\ Continue("waitRendered", IF previousRole # None THEN "removeRole" ELSE "addRole")
    /\ Rest /\ UNCHANGED <<cluster, nextPool>>

WaitUntilKubeletConfigHasUpdatedTheMCP ==
    /\ \/ /\ rendered # None
          /\ Continue("waitRendered", IF previousRole # None THEN "removeRole" ELSE "addRole")
       \/ Error("waitRendered")
    /\ Rest /\ UNCHANGED <<cluster, nextPool>>

\* Mutant: the role to remove is not taken off the node.
MutRemovePreviousRole ==
    /\ SetLabel("removeRole", "addRole", roles)
    /\ Rest /\ UNCHANGED nextPool

RemovePreviousRole ==
    /\ SetLabel("removeRole", "addRole", roles \ {previousRole})
    /\ Rest /\ UNCHANGED nextPool

AddNewRole ==
    /\ SetLabel("addRole", "waitUpdating", roles \cup {TestRole})
    /\ Rest /\ UNCHANGED nextPool

WaitForMCPUpdating ==
    /\ \/ status[TestRole].updating /\ Continue("waitUpdating", "waitUpdated")
       \/ Error("waitUpdating")
    /\ Rest /\ UNCHANGED <<cluster, nextPool>>

\* Mutant: waits for the pool not to be updating in the suite's own copy.
MutWaitForMCPUpdated ==
    /\ Goto("waitUpdated", "applied") /\ outcome' = "applied"
    /\ Rest /\ UNCHANGED <<cluster, nextPool>>

\* Mutant: waits for Updating once more.
MutWaitForMCPUpdatedStuck ==
    /\ status[TestRole].updating /\ status[TestRole].updated
    /\ Goto("waitUpdated", "applied") /\ outcome' = "applied"
    /\ Rest /\ UNCHANGED <<cluster, nextPool>>

(* The timeout is 30 minutes for each machine of the suite's copy of the   *)
(* pool; for none it is 0, which wait.PollImmediate takes as no timeout.   *)
WaitForMCPUpdated ==
    /\ \/ /\ status[TestRole].updated
          /\ Goto("waitUpdated", "applied") /\ outcome' = "applied"
       \/ machineCount > 0 /\ Error("waitUpdated")
    /\ Rest /\ UNCHANGED <<cluster, nextPool>>

(* The revert function, run by DeferCleanup after the tests.               *)
RevertRemoveRole ==
    /\ SetLabel("applied", "revertAdd", roles \ {TestRole})
    /\ Rest /\ UNCHANGED nextPool

\* Mutant: the node is left to the worker pool.
MutRevertAddRole ==
    /\ SetLabel("revertAdd", "waitOne", roles)
    /\ Rest /\ UNCHANGED nextPool

(* The label of the role "" is "node-role.kubernetes.io/", which is not a  *)
(* valid label name: the API server refuses the patch.                     *)
RevertAddRole ==
    /\ \/ /\ previousRole # None
          /\ SetLabel("revertAdd", "waitOne", roles \cup {previousRole})
       \/ previousRole = None /\ Error("revertAdd") /\ UNCHANGED cluster
    /\ Rest /\ UNCHANGED nextPool

WaitForAtLeastOneMCPUpdating ==
    /\ \/ /\ \E p \in Pools : status[p].updating
          /\ Continue("waitOne", "waitAll")
       \/ Error("waitOne")
    /\ nextPool' = 1
    /\ Rest /\ UNCHANGED cluster

WaitForAllMCPStable ==
    /\ \/ /\ nextPool <= Len(PoolOrder)
          /\ ~status[PoolOrder[nextPool]].updating
          /\ Continue("waitAll", "waitAll")
          /\ nextPool' = nextPool + 1
       \/ /\ nextPool > Len(PoolOrder)
          /\ Goto("waitAll", "idle") /\ outcome' = "reverted"
          /\ UNCHANGED nextPool
       \/ nextPool <= Len(PoolOrder) /\ Error("waitAll") /\ UNCHANGED nextPool
    /\ Rest /\ UNCHANGED cluster

Step ==
    \/ CreateMCP
    \/ WaitUntilKubeletConfigHasUpdatedTheMCP
    \/ RemovePreviousRole
    \/ AddNewRole
    \/ WaitForMCPUpdating
    \/ WaitForMCPUpdated
    \/ RevertRemoveRole
    \/ RevertAddRole
    \/ WaitForAtLeastOneMCPUpdating
    \/ WaitForAllMCPStable

Next == CreateKubeletConfig \/ Step \/ MCO

Spec == Init /\ [][Next]_vars

(* The suite is one goroutine that keeps running, and the MCO's            *)
(* controllers keep reconciling: rendering, syncing and, unless the node   *)
(* is stuck, rebooting it.                                                 *)
Fairness ==
    /\ WF_vars(Step)
    /\ WF_vars(RenderKubeletConfig)
    /\ \A p \in Pools : WF_vars(SyncPool(p))
    /\ WF_vars(Reboot)

FairSpec == Spec /\ Fairness

-----------------------------------------------------------------------------
Configs == [pool : Pools, spec : Specs \cup {None}]
Status == [machines : {0, 1}, updating : BOOLEAN, updated : BOOLEAN]
Steps == {"idle", "createMCP", "waitRendered", "removeRole", "addRole", "waitUpdating",
          "waitUpdated", "applied", "revertAdd", "waitOne", "waitAll"}

(* The types of the cluster's and the suite's state.                       *)
TypeOK ==
    /\ kubeletConfig \in Specs \cup {None}
    /\ poolExists \in BOOLEAN
    /\ rendered \in Specs \cup {None}
    /\ roles \subseteq CustomRoles \cup {TestRole}
    /\ config \in Configs /\ desired \in Configs
    /\ status \in [Pools -> Status]
    /\ degraded \in BOOLEAN
    /\ pc \in Steps
    /\ round \in 0..MaxRounds
    /\ spec \in Specs \cup {None}
    /\ previousRole \in CustomRoles \cup {TestRole, None}
    /\ machineCount \in {0, 1}
    /\ nextPool \in Nat \ {0}
    /\ outcome \in {"none", "applied", "reverted", "error"}
    /\ rebooted \in Seq(Configs)

(* The MCO stops managing a node with two custom roles (FindRoleLabel's    *)
(* comment): the node never has two, whichever call of whichever round     *)
(* fails, with or without having taken effect.                             *)
SingleCustomRole == \A r1, r2 \in roles : r1 = r2

(* When ApplyKubeletConfigToNode returns without an error the node runs    *)
(* the configuration rendered into its new pool, and no step towards       *)
(* another one is under way.                                               *)
AppliedMeansRolledOut ==
    pc = "applied" =>
        /\ rendered # None
        /\ roles = {TestRole}
        /\ UpToDate(TestRole)

(* The wait for the rendered config keeps its purpose, over all rounds:    *)
(* the node is never put, nor told to go, into a configuration of the new  *)
(* pool that lacks the kubelet configuration, from which it would have to  *)
(* be rebooted once more.                                                  *)
NeverBeforeRendered ==
    \A c \in {config, desired} : c.pool = TestRole => c.spec # None

(* Whatever the calls and waits return, the suite always comes back,       *)
(* unless the node cannot be updated any more: no wait blocks it for ever. *)
SuiteReturns == pc # "idle" ~> (pc = "idle" \/ degraded)

(* The revert function waits for any pool to update and then for the pools *)
(* one after another, so it may return while the node is still on its way; *)
(* but once it has returned without an error the node gets back to a       *)
(* configuration of its previous pool, unless it cannot be updated or the  *)
(* suite moves it again.                                                   *)
RevertCompletes ==
    outcome = "reverted" ~> (config.pool = previousRole \/ degraded \/ outcome # "reverted")

-----------------------------------------------------------------------------
(* What comments of the code say, and the code does not keep               *)

(* Every wait of this package has a timeout (WaitForMCPUpdated passes 30   *)
(* minutes a machine, machineconfigpool.go:124-130): the suite comes back  *)
(* from a node that cannot be updated, too.                                *)
WaitsEnd == pc # "idle" ~> pc = "idle"

(* "Following wait ensure the node is rebooted only once"                  *)
(* (machineconfigpool.go:256).                                             *)
RebootedOnlyOnce == pc = "applied" => Len(rebooted) <= 1
=============================================================================
