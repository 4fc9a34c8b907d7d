--------------------- MODULE KubeletConfigRolloutProofs ---------------------
(***************************************************************************)
(* Proofs about KubeletConfigRollout for any set of custom roles, any      *)
(* kubelet configurations and any number of rounds, with every API call    *)
(* free to fail and the MCO free to run at any time.                       *)
(***************************************************************************)
EXTENDS KubeletConfigRollout, TLAPS

(* The role labels follow the suite's program counter: the node has no     *)
(* custom role between a removal and an addition, and the role that was    *)
(* read at the start is still the one to be removed.                       *)
RolesInv ==
    /\ \A r1, r2 \in roles : r1 = r2
    /\ pc \in {"createMCP", "waitRendered"} =>
            roles = IF previousRole = None THEN {} ELSE {previousRole}
    /\ pc = "removeRole" => roles = {previousRole}
    /\ pc \in {"addRole", "revertAdd"} => roles = {}
    /\ pc \in {"waitUpdating", "waitUpdated", "applied"} => roles = {TestRole}

(* A KubeletConfig, once created, is never changed, so neither is what was *)
(* rendered from it; and the suite gets to moving labels only after that.  *)
RenderedInv ==
    /\ rendered # None => kubeletConfig = rendered
    /\ pc \notin {"idle", "createMCP", "waitRendered"} => rendered # None
    /\ TestRole \in roles => rendered # None
    /\ config.pool = TestRole => config.spec # None
    /\ desired.pool = TestRole => desired.spec # None

(* A pool never reports both conditions; once the suite has seen Updating, *)
(* an Updated that it sees is about this rollout.                          *)
StatusInv ==
    /\ ~(status[TestRole].updating /\ status[TestRole].updated)
    /\ pc = "waitUpdated" /\ status[TestRole].updated => UpToDate(TestRole)
    /\ pc = "applied" => UpToDate(TestRole)

Inv == TypeOK /\ RolesInv /\ RenderedInv /\ StatusInv

LEMMA TargetType ==
    ASSUME TypeOK, NEW p \in Pools
    PROVE  Target(p) \in Configs
BY DEF TypeOK, Target, Configs

LEMMA RoleLabelType ==
    ASSUME TypeOK, RolesInv
    PROVE  /\ FindRoleLabel \in CustomRoles \cup {TestRole, None}
           /\ roles = IF FindRoleLabel = None THEN {} ELSE {FindRoleLabel}
<1>1. CASE roles = {}
  BY <1>1 DEF FindRoleLabel
<1>2. CASE roles # {}
  <2>1. PICK r \in roles : TRUE
    BY <1>2
  <2>2. roles = {r} /\ r \in CustomRoles \cup {TestRole}
    BY <2>1 DEF RolesInv, TypeOK
  <2>3. FindRoleLabel = r
    BY <1>2, <2>2 DEF FindRoleLabel
  <2>4. r # None
    BY <2>2, RolloutAssumption DEF Pools
  <2> QED
    BY <2>2, <2>3, <2>4
<1> QED
  BY <1>1, <1>2

LEMMA ReportType ==
    ASSUME NEW p
    PROVE  /\ Report(p) \in Status
           /\ ~(Report(p).updating /\ Report(p).updated)
           /\ Report(p).updated /\ Members(p) => UpToDate(p)
<1> DEFINE m == Members(p)
           u == UpToDate(p)
<1>1. m \in BOOLEAN /\ u \in BOOLEAN
  BY DEF Members, UpToDate
<1>2. Report(p) = [machines |-> IF m THEN 1 ELSE 0, updating |-> m /\ ~u, updated |-> m => u]
  BY DEF Report
<1> HIDE DEF m, u
<1>3. (m /\ ~u) \in BOOLEAN /\ (m => u) \in BOOLEAN
  OBVIOUS
<1>4. Report(p) \in Status
  BY <1>2, <1>3 DEF Status
<1>5. ~(Report(p).updating /\ Report(p).updated) /\ (Report(p).updated /\ m => u)
  <2>1. Report(p).updating = (m /\ ~u) /\ Report(p).updated = (m => u)
    BY <1>2
  <2> QED
    BY <2>1, Zenon
<1> QED
  BY <1>4, <1>5 DEF m, u

LEMMA InitInv == Init => Inv
<1> SUFFICES ASSUME Init PROVE Inv
  OBVIOUS
<1>1. roles = {} \/ \E r \in CustomRoles : roles = {r}
  BY DEF Init
<1>2. rendered = None
  BY DEF Init
<1>3. \A p \in Pools : Target(p) = [pool |-> p, spec |-> None] /\ Target(p) \in Configs
  BY <1>2 DEF Target, Configs
<1>4. config \in Configs /\ config.pool # TestRole /\ desired = config
  <2>1. CASE roles = {}
    BY <1>3, <2>1, RolloutAssumption DEF Init, Pools
  <2>2. ASSUME NEW r \in CustomRoles, roles = {r}
        PROVE  config \in Configs /\ config.pool # TestRole
    BY <1>3, <2>2, RolloutAssumption DEF Init, Pools
  <2> QED
    BY <1>1, <2>1, <2>2 DEF Init
<1>5. TestRole \notin roles
  BY <1>1, RolloutAssumption
<1>6. status \in [Pools -> Status]
  BY ReportType DEF Init
<1>7. TestRole \in Pools
  BY DEF Pools
<1>8. TypeOK
  <2>1. roles \subseteq CustomRoles \cup {TestRole}
    BY <1>1
  <2>2. poolExists \in BOOLEAN /\ degraded \in BOOLEAN
    BY DEF Init
  <2>3. round \in 0..MaxRounds /\ machineCount \in {0, 1} /\ nextPool \in Nat \ {0}
    BY RolloutAssumption DEF Init
  <2>4. pc \in Steps /\ outcome \in {"none", "applied", "reverted", "error"}
    BY DEF Init, Steps
  <2>5. rebooted \in Seq(Configs)
    BY DEF Init
  <2> QED
    BY <1>4, <1>6, <2>1, <2>2, <2>3, <2>4, <2>5 DEF Init, TypeOK
<1>9. RolesInv /\ RenderedInv
  BY <1>1, <1>2, <1>4, <1>5 DEF Init, RolesInv, RenderedInv
<1>10. StatusInv
  BY <1>7, ReportType DEF Init, StatusInv
<1> QED
  BY <1>8, <1>9, <1>10 DEF Inv

-----------------------------------------------------------------------------
(* The steps of the MCO                                                    *)

LEMMA MCOInv == Inv /\ MCO => Inv'
<1> SUFFICES ASSUME Inv, MCO PROVE Inv'
  OBVIOUS
<1> USE DEF Inv
<1>0. TestRole \in Pools
  BY DEF Pools
<1>1. CASE RenderKubeletConfig
  <2>1. rendered = None /\ rendered' = kubeletConfig
    BY <1>1 DEF RenderKubeletConfig, RenderedInv
  <2>2. /\ roles' = roles /\ config' = config /\ desired' = desired /\ status' = status
        /\ kubeletConfig' = kubeletConfig /\ pc' = pc /\ previousRole' = previousRole
    BY <1>1 DEF RenderKubeletConfig, suite
  <2>3. TypeOK'
    BY <1>1 DEF RenderKubeletConfig, TypeOK, suite
  <2>4. RolesInv'
    BY <2>2 DEF RolesInv
  <2>5. RenderedInv'
    BY <2>1, <2>2 DEF RenderedInv
  <2>6. StatusInv'
    BY <2>1, <2>2 DEF StatusInv, RenderedInv
  <2> QED
    BY <2>3, <2>4, <2>5, <2>6
<1>2. ASSUME NEW p \in Pools, SyncPool(p) PROVE Inv'
  <2>1. /\ kubeletConfig' = kubeletConfig /\ rendered' = rendered /\ roles' = roles
        /\ config' = config /\ poolExists' = poolExists /\ degraded' = degraded
        /\ pc' = pc /\ previousRole' = previousRole
        /\ desired' = IF Members(p) /\ config = desired THEN Target(p) ELSE desired
        /\ status' = [status EXCEPT ![p] = Report(p)]
    BY <1>2 DEF SyncPool, suite
  <2>2. TypeOK'
    <3>1. desired' \in Configs
      BY <2>1, TargetType DEF TypeOK
    <3>2. status' \in [Pools -> Status]
      BY <2>1, ReportType DEF TypeOK
    <3> QED
      BY <1>2, <3>1, <3>2 DEF SyncPool, TypeOK, suite
  <2>3. RolesInv'
    BY <2>1 DEF RolesInv
  <2>4. RenderedInv'
    <3>1. Members(p) /\ p = TestRole => rendered # None
      BY RolloutAssumption DEF Members, RenderedInv
    <3>2. desired'.pool = TestRole => desired'.spec # None
      BY <2>1, <3>1 DEF RenderedInv, Target
    <3> QED
      BY <2>1, <3>2 DEF RenderedInv
  <2>5. UpToDate(TestRole) /\ roles = {TestRole} => UpToDate(TestRole)'
    <3>1. roles = {TestRole} /\ p # TestRole => ~Members(p)
      BY DEF Members
    <3> QED
      BY <2>1, <3>1 DEF UpToDate, Target
  <2>6. StatusInv'
    <3>1. pc \in {"waitUpdated", "applied"} => roles = {TestRole} /\ Members(TestRole)
      BY RolloutAssumption DEF RolesInv, Members
    <3>2. CASE p = TestRole
      <4>1. status'[TestRole] = Report(TestRole)
        BY <1>0, <2>1, <3>2 DEF TypeOK
      <4> QED
        BY <2>1, <2>5, <3>1, <4>1, ReportType DEF StatusInv
    <3>3. CASE p # TestRole
      <4>1. status'[TestRole] = status[TestRole]
        BY <1>0, <2>1, <3>3 DEF TypeOK
      <4> QED
        BY <2>1, <2>5, <3>1, <4>1 DEF StatusInv
    <3> QED
      BY <3>2, <3>3
  <2> QED
    BY <2>2, <2>3, <2>4, <2>6
<1>3. CASE Reboot
  <2>1. /\ config # desired /\ config' = desired /\ desired' = desired
        /\ kubeletConfig' = kubeletConfig /\ rendered' = rendered /\ roles' = roles
        /\ status' = status /\ pc' = pc /\ previousRole' = previousRole
    BY <1>3 DEF Reboot, suite
  <2>2. TypeOK'
    BY <1>3 DEF Reboot, TypeOK, suite
  <2>3. ~UpToDate(TestRole)
    BY <2>1 DEF UpToDate
  <2>4. RolesInv' /\ RenderedInv'
    BY <2>1 DEF RolesInv, RenderedInv
  <2>5. StatusInv'
    BY <2>1, <2>3 DEF StatusInv
  <2> QED
    BY <2>2, <2>4, <2>5
<1>4. CASE Degrade
  <2>1. UNCHANGED <<kubeletConfig, rendered, roles, config, desired, status, pc, previousRole>>
    BY <1>4 DEF Degrade, suite
  <2>2. TypeOK'
    BY <1>4 DEF Degrade, TypeOK, suite
  <2> QED
    BY <2>1, <2>2 DEF RolesInv, RenderedInv, StatusInv, UpToDate, Target
<1> QED
  BY <1>1, <1>2, <1>3, <1>4 DEF MCO

-----------------------------------------------------------------------------
(* The steps of the suite                                                  *)

(* A step that leaves the cluster alone and goes on, or gives up.          *)
LEMMA PollInv ==
    ASSUME Inv, UNCHANGED cluster, UNCHANGED <<round, spec, previousRole, machineCount, rebooted>>,
           nextPool' \in Nat \ {0}, NEW from, NEW to \in Steps,
           \/ pc = from /\ pc' = to /\ outcome' \in {outcome, "applied", "reverted"}
           \/ Error(from),
           pc' = to => /\ RolesInv' /\ RenderedInv' /\ StatusInv'
    PROVE  Inv'
<1> USE DEF Inv
<1>1. UNCHANGED <<kubeletConfig, poolExists, rendered, roles, config, desired, status, degraded>>
  BY DEF cluster
<1>2. TypeOK'
  <2>1. pc' \in Steps /\ outcome' \in {"none", "applied", "reverted", "error"}
    BY DEF Error, Goto, TypeOK, Steps
  <2> QED
    BY <1>1, <2>1 DEF TypeOK
<1>3. CASE pc' = to
  BY <1>2, <1>3
<1>4. CASE pc' = "idle"
  <2>1. RolesInv' /\ RenderedInv'
    BY <1>1, <1>4 DEF RolesInv, RenderedInv
  <2>2. StatusInv'
    BY <1>1, <1>4 DEF StatusInv
  <2> QED
    BY <1>2, <2>1, <2>2
<1> QED
  BY <1>3, <1>4 DEF Error, Goto

(* A patch of the role labels, from a step whose roles are known.          *)
LEMMA PatchInv ==
    ASSUME Inv, NEW from, NEW to \in Steps \ {"createMCP", "waitRendered", "removeRole",
                                            "waitUpdated", "applied"},
           NEW new \in SUBSET (CustomRoles \cup {TestRole}),
           SetLabel(from, to, new),
           UNCHANGED <<round, spec, previousRole, machineCount, nextPool, rebooted>>,
           \A r1, r2 \in new : r1 = r2,
           to \in {"addRole", "revertAdd"} => new = {},
           to = "waitUpdating" => new = {TestRole},
           rendered # None
    PROVE  Inv'
<1> USE DEF Inv
<1>1. UNCHANGED <<kubeletConfig, poolExists, rendered, config, desired, status, degraded>>
  BY DEF SetLabel
<1>2. \/ pc' = to /\ roles' = new /\ outcome' = outcome
      \/ pc' = "idle" /\ roles' \in {roles, new} /\ outcome' = "error"
  BY DEF SetLabel, Continue, Fault, Error, Goto
<1>3. TypeOK'
  <2>1. pc' \in Steps /\ outcome' \in {"none", "applied", "reverted", "error"}
    BY <1>2 DEF TypeOK, Steps
  <2>2. roles' \subseteq CustomRoles \cup {TestRole}
    BY <1>2 DEF TypeOK
  <2> QED
    BY <1>1, <2>1, <2>2 DEF TypeOK
<1>4. RolesInv'
  <2>1. \A r1, r2 \in roles' : r1 = r2
    BY <1>2 DEF RolesInv
  <2> QED
    BY <1>2, <2>1 DEF RolesInv
<1>5. RenderedInv'
  BY <1>1, <1>2 DEF RenderedInv
<1>6. StatusInv'
  BY <1>1, <1>2 DEF StatusInv
<1> QED
  BY <1>3, <1>4, <1>5, <1>6

LEMMA CreateInv == Inv /\ (CreateKubeletConfig \/ CreateMCP) => Inv'
<1> SUFFICES ASSUME Inv, CreateKubeletConfig \/ CreateMCP PROVE Inv'
  OBVIOUS
<1> USE DEF Inv
<1>1. CASE CreateKubeletConfig
  <2>1. PICK s \in Specs :
          /\ round < MaxRounds /\ round' = round + 1
          /\ spec' = s /\ previousRole' = FindRoleLabel /\ rebooted' = << >>
          /\ pc' \in {"createMCP", "idle"} /\ outcome' \in {outcome, "error"}
          /\ kubeletConfig' \in {kubeletConfig, IF kubeletConfig = None THEN s ELSE kubeletConfig}
          /\ UNCHANGED <<poolExists, rendered, roles, config, desired, status, degraded,
                          machineCount, nextPool>>
    BY <1>1 DEF CreateKubeletConfig, Continue, Fault, Error, Goto
  <2>2. kubeletConfig' = kubeletConfig \/ (kubeletConfig = None /\ kubeletConfig' = s)
    BY <2>1
  <2>3. TypeOK'
    <3>1. previousRole' \in CustomRoles \cup {TestRole, None}
      BY <2>1, RoleLabelType
    <3>2. round' \in 0..MaxRounds
      BY <2>1, RolloutAssumption DEF TypeOK
    <3>3. pc' \in Steps /\ outcome' \in {"none", "applied", "reverted", "error"}
      BY <2>1 DEF TypeOK, Steps
    <3>4. kubeletConfig' \in Specs \cup {None}
      BY <2>2 DEF TypeOK
    <3> QED
      BY <2>1, <3>1, <3>2, <3>3, <3>4 DEF TypeOK
  <2>4. RolesInv'
    BY <2>1, RoleLabelType DEF RolesInv
  <2>5. RenderedInv'
    BY <2>1, <2>2 DEF RenderedInv
  <2>6. StatusInv'
    BY <2>1 DEF StatusInv
  <2> QED
    BY <2>3, <2>4, <2>5, <2>6
<1>2. CASE CreateMCP
  <2>1. /\ pc = "createMCP" /\ pc' \in {"waitRendered", "idle"}
        /\ outcome' \in {outcome, "error"}
        /\ poolExists' \in {poolExists, TRUE}
        /\ machineCount' = IF poolExists THEN status[TestRole].machines ELSE 0
        /\ UNCHANGED <<kubeletConfig, rendered, roles, config, desired, status, degraded>>
        /\ UNCHANGED <<round, spec, previousRole, nextPool, rebooted>>
    BY <1>2 DEF CreateMCP, Continue, Fault, Error, Goto
  <2>2. TypeOK'
    <3>1. machineCount' \in {0, 1}
      BY <2>1 DEF TypeOK, Status, Pools
    <3>2. pc' \in Steps /\ outcome' \in {"none", "applied", "reverted", "error"}
      BY <2>1 DEF TypeOK, Steps
    <3>3. poolExists' \in BOOLEAN
      BY <2>1 DEF TypeOK
    <3> QED
      BY <2>1, <3>1, <3>2, <3>3 DEF TypeOK
  <2>3. RolesInv' /\ RenderedInv'
    BY <2>1 DEF RolesInv, RenderedInv
  <2>4. StatusInv'
    BY <2>1 DEF StatusInv
  <2> QED
    BY <2>2, <2>3, <2>4
<1> QED
  BY <1>1, <1>2

LEMMA StepInv == Inv /\ Step => Inv'
<1> SUFFICES ASSUME Inv, Step PROVE Inv'
  OBVIOUS
<1>0. nextPool \in Nat \ {0} /\ previousRole \in CustomRoles \cup {TestRole, None}
  BY DEF Inv, TypeOK
<1>1. CASE CreateMCP
  BY <1>1, CreateInv
<1>2. CASE WaitUntilKubeletConfigHasUpdatedTheMCP
  <2> DEFINE next == IF previousRole # None THEN "removeRole" ELSE "addRole"
  <2>1. /\ UNCHANGED cluster /\ nextPool' = nextPool
        /\ UNCHANGED <<round, spec, previousRole, machineCount, rebooted>>
        /\ \/ pc = "waitRendered" /\ pc' = next /\ outcome' = outcome /\ rendered # None
           \/ Error("waitRendered")
    BY <1>2 DEF WaitUntilKubeletConfigHasUpdatedTheMCP, Rest, Continue, Goto
  <2>2. pc' = next => RolesInv' /\ RenderedInv' /\ StatusInv'
    BY <2>1 DEF Inv, cluster, RolesInv, RenderedInv, StatusInv, Error, Goto
  <2>3. next \in Steps
    BY DEF Steps
  <2> QED
    BY <1>0, <2>1, <2>2, <2>3, PollInv
<1>3. CASE RemovePreviousRole
  <2>1. /\ SetLabel("removeRole", "addRole", roles \ {previousRole})
        /\ UNCHANGED <<round, spec, previousRole, machineCount, nextPool, rebooted>>
    BY <1>3 DEF RemovePreviousRole, Rest
  <2>2. pc = "removeRole"
    BY <2>1 DEF SetLabel, Continue, Fault, Error, Goto
  <2>3. roles \ {previousRole} = {} /\ rendered # None
    BY <2>2 DEF Inv, RolesInv, RenderedInv
  <2> QED
    BY <2>1, <2>3, PatchInv DEF Steps
<1>4. CASE AddNewRole
  <2>1. /\ SetLabel("addRole", "waitUpdating", roles \cup {TestRole})
        /\ UNCHANGED <<round, spec, previousRole, machineCount, nextPool, rebooted>>
    BY <1>4 DEF AddNewRole, Rest
  <2>2. pc = "addRole"
    BY <2>1 DEF SetLabel, Continue, Fault, Error, Goto
  <2>3. roles \cup {TestRole} = {TestRole} /\ rendered # None
    BY <2>2 DEF Inv, RolesInv, RenderedInv
  <2> QED
    BY <2>1, <2>3, PatchInv DEF Steps
<1>5. CASE WaitForMCPUpdating
  <2>1. /\ UNCHANGED cluster /\ nextPool' = nextPool
        /\ UNCHANGED <<round, spec, previousRole, machineCount, rebooted>>
        /\ \/ /\ pc = "waitUpdating" /\ pc' = "waitUpdated" /\ outcome' = outcome
              /\ status[TestRole].updating
           \/ Error("waitUpdating")
    BY <1>5 DEF WaitForMCPUpdating, Rest, Continue, Goto
  <2>2. pc' = "waitUpdated" => RolesInv' /\ RenderedInv' /\ StatusInv'
    BY <2>1 DEF Inv, cluster, RolesInv, RenderedInv, StatusInv, Error, Goto
  <2> QED
    BY <1>0, <2>1, <2>2, PollInv DEF Steps
<1>6. CASE WaitForMCPUpdated
  <2>1. /\ UNCHANGED cluster /\ nextPool' = nextPool
        /\ UNCHANGED <<round, spec, previousRole, machineCount, rebooted>>
        /\ \/ /\ pc = "waitUpdated" /\ pc' = "applied" /\ outcome' = "applied"
              /\ status[TestRole].updated
           \/ Error("waitUpdated")
    BY <1>6 DEF WaitForMCPUpdated, Rest, Goto
  <2>2. UpToDate(TestRole)' = UpToDate(TestRole)
    BY <2>1 DEF cluster, UpToDate, Target
  <2>3. pc' = "applied" => RolesInv' /\ RenderedInv' /\ StatusInv'
    BY <2>1, <2>2 DEF Inv, cluster, RolesInv, RenderedInv, StatusInv, Error, Goto
  <2> QED
    BY <1>0, <2>1, <2>3, PollInv DEF Steps
<1>7. CASE RevertRemoveRole
  <2>1. /\ SetLabel("applied", "revertAdd", roles \ {TestRole})
        /\ UNCHANGED <<round, spec, previousRole, machineCount, nextPool, rebooted>>
    BY <1>7 DEF RevertRemoveRole, Rest
  <2>2. pc = "applied"
    BY <2>1 DEF SetLabel, Continue, Fault, Error, Goto
  <2>3. roles \ {TestRole} = {} /\ rendered # None
    BY <2>2 DEF Inv, RolesInv, RenderedInv
  <2> QED
    BY <2>1, <2>3, PatchInv DEF Steps
<1>8. CASE RevertAddRole
  <2>1. CASE previousRole # None
    <3>1. /\ SetLabel("revertAdd", "waitOne", roles \cup {previousRole})
          /\ UNCHANGED <<round, spec, previousRole, machineCount, nextPool, rebooted>>
      BY <1>8, <2>1 DEF RevertAddRole, Rest
    <3>2. pc = "revertAdd"
      BY <3>1 DEF SetLabel, Continue, Fault, Error, Goto
    <3>3. roles \cup {previousRole} = {previousRole} /\ rendered # None
      BY <3>2 DEF Inv, RolesInv, RenderedInv
    <3> QED
      BY <1>0, <2>1, <3>1, <3>3, PatchInv DEF Steps
  <2>2. CASE previousRole = None
    <3>1. /\ UNCHANGED cluster /\ nextPool' = nextPool
          /\ UNCHANGED <<round, spec, previousRole, machineCount, rebooted>>
          /\ Error("revertAdd")
      BY <1>8, <2>2 DEF RevertAddRole, Rest
    <3>2. pc' # "waitOne"
      BY <3>1 DEF Error, Goto
    <3> QED
      BY <1>0, <3>1, <3>2, PollInv DEF Steps
  <2> QED
    BY <2>1, <2>2
<1>9. CASE WaitForAtLeastOneMCPUpdating
  <2>1. /\ UNCHANGED cluster /\ nextPool' = 1
        /\ UNCHANGED <<round, spec, previousRole, machineCount, rebooted>>
        /\ \/ pc = "waitOne" /\ pc' = "waitAll" /\ outcome' = outcome
           \/ Error("waitOne")
    BY <1>9 DEF WaitForAtLeastOneMCPUpdating, Rest, Continue, Goto
  <2>2. pc' = "waitAll" => RolesInv' /\ RenderedInv' /\ StatusInv'
    BY <2>1 DEF Inv, cluster, RolesInv, RenderedInv, StatusInv, Error, Goto
  <2> QED
    BY <2>1, <2>2, PollInv DEF Steps
<1>10. CASE WaitForAllMCPStable
  <2>1. /\ UNCHANGED cluster /\ nextPool' \in {nextPool, nextPool + 1}
        /\ UNCHANGED <<round, spec, previousRole, machineCount, rebooted>>
        /\ pc = "waitAll"
        /\ \/ pc' = "waitAll" /\ outcome' = outcome
           \/ pc' = "idle" /\ outcome' = "reverted"
           \/ Error("waitAll")
    BY <1>10 DEF WaitForAllMCPStable, Rest, Continue, Goto, Error
  <2>2. RolesInv' /\ RenderedInv' /\ StatusInv'
    BY <2>1 DEF Inv, cluster, RolesInv, RenderedInv, StatusInv, Error, Goto
  <2>3. nextPool' \in Nat \ {0}
    BY <1>0, <2>1
  <2>4. CASE pc' = "idle" /\ outcome' = "reverted"
    BY <2>1, <2>2, <2>3, <2>4, PollInv DEF Steps
  <2>5. CASE ~(pc' = "idle" /\ outcome' = "reverted")
    BY <2>1, <2>2, <2>3, <2>5, PollInv DEF Steps
  <2> QED
    BY <2>4, <2>5
<1> QED
  BY <1>1, <1>2, <1>3, <1>4, <1>5, <1>6, <1>7, <1>8, <1>9, <1>10 DEF Step

-----------------------------------------------------------------------------
(* The inductive invariant holds of every behaviour.                       *)
THEOREM InvAlways == Spec => []Inv
<1>1. Inv /\ [Next]_vars => Inv'
  <2> SUFFICES ASSUME Inv, [Next]_vars PROVE Inv'
    OBVIOUS
  <2>1. CASE UNCHANGED vars
    BY <2>1 DEF vars, cluster, suite, Inv, TypeOK, RolesInv, RenderedInv, StatusInv,
                UpToDate, Target
  <2> QED
    BY <2>1, CreateInv, StepInv, MCOInv DEF Next
<1> QED
  BY <1>1, InitInv, PTL DEF Spec

(* The types are kept by every step of the suite and of the MCO.           *)
THEOREM TypeCorrect == Spec => []TypeOK
BY InvAlways, PTL DEF Inv

(* For any number of rounds and any failures of the API calls, the node    *)
(* never has two custom roles, which would stop the MCO from managing it.  *)
THEOREM AlwaysSingleCustomRole == Spec => []SingleCustomRole
<1>1. Inv => SingleCustomRole
  BY DEF Inv, RolesInv, SingleCustomRole
<1> QED
  BY <1>1, InvAlways, PTL

(* The node is never configured by the new pool without the kubelet        *)
(* configuration it was moved for.                                         *)
THEOREM AlwaysRenderedFirst == Spec => []NeverBeforeRendered
<1>1. Inv => NeverBeforeRendered
  BY DEF Inv, RenderedInv, NeverBeforeRendered
<1> QED
  BY <1>1, InvAlways, PTL

(* Success of ApplyKubeletConfigToNode means the rollout has ended.        *)
THEOREM AppliedAlwaysRolledOut == Spec => []AppliedMeansRolledOut
<1>1. Inv => AppliedMeansRolledOut
  BY DEF Inv, RolesInv, RenderedInv, StatusInv, AppliedMeansRolledOut
<1> QED
  BY <1>1, InvAlways, PTL
=============================================================================
