---------------------------- MODULE PolicyBuilder ----------------------------
(***************************************************************************)
(* PolicyBuilder.Build (ztp/policygenerator/policyGen/policyBuilder.go):   *)
(* one PolicyGenTemplate is turned into ACM policies, plain CRs and one    *)
(* placement rule with its binding.  The source files are processed in the *)
(* order the template lists them; each step of this specification is one   *)
(* iteration of that loop, and the next source file entry is an input.     *)
(*                                                                         *)
(* The map "policies" of the code is kept in three variables, by the kind  *)
(* of value it holds: acmPolicies (key <pgt>/<pgt>-<policyName>), plainCRs *)
(* (key customResource/<pgt>/<name>) and placement (the keys               *)
(* <pgt>/<pgt>-placementrules and <pgt>/<pgt>-placementbinding).           *)
(*                                                                         *)
(* Data.  A source file is a record [readable, parses, docs]; a document   *)
(* has a kind, a name, a namespace and a deploy wave.  Names are sequences *)
(* of dash-free segments, so that strings.Join(parts, "-") is \o.  The     *)
(* overlay of spec, data and status is abstracted to whether there is one. *)
(***************************************************************************)
EXTENDS PolicyHelper, SequencesExt

CONSTANTS
    Pgts,            \* the templates Build may be called with
    SourceFiles,     \* the entries a template may list under sourceFiles
    GitCRs,          \* files under source-crs/ of the working directory
    ContainerCRs,    \* files under source-crs/ next to the executable
    PolicyNames,     \* policyName values, "" excluded
    PolicyNameLength,\* their lengths
    MaxSourceFiles,  \* bound on the length of sourceFiles
    Unset,           \* utils.UnsetStringValue: the field is not in the YAML
    Nil              \* no value under a key of the map

WellTyped(files) ==
    \A f \in DOMAIN files :
        LET docs == files[f].docs
        IN  /\ docs \in Seq(Listed(docs))
            /\ \A i \in DOMAIN docs : docs[i].wave \in Waves \cup {NoWave, NonStringWave}

ASSUME InputAssumption ==
    /\ WellTyped(GitCRs) /\ WellTyped(ContainerCRs)
    /\ \A s \in SourceFiles : /\ s.policyName \in PolicyNames \cup {""}
                              /\ s.wave \in Waves \cup {Unset}
    /\ "" \notin PolicyNames
    /\ PolicyNameLength \in [PolicyNames -> Nat]
    /\ \A p \in Pgts : p.prefixLength \in Nat
    /\ MaxSourceFiles \in Nat
    /\ Unset \notin Waves \cup {NoWave, NonStringWave}

(* The two policy names whose map key is that of a placement object.       *)
Reserved == {"placementrules", "placementbinding"}

VARIABLES
    pgt,          \* the template being built
    entries,      \* the source file entries processed so far
    acmPolicies,  \* policyName -> policy, or Nil
    plainCRs,     \* output name -> the CRs written under it
    subjects,     \* policy names, in the order the policies were created
    placement,    \* NoPlacement, or the placement rule and binding
    result        \* "building", "ok", "panic", or the reason of the error

vars == <<pgt, entries, acmPolicies, plainCRs, subjects, placement, result>>

-----------------------------------------------------------------------------
(* Reading a source file and building its CRs                              *)

(* ReadSourceCRFile: the git working directory shadows the container.      *)
NotFound == [readable |-> FALSE, parses |-> FALSE, docs |-> <<>>]

ReadSourceFile(fileName) ==
    IF fileName \in DOMAIN GitCRs THEN GitCRs[fileName]
    ELSE IF fileName \in DOMAIN ContainerCRs THEN ContainerCRs[fileName]
    ELSE NotFound

(* The user's metadata, where given, replaces the document's.              *)
Override(user, own) == IF user # Unset THEN user ELSE own

GetCustomResource(s, doc) ==
    [kind      |-> doc.kind,
     name      |-> Override(s.name, doc.name),
     namespace |-> Override(s.namespace, doc.namespace),
     wave      |-> Override(s.wave, doc.wave)]

GetCustomResources(s) ==
    LET docs == ReadSourceFile(s.fileName).docs
    IN  [i \in DOMAIN docs |-> GetCustomResource(s, docs[i])]

(* Several documents in one file cannot be overlaid, and every document    *)
(* must have a metadata section.                                           *)
Processable(s) ==
    LET file == ReadSourceFile(s.fileName)
    IN  /\ file.parses
        /\ Len(file.docs) > 1 => ~s.overlay
        /\ \A i \in DOMAIN file.docs : file.docs[i].metadata

-----------------------------------------------------------------------------
(* Policies                                                                *)

BuildObjectTemplate(s, cr) ==
    [complianceType |-> IF s.complianceType # Unset THEN s.complianceType
                        ELSE pgt.complianceType,
     definition |-> [kind |-> cr.kind, name |-> cr.name, namespace |-> cr.namespace],
     declared   |-> cr.wave]   \* the wave SetPolicyDeployWave takes out of the CR

ObjectTemplates(s) ==
    LET crs == GetCustomResources(s)
    IN  [i \in DOMAIN crs |-> BuildObjectTemplate(s, crs[i])]

CreateAcmPolicy(s) ==
    LET action == IF s.remediationAction # Unset THEN s.remediationAction
                  ELSE pgt.remediationAction
    IN  [wave |-> SetPolicyDeployWave(NoWave, GetCustomResources(s)),
         remediationAction         |-> action,
         templateRemediationAction |-> action,
         compliant    |-> IF s.compliant # Unset THEN s.compliant ELSE pgt.compliant,
         nonCompliant |-> IF s.nonCompliant # Unset THEN s.nonCompliant
                          ELSE pgt.nonCompliant,
         objects |-> ObjectTemplates(s)]

\* Mutant: the new object templates are put before the ones already there.
MutAppendAcmPolicyPrepend(policy, s) ==
    [policy EXCEPT !.wave = SetPolicyDeployWave(policy.wave, GetCustomResources(s)),
                   !.objects = ObjectTemplates(s) \o policy.objects]

\* Mutant: an override reaches the Policy but not its ConfigurationPolicy.
MutAppendAcmPolicyOuter(policy, s) ==
    [policy EXCEPT !.wave = SetPolicyDeployWave(policy.wave, GetCustomResources(s)),
                   !.remediationAction = IF s.remediationAction # Unset
                                         THEN s.remediationAction ELSE @,
                   !.objects = @ \o ObjectTemplates(s)]

AppendAcmPolicy(policy, s) ==
    [wave |-> SetPolicyDeployWave(policy.wave, GetCustomResources(s)),
     remediationAction         |-> IF s.remediationAction # Unset
                                   THEN s.remediationAction ELSE policy.remediationAction,
     templateRemediationAction |-> IF s.remediationAction # Unset
                                   THEN s.remediationAction ELSE policy.templateRemediationAction,
     compliant    |-> IF s.compliant # Unset THEN s.compliant ELSE policy.compliant,
     nonCompliant |-> IF s.nonCompliant # Unset THEN s.nonCompliant ELSE policy.nonCompliant,
     objects |-> policy.objects \o ObjectTemplates(s)]

\* Mutant: an override is never a conflict, the last source file wins.
MutConflicts(setting, current, default) == FALSE

(* A setting of a source file conflicts with its policy's when they differ *)
(* and the policy's is no longer the template-wide default.                *)
Conflicts(setting, current, default) ==
    setting # Unset /\ setting # current /\ current # default

FileIntervalsValid(s) ==
    /\ s.compliant # Unset => ValidateInterval(s.compliant)
    /\ s.nonCompliant # Unset => ValidateInterval(s.nonCompliant)

NewPolicyRefused(s) ==
    \/ ~CheckNameLength(pgt.prefixLength + PolicyNameLength[s.policyName])
    \/ WaveConflict(NoWave, GetCustomResources(s))
    \/ ~ValidateInterval(pgt.compliant)
    \/ ~ValidateInterval(pgt.nonCompliant)
    \/ ~FileIntervalsValid(s)

(* A policy whose first source file was empty has no object template, and  *)
(* AppendAcmPolicy refuses to add to it.                                   *)
AppendRefused(policy, s) ==
    \/ policy.objects = <<>>
    \/ WaveConflict(policy.wave, GetCustomResources(s))
    \/ Conflicts(s.remediationAction, policy.remediationAction, pgt.remediationAction)
    \/ ~FileIntervalsValid(s)
    \/ Conflicts(s.compliant, policy.compliant, pgt.compliant)
    \/ Conflicts(s.nonCompliant, policy.nonCompliant, pgt.nonCompliant)

-----------------------------------------------------------------------------
(* Plain CRs                                                               *)

Wrapped(s) == s.policyName # "" /\ pgt.wrapInPolicy

(* strings.Join(nameParts, "-"), or Multiple-<file> for several documents. *)
PlainName(s) ==
    LET crs == GetCustomResources(s)
    IN  IF Len(crs) > 1 THEN <<"Multiple", s.fileName>>
        ELSE <<crs[1].kind>> \o crs[1].name
             \o (IF crs[1].namespace # Nil THEN crs[1].namespace ELSE <<>>)

(* resources[0] of an empty file, or a kind or name that is missing or not *)
(* a string, ends in a Go panic.                                           *)
PlainPanics(s) ==
    LET crs == GetCustomResources(s)
    IN  crs = <<>> \/ (Len(crs) = 1 /\ Nil \in {crs[1].kind, crs[1].name})

-----------------------------------------------------------------------------
NoPlacement == [rule |-> {}, subjects |-> <<>>]

Init ==
    /\ pgt \in Pgts
    /\ entries = <<>>
    /\ acmPolicies = [n \in PolicyNames |-> Nil]
    /\ plainCRs = <<>>
    /\ subjects = <<>>
    /\ placement = NoPlacement
    /\ result = "building"

(* The map built so far is returned with the error, but InitiatePolicyGen  *)
(* ends the program without looking at it.                                 *)
Fail(how) ==
    /\ result' = how
    /\ UNCHANGED <<pgt, acmPolicies, plainCRs, subjects, placement>>

RejectTemplate ==
    /\ result = "building"
    /\ ~pgt.named
    /\ Fail("error")
    /\ UNCHANGED entries

(* The loop takes the next entry of sourceFiles.                           *)
Take(s) ==
    /\ result = "building"
    /\ pgt.named
    /\ Len(entries) < MaxSourceFiles
    /\ entries' = Append(entries, s)

Built(s) == ReadSourceFile(s.fileName).readable /\ Processable(s)

SourceFileError(s) ==
    /\ Take(s)
    /\ ~Built(s)
    /\ Fail("error")

\* Mutant: the entry that came first keeps the key.
MutWritePlainCR(s) ==
    /\ Take(s)
    /\ Built(s)
    /\ ~Wrapped(s)
    /\ ~PlainPanics(s)
    /\ plainCRs' = [n \in DOMAIN plainCRs \cup {PlainName(s)} |->
                        IF n \in DOMAIN plainCRs THEN plainCRs[n] ELSE GetCustomResources(s)]
    /\ UNCHANGED <<pgt, acmPolicies, subjects, placement, result>>

WritePlainCR(s) ==
    /\ Take(s)
    /\ Built(s)
    /\ ~Wrapped(s)
    /\ ~PlainPanics(s)
    /\ plainCRs' = [n \in DOMAIN plainCRs \cup {PlainName(s)} |->
                        IF n = PlainName(s) THEN GetCustomResources(s) ELSE plainCRs[n]]
    /\ UNCHANGED <<pgt, acmPolicies, subjects, placement, result>>

PlainCRPanic(s) ==
    /\ Take(s)
    /\ Built(s)
    /\ ~Wrapped(s)
    /\ PlainPanics(s)
    /\ Fail("panic")

\* Mutant: the policy already in the map is not looked up.
MutNewPolicy(s) ==
    /\ Take(s)
    /\ Built(s)
    /\ Wrapped(s)
    /\ ~NewPolicyRefused(s)
    /\ acmPolicies' = [acmPolicies EXCEPT ![s.policyName] = CreateAcmPolicy(s)]
    /\ subjects' = Append(subjects, s.policyName)
    /\ UNCHANGED <<pgt, plainCRs, placement, result>>

NewPolicy(s) ==
    /\ Take(s)
    /\ Built(s)
    /\ Wrapped(s)
    /\ acmPolicies[s.policyName] = Nil
    /\ ~NewPolicyRefused(s)
    /\ acmPolicies' = [acmPolicies EXCEPT ![s.policyName] = CreateAcmPolicy(s)]
    /\ subjects' = Append(subjects, s.policyName)
    /\ UNCHANGED <<pgt, plainCRs, placement, result>>

NewPolicyError(s) ==
    /\ Take(s)
    /\ Built(s)
    /\ Wrapped(s)
    /\ acmPolicies[s.policyName] = Nil
    /\ NewPolicyRefused(s)
    /\ Fail("error")

\* Mutant: the append path adds a subject as well.
MutAppendToPolicy(s) ==
    /\ Take(s)
    /\ Built(s)
    /\ Wrapped(s)
    /\ acmPolicies[s.policyName] # Nil
    /\ ~AppendRefused(acmPolicies[s.policyName], s)
    /\ acmPolicies' = [acmPolicies EXCEPT ![s.policyName] = AppendAcmPolicy(@, s)]
    /\ subjects' = Append(subjects, s.policyName)
    /\ UNCHANGED <<pgt, plainCRs, placement, result>>

AppendToPolicy(s) ==
    /\ Take(s)
    /\ Built(s)
    /\ Wrapped(s)
    /\ acmPolicies[s.policyName] # Nil
    /\ ~AppendRefused(acmPolicies[s.policyName], s)
    /\ acmPolicies' = [acmPolicies EXCEPT ![s.policyName] = AppendAcmPolicy(@, s)]
    /\ UNCHANGED <<pgt, plainCRs, subjects, placement, result>>

AppendError(s) ==
    /\ Take(s)
    /\ Built(s)
    /\ Wrapped(s)
    /\ acmPolicies[s.policyName] # Nil
    /\ AppendRefused(acmPolicies[s.policyName], s)
    /\ Fail("error")

-----------------------------------------------------------------------------
(* After the loop: one placement rule and one binding for all policies.    *)

(* "-placementrules" and "-placementbinding" without their dash, which     *)
(* prefixLength counts.                                                    *)
RuleNameLength == 14
BindingNameLength == 16

\* Mutant: only the placement rule's name is checked.
MutPlacementRefused ==
    \/ ~CheckBindingRules(pgt.bindingRules, pgt.bindingExcludedRules)
    \/ ~CheckNameLength(pgt.prefixLength + RuleNameLength)

PlacementRefused ==
    \/ ~CheckBindingRules(pgt.bindingRules, pgt.bindingExcludedRules)
    \/ ~CheckNameLength(pgt.prefixLength + RuleNameLength)
    \/ ~CheckNameLength(pgt.prefixLength + BindingNameLength)

(* Storing the rule and the binding overwrites a policy of a reserved name.*)
CreatePlacement ==
    /\ placement' = [rule |-> CreatePlacementRule(pgt.bindingRules, pgt.bindingExcludedRules),
                     subjects |-> subjects]
    /\ acmPolicies' = [n \in PolicyNames |-> IF n \in Reserved THEN Nil ELSE acmPolicies[n]]

Finish ==
    /\ result = "building"
    /\ pgt.named
    /\ subjects # <<>>
    /\ ~PlacementRefused
    /\ CreatePlacement
    /\ result' = "ok"
    /\ UNCHANGED <<pgt, entries, plainCRs, subjects>>

FinishWithoutPolicies ==
    /\ result = "building"
    /\ pgt.named
    /\ subjects = <<>>
    /\ result' = "ok"
    /\ UNCHANGED <<pgt, entries, acmPolicies, plainCRs, subjects, placement>>

PlacementError ==
    /\ result = "building"
    /\ pgt.named
    /\ subjects # <<>>
    /\ PlacementRefused
    /\ Fail("error")
    /\ UNCHANGED entries

ProcessSourceFile(s) ==
    \/ SourceFileError(s)
    \/ WritePlainCR(s)
    \/ PlainCRPanic(s)
    \/ NewPolicy(s)
    \/ NewPolicyError(s)
    \/ AppendToPolicy(s)
    \/ AppendError(s)

Next ==
    \/ RejectTemplate
    \/ \E s \in SourceFiles : ProcessSourceFile(s)
    \/ Finish
    \/ FinishWithoutPolicies
    \/ PlacementError

Spec == Init /\ [][Next]_vars

-----------------------------------------------------------------------------
(* Types                                                                   *)

RemediationActions == {x.remediationAction : x \in SourceFiles \cup Pgts}
Compliants         == {x.compliant : x \in SourceFiles \cup Pgts}
NonCompliants      == {x.nonCompliant : x \in SourceFiles \cup Pgts}
ComplianceTypes    == {x.complianceType : x \in SourceFiles \cup Pgts}
BuiltCRs           == UNION {Listed(GetCustomResources(s)) : s \in SourceFiles}

ObjectTemplate ==
    [complianceType : ComplianceTypes,
     definition : {[kind |-> cr.kind, name |-> cr.name, namespace |-> cr.namespace]
                        : cr \in BuiltCRs},
     declared : Waves \cup {NoWave, NonStringWave}]

AcmPolicy ==
    [wave : Waves \cup {NoWave},
     remediationAction : RemediationActions,
     templateRemediationAction : RemediationActions,
     compliant : Compliants,
     nonCompliant : NonCompliants,
     objects : Seq(ObjectTemplate)]

ASSUME NilAssumption == Nil \notin AcmPolicy

(* The state of Build: what the map may hold under each kind of key.       *)
TypeOK ==
    /\ pgt \in Pgts
    /\ entries \in Seq(SourceFiles)
    /\ acmPolicies \in [PolicyNames -> AcmPolicy \cup {Nil}]
    /\ subjects \in Seq(PolicyNames)
    /\ result \in {"building", "ok", "error", "panic"}

-----------------------------------------------------------------------------
(* Safety                                                                  *)

Live == {n \in PolicyNames : acmPolicies[n] # Nil}

CarriesItsWave(p) ==
    /\ \A i \in DOMAIN p.objects :
            p.objects[i].declared \in Waves => p.objects[i].declared = p.wave
    /\ p.wave # NoWave => \E i \in DOMAIN p.objects : p.objects[i].declared = p.wave

(* TALM applies policies in the order of their waves.  Whatever the order  *)
(* of the source files, a policy carries the wave of every CR in it that   *)
(* declares one, and carries no wave that none of its CRs declares         *)
(* (SetPolicyDeployWave is called CR by CR, over several source files).    *)
WavesAgree == \A n \in Live : CarriesItsWave(acmPolicies[n])

Consistent(p) ==
    /\ p.remediationAction = p.templateRemediationAction
    /\ ValidateInterval(p.compliant)
    /\ ValidateInterval(p.nonCompliant)

(* The Policy and the ConfigurationPolicy inside it never disagree on the  *)
(* remediation action, and every evaluation interval that reaches a policy *)
(* was validated, although the template-wide intervals are checked only    *)
(* when a policy is created and the file's own on every path.              *)
SettingsSound == \A n \in Live : Consistent(acmPolicies[n])

(* When Build succeeds the one PlacementBinding lists every generated      *)
(* policy exactly once and nothing else, reserved policy names aside: a    *)
(* policy missing from it would never reach a cluster, and with no policy  *)
(* there is no placement.                                                  *)
BindingCoversPolicies ==
    /\ \A i, j \in DOMAIN subjects : subjects[i] = subjects[j] => i = j
    /\ placement # NoPlacement => placement.subjects = subjects
    /\ result = "ok" => Live \ Reserved = Listed(placement.subjects) \ Reserved

(* No policy, placement rule or binding that Build hands out is longer     *)
(* than the 63 characters ACM accepts, whichever of the three checks sees  *)
(* the longest name.                                                       *)
NamesFit ==
    result = "ok" =>
        /\ \A n \in Live : pgt.prefixLength + PolicyNameLength[n] <= MaxNameLength
        /\ placement # NoPlacement => pgt.prefixLength + BindingNameLength <= MaxNameLength

(* A later source file only adds to a policy: the CRs already in it keep   *)
(* their place, and a wave, once set, is never replaced.                   *)
PolicyGrows ==
    [][\A n \in PolicyNames :
          (acmPolicies[n] # Nil /\ acmPolicies'[n] # Nil) =>
              /\ \A i \in DOMAIN acmPolicies[n].objects :
                    /\ i \in DOMAIN acmPolicies'[n].objects
                    /\ acmPolicies'[n].objects[i] = acmPolicies[n].objects[i]
              /\ acmPolicies[n].wave # NoWave =>
                    acmPolicies'[n].wave = acmPolicies[n].wave]_vars
-----------------------------------------------------------------------------
(* The result against the whole list of source file entries                *)

(* The places of the entries of policy n, and of those outside policies.   *)
EntriesOf(n) == {i \in DOMAIN entries : Wrapped(entries[i]) /\ entries[i].policyName = n}
PlainEntries == {i \in DOMAIN entries : ~ Wrapped(entries[i])}

(* What each entry gives to the policy n.                                  *)
Given(n) == [i \in DOMAIN entries |-> IF i \in EntriesOf(n) THEN ObjectTemplates(entries[i]) ELSE <<>>]

(* While Build has not failed, every policy holds exactly the CRs of its   *)
(* entries, in the order of the template, each with the compliance type of *)
(* its own entry or the template's, and no CR still carries a wave of its  *)
(* own: nothing is lost, duplicated or moved to another policy by the      *)
(* create and append paths.  At the end this holds of all but the reserved *)
(* names.                                                                  *)
PolicyCRsKept ==
    \A n \in PolicyNames :
        result = "building" \/ (result = "ok" /\ n \notin Reserved) =>
            /\ acmPolicies[n] = Nil <=> EntriesOf(n) = {}
            /\ acmPolicies[n] # Nil => acmPolicies[n].objects = FlattenSeq(Given(n))

(* A CR that is written as it is ends up in the map under its key, and     *)
(* nothing else does: of the entries with one key, which the map cannot    *)
(* tell apart, the last of the template wins, and no policy or other entry *)
(* disturbs the rest.                                                      *)
PlainCRsCurrent ==
    result \in {"building", "ok"} =>
        LET With(k) == {i \in PlainEntries : PlainName(entries[i]) = k}
        IN  /\ DOMAIN plainCRs = {PlainName(entries[i]) : i \in PlainEntries}
            /\ \A k \in DOMAIN plainCRs :
                  \E last \in With(k) : /\ \A i \in With(k) : i <= last
                                        /\ plainCRs[k] = GetCustomResources(entries[last])

(* No CR of the template is lost, in a policy or outside.                  *)
NothingLost == PolicyCRsKept /\ PlainCRsCurrent

(* The values that the entries of n give explicitly in one field.          *)
Explicit(n, field) == {entries[i][field] : i \in EntriesOf(n)} \ {Unset}

(* What a policy's setting must be, stated without the order of the        *)
(* entries: the entries give at most one value other than the template's   *)
(* default, and that value wins.                                           *)
Resolves(value, explicit, default) ==
    LET overrides == explicit \ {default}
    IN  overrides = IF value = default THEN {} ELSE {value}

(* The remediation action and both evaluation intervals of every policy    *)
(* resolve that way, whichever entry of the policy comes first (the        *)
(* conflict checks of the append path only see the policy built so far).   *)
SettingsResolved ==
    result \in {"building", "ok"} =>
        \A n \in Live :
            /\ Resolves(acmPolicies[n].remediationAction,
                        Explicit(n, "remediationAction"), pgt.remediationAction)
            /\ Resolves(acmPolicies[n].compliant, Explicit(n, "compliant"), pgt.compliant)
            /\ Resolves(acmPolicies[n].nonCompliant, Explicit(n, "nonCompliant"), pgt.nonCompliant)
=============================================================================
