------------------------ MODULE PolicyBuilderProofs ------------------------
(***************************************************************************)
(* Machine-checked proofs about PolicyBuilder, for every catalogue of      *)
(* source files, every template and every bound on their number.           *)
(***************************************************************************)
EXTENDS PolicyBuilder, WellFoundedInduction, TLAPS

(* What one source file yields is a finite sequence of CRs.                *)
LEMMA FileDocuments ==
    ASSUME NEW f
    PROVE  LET docs == ReadSourceFile(f).docs
           IN  /\ docs \in Seq(Listed(docs))
               /\ \A i \in DOMAIN docs :
                        docs[i].wave \in Waves \cup {NoWave, NonStringWave}
<1> DEFINE Good(docs) == /\ docs \in Seq(Listed(docs))
                        /\ \A i \in DOMAIN docs :
                              docs[i].wave \in Waves \cup {NoWave, NonStringWave}
<1>1. f \in DOMAIN GitCRs => Good(GitCRs[f].docs)
  BY InputAssumption DEF WellTyped
<1>2. f \in DOMAIN ContainerCRs => Good(ContainerCRs[f].docs)
  BY InputAssumption DEF WellTyped
<1>3. Good(NotFound.docs)
  <2>1. NotFound.docs = << >>
    BY DEF NotFound
  <2>2. Good(<< >>)
    OBVIOUS
  <2> QED
    BY <2>1, <2>2
<1> HIDE DEF Good
<1>4. Good(ReadSourceFile(f).docs)
  BY <1>1, <1>2, <1>3 DEF ReadSourceFile
<1> QED
  BY <1>4 DEF Good

LEMMA ResourcesType ==
    ASSUME NEW s \in SourceFiles
    PROVE  /\ GetCustomResources(s) \in Seq(BuiltCRs)
           /\ \A i \in DOMAIN GetCustomResources(s) :
                 GetCustomResources(s)[i].wave \in Waves \cup {NoWave, NonStringWave}
<1> DEFINE docs == ReadSourceFile(s.fileName).docs
           crs == GetCustomResources(s)
<1>1. /\ docs \in Seq(Listed(docs))
      /\ \A i \in DOMAIN docs : docs[i].wave \in Waves \cup {NoWave, NonStringWave}
  BY FileDocuments
<1>2. /\ DOMAIN docs = 1..Len(docs)
      /\ Len(docs) \in Nat
  BY <1>1
<1>3. crs = [i \in 1..Len(docs) |-> GetCustomResource(s, docs[i])]
  BY <1>2 DEF GetCustomResources
<1>4. \A i \in 1..Len(docs) : crs[i] \in BuiltCRs
  BY <1>3 DEF BuiltCRs, Listed
<1>5. crs \in Seq(BuiltCRs)
  BY <1>2, <1>3, <1>4
<1>6. ASSUME NEW i \in 1..Len(docs)
      PROVE  crs[i].wave \in Waves \cup {NoWave, NonStringWave}
  <2>1. crs[i].wave = IF s.wave # Unset THEN s.wave ELSE docs[i].wave
    BY <1>3 DEF GetCustomResource, Override
  <2>2. s.wave \in Waves \cup {Unset}
    BY InputAssumption
  <2>3. docs[i].wave \in Waves \cup {NoWave, NonStringWave}
    BY <1>1, <1>2
  <2> HIDE DEF docs, crs
  <2> QED
    BY <2>1, <2>2, <2>3
<1> QED
  BY <1>3, <1>5, <1>6

LEMMA TemplatesType ==
    ASSUME NEW s \in SourceFiles, pgt \in Pgts
    PROVE  /\ ObjectTemplates(s) \in Seq(ObjectTemplate)
           /\ DOMAIN ObjectTemplates(s) = DOMAIN GetCustomResources(s)
           /\ \A i \in DOMAIN ObjectTemplates(s) :
                 ObjectTemplates(s)[i].declared = GetCustomResources(s)[i].wave
<1> DEFINE crs == GetCustomResources(s)
<1>1. /\ crs \in Seq(BuiltCRs)
      /\ \A i \in DOMAIN crs : crs[i].wave \in Waves \cup {NoWave, NonStringWave}
  BY ResourcesType
<1>2. DOMAIN crs = 1..Len(crs) /\ Len(crs) \in Nat
  BY <1>1
<1>3. \A i \in DOMAIN crs : crs[i] \in BuiltCRs
  BY <1>1
<1>4. \A i \in DOMAIN crs : BuildObjectTemplate(s, crs[i]) \in ObjectTemplate
  BY <1>1, <1>3 DEF BuildObjectTemplate, ObjectTemplate, ComplianceTypes
<1>5. ObjectTemplates(s) = [i \in 1..Len(crs) |-> BuildObjectTemplate(s, crs[i])]
  BY <1>2 DEF ObjectTemplates
<1>6. ObjectTemplates(s) \in Seq(ObjectTemplate)
  BY <1>2, <1>4, <1>5
<1>7. \A i \in DOMAIN crs : ObjectTemplates(s)[i].declared = crs[i].wave
  BY <1>2, <1>5 DEF BuildObjectTemplate
<1> QED
  BY <1>2, <1>5, <1>6, <1>7

(* The wave a policy gets from the CRs of one more source file.            *)
LEMMA WaveStep ==
    ASSUME NEW w \in Waves \cup {NoWave}, NEW s \in SourceFiles,
           ~WaveConflict(w, GetCustomResources(s))
    PROVE  LET crs == GetCustomResources(s)
               new == SetPolicyDeployWave(w, crs)
           IN  /\ new \in Waves \cup {NoWave}
               /\ w # NoWave => new = w
               /\ \A i \in DOMAIN crs : crs[i].wave \in Waves => crs[i].wave = new
               /\ new # NoWave => new = w \/ \E i \in DOMAIN crs : crs[i].wave = new
<1> DEFINE crs == GetCustomResources(s)
           new == SetPolicyDeployWave(w, crs)
           D == DeclaredWaves(crs)
<1>1. D \subseteq Waves
  BY DEF DeclaredWaves
<1>2. \A w1, w2 \in D \cup ({w} \ {NoWave}) : w1 = w2
  BY DEF WaveConflict
<1>3. D # {} => (CHOOSE d \in D : TRUE) \in D
  OBVIOUS
<1>4. new = IF w # NoWave \/ D = {} THEN w ELSE CHOOSE d \in D : TRUE
  BY DEF SetPolicyDeployWave
<1>5. \A i \in DOMAIN crs : crs[i].wave \in Waves => crs[i].wave \in D
  BY DEF DeclaredWaves
<1>6. \A d \in D : \E i \in DOMAIN crs : crs[i].wave = d
  BY DEF DeclaredWaves
<1> HIDE DEF crs, new, D
<1>7. new \in Waves \cup {NoWave}
  BY <1>1, <1>3, <1>4
<1>8. w # NoWave => new = w
  BY <1>4
<1>9. \A d \in D : d = new
  BY <1>2, <1>3, <1>4
<1>10. \A i \in DOMAIN crs : crs[i].wave \in Waves => crs[i].wave = new
  BY <1>5, <1>9
<1>11. new # NoWave => new = w \/ \E i \in DOMAIN crs : crs[i].wave = new
  BY <1>3, <1>4, <1>6
<1> QED
  BY <1>7, <1>8, <1>10, <1>11 DEF crs, new

(* A policy made from one source file, and one that gets another.          *)
LEMMA CreatedType ==
    ASSUME NEW s \in SourceFiles, pgt \in Pgts,
           ~WaveConflict(NoWave, GetCustomResources(s))
    PROVE  CreateAcmPolicy(s) \in AcmPolicy
<1>1. SetPolicyDeployWave(NoWave, GetCustomResources(s)) \in Waves \cup {NoWave}
  BY WaveStep
<1>2. ObjectTemplates(s) \in Seq(ObjectTemplate)
  BY TemplatesType
<1> QED
  BY <1>1, <1>2 DEF CreateAcmPolicy, AcmPolicy, RemediationActions, Compliants, NonCompliants

LEMMA AppendedType ==
    ASSUME NEW s \in SourceFiles, pgt \in Pgts, NEW p \in AcmPolicy,
           ~WaveConflict(p.wave, GetCustomResources(s))
    PROVE  AppendAcmPolicy(p, s) \in AcmPolicy
<1>1. SetPolicyDeployWave(p.wave, GetCustomResources(s)) \in Waves \cup {NoWave}
  BY WaveStep DEF AcmPolicy
<1>2. p.objects \o ObjectTemplates(s) \in Seq(ObjectTemplate)
  BY TemplatesType DEF AcmPolicy
<1> QED
  BY <1>1, <1>2 DEF AppendAcmPolicy, AcmPolicy, RemediationActions, Compliants, NonCompliants

-----------------------------------------------------------------------------
(* Type correctness                                                        *)

(* Build keeps the shape of its state: every value stored under a policy's *)
(* key is a policy made of the templates' and the source files' settings.  *)
THEOREM TypeCorrect == Spec => []TypeOK
<1>1. Init => TypeOK
  BY DEF Init, TypeOK
<1>2. TypeOK /\ [Next]_vars => TypeOK'
  <2> SUFFICES ASSUME TypeOK, [Next]_vars PROVE TypeOK'
    OBVIOUS
  <2> USE DEF TypeOK
  <2>1. CASE RejectTemplate
    BY <2>1 DEF RejectTemplate, Fail
  <2>2. ASSUME NEW s \in SourceFiles, ProcessSourceFile(s) PROVE TypeOK'
    <3>1. Wrapped(s) => s.policyName \in PolicyNames
      BY InputAssumption DEF Wrapped
    <3>2. entries' \in Seq(SourceFiles)
      <4>1. Take(s)
        BY <2>2, Zenon DEF ProcessSourceFile, SourceFileError, WritePlainCR, PlainCRPanic,
                           NewPolicy, NewPolicyError, AppendToPolicy, AppendError
      <4>2. entries' = Append(entries, s)
        BY <4>1 DEF Take
      <4> QED
        BY <4>2
    <3>3. CASE SourceFileError(s) \/ PlainCRPanic(s) \/ NewPolicyError(s) \/ AppendError(s)
      BY <3>2, <3>3 DEF SourceFileError, PlainCRPanic, NewPolicyError, AppendError, Fail
    <3>4. CASE WritePlainCR(s)
      BY <3>2, <3>4 DEF WritePlainCR
    <3>5. CASE NewPolicy(s)
      <4>1. CreateAcmPolicy(s) \in AcmPolicy
        BY <3>5, CreatedType DEF NewPolicy, NewPolicyRefused
      <4>2. s.policyName \in PolicyNames
        BY <3>1, <3>5 DEF NewPolicy
      <4>3. subjects' \in Seq(PolicyNames)
        BY <3>5, <4>2 DEF NewPolicy
      <4>4. acmPolicies' \in [PolicyNames -> AcmPolicy \cup {Nil}]
        BY <3>5, <4>1, <4>2 DEF NewPolicy
      <4> QED
        BY <3>2, <3>5, <4>3, <4>4 DEF NewPolicy
    <3>6. CASE AppendToPolicy(s)
      <4>1. acmPolicies[s.policyName] \in AcmPolicy
        BY <3>1, <3>6 DEF AppendToPolicy
      <4>2. AppendAcmPolicy(acmPolicies[s.policyName], s) \in AcmPolicy
        BY <3>6, <4>1, AppendedType DEF AppendToPolicy, AppendRefused
      <4> QED
        BY <3>1, <3>2, <3>6, <4>2 DEF AppendToPolicy
    <3> QED
      BY <2>2, <3>3, <3>4, <3>5, <3>6 DEF ProcessSourceFile
  <2>3. CASE Finish
    BY <2>3 DEF Finish, CreatePlacement
  <2>4. CASE FinishWithoutPolicies
    BY <2>4 DEF FinishWithoutPolicies
  <2>5. CASE PlacementError
    BY <2>5 DEF PlacementError, Fail
  <2>6. CASE UNCHANGED vars
    BY <2>6 DEF vars
  <2> QED
    BY <2>1, <2>2, <2>3, <2>4, <2>5, <2>6 DEF Next
<1> QED
  BY <1>1, <1>2, PTL DEF Spec

-----------------------------------------------------------------------------
(* What each source file does to a policy                                  *)

LEMMA CreatedSound ==
    ASSUME NEW s \in SourceFiles, pgt \in Pgts, ~NewPolicyRefused(s)
    PROVE  CarriesItsWave(CreateAcmPolicy(s)) /\ Consistent(CreateAcmPolicy(s))
<1> DEFINE p == CreateAcmPolicy(s)
           crs == GetCustomResources(s)
<1>1. ~WaveConflict(NoWave, crs)
  BY DEF NewPolicyRefused
<1>2. p.wave = SetPolicyDeployWave(NoWave, crs) /\ p.objects = ObjectTemplates(s)
  BY DEF CreateAcmPolicy
<1>3. /\ \A i \in DOMAIN crs : crs[i].wave \in Waves => crs[i].wave = p.wave
      /\ p.wave # NoWave => \E i \in DOMAIN crs : crs[i].wave = p.wave
  BY <1>1, <1>2, WaveStep
<1>4. CarriesItsWave(p)
  BY <1>2, <1>3, TemplatesType DEF CarriesItsWave
<1>5. Consistent(p)
  BY DEF CreateAcmPolicy, Consistent, NewPolicyRefused, FileIntervalsValid
<1> QED
  BY <1>4, <1>5

(* Appending keeps the objects in place and the wave, and is sound.        *)
LEMMA AppendedSound ==
    ASSUME NEW s \in SourceFiles, pgt \in Pgts, NEW p \in AcmPolicy,
           ~AppendRefused(p, s)
    PROVE  LET q == AppendAcmPolicy(p, s)
           IN  /\ \A i \in DOMAIN p.objects :
                    i \in DOMAIN q.objects /\ q.objects[i] = p.objects[i]
               /\ p.wave # NoWave => q.wave = p.wave
               /\ CarriesItsWave(p) => CarriesItsWave(q)
               /\ Consistent(p) => Consistent(q)
<1> DEFINE q == AppendAcmPolicy(p, s)
           crs == GetCustomResources(s)
           more == ObjectTemplates(s)
           n == Len(p.objects)
<1>1. p.wave \in Waves \cup {NoWave} /\ p.objects \in Seq(ObjectTemplate)
  BY DEF AcmPolicy
<1>2. ~WaveConflict(p.wave, crs)
  BY DEF AppendRefused
<1>3. q.wave = SetPolicyDeployWave(p.wave, crs) /\ q.objects = p.objects \o more
  BY DEF AppendAcmPolicy
<1>4. /\ p.wave # NoWave => q.wave = p.wave
      /\ \A i \in DOMAIN crs : crs[i].wave \in Waves => crs[i].wave = q.wave
      /\ q.wave # NoWave => q.wave = p.wave \/ \E i \in DOMAIN crs : crs[i].wave = q.wave
  BY <1>1, <1>2, <1>3, WaveStep
<1>5. /\ more \in Seq(ObjectTemplate)
      /\ DOMAIN more = DOMAIN crs
      /\ \A i \in DOMAIN more : more[i].declared = crs[i].wave
  BY TemplatesType
<1> HIDE DEF q, crs, more
<1>6. /\ n \in Nat /\ Len(more) \in Nat
      /\ DOMAIN p.objects = 1..n /\ DOMAIN more = 1..Len(more)
      /\ DOMAIN q.objects = 1..(n + Len(more))
      /\ \A i \in 1..n : q.objects[i] = p.objects[i]
      /\ \A i \in 1..Len(more) : q.objects[n + i] = more[i]
  BY <1>1, <1>3, <1>5
<1>7. \A i \in DOMAIN p.objects : i \in DOMAIN q.objects /\ q.objects[i] = p.objects[i]
  BY <1>6
<1>8. ASSUME CarriesItsWave(p) PROVE CarriesItsWave(q)
  <2>1. ASSUME NEW i \in DOMAIN q.objects, q.objects[i].declared \in Waves
        PROVE  q.objects[i].declared = q.wave
    <3>1. CASE i \in 1..n
      <4>1. p.objects[i].declared \in Waves /\ p.objects[i].declared = p.wave
        BY <1>6, <1>8, <2>1, <3>1 DEF CarriesItsWave
      <4> QED
        BY <1>4, <1>6, <3>1, <4>1, WaveAssumption
    <3>2. CASE i \notin 1..n
      <4>1. i - n \in 1..Len(more) /\ i = n + (i - n)
        BY <1>6, <2>1, <3>2
      <4>2. q.objects[i] = more[i - n]
        BY <1>6, <4>1
      <4> QED
        BY <1>4, <1>5, <1>6, <2>1, <4>1, <4>2
    <3> QED
      BY <3>1, <3>2
  <2>2. ASSUME q.wave # NoWave
        PROVE  \E i \in DOMAIN q.objects : q.objects[i].declared = q.wave
    <3>1. CASE q.wave = p.wave
      <4>1. PICK i \in DOMAIN p.objects : p.objects[i].declared = p.wave
        BY <1>8, <2>2, <3>1 DEF CarriesItsWave
      <4> QED
        BY <1>7, <3>1, <4>1
    <3>2. CASE q.wave # p.wave
      <4>1. PICK i \in DOMAIN crs : crs[i].wave = q.wave
        BY <1>4, <2>2, <3>2
      <4>2. i \in 1..Len(more) /\ more[i].declared = q.wave
        BY <1>5, <1>6, <4>1
      <4>3. n + i \in DOMAIN q.objects /\ q.objects[n + i].declared = q.wave
        BY <1>6, <4>2
      <4> QED
        BY <4>3
    <3> QED
      BY <3>1, <3>2
  <2> QED
    BY <2>1, <2>2 DEF CarriesItsWave
<1>9. Consistent(p) => Consistent(q)
  BY DEF q, AppendAcmPolicy, Consistent, AppendRefused, FileIntervalsValid
<1> QED
  BY <1>4, <1>7, <1>8, <1>9 DEF q

(* How a policy comes to be what it is after a step: it was left alone,    *)
(* created by a source file, or appended to by one.                        *)
LEMMA PolicyStep ==
    ASSUME TypeOK, [Next]_vars, NEW n \in PolicyNames, acmPolicies'[n] # Nil
    PROVE  \/ acmPolicies'[n] = acmPolicies[n]
           \/ /\ acmPolicies[n] = Nil
              /\ \E s \in SourceFiles : /\ s.policyName = n
                                        /\ ~NewPolicyRefused(s)
                                        /\ acmPolicies'[n] = CreateAcmPolicy(s)
           \/ /\ acmPolicies[n] \in AcmPolicy
              /\ \E s \in SourceFiles : /\ ~AppendRefused(acmPolicies[n], s)
                                        /\ acmPolicies'[n] = AppendAcmPolicy(acmPolicies[n], s)
<1> USE DEF TypeOK
<1>1. CASE RejectTemplate \/ PlacementError
  BY <1>1 DEF RejectTemplate, PlacementError, Fail
<1>2. CASE FinishWithoutPolicies
  BY <1>2 DEF FinishWithoutPolicies
<1>3. CASE Finish
  BY <1>3 DEF Finish, CreatePlacement
<1>4. CASE UNCHANGED vars
  BY <1>4 DEF vars
<1>5. ASSUME NEW s \in SourceFiles, ProcessSourceFile(s),
             acmPolicies'[n] # acmPolicies[n]
      PROVE  \/ /\ acmPolicies[n] = Nil
                /\ s.policyName = n /\ ~NewPolicyRefused(s)
                /\ acmPolicies'[n] = CreateAcmPolicy(s)
             \/ /\ acmPolicies[n] \in AcmPolicy
                /\ ~AppendRefused(acmPolicies[n], s)
                /\ acmPolicies'[n] = AppendAcmPolicy(acmPolicies[n], s)
  <2>1. ~(SourceFileError(s) \/ PlainCRPanic(s) \/ NewPolicyError(s) \/ AppendError(s))
    BY <1>5 DEF SourceFileError, PlainCRPanic, NewPolicyError, AppendError, Fail
  <2>2. ~WritePlainCR(s)
    BY <1>5 DEF WritePlainCR
  <2>3. CASE NewPolicy(s)
    BY <1>5, <2>3 DEF NewPolicy
  <2>4. CASE AppendToPolicy(s)
    BY <1>5, <2>4 DEF AppendToPolicy
  <2> QED
    BY <1>5, <2>1, <2>2, <2>3, <2>4 DEF ProcessSourceFile
<1> QED
  BY <1>1, <1>2, <1>3, <1>4, <1>5 DEF Next

-----------------------------------------------------------------------------
(* The properties of single policies                                       *)

(* Build never changes the template it was given.                          *)
LEMMA TemplateFixed == ASSUME [Next]_vars PROVE pgt' = pgt
<1>1. ASSUME NEW s \in SourceFiles, ProcessSourceFile(s) PROVE pgt' = pgt
  BY <1>1 DEF ProcessSourceFile, SourceFileError, WritePlainCR, PlainCRPanic, NewPolicy,
              NewPolicyError, AppendToPolicy, AppendError, Fail
<1> QED
  BY <1>1 DEF Next, vars, RejectTemplate, Finish, FinishWithoutPolicies, PlacementError, Fail

(* For any catalogue of source files, a policy's deploy wave is that of    *)
(* every CR in it that declares one, and is declared by one of them.       *)
THEOREM WavesAlwaysAgree == Spec => []WavesAgree
<1>1. Init => WavesAgree
  BY DEF Init, WavesAgree, Live
<1>2. TypeOK /\ WavesAgree /\ [Next]_vars => WavesAgree'
  <2> SUFFICES ASSUME TypeOK, WavesAgree, [Next]_vars,
                      NEW n \in PolicyNames, acmPolicies'[n] # Nil
               PROVE  CarriesItsWave(acmPolicies'[n])
    BY DEF WavesAgree, Live, CarriesItsWave
  <2>1. acmPolicies[n] # Nil => CarriesItsWave(acmPolicies[n])
    BY DEF WavesAgree, Live
  <2>2. pgt \in Pgts
    BY DEF TypeOK
  <2> QED
    BY <2>1, <2>2, PolicyStep, CreatedSound, AppendedSound, NilAssumption
<1> QED
  BY <1>1, <1>2, TypeCorrect, PTL DEF Spec

(* For any catalogue, the two remediation actions of a policy agree and    *)
(* its evaluation intervals are valid ones.                                *)
THEOREM SettingsAlwaysSound == Spec => []SettingsSound
<1>1. Init => SettingsSound
  BY DEF Init, SettingsSound, Live
<1>2. TypeOK /\ SettingsSound /\ [Next]_vars => SettingsSound'
  <2> SUFFICES ASSUME TypeOK, SettingsSound, [Next]_vars,
                      NEW n \in PolicyNames, acmPolicies'[n] # Nil
               PROVE  Consistent(acmPolicies'[n])
    BY DEF SettingsSound, Live, Consistent, ValidateInterval
  <2>1. acmPolicies[n] # Nil => Consistent(acmPolicies[n])
    BY DEF SettingsSound, Live
  <2>2. pgt \in Pgts
    BY DEF TypeOK
  <2> QED
    BY <2>1, <2>2, PolicyStep, CreatedSound, AppendedSound, NilAssumption
<1> QED
  BY <1>1, <1>2, TypeCorrect, PTL DEF Spec

(* For any catalogue, a later source file never drops, moves or rewrites a *)
(* CR that a policy already has, nor replaces its deploy wave.             *)
THEOREM PoliciesOnlyGrow == Spec => PolicyGrows
<1> DEFINE Grows(p, q) == /\ \A i \in DOMAIN p.objects :
                                 i \in DOMAIN q.objects /\ q.objects[i] = p.objects[i]
                          /\ p.wave # NoWave => q.wave = p.wave
<1>1. TypeOK /\ [Next]_vars =>
        [\A n \in PolicyNames :
            (acmPolicies[n] # Nil /\ acmPolicies'[n] # Nil) =>
                /\ \A i \in DOMAIN acmPolicies[n].objects :
                      /\ i \in DOMAIN acmPolicies'[n].objects
                      /\ acmPolicies'[n].objects[i] = acmPolicies[n].objects[i]
                /\ acmPolicies[n].wave # NoWave =>
                      acmPolicies'[n].wave = acmPolicies[n].wave]_vars
  <2> SUFFICES ASSUME TypeOK, [Next]_vars, NEW n \in PolicyNames,
                      acmPolicies[n] # Nil, acmPolicies'[n] # Nil
               PROVE  Grows(acmPolicies[n], acmPolicies'[n])
    OBVIOUS
  <2>1. pgt \in Pgts
    BY DEF TypeOK
  <2>2. CASE acmPolicies'[n] = acmPolicies[n]
    BY <2>2
  <2>3. CASE acmPolicies'[n] # acmPolicies[n]
    <3>1. PICK s \in SourceFiles : /\ acmPolicies[n] \in AcmPolicy
                                   /\ ~AppendRefused(acmPolicies[n], s)
                                   /\ acmPolicies'[n] = AppendAcmPolicy(acmPolicies[n], s)
      BY <2>3, PolicyStep
    <3> QED
      BY <2>1, <3>1, AppendedSound
  <2> QED
    BY <2>2, <2>3
<1> QED
  BY <1>1, TypeCorrect, PTL DEF Spec, PolicyGrows

-----------------------------------------------------------------------------
(* Names                                                                   *)

(* NamesFit is about finished builds only; what the steps preserve is that *)
(* every policy, at any time, and the binding, once made, have short names.*)
NamesInv ==
    /\ \A n \in Live : pgt.prefixLength + PolicyNameLength[n] <= MaxNameLength
    /\ placement # NoPlacement => pgt.prefixLength + BindingNameLength <= MaxNameLength

(* For any catalogue, nothing a successful Build returns has a name longer *)
(* than ACM accepts.                                                       *)
THEOREM NamesAlwaysFit == Spec => []NamesFit
<1>1. Init => NamesInv
  BY DEF Init, NamesInv, Live
<1>2. TypeOK /\ NamesInv /\ [Next]_vars => NamesInv'
  <2> SUFFICES ASSUME TypeOK, NamesInv, [Next]_vars PROVE NamesInv'
    OBVIOUS
  <2>1. pgt' = pgt
    BY TemplateFixed
  <2>2. ASSUME NEW n \in PolicyNames, acmPolicies'[n] # Nil
        PROVE  pgt.prefixLength + PolicyNameLength[n] <= MaxNameLength
    <3>1. CASE acmPolicies[n] # Nil
      BY <3>1 DEF NamesInv, Live
    <3>2. CASE acmPolicies[n] = Nil
      <4>1. PICK s \in SourceFiles : s.policyName = n /\ ~NewPolicyRefused(s)
        BY <2>2, <3>2, PolicyStep, NilAssumption
      <4> QED
        BY <4>1 DEF NewPolicyRefused, CheckNameLength
    <3> QED
      BY <3>1, <3>2
  <2>3. ASSUME placement' # NoPlacement
        PROVE  pgt.prefixLength + BindingNameLength <= MaxNameLength
    <3>1. CASE Finish
      BY <3>1 DEF Finish, PlacementRefused, CheckNameLength
    <3>2. CASE ~Finish
      <4>1. ASSUME NEW s \in SourceFiles, ProcessSourceFile(s) PROVE placement' = placement
        BY <4>1 DEF ProcessSourceFile, SourceFileError, WritePlainCR, PlainCRPanic, NewPolicy,
                    NewPolicyError, AppendToPolicy, AppendError, Fail
      <4>2. placement' = placement
        BY <3>2, <4>1 DEF Next, vars, RejectTemplate, FinishWithoutPolicies,
                          PlacementError, Fail
      <4> QED
        BY <2>3, <4>2 DEF NamesInv
    <3> QED
      BY <3>1, <3>2
  <2> QED
    BY <2>1, <2>2, <2>3 DEF NamesInv, Live
<1>3. NamesInv => NamesFit
  BY DEF NamesInv, NamesFit
<1> QED
  BY <1>1, <1>2, <1>3, TypeCorrect, PTL DEF Spec

-----------------------------------------------------------------------------
(* The placement binding                                                   *)

Distinct(names) == \A i, j \in DOMAIN names : names[i] = names[j] => i = j

(* BindingCoversPolicies speaks of the end of Build.  During the loop the  *)
(* subjects are exactly the policies of the map and there is no placement. *)
BindingInv ==
    /\ Distinct(subjects)
    /\ placement # NoPlacement => placement.subjects = subjects
    /\ result = "building" => placement = NoPlacement /\ Live = Listed(subjects)
    /\ result = "ok" => /\ placement.subjects = subjects
                        /\ Live \ Reserved = Listed(subjects) \ Reserved

LEMMA AppendSubject ==
    ASSUME NEW names \in Seq(PolicyNames), NEW n \in PolicyNames,
           n \notin Listed(names), Distinct(names)
    PROVE  /\ Distinct(Append(names, n))
           /\ Listed(Append(names, n)) = Listed(names) \cup {n}
<1> DEFINE more == Append(names, n)
<1>1. /\ DOMAIN names = 1..Len(names) /\ Len(names) \in Nat
      /\ DOMAIN more = 1..(Len(names) + 1)
      /\ \A i \in 1..Len(names) : more[i] = names[i]
      /\ more[Len(names) + 1] = n
  OBVIOUS
<1> HIDE DEF more
<1>2. \A i \in DOMAIN more : i \in DOMAIN names \/ i = Len(names) + 1
  BY <1>1
<1>3. \A i \in DOMAIN names : more[i] = names[i] /\ names[i] # n
  BY <1>1 DEF Listed
<1>4. Distinct(more)
  BY <1>1, <1>2, <1>3 DEF Distinct
<1>5. Listed(more) \subseteq Listed(names) \cup {n}
  BY <1>1, <1>2, <1>3 DEF Listed
<1>6. Listed(names) \cup {n} \subseteq Listed(more)
  BY <1>1, <1>3 DEF Listed
<1> QED
  BY <1>4, <1>5, <1>6 DEF more

(* For any catalogue, the binding of a successful Build lists every policy *)
(* in its map exactly once and nothing else, reserved names aside.         *)
THEOREM BindingAlwaysCovers == Spec => []BindingCoversPolicies
<1>1. Init => BindingInv
  BY DEF Init, BindingInv, Live, Listed, Distinct, NoPlacement
<1>2. TypeOK /\ BindingInv /\ [Next]_vars => BindingInv'
  <2> SUFFICES ASSUME TypeOK, BindingInv, [Next]_vars PROVE BindingInv'
    OBVIOUS
  <2>1. ASSUME NEW how \in {"error", "panic"}, Fail(how) PROVE BindingInv'
    BY <2>1 DEF Fail, BindingInv, Distinct
  <2>2. CASE RejectTemplate \/ PlacementError
    BY <2>1, <2>2 DEF RejectTemplate, PlacementError
  <2>3. ASSUME NEW s \in SourceFiles, ProcessSourceFile(s) PROVE BindingInv'
    <3>1. CASE SourceFileError(s) \/ PlainCRPanic(s) \/ NewPolicyError(s) \/ AppendError(s)
      BY <2>1, <3>1 DEF SourceFileError, PlainCRPanic, NewPolicyError, AppendError
    <3>2. CASE WritePlainCR(s)
      BY <3>2 DEF WritePlainCR, BindingInv, Live, Distinct
    <3>3. s.policyName # "" => s.policyName \in PolicyNames
      BY InputAssumption
    <3>4. CASE NewPolicy(s)
      <4>1. /\ result = "building" /\ result' = "building" /\ placement' = placement
            /\ acmPolicies[s.policyName] = Nil
            /\ acmPolicies' = [acmPolicies EXCEPT ![s.policyName] = CreateAcmPolicy(s)]
            /\ subjects' = Append(subjects, s.policyName)
            /\ s.policyName # ""
        BY <3>4 DEF NewPolicy, Take, Wrapped
      <4>2. CreateAcmPolicy(s) # Nil
        BY <3>4, CreatedType, NilAssumption DEF NewPolicy, NewPolicyRefused, TypeOK
      <4>3. Live' = Live \cup {s.policyName}
        BY <3>3, <4>1, <4>2 DEF Live, TypeOK
      <4>4. s.policyName \notin Listed(subjects) /\ Live = Listed(subjects)
        BY <4>1 DEF BindingInv, Live
      <4>5. /\ Distinct(subjects)'
            /\ Listed(subjects)' = Listed(subjects) \cup {s.policyName}
        BY <3>3, <4>1, <4>4, AppendSubject DEF BindingInv, TypeOK
      <4> QED
        BY <4>1, <4>3, <4>4, <4>5 DEF BindingInv
    <3>5. CASE AppendToPolicy(s)
      <4>1. /\ result = "building" /\ result' = "building"
            /\ placement' = placement /\ subjects' = subjects
            /\ acmPolicies[s.policyName] # Nil
            /\ acmPolicies' = [acmPolicies EXCEPT
                                 ![s.policyName] = AppendAcmPolicy(acmPolicies[s.policyName], s)]
            /\ s.policyName # ""
        BY <3>5 DEF AppendToPolicy, Take, Wrapped
      <4>2. AppendAcmPolicy(acmPolicies[s.policyName], s) # Nil
        <5>1. acmPolicies[s.policyName] \in AcmPolicy
          BY <3>3, <4>1 DEF TypeOK
        <5>2. ~WaveConflict(acmPolicies[s.policyName].wave, GetCustomResources(s))
          BY <3>5 DEF AppendToPolicy, AppendRefused
        <5> QED
          BY <5>1, <5>2, AppendedType, NilAssumption DEF TypeOK
      <4>3. Live' = Live
        BY <3>3, <4>1, <4>2 DEF Live, TypeOK
      <4> QED
        BY <4>1, <4>3 DEF BindingInv, Distinct
    <3> QED
      BY <2>3, <3>1, <3>2, <3>4, <3>5 DEF ProcessSourceFile
  <2>4. CASE Finish
    <3>1. /\ result = "building" /\ result' = "ok" /\ subjects' = subjects
          /\ placement'.subjects = subjects
          /\ acmPolicies' = [n \in PolicyNames |-> IF n \in Reserved THEN Nil ELSE acmPolicies[n]]
      BY <2>4 DEF Finish, CreatePlacement
    <3>2. Live' \ Reserved = Live \ Reserved
      BY <3>1 DEF Live
    <3> QED
      BY <3>1, <3>2 DEF BindingInv, Distinct
  <2>5. CASE FinishWithoutPolicies
    BY <2>5 DEF FinishWithoutPolicies, BindingInv, Distinct, Live, NoPlacement
  <2>6. CASE UNCHANGED vars
    BY <2>6 DEF vars, BindingInv, Live, Distinct
  <2> QED
    BY <2>2, <2>3, <2>4, <2>5, <2>6 DEF Next
<1>3. BindingInv => BindingCoversPolicies
  BY DEF BindingInv, BindingCoversPolicies, Distinct
<1> QED
  BY <1>1, <1>2, <1>3, TypeCorrect, PTL DEF Spec

-----------------------------------------------------------------------------
(* Concatenation of sequences                                              *)

LEMMA Least ==
    ASSUME NEW T, T \subseteq Nat, T # {}
    PROVE  \E x \in T : \A y \in Nat : y < x => y \notin T
<1> DEFINE R == {p \in Nat \X Nat : p[1] < p[2]}
<1>1. IsWellFoundedOn(R, Nat)
  BY NatLessThanWellFounded DEF OpToRel
<1>2. \A x, y \in Nat : y < x => <<y, x>> \in R
  OBVIOUS
<1> HIDE DEF R
<1>3. PICK x \in T : \A y \in T : ~ (<<y, x>> \in R)
  BY <1>1, WFMin
<1> QED
  BY <1>2, <1>3

(* f[i] is the concatenation of the first i sequences of ss.               *)
Flat(f, n, ss) == f = [i \in 1..n |-> IF i = 1 THEN ss[i] ELSE f[i - 1] \o ss[i]]

LEMMA FlatAt ==
    ASSUME NEW f, NEW n \in Nat, NEW ss, Flat(f, n, ss), NEW i \in 1..n
    PROVE  f[i] = IF i = 1 THEN ss[i] ELSE f[i - 1] \o ss[i]
<1> DEFINE body == [j \in 1..n |-> IF j = 1 THEN ss[j] ELSE f[j - 1] \o ss[j]]
<1>1. body[i] = IF i = 1 THEN ss[i] ELSE f[i - 1] \o ss[i]
  OBVIOUS
<1>2. f = body
  BY DEF Flat
<1> HIDE DEF body
<1>3. f[i] = body[i]
  BY <1>2
<1> QED
  BY <1>1, <1>3

(* There is such a function, by the least number for which there is none.  *)
LEMMA FlatExists ==
    ASSUME NEW n \in Nat, NEW ss
    PROVE  \E f : Flat(f, n, ss)
<1> DEFINE Bad == {k \in Nat : ~ \E f : Flat(f, k, ss)}
<1> SUFFICES ASSUME Bad # {} PROVE FALSE
  OBVIOUS
<1>1. PICK m \in Bad : \A y \in Nat : y < m => y \notin Bad
  BY Least
<1>2. m # 0
  <2>1. \A f : f = [i \in 1..0 |-> 0] => Flat(f, 0, ss)
    BY DEF Flat
  <2> QED
    BY <2>1
<1>3. m \in Nat /\ m - 1 \in Nat
  BY <1>2
<1>4. m - 1 \notin Bad
  <2> HIDE DEF Bad
  <2> QED BY <1>1, <1>3
<1>5. PICK g : Flat(g, m - 1, ss)
  BY <1>3, <1>4
<1> DEFINE f == [i \in 1..m |-> IF i = m THEN (IF m = 1 THEN ss[m] ELSE g[m - 1] \o ss[m]) ELSE g[i]]
<1>6. ASSUME NEW i \in 1..m
      PROVE  f[i] = IF i = 1 THEN ss[i] ELSE f[i - 1] \o ss[i]
  <2>1. i # 1 => i - 1 \in 1..m /\ i - 1 # m
    BY <1>3
  <2>2. i # 1 => f[i - 1] = g[i - 1]
    BY <2>1
  <2>3. CASE i = m
    <3>1. f[i] = IF m = 1 THEN ss[m] ELSE g[m - 1] \o ss[m]
      BY <2>3
    <3> HIDE DEF f
    <3> QED BY <2>2, <2>3, <3>1
  <2>4. CASE i # m
    <3>1. i \in 1..(m - 1) /\ f[i] = g[i]
      BY <1>3, <2>4
    <3>2. g[i] = IF i = 1 THEN ss[i] ELSE g[i - 1] \o ss[i]
      BY <1>5, <3>1 DEF Flat
    <3> HIDE DEF f
    <3> QED BY <2>2, <3>1, <3>2
  <2> QED BY <2>3, <2>4
<1>7. f = [i \in 1..m |-> f[i]]
  OBVIOUS
<1> HIDE DEF f
<1>8. Flat(f, m, ss)
  BY <1>6, <1>7 DEF Flat
<1> QED
  BY <1>8

LEMMA FlattenIs ==
    ASSUME NEW ss, Len(ss) \in Nat, Len(ss) # 0
    PROVE  \E f : Flat(f, Len(ss), ss) /\ FlattenSeq(ss) = f[Len(ss)]
<1> DEFINE g == CHOOSE f : Flat(f, Len(ss), ss)
<1>1. Flat(g, Len(ss), ss)
  BY FlatExists
<1>2. FlattenSeq(ss) = g[Len(ss)]
  BY DEF FlattenSeq, Flat
<1> QED
  BY <1>1, <1>2

(* One more sequence is appended at the end.                               *)
LEMMA FlattenAppend ==
    ASSUME NEW ss, NEW tt, Len(ss) \in Nat, Len(tt) = Len(ss) + 1, Len(ss) = 0 => ss = <<>>,
           \A i \in 1..Len(ss) : tt[i] = ss[i],
           <<>> \o tt[Len(ss) + 1] = tt[Len(ss) + 1]
    PROVE  FlattenSeq(tt) = FlattenSeq(ss) \o tt[Len(ss) + 1]
<1> DEFINE n == Len(ss)
           x == tt[n + 1]
<1>0. /\ n \in Nat /\ Len(tt) = n + 1 /\ (n = 0 => ss = <<>>) /\ <<>> \o x = x
      /\ (\A i \in 1..n : tt[i] = ss[i]) /\ Len(ss) = n
  OBVIOUS
<1> SUFFICES FlattenSeq(tt) = FlattenSeq(ss) \o x
  OBVIOUS
<1> HIDE DEF n, x
<1>1. PICK g : Flat(g, n + 1, tt) /\ FlattenSeq(tt) = g[n + 1]
  BY <1>0, FlattenIs
<1>2. CASE n = 0
  <2>1. FlattenSeq(ss) = <<>>
    BY <1>0, <1>2 DEF FlattenSeq
  <2>2. g[1] = tt[1] /\ tt[1] = x
    BY <1>1, <1>2 DEF Flat, x
  <2> QED
    BY <1>0, <1>1, <1>2, <2>1, <2>2
<1>3. CASE n # 0
  <2>1. PICK f : Flat(f, n, ss) /\ FlattenSeq(ss) = f[n]
    BY <1>0, <1>3, FlattenIs
  <2> DEFINE Bad == {i \in 1..n : g[i] # f[i]}
  <2>2. Bad = {}
    <3> SUFFICES ASSUME Bad # {} PROVE FALSE
      OBVIOUS
    <3>1. PICK m \in Bad : \A y \in Nat : y < m => y \notin Bad
      <4>1. Bad \subseteq Nat
        OBVIOUS
      <4> HIDE DEF Bad
      <4> QED BY <4>1, Least
    <3>2. m \in 1..n /\ g[m] # f[m]
      OBVIOUS
    <3>3. m # 1 => m - 1 \in 1..n /\ m - 1 \notin Bad
      <4> HIDE DEF Bad
      <4> QED BY <1>0, <3>1, <3>2
    <3>4. m # 1 => g[m - 1] = f[m - 1]
      BY <3>3
    <3> HIDE DEF Bad
    <3>5. g[m] = IF m = 1 THEN tt[m] ELSE g[m - 1] \o tt[m]
      <4>1. m \in 1..(n + 1) /\ n + 1 \in Nat
        BY <1>0, <3>2
      <4> QED BY <1>1, <4>1, FlatAt
    <3>6. f[m] = IF m = 1 THEN ss[m] ELSE f[m - 1] \o ss[m]
      BY <1>0, <2>1, <3>2, FlatAt
    <3> QED BY <1>0, <3>2, <3>4, <3>5, <3>6
  <2>3. g[n] = f[n]
    BY <1>0, <1>3, <2>2
  <2>4. g[n + 1] = g[n] \o tt[n + 1]
    <3>1. n + 1 \in Nat /\ n + 1 \in 1..(n + 1) /\ n + 1 # 1 /\ (n + 1) - 1 = n
      BY <1>0, <1>3
    <3>2. ASSUME NEW k \in 1..(n + 1), k # 1 PROVE g[k] = g[k - 1] \o tt[k]
      <4>1. g[k] = IF k = 1 THEN tt[k] ELSE g[k - 1] \o tt[k]
        BY <1>1, <3>1, FlatAt
      <4> QED BY <3>2, <4>1, Zenon
    <3> QED BY <3>1, <3>2
  <2> QED
    BY <1>1, <2>1, <2>3, <2>4 DEF x
<1> QED
  BY <1>2, <1>3

-----------------------------------------------------------------------------
(* The CRs against the whole list of entries                               *)

(* The loop only ever appends to the entries.                              *)
LEMMA EntryTaken ==
    ASSUME TypeOK, NEW s \in SourceFiles, ProcessSourceFile(s)
    PROVE  /\ result = "building" /\ entries' = Append(entries, s)
           /\ Len(entries) \in Nat /\ DOMAIN entries = 1..Len(entries)
           /\ DOMAIN entries' = 1..(Len(entries) + 1)
           /\ \A i \in DOMAIN entries : entries'[i] = entries[i]
           /\ entries'[Len(entries) + 1] = s
           /\ pgt' = pgt
<1>1. Take(s)
  BY Zenon DEF ProcessSourceFile, SourceFileError, WritePlainCR, PlainCRPanic,
               NewPolicy, NewPolicyError, AppendToPolicy, AppendError
<1>2. entries' = Append(entries, s) /\ result = "building" /\ entries \in Seq(SourceFiles)
  BY <1>1 DEF Take, TypeOK
<1>3. pgt' = pgt
  BY DEF ProcessSourceFile, SourceFileError, WritePlainCR, PlainCRPanic, NewPolicy,
         NewPolicyError, AppendToPolicy, AppendError, Fail
<1> QED
  BY <1>2, <1>3

(* The entries of a policy after one more.                                 *)
LEMMA EntriesStep ==
    ASSUME TypeOK, NEW s \in SourceFiles, ProcessSourceFile(s), NEW n
    PROVE  EntriesOf(n)' = EntriesOf(n) \cup
              (IF Wrapped(s) /\ s.policyName = n THEN {Len(entries) + 1} ELSE {})
<1> DEFINE k == Len(entries) + 1
<1>1. /\ Len(entries) \in Nat /\ DOMAIN entries = 1..Len(entries)
      /\ DOMAIN entries' = 1..k
      /\ \A i \in DOMAIN entries : entries'[i] = entries[i]
      /\ entries'[k] = s /\ pgt' = pgt
  BY EntryTaken
<1>2. EntriesOf(n)' = {i \in DOMAIN entries' : /\ entries'[i].policyName # "" /\ pgt.wrapInPolicy
                                              /\ entries'[i].policyName = n}
  BY <1>1 DEF EntriesOf, Wrapped
<1>3. EntriesOf(n) = {i \in DOMAIN entries : /\ entries[i].policyName # "" /\ pgt.wrapInPolicy
                                            /\ entries[i].policyName = n}
  BY DEF EntriesOf, Wrapped
<1>4. \A i \in DOMAIN entries' : i \in DOMAIN entries \/ i = k
  BY <1>1
<1>5. k \notin DOMAIN entries /\ k \in DOMAIN entries' /\ DOMAIN entries \subseteq DOMAIN entries'
  BY <1>1
<1>6. ASSUME NEW i \in DOMAIN entries PROVE i \in EntriesOf(n)' <=> i \in EntriesOf(n)
  <2>1. entries'[i] = entries[i] /\ i \in DOMAIN entries'
    BY <1>1, <1>5
  <2> QED
    BY <1>2, <1>3, <2>1
<1>7. k \in EntriesOf(n)' <=> Wrapped(s) /\ s.policyName = n
  BY <1>1, <1>2, <1>5 DEF Wrapped
<1>8. EntriesOf(n) \subseteq DOMAIN entries /\ EntriesOf(n)' \subseteq DOMAIN entries \cup {k}
  BY <1>2, <1>3, <1>4
<1> HIDE DEF k
<1> QED
  BY <1>5, <1>6, <1>7, <1>8, Zenon DEF k

(* ObjectTemplates with the template as an argument.                       *)
TemplatesBy(p, s) ==
    LET crs == GetCustomResources(s)
    IN  [i \in DOMAIN crs |->
            [complianceType |-> IF s.complianceType # Unset THEN s.complianceType
                                ELSE p.complianceType,
             definition |-> [kind |-> crs[i].kind, name |-> crs[i].name,
                             namespace |-> crs[i].namespace],
             declared   |-> crs[i].wave]]

LEMMA TemplatesAre == \A s : ObjectTemplates(s) = TemplatesBy(pgt, s)
  BY DEF ObjectTemplates, BuildObjectTemplate, TemplatesBy

Mine(s, n) == Wrapped(s) /\ s.policyName = n

(* What the entries give to a policy after one more.                       *)
LEMMA GivenStep ==
    ASSUME TypeOK, NEW s \in SourceFiles, ProcessSourceFile(s), NEW n
    PROVE  FlattenSeq(Given(n))' = FlattenSeq(Given(n)) \o (IF Mine(s, n) THEN ObjectTemplates(s) ELSE <<>>)
<1> DEFINE k == Len(entries)
           x == IF Mine(s, n) THEN ObjectTemplates(s) ELSE <<>>
           ss == Given(n)
           tt == Given(n)'
<1>1. /\ k \in Nat /\ DOMAIN entries = 1..k /\ DOMAIN entries' = 1..(k + 1)
      /\ \A i \in DOMAIN entries : entries'[i] = entries[i]
      /\ entries'[k + 1] = s /\ pgt' = pgt
  BY EntryTaken
<1>2. ss = [i \in 1..k |-> IF i \in EntriesOf(n) THEN TemplatesBy(pgt, entries[i]) ELSE <<>>]
  BY <1>1, TemplatesAre DEF Given
<1>3. tt = [i \in 1..(k + 1) |-> IF i \in EntriesOf(n)' THEN TemplatesBy(pgt, entries'[i]) ELSE <<>>]
  <2>1. (Given(n) = [i \in DOMAIN entries |-> IF i \in EntriesOf(n) THEN TemplatesBy(pgt, entries[i]) ELSE <<>>])'
    BY DEF Given, ObjectTemplates, BuildObjectTemplate, TemplatesBy
  <2> QED
    BY <1>1, <2>1
<1>4. EntriesOf(n)' = EntriesOf(n) \cup (IF Mine(s, n) THEN {k + 1} ELSE {})
  BY EntriesStep DEF Mine
<1>5. EntriesOf(n) \subseteq 1..k
  BY <1>1 DEF EntriesOf
<1>6. x \in Seq(ObjectTemplate)
  BY TemplatesType DEF TypeOK
<1>7. tt[k + 1] = x
  <2>1. k + 1 \in 1..(k + 1) /\ k + 1 \notin 1..k
    BY <1>1
  <2>2. k + 1 \in EntriesOf(n)' <=> Mine(s, n)
    BY <1>4, <1>5, <2>1
  <2>3. ObjectTemplates(s) = TemplatesBy(pgt, s)
    BY TemplatesAre
  <2>4. tt[k + 1] = IF k + 1 \in EntriesOf(n)' THEN TemplatesBy(pgt, entries'[k + 1]) ELSE <<>>
    BY <1>3, <2>1
  <2> HIDE DEF tt, k
  <2> QED
    BY <1>1, <2>2, <2>3, <2>4
<1>8. \A i \in 1..k : tt[i] = ss[i]
  <2> SUFFICES ASSUME NEW i \in 1..k PROVE tt[i] = ss[i]
    OBVIOUS
  <2>1. i \in 1..(k + 1) /\ i # k + 1 /\ entries'[i] = entries[i]
    BY <1>1
  <2>2. i \in EntriesOf(n)' <=> i \in EntriesOf(n)
    BY <1>4, <2>1
  <2>3. ss[i] = IF i \in EntriesOf(n) THEN TemplatesBy(pgt, entries[i]) ELSE <<>>
    BY <1>2
  <2>4. tt[i] = IF i \in EntriesOf(n)' THEN TemplatesBy(pgt, entries'[i]) ELSE <<>>
    BY <1>3, <2>1
  <2> HIDE DEF tt, ss, k
  <2> QED
    BY <2>1, <2>2, <2>3, <2>4
<1>9. Len(ss) = k /\ (k = 0 => ss = <<>>)
  BY <1>1, <1>2
<1>10. Len(tt) = k + 1
  BY <1>1, <1>3
<1> HIDE DEF k, x, ss, tt
<1>11. FlattenSeq(tt) = FlattenSeq(ss) \o x
  <2>1. <<>> \o x = x
    BY <1>6
  <2> QED
    BY <1>1, <1>7, <1>8, <1>9, <1>10, <2>1, FlattenAppend
<1>12. FlattenSeq(Given(n))' = FlattenSeq(tt)
  BY DEF tt
<1> QED
  BY <1>11, <1>12 DEF ss, x

(* PolicyCRsKept is about policies; a policy that is not there yet has     *)
(* been given nothing.                                                     *)
GivenInv ==
    \A n \in PolicyNames :
        result = "building" \/ (result = "ok" /\ n \notin Reserved) =>
            /\ acmPolicies[n] = Nil <=> EntriesOf(n) = {}
            /\ FlattenSeq(Given(n)) = IF acmPolicies[n] = Nil THEN <<>> ELSE acmPolicies[n].objects

LEMMA GivenInit == Init => GivenInv
<1> SUFFICES ASSUME Init, NEW n \in PolicyNames
             PROVE  /\ acmPolicies[n] = Nil /\ EntriesOf(n) = {}
                    /\ FlattenSeq(Given(n)) = <<>>
  BY DEF GivenInv
<1>1. entries = <<>> /\ DOMAIN entries = {} /\ acmPolicies[n] = Nil
  BY DEF Init
<1>2. Given(n) = <<>>
  BY <1>1 DEF Given
<1>3. FlattenSeq(<<>>) = <<>>
  BY DEF FlattenSeq
<1> QED
  BY <1>1, <1>2, <1>3 DEF EntriesOf

LEMMA GivenKept == ASSUME TypeOK, GivenInv, [Next]_vars PROVE GivenInv'
<1>1. ASSUME NEW how \in {"error", "panic"}, Fail(how) PROVE GivenInv'
  BY <1>1 DEF Fail, GivenInv
<1>2. CASE RejectTemplate \/ PlacementError
  BY <1>1, <1>2 DEF RejectTemplate, PlacementError
<1>3. ASSUME UNCHANGED <<pgt, entries>>, NEW n
      PROVE  EntriesOf(n)' = EntriesOf(n) /\ FlattenSeq(Given(n))' = FlattenSeq(Given(n))
  <2>1. EntriesOf(n)' = EntriesOf(n)
    BY <1>3 DEF EntriesOf, Wrapped
  <2>2. Given(n)' = Given(n)
    BY <1>3, <2>1 DEF Given, ObjectTemplates, BuildObjectTemplate
  <2> QED
    BY <2>1, <2>2
<1>4. CASE Finish \/ FinishWithoutPolicies
  <2>1. UNCHANGED <<pgt, entries>> /\ result = "building" /\ result' = "ok"
    BY <1>4 DEF Finish, FinishWithoutPolicies
  <2>2. \A n \in PolicyNames : n \notin Reserved => acmPolicies'[n] = acmPolicies[n]
    BY <1>4 DEF Finish, FinishWithoutPolicies, CreatePlacement
  <2> QED
    BY <1>3, <2>1, <2>2 DEF GivenInv
<1>5. CASE UNCHANGED vars
  <2>1. UNCHANGED <<pgt, entries, acmPolicies, result>>
    BY <1>5 DEF vars
  <2> QED
    BY <1>3, <2>1 DEF GivenInv
<1>6. ASSUME NEW s \in SourceFiles, ProcessSourceFile(s) PROVE GivenInv'
  <2>1. CASE SourceFileError(s) \/ PlainCRPanic(s) \/ NewPolicyError(s) \/ AppendError(s)
    BY <1>1, <2>1 DEF SourceFileError, PlainCRPanic, NewPolicyError, AppendError
  <2>2. CASE WritePlainCR(s) \/ NewPolicy(s) \/ AppendToPolicy(s)
    <3> SUFFICES ASSUME NEW n \in PolicyNames
                 PROVE  /\ acmPolicies'[n] = Nil <=> EntriesOf(n)' = {}
                        /\ FlattenSeq(Given(n))' = IF acmPolicies'[n] = Nil THEN <<>> ELSE acmPolicies'[n].objects
      BY DEF GivenInv
    <3> DEFINE own == FlattenSeq(Given(n))
    <3>1. /\ acmPolicies[n] = Nil <=> EntriesOf(n) = {}
          /\ own = IF acmPolicies[n] = Nil THEN <<>> ELSE acmPolicies[n].objects
      BY <1>6, EntryTaken DEF GivenInv
    <3>2. own \in Seq(ObjectTemplate)
      <4>1. acmPolicies[n] # Nil => acmPolicies[n].objects \in Seq(ObjectTemplate)
        BY DEF TypeOK, AcmPolicy
      <4> HIDE DEF own
      <4> QED BY <3>1, <4>1
    <3>3. own' = own \o (IF Mine(s, n) THEN ObjectTemplates(s) ELSE <<>>)
      BY <1>6, GivenStep
    <3>4. EntriesOf(n)' = EntriesOf(n) \cup (IF Mine(s, n) THEN {Len(entries) + 1} ELSE {})
      BY <1>6, EntriesStep DEF Mine
    <3>5. CASE ~ Mine(s, n)
      <4>1. acmPolicies'[n] = acmPolicies[n]
        BY <2>2, <3>5 DEF WritePlainCR, NewPolicy, AppendToPolicy, Mine, TypeOK
      <4>2. own' = own
        <5> HIDE DEF own
        <5> QED BY <3>2, <3>3, <3>5
      <4>3. EntriesOf(n)' = EntriesOf(n)
        BY <3>4, <3>5
      <4> HIDE DEF own
      <4> QED BY <3>1, <4>1, <4>2, <4>3 DEF own
    <3>6. CASE Mine(s, n)
      <4>1. EntriesOf(n)' # {}
        BY <3>4, <3>6
      <4>2. own' = own \o ObjectTemplates(s)
        BY <3>3, <3>6
      <4>3. ObjectTemplates(s) \in Seq(ObjectTemplate)
        BY TemplatesType DEF TypeOK
      <4>4. CASE acmPolicies[n] = Nil
        <5>1. NewPolicy(s)
          BY <2>2, <3>6, <4>4 DEF WritePlainCR, AppendToPolicy, Mine
        <5>2. acmPolicies'[n] = CreateAcmPolicy(s)
          BY <3>6, <5>1 DEF NewPolicy, Mine, TypeOK
        <5>3. CreateAcmPolicy(s) # Nil /\ CreateAcmPolicy(s).objects = ObjectTemplates(s)
          BY <5>1, CreatedType, NilAssumption DEF NewPolicy, NewPolicyRefused, TypeOK, CreateAcmPolicy
        <5>4. own = <<>>
          BY <3>1, <4>4
        <5> HIDE DEF own
        <5>5. own' = ObjectTemplates(s)
          BY <4>2, <4>3, <5>4
        <5> QED
          BY <4>1, <5>2, <5>3, <5>5 DEF own
      <4>5. CASE acmPolicies[n] # Nil
        <5>1. AppendToPolicy(s)
          BY <2>2, <3>6, <4>5 DEF WritePlainCR, NewPolicy, Mine
        <5>2. acmPolicies'[n] = AppendAcmPolicy(acmPolicies[n], s) /\ ~ AppendRefused(acmPolicies[n], s)
          BY <3>6, <5>1 DEF AppendToPolicy, Mine, TypeOK
        <5>3. acmPolicies[n] \in AcmPolicy
          BY <4>5 DEF TypeOK
        <5>4. acmPolicies'[n] # Nil
          BY <5>2, <5>3, AppendedType, NilAssumption DEF AppendRefused, TypeOK
        <5>5. acmPolicies'[n].objects = acmPolicies[n].objects \o ObjectTemplates(s)
          BY <5>2 DEF AppendAcmPolicy
        <5>6. own = acmPolicies[n].objects
          BY <3>1, <4>5
        <5> HIDE DEF own
        <5> QED
          BY <4>1, <4>2, <5>4, <5>5, <5>6 DEF own
      <4> QED
        BY <4>4, <4>5
    <3> QED
      BY <3>5, <3>6
  <2> QED
    BY <1>6, <2>1, <2>2 DEF ProcessSourceFile
<1> QED
  BY <1>2, <1>4, <1>5, <1>6 DEF Next

LEMMA PlainKept == ASSUME TypeOK, PlainCRsCurrent, [Next]_vars PROVE PlainCRsCurrent'
<1> DEFINE With(k) == {i \in PlainEntries : PlainName(entries[i]) = k}
<1>1. ASSUME NEW how \in {"error", "panic"}, Fail(how) PROVE PlainCRsCurrent'
  BY <1>1 DEF Fail, PlainCRsCurrent
<1>2. CASE RejectTemplate \/ PlacementError
  BY <1>1, <1>2 DEF RejectTemplate, PlacementError
<1>3. CASE Finish \/ FinishWithoutPolicies \/ UNCHANGED vars
  <2>1. /\ UNCHANGED <<pgt, entries, plainCRs>>
        /\ result' \in {"building", "ok"} => result \in {"building", "ok"}
    BY <1>3 DEF Finish, FinishWithoutPolicies, vars
  <2>2. PlainEntries' = PlainEntries
    BY <2>1 DEF PlainEntries, Wrapped
  <2> QED
    BY <2>1, <2>2 DEF PlainCRsCurrent
<1>4. ASSUME NEW s \in SourceFiles, ProcessSourceFile(s) PROVE PlainCRsCurrent'
  <2> DEFINE e == Len(entries) + 1
  <2>1. /\ Len(entries) \in Nat /\ DOMAIN entries = 1..Len(entries) /\ DOMAIN entries' = 1..e
        /\ \A i \in DOMAIN entries : entries'[i] = entries[i]
        /\ entries'[e] = s /\ pgt' = pgt /\ result = "building"
    BY <1>4, EntryTaken
  <2>2. PlainEntries' = PlainEntries \cup (IF Wrapped(s) THEN {} ELSE {e})
    <3>1. PlainEntries' = {i \in DOMAIN entries' : ~ (entries'[i].policyName # "" /\ pgt.wrapInPolicy)}
      BY <2>1 DEF PlainEntries, Wrapped
    <3>2. PlainEntries = {i \in DOMAIN entries : ~ (entries[i].policyName # "" /\ pgt.wrapInPolicy)}
      BY DEF PlainEntries, Wrapped
    <3>3. ASSUME NEW i \in DOMAIN entries PROVE i \in PlainEntries' <=> i \in PlainEntries
      <4>1. entries'[i] = entries[i] /\ i \in DOMAIN entries'
        BY <2>1
      <4> QED BY <3>1, <3>2, <4>1
    <3>4. e \notin DOMAIN entries /\ e \in DOMAIN entries' /\ DOMAIN entries' \subseteq DOMAIN entries \cup {e}
      BY <2>1
    <3>5. e \in PlainEntries' <=> ~ Wrapped(s)
      BY <2>1, <3>1, <3>4 DEF Wrapped
    <3>6. PlainEntries \subseteq DOMAIN entries /\ PlainEntries' \subseteq DOMAIN entries \cup {e}
      BY <3>1, <3>2, <3>4
    <3> HIDE DEF e
    <3> QED
      BY <3>3, <3>4, <3>5, <3>6, Zenon
  <2>3. PlainEntries \subseteq 1..Len(entries)
    BY <2>1 DEF PlainEntries
  <2>4. \A i \in PlainEntries : entries'[i] = entries[i]
    BY <2>1, <2>3
  <2>5. CASE SourceFileError(s) \/ PlainCRPanic(s) \/ NewPolicyError(s) \/ AppendError(s)
    BY <1>1, <2>5 DEF SourceFileError, PlainCRPanic, NewPolicyError, AppendError
  <2>6. CASE NewPolicy(s) \/ AppendToPolicy(s)
    <3>1. plainCRs' = plainCRs /\ Wrapped(s)
      BY <2>6 DEF NewPolicy, AppendToPolicy
    <3>2. PlainEntries' = PlainEntries
      BY <2>2, <3>1
    <3>3. {PlainName(entries'[i]) : i \in PlainEntries} = {PlainName(entries[i]) : i \in PlainEntries}
      BY <2>4
    <3>4. \A k : {i \in PlainEntries : PlainName(entries'[i]) = k} = With(k)
      BY <2>4
    <3>5. /\ DOMAIN plainCRs = {PlainName(entries[i]) : i \in PlainEntries}
          /\ \A k \in DOMAIN plainCRs :
               \E last \in With(k) : /\ \A i \in With(k) : i <= last
                                     /\ plainCRs[k] = GetCustomResources(entries[last])
      BY <2>1 DEF PlainCRsCurrent
    <3>6. ASSUME NEW k \in DOMAIN plainCRs
          PROVE  \E last \in With(k) : /\ \A i \in With(k) : i <= last
                                       /\ plainCRs[k] = GetCustomResources(entries'[last])
      BY <2>4, <3>5
    <3> HIDE DEF With
    <3> QED
      BY <3>1, <3>2, <3>3, <3>4, <3>5, <3>6 DEF PlainCRsCurrent
  <2>7. CASE WritePlainCR(s)
    <3> DEFINE key == PlainName(s)
               New(k) == {i \in PlainEntries' : PlainName(entries'[i]) = k}
    <3>1. /\ ~ Wrapped(s)
          /\ plainCRs' = [n \in DOMAIN plainCRs \cup {key} |->
                             IF n = key THEN GetCustomResources(s) ELSE plainCRs[n]]
      BY <2>7 DEF WritePlainCR
    <3>2. PlainEntries' = PlainEntries \cup {e}
      BY <2>2, <3>1
    <3>3. /\ DOMAIN plainCRs = {PlainName(entries[i]) : i \in PlainEntries}
          /\ \A k \in DOMAIN plainCRs :
               \E last \in With(k) : /\ \A i \in With(k) : i <= last
                                     /\ plainCRs[k] = GetCustomResources(entries[last])
      BY <2>1 DEF PlainCRsCurrent
    <3>4. DOMAIN plainCRs' = {PlainName(entries'[i]) : i \in PlainEntries'}
      BY <2>1, <2>4, <3>1, <3>2, <3>3
    <3>5. ASSUME NEW k \in DOMAIN plainCRs'
          PROVE  \E last \in New(k) : /\ \A i \in New(k) : i <= last
                                      /\ plainCRs'[k] = GetCustomResources(entries'[last])
      <4>1. CASE k = key
        <5>1. e \in New(k)
          BY <2>1, <3>2, <4>1
        <5>2. \A i \in New(k) : i <= e
          BY <2>1, <2>3, <3>2
        <5>3. plainCRs'[k] = GetCustomResources(entries'[e])
          BY <2>1, <3>1, <4>1
        <5> HIDE DEF e
        <5> QED
          BY <5>1, <5>2, <5>3
      <4>2. CASE k # key
        <5>1. k \in DOMAIN plainCRs /\ plainCRs'[k] = plainCRs[k]
          BY <3>1, <4>2
        <5>2. New(k) = With(k)
          <6>1. e \notin New(k)
            BY <2>1, <4>2
          <6>2. \A i \in PlainEntries : i \in New(k) <=> i \in With(k)
            BY <2>4, <3>2
          <6>3. New(k) \subseteq PlainEntries \cup {e} /\ With(k) \subseteq PlainEntries
            BY <3>2
          <6> HIDE DEF New, With, e
          <6> QED
            BY <6>1, <6>2, <6>3
        <5>3. \A i \in With(k) : i \in PlainEntries
          OBVIOUS
        <5> HIDE DEF New, With
        <5> QED
          BY <2>4, <3>3, <5>1, <5>2, <5>3
      <4> QED
        BY <4>1, <4>2
    <3> HIDE DEF New
    <3> QED
      BY <3>4, <3>5 DEF PlainCRsCurrent, New
  <2> QED
    BY <1>4, <2>5, <2>6, <2>7 DEF ProcessSourceFile
<1> QED
  BY <1>2, <1>3, <1>4 DEF Next

(* For any catalogue and any list of entries, every policy holds exactly   *)
(* the CRs of its entries in the order of the template, and the last CR    *)
(* of each key is the one written outside of policies.                     *)
THEOREM NothingEverLost == Spec => []NothingLost
<1>1. Init => PlainCRsCurrent
  BY DEF Init, PlainCRsCurrent, PlainEntries
<1>2. GivenInv => PolicyCRsKept
  BY DEF GivenInv, PolicyCRsKept
<1> QED
  BY <1>1, <1>2, GivenInit, GivenKept, PlainKept, TypeCorrect, PTL DEF Spec, NothingLost

-----------------------------------------------------------------------------
(* The settings against the whole list of entries                          *)

(* One setting of a policy after an entry that does not conflict with it.  *)
LEMMA Resolved ==
    ASSUME NEW value, NEW explicit, NEW default, NEW setting, Unset \notin explicit,
           Resolves(value, explicit, default), ~Conflicts(setting, value, default)
    PROVE  Resolves(IF setting # Unset THEN setting ELSE value,
                    (explicit \cup {setting}) \ {Unset}, default)
  BY DEF Resolves, Conflicts

LEMMA ExplicitStep ==
    ASSUME TypeOK, NEW s \in SourceFiles, ProcessSourceFile(s), NEW n, NEW field
    PROVE  Explicit(n, field)' = IF Mine(s, n) THEN (Explicit(n, field) \cup {s[field]}) \ {Unset}
                                 ELSE Explicit(n, field)
<1> DEFINE e == Len(entries) + 1
           old == {entries[i][field] : i \in EntriesOf(n)}
           new == {entries'[i][field] : i \in EntriesOf(n)'}
<1>1. /\ \A i \in EntriesOf(n) : entries'[i] = entries[i]
      /\ entries'[e] = s
  BY EntryTaken DEF EntriesOf
<1>2. EntriesOf(n)' = EntriesOf(n) \cup (IF Mine(s, n) THEN {e} ELSE {})
  BY EntriesStep DEF Mine
<1>3. Explicit(n, field) = old \ {Unset} /\ Explicit(n, field)' = new \ {Unset}
  BY DEF Explicit
<1>4. CASE Mine(s, n)
  <2>1. EntriesOf(n)' = EntriesOf(n) \cup {e}
    BY <1>2, <1>4
  <2> HIDE DEF e
  <2>2. new = old \cup {s[field]}
    BY <1>1, <2>1
  <2> HIDE DEF old, new
  <2> QED
    BY <1>3, <1>4, <2>2
<1>5. CASE ~ Mine(s, n)
  <2>1. EntriesOf(n)' = EntriesOf(n)
    BY <1>2, <1>5
  <2>2. new = old
    BY <1>1, <2>1
  <2> HIDE DEF old, new
  <2> QED
    BY <1>3, <1>5, <2>2
<1> QED
  BY <1>4, <1>5

(* The settings p of a policy with the entries' explicit values.           *)
SettingsOf(p, action, compliant, nonCompliant) ==
    /\ Resolves(p.remediationAction, action, pgt.remediationAction)
    /\ Resolves(p.compliant, compliant, pgt.compliant)
    /\ Resolves(p.nonCompliant, nonCompliant, pgt.nonCompliant)

LEMMA CreatedResolves ==
    ASSUME NEW s \in SourceFiles
    PROVE  SettingsOf(CreateAcmPolicy(s), {s.remediationAction} \ {Unset},
                      {s.compliant} \ {Unset}, {s.nonCompliant} \ {Unset})
<1>1. \A setting, default : Resolves(IF setting # Unset THEN setting ELSE default, {setting} \ {Unset}, default)
  BY DEF Resolves
<1>2. /\ CreateAcmPolicy(s).remediationAction =
              IF s.remediationAction # Unset THEN s.remediationAction ELSE pgt.remediationAction
      /\ CreateAcmPolicy(s).compliant = IF s.compliant # Unset THEN s.compliant ELSE pgt.compliant
      /\ CreateAcmPolicy(s).nonCompliant = IF s.nonCompliant # Unset THEN s.nonCompliant ELSE pgt.nonCompliant
  BY DEF CreateAcmPolicy
<1> QED
  BY <1>1, <1>2 DEF SettingsOf

LEMMA AppendedResolves ==
    ASSUME NEW s \in SourceFiles, NEW p, ~ AppendRefused(p, s), NEW a, NEW c, NEW n,
           Unset \notin a, Unset \notin c, Unset \notin n, SettingsOf(p, a, c, n)
    PROVE  SettingsOf(AppendAcmPolicy(p, s), (a \cup {s.remediationAction}) \ {Unset},
                      (c \cup {s.compliant}) \ {Unset}, (n \cup {s.nonCompliant}) \ {Unset})
<1>1. /\ AppendAcmPolicy(p, s).remediationAction =
              IF s.remediationAction # Unset THEN s.remediationAction ELSE p.remediationAction
      /\ AppendAcmPolicy(p, s).compliant = IF s.compliant # Unset THEN s.compliant ELSE p.compliant
      /\ AppendAcmPolicy(p, s).nonCompliant = IF s.nonCompliant # Unset THEN s.nonCompliant ELSE p.nonCompliant
  BY DEF AppendAcmPolicy
<1>2. /\ ~ Conflicts(s.remediationAction, p.remediationAction, pgt.remediationAction)
      /\ ~ Conflicts(s.compliant, p.compliant, pgt.compliant)
      /\ ~ Conflicts(s.nonCompliant, p.nonCompliant, pgt.nonCompliant)
  BY DEF AppendRefused
<1> QED
  BY <1>1, <1>2, Resolved DEF SettingsOf

ExplicitSettings(n) ==
    SettingsOf(acmPolicies[n], Explicit(n, "remediationAction"), Explicit(n, "compliant"),
               Explicit(n, "nonCompliant"))

(* For any catalogue, the remediation action and the evaluation intervals  *)
(* of a policy are the one value that its entries give besides the         *)
(* template's, or the template's, in whatever order the entries come.      *)
THEOREM SettingsAlwaysResolved == Spec => []SettingsResolved
<1>1. Init => SettingsResolved
  BY DEF Init, SettingsResolved, Live
<1>2. TypeOK /\ GivenInv /\ SettingsResolved /\ [Next]_vars => SettingsResolved'
  <2> SUFFICES ASSUME TypeOK, GivenInv, SettingsResolved, [Next]_vars, result' \in {"building", "ok"},
                      NEW n \in PolicyNames, acmPolicies'[n] # Nil
               PROVE  ExplicitSettings(n)'
    BY DEF SettingsResolved, Live, ExplicitSettings, SettingsOf
  <2>1. result \in {"building", "ok"} /\ acmPolicies[n] # Nil => ExplicitSettings(n)
    BY DEF SettingsResolved, Live, ExplicitSettings, SettingsOf
  <2>2. CASE Finish \/ FinishWithoutPolicies \/ UNCHANGED vars
    <3>1. /\ UNCHANGED <<pgt, entries>> /\ acmPolicies'[n] = acmPolicies[n]
          /\ result \in {"building", "ok"}
      BY <2>2 DEF Finish, FinishWithoutPolicies, vars, CreatePlacement
    <3>2. \A field : Explicit(n, field)' = Explicit(n, field)
      BY <3>1 DEF Explicit, EntriesOf, Wrapped
    <3> QED
      BY <2>1, <3>1, <3>2 DEF ExplicitSettings, SettingsOf
  <2>3. ASSUME NEW s \in SourceFiles, ProcessSourceFile(s) PROVE ExplicitSettings(n)'
    <3>1. result = "building" /\ pgt' = pgt
      BY <2>3, EntryTaken
    <3>2. \A field : Explicit(n, field)' = IF Mine(s, n) THEN (Explicit(n, field) \cup {s[field]}) \ {Unset}
                                           ELSE Explicit(n, field)
      BY <2>3, ExplicitStep
    <3>3. WritePlainCR(s) \/ NewPolicy(s) \/ AppendToPolicy(s)
      BY <2>3 DEF ProcessSourceFile, SourceFileError, PlainCRPanic, NewPolicyError, AppendError, Fail
    <3>4. \A field : Unset \notin Explicit(n, field)
      BY DEF Explicit
    <3>5. CASE ~ Mine(s, n)
      <4>1. acmPolicies'[n] = acmPolicies[n]
        BY <3>3, <3>5 DEF WritePlainCR, NewPolicy, AppendToPolicy, Mine, TypeOK
      <4> QED
        BY <2>1, <3>1, <3>2, <3>5, <4>1 DEF ExplicitSettings, SettingsOf
    <3>6. CASE Mine(s, n) /\ acmPolicies[n] = Nil
      <4>1. acmPolicies'[n] = CreateAcmPolicy(s)
        BY <3>3, <3>6 DEF WritePlainCR, NewPolicy, AppendToPolicy, Mine, TypeOK
      <4>2. EntriesOf(n) = {}
        BY <3>1, <3>6 DEF GivenInv
      <4>3. \A field : Explicit(n, field) = {}
        BY <4>2 DEF Explicit
      <4>4. \A field : Explicit(n, field)' = {s[field]} \ {Unset}
        BY <3>2, <3>6, <4>3
      <4>5. /\ Explicit(n, "remediationAction")' = {s.remediationAction} \ {Unset}
            /\ Explicit(n, "compliant")' = {s.compliant} \ {Unset}
            /\ Explicit(n, "nonCompliant")' = {s.nonCompliant} \ {Unset}
        BY <4>4
      <4> QED
        BY <3>1, <4>1, <4>5, CreatedResolves DEF ExplicitSettings, SettingsOf
    <3>7. CASE Mine(s, n) /\ acmPolicies[n] # Nil
      <4>1. acmPolicies'[n] = AppendAcmPolicy(acmPolicies[n], s) /\ ~ AppendRefused(acmPolicies[n], s)
        BY <3>3, <3>7 DEF WritePlainCR, NewPolicy, AppendToPolicy, Mine, TypeOK
      <4>2. /\ Explicit(n, "remediationAction")' =
                    (Explicit(n, "remediationAction") \cup {s.remediationAction}) \ {Unset}
            /\ Explicit(n, "compliant")' = (Explicit(n, "compliant") \cup {s.compliant}) \ {Unset}
            /\ Explicit(n, "nonCompliant")' = (Explicit(n, "nonCompliant") \cup {s.nonCompliant}) \ {Unset}
        BY <3>2, <3>7
      <4>3. SettingsOf(acmPolicies[n], Explicit(n, "remediationAction"), Explicit(n, "compliant"),
                       Explicit(n, "nonCompliant"))
        BY <2>1, <3>1, <3>7 DEF ExplicitSettings
      <4>4. SettingsOf(acmPolicies'[n], Explicit(n, "remediationAction")', Explicit(n, "compliant")',
                       Explicit(n, "nonCompliant")')
        BY <3>4, <4>1, <4>2, <4>3, AppendedResolves
      <4> QED
        BY <3>1, <4>4 DEF ExplicitSettings, SettingsOf
    <3> QED
      BY <3>5, <3>6, <3>7
  <2>4. ~ (RejectTemplate \/ PlacementError)
    BY DEF RejectTemplate, PlacementError, Fail
  <2> QED
    BY <2>2, <2>3, <2>4 DEF Next
<1> QED
  BY <1>1, <1>2, GivenInit, GivenKept, TypeCorrect, PTL DEF Spec

-----------------------------------------------------------------------------
(* Binding rules                                                           *)

(* CheckBindingRules only rejects rules that could never bind anything:    *)
(* no cluster, whatever its labels, is selected by the placement rule that *)
(* would have been made from a rejected pair.                              *)
THEOREM RejectedSelectsNothing ==
    ASSUME NEW rules, NEW excluded, NEW labels, ~CheckBindingRules(rules, excluded)
    PROVE  ~Selects(CreatePlacementRule(rules, excluded), labels)
<1>1. PICK key \in DOMAIN excluded \cap DOMAIN rules :
        excluded[key] = <<>> \/ excluded[key] = rules[key]
  BY DEF CheckBindingRules
<1> DEFINE in == Expression(key, IF rules[key] = <<>> THEN "Exists" ELSE "In", rules[key])
           out == Expression(key, IF excluded[key] = <<>> THEN "DoesNotExist" ELSE "NotIn",
                             excluded[key])
<1>2. in \in CreatePlacementRule(rules, excluded) /\ out \in CreatePlacementRule(rules, excluded)
  BY <1>1 DEF CreatePlacementRule
<1>3. Matches(labels, in) =>
        /\ key \in DOMAIN labels
        /\ rules[key] # <<>> => labels[key] \in Listed(rules[key])
  BY DEF Matches, Expression
<1>4. CASE excluded[key] = <<>>
  <2>1. Matches(labels, out) => key \notin DOMAIN labels
    BY <1>4 DEF Matches, Expression
  <2> QED
    BY <1>2, <1>3, <2>1 DEF Selects
<1>5. CASE excluded[key] # <<>> /\ excluded[key] = rules[key]
  <2>1. Matches(labels, out) => (key \in DOMAIN labels => labels[key] \notin Listed(rules[key]))
    BY <1>5 DEF Matches, Expression
  <2> QED
    BY <1>2, <1>3, <1>5, <2>1 DEF Selects
<1> QED
  BY <1>1, <1>4, <1>5
=============================================================================
