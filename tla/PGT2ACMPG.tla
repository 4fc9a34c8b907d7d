----------------------------- MODULE PGT2ACMPG -----------------------------
(***************************************************************************)
(* ztp/tools/pgt2acmpg: the PolicyGenTemplates of a directory tree are     *)
(* converted to templates of the ACM policy generator.  Each step is a     *)
(* stretch of main that changes the files of the output directory or ends  *)
(* the program; the user may run it again over the same directories, with  *)
(* newer source CRs.                                                       *)
(*                                                                         *)
(* A policyName is a number, 0 for the empty one, so that sort.Strings has *)
(* an order.  A manifest path is <<file>>, or <<file, mcp>> for the file   *)
(* <file>-MCP-<mcp>.yaml.  A source CR is [kind, named, wave, mcp, body,   *)
(* items]: named tells whether it has a name, mcp is "$mcp" when the text  *)
(* has that placeholder, body are its lines, items the merge keys of its   *)
(* list of maps, in order.                                                 *)
(***************************************************************************)
EXTENDS SourceCRLines, SequencesExt

CONSTANTS
    Inputs,     \* what the program may be started on: [flags, templates, crs, newer]
    NoKey,      \* a list item of a patch without the merge key
    Numbers,    \* the annotation values that strconv.Atoi accepts
    MaxRuns,    \* bound on the number of runs over the same directories
    MaxFaults   \* bound on failing file operations

VARIABLES
    conf,        \* the input: flags and templates
    crs,         \* the reference source CRs, by file name
    out,         \* per template directory: the files below its source-crs
    pc,
    t,           \* the template being converted
    todo,        \* its policies that are still to be converted
    acm,         \* the policies converted so far
    at,          \* the manifest being rendered: <<policy, source file>>, by their indices
    written,     \* the ACMPG files in the output directory, by template
    placements,  \* the placement files: <<template, policy>>
    namespaces,  \* policiesNamespaces
    bindings,    \* ns.yaml of the output directory: Absent or the bindings added
    generators,  \* the generators of the output's kustomization.yaml
    exit,        \* "running", or what the exit code tells: "ok" or "failed"
    runs, faults

vars == <<conf, crs, out, pc, t, todo, acm, at, written, placements, namespaces, bindings,
          generators, exit, runs, faults>>

-----------------------------------------------------------------------------
SourceCR == [kind : STRING, named : BOOLEAN, wave : STRING, mcp : {"none", "$mcp"},
             body : Document, items : Seq(STRING)]
SourceFile == [file : STRING, policy : Nat, patch : Seq([key : STRING \union {NoKey}, val : STRING])]

(* A merge key tells the items of a list apart, a pool's name is a name of *)
(* Kubernetes, and a kustomization lists templates that are there.         *)
ASSUME InputAssumption ==
    \A i \in Inputs :
        /\ \A version \in {i.crs, i.newer} : \A f \in DOMAIN version :
             version[f] \in SourceCR /\ IsInjective(version[f].items)
        /\ Len(i.templates) \in Nat /\ DOMAIN i.templates = 1..Len(i.templates)
        /\ \A j \in DOMAIN i.templates : /\ i.templates[j].sources \in Seq(SourceFile)
                                        /\ i.templates[j].mcp # "$mcp"
        /\ i.flags.generators \subseteq DOMAIN i.templates

Absent == {<<"absent", 0>>}
Empty == [x \in {} |-> <<>>]
Templates == DOMAIN conf.templates
Template == conf.templates[t]
Dirs == {conf.templates[i].dir : i \in Templates}
Files == out[Template.dir]
Put(f, k, v) == [x \in DOMAIN f \union {k} |-> IF x = k THEN v ELSE f[x]]

\* Mutant: the excluded labels are forgotten.
MutLabelToSelector(rules, excluded) ==
    {[key |-> k, operator |-> IF rules[k] = <<>> THEN "Exists" ELSE "In", values |-> ToSet(rules[k])]
        : k \in DOMAIN rules \ {""}}

(* Labels.  An empty key is skipped.  An excluded label becomes            *)
(* DoesNotExist whatever its value: the value is refused by                *)
(* NewRequirement, the error dropped, and String() leaves the value out.   *)
(* A value list "a,b" survives as the set {a, b}.                          *)
LabelToSelector(rules, excluded) ==
    {[key |-> k, operator |-> IF rules[k] = <<>> THEN "Exists" ELSE "In", values |-> ToSet(rules[k])]
        : k \in DOMAIN rules \ {""}}
    \union {[key |-> k, operator |-> "DoesNotExist", values |-> {}] : k \in DOMAIN excluded \ {""}}

(* Merge keys.  A definition of the schema counts when it has some.        *)
ParseOpenAPISchema(schema) == {d.kind : d \in {e \in schema : e.keyed}}

\* Mutant: the key is taken from the item after the one at this position.
MutInjectMergeKeys(patch, items) ==
    [i \in DOMAIN patch |->
        IF patch[i].key = NoKey /\ i < Len(items) THEN [patch[i] EXCEPT !.key = items[i + 1]] ELSE patch[i]]

InjectMergeKeys(patch, items) ==
    [i \in DOMAIN patch |->
        IF patch[i].key = NoKey /\ i <= Len(items) THEN [patch[i] EXCEPT !.key = items[i]] ELSE patch[i]]

(* What a strategic merge makes of the list (external): an item of the     *)
(* patch goes to the source item with its key, any other one is added.     *)
Kustomized(items, patch) ==
    LET For(k) == {i \in DOMAIN patch : patch[i].key = k}
        added == {i \in DOMAIN patch : patch[i].key \notin ToSet(items)}
    IN  [i \in DOMAIN items \union {Len(items) + j : j \in added} |->
            IF i \notin DOMAIN items THEN patch[i - Len(items)]
            ELSE [key |-> items[i], val |-> IF For(items[i]) = {} THEN "old" ELSE patch[Max(For(items[i]))].val]]

\* Mutant: a CR with $mcp is rendered in place as well.
MutRenderedPath(path, cr) == path

(* RenderMCPLines: a CR with $mcp is written to a file of its own for the  *)
(* pool, any other one to its own file again; this file is then read and   *)
(* written once more, with the lines that have placeholders commented out. *)
RenderedPath(path, cr) == IF cr.mcp = "$mcp" THEN <<path[1], Template.mcp>> ELSE path
ReplaceMCP(cr) == [cr EXCEPT !.mcp = IF @ = "$mcp" THEN Template.mcp ELSE @]
RenderMCPLines(cr) == [ReplaceMCP(cr) EXCEPT !.body = CommentOutLinesWithPlaceholders(@)]

(* One policy: a manifest for each of its source files, known by its index *)
(* in the template.  The wave is set anew by every source file.            *)
Entries(q) == {k \in DOMAIN Template.sources : Template.sources[k].policy = q}
ManifestOf(k) == [path |-> <<Template.sources[k].file>>, patch |-> Template.sources[k].patch, openapi |-> FALSE]

\* Mutant: a source file that is listed twice is converted once.
MutConvertedPolicy(q) ==
    LET once == {k \in Entries(q) : \A j \in Entries(q) : j < k => ManifestOf(j).path # ManifestOf(k).path}
    IN  [name |-> q, wave |-> "", manifests |-> [k \in once |-> ManifestOf(k)]]

\* Mutant: a wave that is not a number is taken, any other one is not.
MutConvertedPolicyWave(q) ==
    LET wave == Files[ManifestOf(Max(Entries(q))).path].wave
    IN  [name |-> q,
         wave |-> IF wave \notin Numbers THEN wave ELSE "",
         manifests |-> [k \in Entries(q) |-> ManifestOf(k)]]

ConvertedPolicy(q) ==
    LET wave == Files[ManifestOf(Max(Entries(q))).path].wave
    IN  [name |-> q,
         wave |-> IF wave \in Numbers THEN wave ELSE "",
         manifests |-> [k \in Entries(q) |-> ManifestOf(k)]]

-----------------------------------------------------------------------------
Exit(code) == exit' = code /\ pc' = "exit"
Fault == faults < MaxFaults /\ faults' = faults + 1
NoFault == UNCHANGED faults

(* Copy: a file that is already there is skipped.                          *)
Copy(had, p) == IF p \in DOMAIN had THEN had[p] ELSE crs[p[1]]

(* CopyDirectory, for each template directory: done are the files it got   *)
(* to, as <<directory, file>>.                                             *)
CopyDirectory(dirs, done) ==
    [d \in DOMAIN out \union dirs |->
        LET had == IF d \in DOMAIN out THEN out[d] ELSE Empty
            new == {<<x[2]>> : x \in {y \in done : y[1] = d}}
        IN  [p \in DOMAIN had \union new |-> IF p \in new THEN Copy(had, p) ELSE had[p]]]

(* AddSourceCRsInTemplateDir, for the output and then the input directory; *)
(* the copies below the input are not read by the conversion.  Directories *)
(* are filled one after the other, in no fixed order.                      *)
AddSourceCRsInTemplateDir ==
    /\ pc = "copy"
    /\ LET all == Dirs \X DOMAIN crs
       IN  \/ ~ conf.flags.c /\ pc' = "next" /\ UNCHANGED <<out, exit>> /\ NoFault
           \/ conf.flags.c /\ out' = CopyDirectory(Dirs, all) /\ pc' = "next"
              /\ UNCHANGED exit /\ NoFault
           \/ \E full \in SUBSET Dirs, some \in SUBSET DOMAIN crs : \E d \in Dirs \ full :
                 /\ conf.flags.c /\ Fault /\ Exit("failed")
                 /\ out' = CopyDirectory(Dirs, (full \X DOMAIN crs) \union ({d} \X some))
    /\ UNCHANGED <<conf, crs, t, todo, acm, at, written, placements, namespaces, bindings, generators, runs>>

(* convertAllPGTFiles: the next template is read, and its policies; it may *)
(* be unreadable, or not parse.                                            *)
ReadTemplate ==
    /\ pc = "next" /\ t < Len(conf.templates)
    /\ \/ Fault /\ Exit("failed") /\ UNCHANGED <<t, namespaces, todo, acm, at>>
       \/ /\ t' = t + 1
          /\ namespaces' = namespaces \union {conf.templates[t + 1].ns}
          /\ todo' = {s.policy : s \in ToSet(conf.templates[t + 1].sources)}
          /\ acm' = <<>> /\ at' = <<1, 1>>
          /\ pc' = IF todo' = {} THEN "schema" ELSE "policy"
          /\ UNCHANGED exit /\ NoFault
    /\ UNCHANGED <<conf, crs, out, written, placements, bindings, generators, runs>>

First(policies) == <<1, Min(DOMAIN policies[1].manifests)>>

(* The placement file of a policy, next to the template.                   *)
GeneratePlacementFile(q) == <<t, q>>

(* convertPGTPolicyToACMPGPolicy and what follows it, for the policies in  *)
(* the order of sort.Strings: the fields of the template, and with -w a    *)
(* placement file of the policy.  A source CR may be unreadable or not     *)
(* parse, the selector be refused, the placement file fail.                *)
ConvertPolicy ==
    /\ pc = "policy"
    /\ LET q == Min(todo)
           unusable == \E k \in Entries(q) : \/ Template.sources[k].file = "" \/ Template.dir \notin DOMAIN out
                                             \/ ManifestOf(k).path \notin DOMAIN Files
       IN  IF unusable
           THEN Exit("failed") /\ UNCHANGED <<todo, acm, at, placements, faults>>
           ELSE \/ Fault /\ Exit("failed") /\ UNCHANGED <<todo, acm, at, placements>>
                \/ /\ acm' = Append(acm, ConvertedPolicy(q))
                   /\ placements' = IF conf.flags.w THEN placements \union {GeneratePlacementFile(q)} ELSE placements
                   /\ todo' = todo \ {q} /\ at' = First(acm')
                   /\ pc' = "render" /\ UNCHANGED exit /\ NoFault
    /\ UNCHANGED <<conf, crs, out, t, written, namespaces, bindings, generators, runs>>

\* Mutant: the rendering goes on after the last policy.
MutAfterManifest ==
    LET rest == {k \in DOMAIN acm[at[1]].manifests : k > at[2]}
    IN  IF rest # {} THEN at' = <<at[1], Min(rest)>> /\ UNCHANGED pc
        ELSE IF at[1] <= Len(acm) THEN at' = <<at[1] + 1, 1>> /\ UNCHANGED pc
        ELSE at' = <<1, 1>> /\ pc' = IF todo = {} THEN "schema" ELSE "policy"

(* The rendering starts over with the first policy after each policy.      *)
AfterManifest ==
    LET rest == {k \in DOMAIN acm[at[1]].manifests : k > at[2]}
    IN  IF rest # {} THEN at' = <<at[1], Min(rest)>> /\ UNCHANGED pc
        ELSE IF at[1] < Len(acm) THEN at' = <<at[1] + 1, Min(DOMAIN acm[at[1] + 1].manifests)>> /\ UNCHANGED pc
        ELSE at' = <<1, 1>> /\ pc' = IF todo = {} THEN "schema" ELSE "policy"

(* UnmarshalManifestFile finds a document in the rendered file.            *)
HasDocument(cr) == cr.kind # ""

(* ManifestPatcher.Validate of a single manifest, which gives the patches  *)
(* their apiVersion, kind and name; then kustomize, in memory.             *)
Validate(cr) == cr.kind # "" /\ cr.named
ApplyPatches(cr, patch) == Kustomized(cr.items, patch)

(* RenderPatchesInManifestForSpecifiedKindsAndMCP.  With -a the patch of a *)
(* kind listed with -k is replaced by what kustomize makes of it, before   *)
(* the merge keys are injected; kustomize may refuse it.  A failure may    *)
(* leave the file as it was, with the pool's name in it but its            *)
(* placeholders still there, or rendered.                                  *)
RenderManifest ==
    /\ pc = "render"
    /\ LET man == acm[at[1]].manifests[at[2]]
           cr == Files[man.path]
           path == RenderedPath(man.path, cr)
           listed == cr.kind \in conf.flags.k /\ man.patch # <<>> /\ conf.flags.s # "none"
           refused == \/ ~ HasDocument(cr)
                      \/ listed /\ conf.flags.s = "gone"
                      \/ listed /\ conf.flags.a /\ (~ Validate(cr) \/ conf.flags.s = "unparsable")
           with(p) == [acm EXCEPT ![at[1]].manifests[at[2]] =
                          [path |-> path, patch |-> p,
                           openapi |-> man.openapi \/ (listed /\ ~ conf.flags.a)]]
           wrote(c) == [out EXCEPT ![Template.dir] = Put(@, path, c)]
           rendered == wrote(RenderMCPLines(cr))
       IN  \/ out' = rendered /\ refused /\ Exit("failed") /\ UNCHANGED <<acm, at, faults>>
           \/ /\ out' = rendered /\ ~ refused
              /\ acm' = with(IF listed /\ conf.flags.a THEN ApplyPatches(cr, man.patch) ELSE man.patch)
              /\ AfterManifest /\ UNCHANGED exit /\ NoFault
           \/ /\ out' \in {out, wrote(ReplaceMCP(cr)), rendered}
              /\ Fault /\ Exit("failed") /\ UNCHANGED <<acm, at>>
    /\ UNCHANGED <<conf, crs, t, todo, written, placements, namespaces, bindings, generators, runs>>

(* The schema is referred to by every manifest with patches; the merge     *)
(* keys come from the source CR the manifest was rendered to.  A schema    *)
(* that does not parse is only warned of.                                  *)
Injected(man) ==
    LET cr == Files[man.path]
        keyed == conf.flags.s = "good" /\ cr.kind \in ParseOpenAPISchema(conf.flags.schema)
    IN  IF man.patch = <<>> THEN man
        ELSE [man EXCEPT !.openapi = TRUE,
                         !.patch = IF keyed THEN InjectMergeKeys(@, cr.items) ELSE @]

\* Mutant: a schema that cannot be read is only warned of, too.
MutWriteTemplate ==
    /\ pc = "schema"
    /\ pc' = "next"
    /\ written' = IF conf.flags.s = "gone" THEN written
                  ELSE Put(written, t, [policies |-> acm, selector |-> {}, placementPath |-> <<>>])
    /\ UNCHANGED <<conf, crs, out, t, todo, acm, at, placements, namespaces, bindings, generators,
                   exit, runs, faults>>

(* The end of convertPGTtoACM: schema and ACMPG file are written.  With -w *)
(* the selector is the one in the placement files.                         *)
WriteTemplate ==
    /\ pc = "schema"
    /\ \/ conf.flags.s = "gone" /\ Exit("failed") /\ UNCHANGED <<written, faults>>
       \/ Fault /\ Exit("failed") /\ UNCHANGED written
       \/ /\ conf.flags.s # "gone"
          /\ written' = Put(written, t,
                 [policies |-> IF conf.flags.s = "none" THEN acm
                               ELSE [i \in DOMAIN acm |->
                                       [acm[i] EXCEPT !.manifests = [j \in DOMAIN @ |-> Injected(@[j])]]],
                  selector |-> IF acm = <<>> THEN {} ELSE LabelToSelector(Template.rules, Template.excluded),
                  placementPath |-> IF conf.flags.w /\ acm # <<>> THEN GeneratePlacementFile(Last(acm).name) ELSE <<>>])
          /\ pc' = "next" /\ UNCHANGED exit /\ NoFault
    /\ UNCHANGED <<conf, crs, out, t, todo, acm, at, placements, namespaces, bindings, generators, runs>>

(* CopyAndProcessNSAndKustomizationYAML: resources are copied unless they  *)
(* are there, generators get their new names; then ns.yaml, read from the  *)
(* output directory, is extended once per namespace.  An error on the way  *)
(* is printed and the program goes on.                                     *)
ProcessKustomization ==
    /\ pc = "next" /\ t = Len(conf.templates)
    /\ LET copied == IF bindings = Absent /\ conf.flags.ns THEN {} ELSE bindings
       IN  \/ /\ generators' = conf.flags.generators /\ NoFault
              /\ bindings' = IF conf.flags.p \/ copied = Absent THEN copied
                             ELSE copied \union {<<n, runs>> : n \in namespaces}
           \/ Fault /\ UNCHANGED generators /\ bindings' \in {bindings, copied}
           \/ /\ ~ conf.flags.p /\ copied # Absent /\ Fault /\ generators' = conf.flags.generators
              /\ \E some \in SUBSET namespaces : bindings' = copied \union {<<n, runs>> : n \in some}
    /\ pc' = IF conf.flags.g THEN "policies" ELSE "exit"
    /\ exit' = IF conf.flags.g THEN exit ELSE "ok"
    /\ UNCHANGED <<conf, crs, out, t, todo, acm, at, written, placements, namespaces, runs>>

(* renderpolicies: kustomize builds both directories.                      *)
RenderPolicies ==
    /\ pc = "policies"
    /\ \/ Exit("ok") /\ NoFault
       \/ Exit("failed") /\ Fault
    /\ UNCHANGED <<conf, crs, out, t, todo, acm, at, written, placements, namespaces, bindings, generators, runs>>

(* The user starts the program again, after an update of the source CRs or *)
(* not; the directories are as the last run left them.                     *)
RunAgain ==
    /\ pc = "exit" /\ runs < MaxRuns
    /\ crs' \in {crs, conf.newer}
    /\ runs' = runs + 1 /\ pc' = "copy" /\ exit' = "running"
    /\ t' = 0 /\ todo' = {} /\ acm' = <<>> /\ at' = <<1, 1>> /\ namespaces' = {}
    /\ UNCHANGED <<conf, out, written, placements, bindings, generators, faults>>

Init ==
    /\ \E i \in Inputs : conf = i /\ crs = i.crs
    /\ out = Empty /\ pc = "copy" /\ t = 0 /\ todo = {} /\ acm = <<>> /\ at = <<1, 1>>
    /\ written = Empty /\ placements = {} /\ namespaces = {} /\ bindings = Absent /\ generators = {}
    /\ exit = "running" /\ runs = 1 /\ faults = 0

Done == pc = "exit" /\ runs = MaxRuns /\ UNCHANGED vars

Next == \/ AddSourceCRsInTemplateDir \/ ReadTemplate \/ ConvertPolicy \/ RenderManifest
        \/ WriteTemplate \/ ProcessKustomization \/ RenderPolicies \/ RunAgain \/ Done

Spec == Init /\ [][Next]_vars

-----------------------------------------------------------------------------
(* The types of the converter's state and of the files it writes.          *)
TypeOK ==
    /\ pc \in {"copy", "next", "policy", "render", "schema", "policies", "exit"}
    /\ exit \in {"running", "ok", "failed"} /\ (exit = "running" <=> pc # "exit")
    /\ t \in 0..Len(conf.templates) /\ DOMAIN written \subseteq Templates
    /\ DOMAIN out \subseteq Dirs
    /\ pc = "render" => /\ at[1] \in DOMAIN acm /\ at[2] \in DOMAIN acm[at[1]].manifests
                        /\ acm[at[1]].manifests[at[2]].path \in DOMAIN Files

Manifests(i) == UNION {{<<q, k>> : k \in DOMAIN written[i].policies[q].manifests} : q \in DOMAIN written[i].policies}
ManifestAt(i, x) == written[i].policies[x[1]].manifests[x[2]]
OutOf(i) == out[conf.templates[i].dir]

(* Every source file of a template becomes one manifest of the policy it   *)
(* names, and the policies are sorted: the repeated rendering and the map  *)
(* of seen policies lose and double none.                                  *)
SourcesConverted ==
    \A i \in DOMAIN written :
        LET ps == written[i].policies
            src == conf.templates[i].sources
        IN  /\ \A q \in 1..Len(ps) - 1 : ps[q].name < ps[q + 1].name
            /\ \A k \in DOMAIN src : \E q \in DOMAIN ps : ps[q].name = src[k].policy
            /\ \A q \in DOMAIN ps :
                 /\ DOMAIN ps[q].manifests = {k \in DOMAIN src : src[k].policy = ps[q].name}
                 /\ \A k \in DOMAIN ps[q].manifests : ps[q].manifests[k].path[1] = src[k].file

(* The templates the current run has converted.                            *)
Converted == IF exit = "failed" THEN {} ELSE IF pc \in {"next", "policies", "exit"} THEN 1..t ELSE 1..t - 1

Rendered(cr) ==
    /\ cr.body = CommentOutLinesWithPlaceholders(cr.body)
    /\ \A k \in DOMAIN cr.body : cr.body[k].kind \notin Placeholders

(* Templates of one directory share its source-crs, and every one renders  *)
(* them: whatever is converted later or in a later run, a manifest of a    *)
(* written template exists and has the name of its own pool or of none.    *)
(* It has no placeholder left, and rendering it again would change         *)
(* nothing, with one exception: RenderMCPLines writes the file for a pool  *)
(* before it comments out the placeholders, so a file operation that fails *)
(* in between spoils it also for the templates written before, until a run *)
(* has converted its template again.                                       *)
ManifestsRendered ==
    \A i \in DOMAIN written : \A x \in Manifests(i) :
        LET path == ManifestAt(i, x).path
        IN  /\ path \in DOMAIN OutOf(i)
            /\ OutOf(i)[path].mcp \in {"none", conf.templates[i].mcp}
            /\ path = <<path[1]>> \/ faults = 0 \/ i \in Converted => Rendered(OutOf(i)[path])

(* "Only comments out the parent if the placeholder is its sole child"     *)
(* (fileutils.go): a line that is not a placeholder is commented out only  *)
(* if it is a key with nothing but placeholders under it.                  *)
RealLinesKept(lines, rendered) ==
    \A p \in DOMAIN lines :
        rendered[p].kind = "comment" /\ lines[p].kind \notin Placeholders \union {"comment"} =>
            /\ lines[p].kind = "key"
            /\ \A i \in Under(lines, p) : lines[i].kind \in Placeholders \union {"comment"}

NothingRealLost ==
    \A d \in DOMAIN out : \A p \in DOMAIN out[d] :
        \E version \in {conf.crs, conf.newer} :
            p[1] \in DOMAIN version /\ RealLinesKept(version[p[1]].body, out[d][p].body)

(* "When converting, pgt2acmpg automatically injects the missing merge     *)
(* keys": kustomize, which merges by key, makes of the written patch what  *)
(* PolicyBuilder's setValues, which merges by position, makes of the       *)
(* template's, unless the template names other keys or more items.  Pre-   *)
(* rendered patches (-a) went through kustomize without the keys.          *)
Positional(items, patch) ==
    [i \in DOMAIN items |-> [key |-> items[i], val |-> IF i \in DOMAIN patch THEN patch[i].val ELSE "old"]]

PatchesMeanTheSame ==
    \A i \in DOMAIN written : \A x \in Manifests(i) :
        LET man == ManifestAt(i, x)
            items == OutOf(i)[man.path].items
            user == conf.templates[i].sources[x[2]].patch
        IN  /\ conf.flags.s = "good" /\ ~ conf.flags.a
            /\ OutOf(i)[man.path].kind \in ParseOpenAPISchema(conf.flags.schema)
            /\ Len(user) <= Len(items) /\ \A j \in DOMAIN user : user[j].key \in {NoKey, items[j]}
            => ToSet(Kustomized(items, man.patch)) = ToSet(Positional(items, user))

PGT == INSTANCE PolicyHelper
           WITH Waves <- Numbers, NoWave <- "", NonStringWave <- "non-string", Durations <- {}

(* The converted template selects, of the clusters the PolicyGenTemplate   *)
(* selects (PolicyHelper), those without any of the excluded labels: for a *)
(* label that is excluded with values, NotIn has become DoesNotExist.  A   *)
(* rule with an empty key, which no label has, is left out.                *)
ClustersSelected ==
    \A i \in DOMAIN written :
        LET named(f) == Restrict(f, DOMAIN f \ {""})
            rules == named(conf.templates[i].rules)
            excluded == named(conf.templates[i].excluded)
            keys == DOMAIN rules \union DOMAIN excluded
            values == UNION {ToSet(rules[k]) : k \in DOMAIN rules}
                      \union UNION {ToSet(excluded[k]) : k \in DOMAIN excluded} \union {"other"}
        IN  written[i].policies # <<>> =>
                \A labels \in UNION {[ks -> values] : ks \in SUBSET keys} :
                    PGT!Selects(written[i].selector, labels)
                    <=> /\ PGT!Selects(PGT!CreatePlacementRule(rules, excluded), labels)
                        /\ DOMAIN labels \cap DOMAIN excluded = {}

(* The wave is the last CR's.  If that one declares a wave, the policy is  *)
(* deployed in the wave PolicyBuilder gives it, which refuses CRs that     *)
(* disagree; if it declares none, the policy has lost the wave of the      *)
(* others.                                                                 *)
WaveOfTheLast ==
    \A i \in DOMAIN written : \A q \in DOMAIN written[i].policies :
        LET ms == written[i].policies[q].manifests
            resources == [j \in DOMAIN ms |-> OutOf(i)[<<ms[j].path[1]>>]]
        IN  IF resources[Max(DOMAIN ms)].wave \in Numbers
            THEN ~ PGT!WaveConflict("", resources)
                     => written[i].policies[q].wave = PGT!SetPolicyDeployWave("", resources)
            ELSE written[i].policies[q].wave = ""

(* What of a template's meaning to PolicyBuilder is kept by the one that   *)
(* is written for ACM: the CRs its patches make, the clusters it selects   *)
(* and the wave it is deployed in.                                         *)
ConvertedMeaning == PatchesMeanTheSame /\ ClustersSelected /\ WaveOfTheLast

(* The output of a run that exits with 0 is complete: the generators its   *)
(* kustomization names are written, each with all its source files and     *)
(* with the placement it refers to.                                        *)
OutputComplete ==
    /\ SourcesConverted
    /\ generators \subseteq DOMAIN written
    /\ exit = "ok" => DOMAIN written = Templates
    /\ \A i \in DOMAIN written : written[i].placementPath # <<>> => written[i].placementPath \in placements

=============================================================================
