---------------------------- MODULE ExtraManifests ----------------------------
(***************************************************************************)
(* The extra manifests of one cluster: extraManifests.go of the SiteConfig *)
(* converter.  A directory is the sequence of its entries in the order of  *)
(* their names, as ReadDir returns them; an entry is                       *)
(*                                                                         *)
(*   [name, type, text, rendered]                                          *)
(*                                                                         *)
(* with type "file", "template", "workload" (the directory of that name)   *)
(* or "skipped" (another directory, or a hidden file).  text is what the   *)
(* entry holds, rendered[r] what the template becomes for role r.  A text  *)
(* is blank, broken (not YAML, or a template that fails), or a sequence of *)
(* YAML documents, which is empty when there are only comments.            *)
(*                                                                         *)
(* Errors and panics both end the program with a failure, so that an       *)
(* operator ...Fails says when a function does not return a map.           *)
(***************************************************************************)
EXTENDS Naturals, SequencesExt

CONSTANTS
  Nil,            \* an absent pointer or string
  Directories,    \* the directories that exist: path -> sequence of entries
  DefaultDir,     \* localExtraManifestPath, next to the executable
  RenderedName,   \* <<role, template name>> -> file name
  WorkloadName    \* role -> 03-<role>-workload-partitioning.yaml

ASSUME DirectoriesAssumption ==
  \A d \in DOMAIN Directories : Directories[d] \in Seq(ToSet(Directories[d]))

(* The map with no manifest. *)
NoManifests == [f \in {} |-> Nil]

(* Every entry of a map is stored in another. *)
Over(new, old) ==
  [f \in DOMAIN new \cup DOMAIN old |-> IF f \in DOMAIN new THEN new[f] ELSE old[f]]

(* addZTPAnnotationToManifest decodes one document and encodes it again:   *)
(* of several documents the first is kept, and a text without a document   *)
(* is an assignment to a nil map.                                          *)
Annotatable(text) == text.kind = "yaml" /\ text.docs # <<>>

(* The manifest made of a text; owner is the cluster whose data it shows,  *)
(* "" when it is the same for all.                                         *)
AddZTPAnnotation(text, owner) == [docs |-> <<Head(text.docs)>>, owner |-> owner]

Unusable(text) == text.kind # "blank" /\ ~ Annotatable(text)

(* What a file contributes.  Templates in extraManifestPath are files too. *)
FromFile(e) ==
  IF e.text.kind = "blank" THEN NoManifests
                           ELSE [f \in {e.name} |-> AddZTPAnnotation(e.text, "")]

(* The roles of the cluster's nodes. *)
Roles(c) == {c.nodes[i].role : i \in DOMAIN c.nodes}

(* getManifestFromTemplate for every role; white space counts as nothing.  *)
FromTemplate(e, c) ==
  LET Shown == {r \in Roles(c) : e.rendered[r].kind # "blank"}
  IN  [f \in {RenderedName[r, e.name] : r \in Shown} |->
        LET r == CHOOSE r \in Shown : RenderedName[r, e.name] = f
        IN  AddZTPAnnotation(e.rendered[r], c.name)]

(* Workload partitioning is for single-node clusters with a CPU set.       *)
WantsWorkload(c) == Len(c.nodes) = 1 /\ c.nodes[1].cpuset

(* getWorkloadManifest *)
FromWorkload(e, c) ==
  IF e.type = "workload" /\ WantsWorkload(c) /\ e.text.kind # "blank"
  THEN [f \in {WorkloadName[c.nodes[1].role]} |-> AddZTPAnnotation(e.text, c.name)]
  ELSE NoManifests

Emitted(e, c) ==
  CASE e.type = "file"     -> FromFile(e)
    [] e.type = "template" -> FromTemplate(e, c)
    [] OTHER               -> NoManifests

EntryFails(e, c) ==
  \/ e.type = "file"     /\ Unusable(e.text)
  \/ e.type = "template" /\ \E r \in Roles(c) : Unusable(e.rendered[r])
  \/ e.type = "workload" /\ WantsWorkload(c) /\ Unusable(e.text)

(* All the entries of the paths, in the order they are read. *)
Entries(paths) == FlattenSeq([i \in DOMAIN paths |-> Directories[paths[i]]])

MutAssigned(maps) ==
  LET dataMap[i \in 0 .. Len(maps)] ==
        IF i = 0 THEN NoManifests ELSE Over(dataMap[i - 1], maps[i])
  IN  dataMap[Len(maps)]

(* dataMap after each map of a sequence is stored in it, one after the     *)
(* other: a manifest replaces an earlier one of the same name.             *)
Assigned(maps) ==
  LET dataMap[i \in 0 .. Len(maps)] ==
        IF i = 0 THEN NoManifests ELSE Over(maps[i], dataMap[i - 1])
  IN  dataMap[Len(maps)]

(* The manifests of files and templates, and those of the workload         *)
(* directories, entry by entry.                                            *)
FileMaps(c, paths) == LET E == Entries(paths) IN [i \in DOMAIN E |-> Emitted(E[i], c)]

WorkloadMaps(c, paths) == LET E == Entries(paths) IN [i \in DOMAIN E |-> FromWorkload(E[i], c)]

(* getExtraManifestMaps: all the workload manifests come last.             *)
GetExtraManifestMaps(c, paths) ==
  Over(Assigned(WorkloadMaps(c, paths)), Assigned(FileMaps(c, paths)))

GetExtraManifestMapsFails(c, paths) ==
  \/ \E i \in DOMAIN paths : paths[i] \notin DOMAIN Directories
  \/ \E e \in ToSet(Entries(paths)) : EntryFails(e, c)

(* The paths of the pre-defined manifests: searchPaths, or the default     *)
(* directory when there is one.                                            *)
PredefinedPaths(c) ==
  CASE c.searchPaths # Nil -> c.searchPaths
    [] c.searchPaths = Nil /\ DefaultDir \in DOMAIN Directories -> <<DefaultDir>>
    [] OTHER -> <<>>

Predefined(c) == GetExtraManifestMaps(c, PredefinedPaths(c))

(* extraManifestPath counts only without searchPaths. *)
HasUserPath(c) == c.searchPaths = Nil /\ c.extraManifestPath # Nil

UserEntries(c) == IF HasUserPath(c) THEN Directories[c.extraManifestPath] ELSE <<>>

UserFiles(c) == {e \in ToSet(UserEntries(c)) : e.type \in {"file", "template"}}

MutUserFails(c) ==
  /\ HasUserPath(c)
  /\ \/ c.extraManifestPath \notin DOMAIN Directories
     \/ \E e \in UserFiles(c) : Unusable(e.text)

(* A file of extraManifestPath must not have the name of a pre-defined one *)
(* (nor of one before it, but names differ within a directory).            *)
UserFails(c) ==
  /\ HasUserPath(c)
  /\ \/ c.extraManifestPath \notin DOMAIN Directories
     \/ \E e \in UserFiles(c) : e.name \in DOMAIN Predefined(c) \/ Unusable(e.text)

UserMaps(c) ==
  LET U == UserEntries(c)
  IN  [i \in DOMAIN U |-> IF U[i] \in UserFiles(c) THEN FromFile(U[i]) ELSE NoManifests]

WithUser(c) == Over(Assigned(UserMaps(c)), Predefined(c))

(* filterExtraManifests; an entry listed twice under exclude is not there  *)
(* any more the second time.                                               *)
FilterFails(m, filter) ==
  /\ filter # Nil
  /\ CASE filter.inclusionDefault = "include" ->
            \/ filter.include # <<>>
            \/ ~ IsInjective(filter.exclude)
            \/ ~ (ToSet(filter.exclude) \subseteq DOMAIN m)
       [] filter.inclusionDefault = "exclude" ->
            \/ filter.exclude # <<>>
            \/ ~ (ToSet(filter.include) \subseteq DOMAIN m)
       [] OTHER -> TRUE

FilterExtraManifests(m, filter) ==
  CASE filter = Nil -> m
    [] filter # Nil /\ filter.inclusionDefault = "exclude" ->
         Restrict(m, ToSet(filter.include))
    [] OTHER -> Restrict(m, DOMAIN m \ ToSet(filter.exclude))

(* getExtraManifest *)
GetExtraManifestFails(c) ==
  \/ GetExtraManifestMapsFails(c, PredefinedPaths(c))
  \/ UserFails(c)
  \/ FilterFails(WithUser(c), c.filter)

GetExtraManifest(c) == FilterExtraManifests(WithUser(c), c.filter)

=============================================================================
