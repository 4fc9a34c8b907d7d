--------------------------- MODULE SourceCRLines ---------------------------
(***************************************************************************)
(* The textual rendering of a source CR by pgt2acmpg                       *)
(* (packages/fileutils/fileutils.go): the lines with a $variable are       *)
(* commented out, and with them the key above that has no other child.     *)
(*                                                                         *)
(* A line is [indent, kind].  The kinds are what the regular expressions   *)
(* and the scans tell apart:                                               *)
(*   key       "ports:"             scalar    "mtu: 9000"                  *)
(*   scalarPh  "mtu: $mtu"          item      "- eth0"                     *)
(*   itemPh    "- $iface"           itemScalarPh  "- name: $name"          *)
(*   bare      "$config"            comment   "# ...", and an empty line   *)
(***************************************************************************)
EXTENDS Integers, Sequences, FiniteSetsExt

Kinds == {"key", "scalar", "scalarPh", "item", "itemPh", "itemScalarPh", "bare", "comment"}
Line(indent, kind) == [indent |-> indent, kind |-> kind]
Document == Seq([indent : Nat, kind : Kinds])

ListPlaceholders == {"itemPh", "itemScalarPh", "bare"}
Placeholders == ListPlaceholders \union {"scalarPh"}
Items == {"item", "itemPh", "itemScalarPh"}

(* Backward from line i: the next line that says something is the parent,  *)
(* if it ends with a colon.                                                *)
ParentIdx(lines, i) ==
    LET above == {j \in 1..i - 1 : lines[j].kind # "comment"}
    IN  IF above # {} /\ lines[Max(above)].kind = "key" THEN Max(above) ELSE 0

\* Mutant: the scan forward does not look at the line it stops at.
MutSoleChild(lines, parent, i) == TRUE

(* Forward from line i: comments and list placeholders are passed over,    *)
(* the next other line must not be indented deeper than the parent.        *)
SoleChild(lines, parent, i) ==
    LET below == {k \in i + 1..Len(lines) : lines[k].kind \notin ListPlaceholders \union {"comment"}}
    IN  below # {} => lines[Min(below)].indent <= lines[parent].indent

(* commentOutParentKeyIfSoleChild, for all the lines that call it.         *)
ParentsOut(lines) ==
    {ParentIdx(lines, i) : i \in {k \in DOMAIN lines :
        /\ lines[k].kind \in ListPlaceholders
        /\ ParentIdx(lines, k) # 0
        /\ SoleChild(lines, ParentIdx(lines, k), k)}}

CommentOutLinesWithPlaceholders(lines) ==
    [i \in DOMAIN lines |->
        IF lines[i].kind \in Placeholders \/ i \in ParentsOut(lines)
        THEN [lines[i] EXCEPT !.kind = "comment"] ELSE lines[i]]

-----------------------------------------------------------------------------
(* The meaning of the lines as YAML, to judge the rendering by: what is    *)
(* under the key at line p.  A list may be written flush with its key.     *)
Under(lines, p) ==
    LET Inside(i) == \/ lines[i].kind = "comment" \/ lines[i].indent > lines[p].indent
                     \/ lines[i].kind \in Items /\ lines[i].indent = lines[p].indent
    IN  {i \in p + 1..Len(lines) : \A j \in p + 1..i : Inside(j)}

ChildrenOf(lines, p) ==
    {i \in Under(lines, p) : lines[i].kind # "comment" /\
        \A j \in Under(lines, p) : lines[j].kind # "comment" => lines[i].indent <= lines[j].indent}

(* The lines parse: nothing is indented below anything but a key or a list *)
(* item, and what is under a key is a list, a mapping or one bare value.   *)
WellFormed(lines) ==
    LET said == {i \in DOMAIN lines : lines[i].kind # "comment"}
        Before(i) == Max({j \in said : j < i} \union {0})
    IN  /\ \A i \in said :
             IF Before(i) = 0 THEN lines[i].indent = 0 /\ lines[i].kind \notin Items \union {"bare"}
             ELSE /\ lines[i].indent > lines[Before(i)].indent
                       => lines[Before(i)].kind \in {"key", "itemScalarPh"}
                  /\ lines[i].kind \in Items \union {"bare"} =>
                       \E p \in said : p < i /\ lines[p].kind = "key" /\ i \in ChildrenOf(lines, p)
        /\ \A p \in said : lines[p].kind = "key" =>
             LET kinds == {lines[i].kind : i \in ChildrenOf(lines, p)}
             IN  \/ kinds \subseteq Items
                 \/ kinds \subseteq {"key", "scalar", "scalarPh"}
                 \/ kinds = {"bare"} /\ Cardinality(ChildrenOf(lines, p)) = 1
        /\ \A i, j \in said : i < j /\ lines[i].indent > lines[j].indent /\ lines[j].indent > 0
             => \E k \in said : k < i /\ lines[k].indent = lines[j].indent

FlushList(lines) ==
    \E i, p \in DOMAIN lines : lines[p].kind = "key" /\ lines[i].kind \in Items
                               /\ lines[i].indent = lines[p].indent /\ i \in Under(lines, p)
=============================================================================
