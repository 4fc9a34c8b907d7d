---------------------------- MODULE MCPGT2ACMPG ----------------------------
(***************************************************************************)
(* Small instances of PGT2ACMPG for TLC: two templates with all flags, and *)
(* one template whose source CRs have every document of up to four lines.  *)
(***************************************************************************)
EXTENDS PGT2ACMPG

Cr(kind, wave, mcp, body, items) ==
    [kind |-> kind, named |-> TRUE, wave |-> wave, mcp |-> mcp, body |-> body, items |-> items]
Src(file, policy, patch) == [file |-> file, policy |-> policy, patch |-> patch]
Item(key, val) == [key |-> key, val |-> val]
Tmpl(dir, ns, mcp, rules, excluded, sources) ==
    [dir |-> dir, ns |-> ns, mcp |-> mcp, rules |-> rules, excluded |-> excluded, sources |-> sources]

Label(k, vs) == [x \in {k} |-> vs]
NoLabels == [x \in {} |-> <<>>]

(* All documents of up to four lines, indented by at most two levels.      *)
Docs(n) == {d \in [1..n -> {Line(i, k) : i \in 0..2, k \in Kinds}] : WellFormed(d)}
FlushDocs == {d \in UNION {Docs(n) : n \in 1..3} : FlushList(d)}
IndentedDocs == {d \in UNION {Docs(n) : n \in 1..4} : ~ FlushList(d)}

Body == <<Line(0, "key"), Line(1, "key"), Line(2, "itemPh"), Line(1, "scalarPh")>>

(* Two pools share directory "a"; the CRs disagree on waves, need a pool,  *)
(* are empty or have a list with merge keys.                               *)
CRs(body) == [f \in {"mcp.yaml", "list.yaml", "empty.yaml", "unnamed.yaml"} |->
                CASE f = "mcp.yaml" -> Cr("MachineConfig", "1", "$mcp", body, <<>>)
                  [] f = "list.yaml" -> Cr("ClusterLogForwarder", "1", "none", body, <<"x", "y">>)
                  [] f = "unnamed.yaml" -> [Cr("Unnamed", "1", "none", body, <<"x">>) EXCEPT !.named = FALSE]
                  [] f = "empty.yaml" -> Cr("", "", "none", <<>>, <<>>)]
NewerCRs(body) == [CRs(body) EXCEPT !["mcp.yaml"].wave = "2", !["list.yaml"].wave = "two",
                                    !["list.yaml"].items = <<"z", "x">>]

Flags == [c |-> TRUE, s |-> "good", a |-> FALSE, w |-> FALSE, p |-> FALSE, g |-> FALSE, ns |-> TRUE,
          k |-> {"ClusterLogForwarder"}, generators |-> {1, 2},
          schema |-> {[kind |-> "ClusterLogForwarder", keyed |-> TRUE], [kind |-> "PtpConfig", keyed |-> FALSE]}]
FlagSets == {Flags, [Flags EXCEPT !.c = FALSE], [Flags EXCEPT !.s = "none", !.g = TRUE],
             [Flags EXCEPT !.s = "gone", !.k = {}], [Flags EXCEPT !.s = "gone"],
             [Flags EXCEPT !.s = "unparsable", !.w = TRUE], [Flags EXCEPT !.a = TRUE],
             [Flags EXCEPT !.a = TRUE, !.s = "unparsable"], [Flags EXCEPT !.a = TRUE, !.k = {"Unnamed"}],
             [Flags EXCEPT !.w = TRUE, !.g = TRUE, !.p = TRUE], [Flags EXCEPT !.ns = FALSE]}

Patches == {<<>>, <<Item(NoKey, "u")>>, <<Item(NoKey, "u"), Item("y", "v")>>, <<Item(NoKey, "u"), Item(NoKey, "v")>>}

Workers(patch) == Tmpl("a", "ns1", "worker", Label("sites", <<"1", "2">>), Label("mock", <<>>),
                       <<Src("mcp.yaml", 2, <<>>), Src("list.yaml", 1, patch), Src("mcp.yaml", 1, <<>>),
                         Src("list.yaml", 1, <<>>)>>)
Masters == Tmpl("a", "ns2", "master", Label("sites", <<>>), Label("mock", <<"1">>),
                <<Src("mcp.yaml", 3, <<>>), Src("list.yaml", 0, <<Item(NoKey, "w")>>)>>)
Others == {Masters, [Masters EXCEPT !.dir = "b", !.rules = Label("", <<"1">>)],
           [Masters EXCEPT !.sources = <<Src("mcp.yaml", 1, <<>>), Src("", 2, <<>>)>>],
           [Masters EXCEPT !.sources = <<Src("missing.yaml", 1, <<>>)>>],
           [Masters EXCEPT !.sources = <<Src("list.yaml", 1, <<>>), Src("empty.yaml", 1, <<>>)>>],
           [Masters EXCEPT !.sources = <<Src("unnamed.yaml", 1, <<Item(NoKey, "w")>>)>>],
           [Masters EXCEPT !.sources = <<>>]}

Input(flags, templates, body) ==
    [flags |-> flags, templates |-> templates, crs |-> CRs(body), newer |-> NewerCRs(body)]

Conversions == {Input(f, <<Workers(p), o>>, Body) : f \in FlagSets, p \in Patches, o \in Others}
Small == [Flags EXCEPT !.s = "none", !.generators = {1}]
Lines(docs) == {Input(Small, <<[Workers(<<>>) EXCEPT !.sources = <<Src("mcp.yaml", 1, <<>>), Src("list.yaml", 2, <<>>)>>]>>, d)
                  : d \in docs}

AllInputs == Conversions \union Lines(IndentedDocs)
FlushInputs == Lines(FlushDocs)
=============================================================================
