-------------------------- MODULE MCPolicyBuilder --------------------------
(***************************************************************************)
(* Small instances of PolicyBuilder for TLC, and what a message of the     *)
(* code says that the code does not do.                                    *)
(***************************************************************************)
EXTENDS PolicyBuilder, FiniteSets

Doc(kind, name, namespace, wave) ==
    [kind |-> kind, name |-> name, namespace |-> namespace, wave |-> wave,
     metadata |-> TRUE]

File(docs) == [readable |-> TRUE, parses |-> TRUE, docs |-> docs]

Namespace1    == Doc("Namespace", <<"a">>, Nil, "1")
Subscription1 == Doc("Subscription", <<"a">>, <<"b", "c">>, "1")
Operator10    == Doc("Subscription", <<"a", "b">>, <<"c">>, "10")
Status        == Doc("Status", <<"s">>, Nil, NoWave)
Unquoted      == Doc("Tuned", <<"t">>, Nil, NonStringWave)
Nameless      == Doc("Config", Nil, Nil, NoWave)
Kindless      == Doc(Nil, <<"k">>, Nil, NoWave)

MCGitCRs ==
    [f \in {"namespace", "subscription", "operator", "status", "unquoted", "multi",
            "mixed", "empty", "nometa", "badyaml", "unreadable", "nameless", "kindless"} |->
        CASE f = "namespace"    -> File(<<Namespace1>>)
          [] f = "subscription" -> File(<<Subscription1>>)
          [] f = "operator"     -> File(<<Operator10>>)
          [] f = "status"       -> File(<<Status>>)
          [] f = "unquoted"     -> File(<<Unquoted>>)
          [] f = "multi"        -> File(<<Status, Namespace1>>)
          [] f = "mixed"        -> File(<<Namespace1, Operator10>>)
          [] f = "empty"        -> File(<<>>)
          [] f = "nometa"       -> File(<<[Status EXCEPT !.metadata = FALSE]>>)
          [] f = "badyaml"      -> [File(<<>>) EXCEPT !.parses = FALSE]
          [] f = "unreadable"   -> [File(<<>>) EXCEPT !.readable = FALSE]
          [] f = "nameless"     -> File(<<Nameless>>)
          [] f = "kindless"     -> File(<<Kindless>>)]

(* The container's copy of a file that git also has is never read.         *)
MCContainerCRs ==
    [f \in {"namespace", "reference"} |->
        CASE f = "namespace" -> File(<<[Namespace1 EXCEPT !.wave = "10"]>>)
          [] f = "reference" -> File(<<Subscription1>>)]

Entry(fileName, policyName) ==
    [fileName |-> fileName, policyName |-> policyName, overlay |-> FALSE,
     complianceType |-> Unset, remediationAction |-> Unset,
     compliant |-> Unset, nonCompliant |-> Unset,
     name |-> Unset, namespace |-> Unset, wave |-> Unset]

(* Waves, files and plain CRs.                                             *)
FileEntries ==
    {Entry(f, "p") : f \in DOMAIN MCGitCRs \cup {"reference", "missing"}}
    \cup {Entry(f, "q") : f \in {"namespace", "operator", "empty"}}
    \cup {Entry(f, "") : f \in {"subscription", "operator", "multi", "empty", "nameless", "kindless"}}
    \cup {[Entry("operator", "p") EXCEPT !.wave = "1"],
          [Entry("unquoted", "p") EXCEPT !.wave = "10"],
          [Entry("multi", "p") EXCEPT !.overlay = TRUE],
          [Entry("nameless", "") EXCEPT !.name = <<"n">>],
          [Entry("multi", "") EXCEPT !.name = <<"n">>],
          Entry("namespace", "placementrules")}

(* Settings of the entries that share a policy.                            *)
SettingEntries ==
    LET base == Entry("status", "p")
    IN  {base, Entry("status", "q"), Entry("empty", "p"),
         [base EXCEPT !.complianceType = "mustonlyhave"],
         [base EXCEPT !.compliant = "bad"], [base EXCEPT !.nonCompliant = "bad"]}
        \cup {[base EXCEPT !.remediationAction = a] : a \in {"inform", "enforce"}}
        \cup {[base EXCEPT !.compliant = i] : i \in {"10m", "never", "1h"}}
        \cup {[base EXCEPT !.nonCompliant = i] : i \in {"10s", "watch"}}
        \cup {[base EXCEPT !.remediationAction = "enforce", !.compliant = "1h",
                           !.nonCompliant = "watch"]}

MCSourceFiles == FileEntries \cup SettingEntries

Template ==
    [named |-> TRUE, wrapInPolicy |-> TRUE, prefixLength |-> 20,
     complianceType |-> "musthave", remediationAction |-> "inform",
     compliant |-> "10m", nonCompliant |-> "10s",
     bindingRules |-> [k \in {"group"} |-> <<"du">>],
     bindingExcludedRules |-> [k \in {} |-> <<>>]]

(* At prefix length 47 the binding name is exactly 63 characters long.     *)
MCPgts ==
    {Template,
     [Template EXCEPT !.named = FALSE],
     [Template EXCEPT !.wrapInPolicy = FALSE],
     [Template EXCEPT !.remediationAction = "enforce", !.compliant = "never"],
     [Template EXCEPT !.compliant = "bad"],
     [Template EXCEPT !.nonCompliant = "bad"],
     [Template EXCEPT !.prefixLength = 47],
     [Template EXCEPT !.prefixLength = 48],
     [Template EXCEPT !.bindingExcludedRules = [k \in {"group"} |-> <<"du">>]]}

MCPolicyNames == {"p", "q", "placementrules"}
MCPolicyNameLength == [n \in MCPolicyNames |-> CASE n = "p" -> 1 [] n = "q" -> 17 [] OTHER -> 14]

-----------------------------------------------------------------------------
(* "remediationAction already overridden by a different sourceFile and the *)
(* remediationAction does not match" is an error (policyBuilder.go:137-138 *)
(* and TestNamespaceRemediationActionConflict): no successful build has    *)
(* two entries of one policy that set different remediation actions.       *)
RemediationConflictDetected ==
    result = "ok" =>
        \A n \in PolicyNames :
            Cardinality(Explicit(n, "remediationAction")) <= 1
=============================================================================
