----------------------------- MODULE GinkgoTree -----------------------------
(***************************************************************************)
(* The nodes a spec is made of.  level is the nesting level of the         *)
(* container a node is declared in, ops are the operations of its          *)
(* function in their order.  execute.BeforeAll declares a BeforeEach with  *)
(* a variable `first' of its own: once is TRUE and id names the variable.  *)
(***************************************************************************)
EXTENDS Sequences

Node(id, level, once, ops) == [id |-> id, level |-> level, once |-> once, ops |-> ops]

BeforeEach(level, ops) == Node("each", level, FALSE, ops)
BeforeAll(id, level, ops) == Node(id, level, TRUE, ops)
It(level, ops) == Node("it", level, FALSE, ops)
AfterEach(level, ops) == Node("after", level, FALSE, ops)

(* The operations that take no argument.                                   *)
Do(names) == [i \in DOMAIN names |-> [do |-> names[i]]]
=============================================================================
