----------------------- MODULE MCKubeletConfigRollout -----------------------
(***************************************************************************)
(* Small instances of KubeletConfigRollout: one node, one custom pool next *)
(* to the worker pool and the test's.                                      *)
(***************************************************************************)
EXTENDS KubeletConfigRollout

\* The API server lists pools by name: master and other idle pools left out.
MCPoolOrder == <<"cnf", "test-sriov-numa", "worker">>
=============================================================================
