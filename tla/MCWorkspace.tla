---------------------------- MODULE MCWorkspace ----------------------------
(* Tabs are alike.                                                          *)
EXTENDS Workspace, TLC

Symmetry == Permutations(TabIds)

=============================================================================
