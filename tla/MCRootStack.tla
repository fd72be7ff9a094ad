---------------------------- MODULE MCRootStack ----------------------------
(* Instances of RootStack for TLC.                                         *)
EXTENDS RootStack, TLC

ValueSymmetry == Permutations(Values)
=============================================================================
