---------------------------- MODULE MCDictSources ----------------------------
(* The dictionary sources, for TLC: the windows of the application are      *)
(* opened and used in the same ways, and the values a source may give are   *)
(* compared with each other and with None only.                             *)
EXTENDS DictSources, TLC

Symmetry == Permutations(Windows) \cup Permutations(Values)

=============================================================================
