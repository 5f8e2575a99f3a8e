-------------------------- MODULE MCScriptsStorage --------------------------
(* Small instances of ScriptsStorage for TLC; all sources are compilable.    *)
EXTENDS ScriptsStorage, TLC

Symmetry == Permutations(Tasks) \cup Permutations(ScriptIds) \cup Permutations(Sources)

=============================================================================
