--------------------------- MODULE MCExecuteLambda --------------------------
(* Small instances of ExecuteLambda for TLC.  The table begins with a row   *)
(* per script, each of a project of its own; what else it may hold comes    *)
(* with the writes.                                                         *)
EXTENDS ExecuteLambda

CONSTANTS s1, s2, p1, p2, lua

MCScriptIds == {s1, s2}
MCProjects == {p1, p2}

FirstRow(s) == [projectId |-> IF s = s1 THEN p1 ELSE p2, sourceCode |-> lua]

MCInit == InitHandler /\ history = [s \in ScriptIds |-> <<FirstRow(s)>>]

\* FairHandler, from these initial states.
MCSpec == MCInit /\ [][NextHandler]_allVars /\ Fairness

=============================================================================
