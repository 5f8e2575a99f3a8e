------------------------ MODULE MCInstanceRegistrator -----------------------
(* Small instances of InstanceRegistrator for TLC. *)
EXTENDS InstanceRegistrator, TLC

CONSTANTS a, b, c   \* two instances of one address, one beside them

MCInstances == {a, b, c}
MCHosts == {"lambda.miet.ru"}
MCHostOf == [i \in MCInstances |-> "lambda.miet.ru"]
MCPortOf == (a :> 8080) @@ (b :> 8080) @@ (c :> 40000)

=============================================================================
