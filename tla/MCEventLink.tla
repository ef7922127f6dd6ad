---------------------------- MODULE MCEventLink ------------------------------
(* Instances of EventLink for TLC.                                         *)
EXTENDS EventLink

Few == [g \in Sender |-> IF g = "violations" THEN 1 ELSE 3]
OneOversize == {<<"positions", 2>>}
=============================================================================
