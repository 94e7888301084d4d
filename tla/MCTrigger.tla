------------------------------ MODULE MCTrigger ------------------------------
(* Small instances of the trigger endpoints for TLC.                       *)
EXTENDS TriggerProperties, TLC

CONSTANTS u1, u2

\* Lists in both orders, and one that names a user twice.
SmallBodies == {<<u1>>, <<u1, u2>>, <<u2, u1>>, <<u1, u1>>}
=============================================================================
