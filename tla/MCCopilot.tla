------------------------------ MODULE MCCopilot ------------------------------
(***************************************************************************)
(* Small instances of the life of Copilot actions.                         *)
(***************************************************************************)
EXTENDS CopilotProperties, TLC

CONSTANTS a1, a2, p1, p2, q1, q2, q3

=============================================================================
