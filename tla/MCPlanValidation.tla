--------------------------- MODULE MCPlanValidation ---------------------------
(* Every plan of three steps, with self-dependencies and one foreign id.    *)
EXTENDS PlanValidation

CONSTANTS a, b, c

MCStep == {a, b, c}
MCOrder == <<a, b, c>>
=============================================================================
