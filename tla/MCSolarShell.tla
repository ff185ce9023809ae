--------------------------- MODULE MCSolarShell ---------------------------
(* A cap below what the sun allows, and a release above it.                *)
EXTENDS SolarShell

MCField == {"CeilingW"}
MCTolerance == [f \in MCField |-> 0]
MCBackoff == <<1>>
=============================================================================
