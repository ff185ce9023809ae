-------------------------- MODULE MCBatteryShell --------------------------
(* A pack told to charge, with and without a Connect opinion, to discharge *)
(* or to disconnect; one fault.                                            *)
EXTENDS BatteryShell

MCField == {"SetpointW", "Connect"}
MCTolerance == [f \in MCField |-> 0]
MCBackoff == <<1>>
MCLevel == -2..2
Both(w, c) == [f \in MCField |-> IF f = "SetpointW" THEN w ELSE c]
MCTargets == {Both(-2, 1), [f \in {"SetpointW"} |-> -2], Both(2, 1), Both(0, 0)}
=============================================================================
