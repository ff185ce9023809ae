---------------------------- MODULE MCReconciler ----------------------------
(* A small instance of Reconciler: one power field and the unreadable      *)
(* Connect surface, thresholds of two to four seconds.                     *)
EXTENDS Reconciler

SetpointW == "SetpointW"
Connect == "Connect"
MCField == {SetpointW, Connect}
MCTolerance == [f \in MCField |-> IF f = SetpointW THEN 1 ELSE 0]
MCBackoff == <<1, 2>>
Power(w) == [f \in {SetpointW} |-> w]
PowerConnected(w) == [f \in MCField |-> IF f = SetpointW THEN w ELSE 1]
MCTargets == {Power(0), Power(4), PowerConnected(4)}
MCReads == {Power(1), Power(4), NoOpinion}
MCDelays == {0, StaleAfter + 1}
=============================================================================
