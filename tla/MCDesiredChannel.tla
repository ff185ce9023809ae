------------------------- MODULE MCDesiredChannel -------------------------
(* A battery, a solar and an EVSE channel with two intents each; a publish *)
(* times out after one second and the heartbeat is due after two.          *)
EXTENDS DesiredChannel

MCField == {"SetpointW", "Connect", "CeilingW", "MaxCurrentA"}
MCTolerance == [f \in MCField |-> 0]
MCBackoff == <<1>>
MCRestore == 9
One(f, v) == [g \in {f} |-> v]
Cmd(fields, m) == [fields |-> fields, mrid |-> m]
MCCommands ==
    [battery |-> {Cmd(One("SetpointW", 1), "A"), Cmd(One("Connect", 0), "")},
     solar   |-> {Cmd(One("CeilingW", 1), "A"), Cmd(NoOpinion, "")},
     evse    |-> {Cmd(One("MaxCurrentA", 1), ""), Cmd(One("MaxCurrentA", 4), "")}]
=============================================================================
