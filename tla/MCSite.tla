-------------------------------- MODULE MCSite --------------------------------
(***************************************************************************)
(* The site and its plan for TLC: the optimizer by itself, with every way  *)
(* the site may misbehave ("alone"), and the authors of the plan in turn,  *)
(* on fewer of them ("authored").                                          *)
(***************************************************************************)
EXTENDS PlanAuthors

VARIABLE part

Every == {"battery-safety", "export", "gen", "import", "gen-aus", "load-aus", "economics"}
AllOrNone == {{}, Every}
NoLimits == [exp |-> NaN, imp |-> NaN, max |-> NaN, gen |-> NaN, load |-> NaN]
Calm == [sun |-> 0, load |-> 2, session |-> FALSE, pack |-> "obeys", inverter |-> "obeys",
         charger |-> "obeys", meter |-> "live", lim |-> NoLimits, fixed |-> NaN,
         cease |-> FALSE, peak |-> FALSE, target |-> NaN]
Plugged == [Calm EXCEPT !.sun = 8, !.session = TRUE]
Capless == [Calm EXCEPT !.sun = 8, !.inverter = "ignores", !.lim.exp = 0]
Starts == {Plugged, Capless, [Calm EXCEPT !.peak = TRUE, !.sun = 8]}
Plans == {NaN, [batt |-> 3, evModelled |-> FALSE, ev |-> 0], [batt |-> -3, evModelled |-> TRUE, ev |-> 0]}
-----------------------------------------------------------------------------
InitSite ==
    /\ part \in {"alone", "authored"}
    /\ InitAuthors
    /\ part = "alone" =>
          /\ changes = 0 /\ drifts = 0 /\ flips = MaxFlips
          /\ mode = "optimizer" /\ active = {} /\ latched
    /\ part = "authored" =>
          /\ <<env, soc>> \in {<<Plugged, 19>>, <<Plugged, 23>>, <<Capless, 23>>} /\ ~latched
          /\ changes = MaxChanges - 1 /\ drifts = MaxDrift /\ flips = 0

\* The environments of the authors.
Authored(e) ==
    /\ e.sun = 8 /\ e.load = 2 /\ e.target = NaN
    /\ e.pack \in {"obeys", "inverts"} /\ e.inverter # "dark" /\ e.charger = "obeys"
    /\ e.meter # "lagging" /\ e.lim.exp \in {NaN, 0}

NextSite ==
    /\ NextAuthors
    /\ part = "authored" => Authored(env')
    /\ UNCHANGED part

SpecSite == InitSite /\ [][NextSite]_<<part, avars>> /\ WF_beat(beat' = ~beat)

\* SiteSettles and FlipReleases.
SiteComesToRest ==
    <>[](/\ part = "alone" => Settled
         /\ part = "authored" => Released)
=============================================================================
