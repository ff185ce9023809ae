----------------------------- MODULE MCAdvanced -----------------------------
(* AdvShell over one device, three controls and a few minutes.              *)
EXTENDS AdvShell

MCField == {"content"}
MCTolerance == [f \in MCField |-> 0]
MCBackoff == <<1>>
MCNil == -9
MCOrder == <<"volt_var", "fixed_pf", "fixed_var", "trip_lv", "energize">>
MCFactory == [volt_var |-> 0, fixed_pf |-> 0, fixed_var |-> 0,
              trip_lv |-> 9, energize |-> 1]

MCFactoryOn == [x \in DOMAIN MCFactory |-> x \in {"trip_lv", "energize"}]

None(set) == [mrid |-> set, source |-> "event", set |-> set, fixedVar |-> Nil,
              pfInject |-> Nil, pfAbsorb |-> Nil, energize |-> Nil]
NoCurves == [set |-> "", entries |-> NoEntries]
Curve1 == [set |-> "s1", entries |-> [volt_var |-> 1, trip_lv |-> 2]]
Curve2 == [set |-> "s2", entries |-> [volt_var |-> 0, trip_lv |-> 3]]

MCEvents == [g \in {"7xx", "12x"} |-> IF g = "7xx" THEN 2 ELSE 1]

\* A curve that outranks a power factor; a power factor whose curve is dropped,
\* with a cease; and the end of all control.
MCControls == {
    [control |-> [None("s1") EXCEPT !.pfInject = 2], curves |-> Curve1],
    [control |-> [None("s2") EXCEPT !.pfAbsorb = -2, !.energize = 0,
                                    !.source = "default"],
     curves |-> Curve2],
    [control |-> [None("") EXCEPT !.fixedVar = 1, !.energize = 1],
     curves |-> NoCurves]}
=============================================================================
