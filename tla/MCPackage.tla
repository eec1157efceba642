------------------------------- MODULE MCPackage -------------------------------
(* Packages for TLC: two limited thermal domains, the fake vehicle's       *)
(* scenarios, two readings and a target that no double holds, and requests *)
(* of every action.                                                        *)
EXTENDS VerifierBefore, GatePorts

TwoRequired == <<"sensor_ok", "operator_ok">>
AllTools    == {"library", "chain", "model", "companion", "vehicle"}
TwoDomains  == {"battery", "cpu"}
Flights     == {Request("takeoff", "good", "within", FALSE), Request("takeoff", "nonfinite", "within", FALSE),
                Request("goto", "good", "within", TRUE), Request("goto", "good", "beyond", FALSE),
                Request("rtl", "good", "within", TRUE), Request("land", "good", "within", FALSE),
                Request("disarm", "good", "within", FALSE)}
FarTarget   == {Request("goto", "good", "nonfinite", FALSE)}
Scenarios   == {Healthy, [Healthy EXCEPT !.fix = "low", !.sats = "low", !.ekf = {"uninitialized"}],
                [Healthy EXCEPT !.battery = "low"], [Healthy EXCEPT !.here = "beyond"],
                [Healthy EXCEPT !.gap = "beyond"]}
OddReadings == {[Healthy EXCEPT !.fix = "nonfinite"], [Healthy EXCEPT !.here = "nonfinite", !.gap = "nonfinite"]}
================================================================================
