-------------------------------- MODULE Corridor --------------------------------
(***************************************************************************)
(* One episode of corridor_challenge.py on the line through the fence      *)
(* centre and the target: how far can a wrong GNSS offset g take the       *)
(* vehicle out of its fence, when the independent position is compared     *)
(* only at the request (C1), on every reading (C2s), or on every reading   *)
(* with the latch of vehicle_action.py (C2, and C2g, whose LAND holds the  *)
(* believed position)?  A tick is one turn of the episode's loop.  Offsets *)
(* and errors are whatever check_move() lets through.                      *)
(***************************************************************************)
EXTENDS Integers, VehicleCheck

CONSTANTS Radius, Target,            \* the fence and the point asked for
          Limit, Release, K,         \* the cross-check's limit and the latch
          ErrorBound, Slew, Speed,   \* of the second source, of g and of the setpoint, per tick
          RequestAt, End, LandTicks, \* in ticks
          Configs, Roots             \* which ones are flown

ASSUME CorridorAssumption ==
  /\ Radius \in Nat /\ Target \in 0..Radius
  /\ Limit \in Nat /\ Release \in 0..Limit /\ K \in Nat \ {0}
  /\ ErrorBound \in Nat /\ Slew \in Nat /\ Speed \in Nat
  /\ RequestAt \in Nat /\ End \in Nat /\ LandTicks \in Nat
  /\ Configs \subseteq {"C1", "C2s", "C2", "C2g"} /\ Roots \subseteq {"independent", "common"}

VARIABLES setup,     \* config, root, attacker, sabotage: fixed for the episode
          t, p, g,   \* the tick, the true position, the GNSS offset
          latch,     \* DisagreementLatch: over, under, latched
          decision,  \* of the Gate on the request, or NONE
          land,      \* [at, hold] once the monitor has begun LAND
          breach,    \* the furthest beyond the fence so far
          status     \* OK, or why the episode ended before its end

vars == <<setup, t, p, g, latch, decision, land, breach, status>>

Reference == {"A0", "A1", "A2", "A3", "A4"}
NotYet == [at |-> -1, hold |-> 0]
Landing == land # NotYet
Abs(n) == IF n < 0 THEN -n ELSE n

Init ==
  /\ setup \in [config : Configs, root : Roots, attacker : Reference \cup {"any"}, sabotage : BOOLEAN]
  /\ t = 0 /\ p = 0 /\ g = 0 /\ breach = 0
  /\ latch = [over |-> 0, under |-> 0, latched |-> FALSE]
  /\ decision = "none" /\ land = NotYet /\ status = "OK"
---------------------------------------------------------------------------
Latching == setup.config \in {"C2", "C2g"}

(* Mutant: one off, a reading more before the verdict.                     *)
UpdateLate(l, gap) ==
  LET over  == IF gap > Limit THEN l.over + 1 ELSE 0
      under == IF gap < Release THEN l.under + 1 ELSE 0
  IN  [over |-> over, under |-> under,
       latched |-> IF l.latched THEN under < K ELSE over > K]

(* DisagreementLatch.update(): K consecutive readings to change the verdict. *)
Update(l, gap) ==
  LET over  == IF gap > Limit THEN l.over + 1 ELSE 0
      under == IF gap < Release THEN l.under + 1 ELSE 0
  IN  [over |-> over, under |-> under,
       latched |-> IF l.latched THEN under < K ELSE over >= K]

(* The snapshot of the tick: believed position b, independent position x.  *)
Snapshot(b, x) ==
  [Healthy EXCEPT !.here = IF Abs(b) <= Radius THEN "within" ELSE "beyond",
                  !.gap = IF Abs(b - x) <= Limit THEN "within" ELSE "beyond"]
Rules(action, cross, snap) == Verdict(Request(action, "good", "within", cross), snap)

(* The Gate on the request: everything but the check is in order.          *)
Decision(snap) ==
  IF t # RequestAt THEN decision
  ELSE IF Landing THEN "NONE"
  ELSE IF Rules("goto", TRUE, snap) = "PASS" THEN "ALLOW" ELSE "REFUSE"

(* Mutant: the guidance does not stop at the target.                       *)
SetpointUncapped(allowed) == IF ~allowed THEN 0 ELSE Speed * (t - RequestAt + 1)

Setpoint(allowed) ==
  IF ~allowed THEN 0
  ELSE LET s == Speed * (t - RequestAt + 1) IN IF s < Target THEN s ELSE Target

(* Monitor: what it says of this tick's reading, given what was decided.   *)
Monitor(allowed, snap, l) ==
  LET active == IF allowed THEN "goto" ELSE "takeoff"
  IN  CASE setup.config = "C1"  -> "PASS"
        [] setup.config = "C2s" -> Rules(active, TRUE, snap)
        [] OTHER -> IF l.latched THEN "FAIL" ELSE Rules(active, FALSE, snap)

Moved(ng, d, landing) ==
  CASE landing = NotYet -> Setpoint(d = "ALLOW") - ng
    [] landing # NotYet /\ setup.config = "C2g" /\ t < landing.at + LandTicks -> landing.hold - ng
    [] OTHER -> p

Beyond(q) == IF Abs(q) > Radius THEN Abs(q) - Radius ELSE 0
Tick(ng, e) ==
  LET b     == p + ng
      x     == (IF setup.root = "common" THEN b ELSE p) + e
      snap  == Snapshot(b, x)
      d     == Decision(snap)
      fed   == Latching /\ ~Landing
      l     == IF fed THEN Update(latch, Abs(b - x)) ELSE latch
      mon   == IF Landing THEN "PASS" ELSE Monitor(d = "ALLOW", snap, l)
      landing == IF mon = "FAIL" /\ ~setup.sabotage THEN [at |-> t, hold |-> b] ELSE land
  IN  /\ status = "OK" /\ t < End
      /\ t' = t + 1 /\ g' = ng /\ decision' = d /\ latch' = l /\ land' = landing
      /\ p' = Moved(ng, d, landing)
      /\ breach' = IF Beyond(p') > breach THEN Beyond(p') ELSE breach
      /\ UNCHANGED <<setup, status>>

(* check_move(): the offset moves by at most the slew, and the second      *)
(* source errs by at most its bound.                                       *)
Moves == g - Slew .. g + Slew
Errs  == -ErrorBound .. ErrorBound

(* The reference attackers: how far inward they push the believed position *)
(* at this tick.  A1 ramps before the request, A2 stays inside what the    *)
(* cross-check accepts, A3 ramps once it is allowed, A4 rides the limit    *)
(* and pushes on when the vehicle has reached its target.                  *)
Least(a, b) == IF a < b THEN a ELSE b
Started == t > RequestAt /\ decision = "ALLOW"
Pushing == Started /\ Speed * ((IF Landing THEN land.at ELSE t) - RequestAt) >= Target

Push(attacker) ==
  CASE attacker = "A1" -> Least(t, 2 * (Limit + ErrorBound))
    [] attacker = "A2" -> Least(t, Limit + ErrorBound - 1)
    [] attacker = "A3" /\ Started -> t - RequestAt - 1
    [] attacker = "A4" /\ Pushing -> Slew - g
    [] attacker = "A4" /\ Started /\ ~Pushing -> Least(t - RequestAt - 1, Limit + ErrorBound)
    [] OTHER -> 0

(* The search family (a ramp in any direction with pulses, wobble and any  *)
(* error) and a challenger's program that keeps to the rules make any move.*)
Offsets == IF setup.attacker = "any" THEN Moves ELSE {-Push(setup.attacker)}

(* A reference attacker aligns the error with its offset, so that the gap  *)
(* is as small as can be.                                                  *)
Aligned(ng) == -Least(-ng, ErrorBound)
Errors(ng)  == IF setup.attacker \in {"A0", "any"} THEN Errs ELSE {Aligned(ng)}

(* What check_move() lets through of what the attacker of the episode may  *)
(* do, a reference attacker too.                                           *)
Allowable == {m \in Moves \X Errs : m[1] \in Offsets /\ m[2] \in Errors(m[1])}

EndsEarly(why) ==
  /\ status = "OK" /\ t < End
  /\ status' = why
  /\ UNCHANGED <<setup, t, p, g, latch, decision, land, breach>>

(* A challenger's program that goes further, is late, dies or does not     *)
(* speak the protocol ends the episode.                                    *)
OutOfModel == (setup.attacker = "any" \/ Allowable = {}) /\ EndsEarly("OUT OF MODEL")

(* One that answers with an integer no double holds ends the harness:      *)
(* is_num() raises an OverflowError that nobody catches (and json.loads()  *)
(* a RecursionError, where lists are nested without end).                  *)
Uncaught == setup.attacker = "any" /\ EndsEarly("TRACEBACK")

Next == (\E m \in Allowable : Tick(m[1], m[2])) \/ OutOfModel \/ Uncaught

Spec == Init /\ [][Next]_vars
---------------------------------------------------------------------------
Open == Target - Radius + Limit + ErrorBound
Bound == Open + (K - 1) * Slew
Most(n) == IF n > 0 THEN n ELSE 0

(* The registered bounds B and B_s: what the cross-check on every reading  *)
(* leaves open is the corridor it accepts, and the readings before the     *)
(* latch closes; provided the second source does not share GNSS's error.   *)
(* A LAND that holds the believed position adds its descent (V14f).        *)
Corridor ==
  setup.root = "independent" /\ ~setup.sabotage =>
    /\ setup.config = "C2s" => breach <= Most(Open)
    /\ setup.config = "C2"  => breach <= Most(Bound)
    /\ setup.config = "C2g" => breach <= Most(Bound) + LandTicks * Slew

(* A row of the registered run (run_all): one attacker under one           *)
(* configuration, with what the search and a challenger find beside them.  *)
Row(attacker, config, root) == setup.attacker = attacker /\ setup.config = config /\ setup.root = root
Allowed == decision = "ALLOW"

(* The predictions V14a to V14g on the row this episode is, at its end:    *)
(* the defence neither lands an honest vehicle nor lets the early ramp     *)
(* fly; a vehicle misled within the corridor is never landed; a naive ramp *)
(* is landed inside the fence where the check goes on in flight and flies  *)
(* out where it does not, or where the second source shares GNSS's error;  *)
(* and the bounds are reached, not only kept.                              *)
Predicted ==
  LET on(attacker, config) == Row(attacker, config, "independent") IN
  /\ \A c \in Configs : on("A0", c) => Allowed /\ ~Landing /\ breach = 0 /\ p = Target
  /\ on("A1", "C1") => decision = "REFUSE" /\ breach = 0
  /\ on("A1", "C2") => decision = "NONE" /\ land.at < RequestAt /\ breach = 0
  /\ on("A2", "C1") \/ on("A2", "C2") => Allowed /\ ~Landing /\ breach = Open - 1
  /\ on("A3", "C1") => Allowed /\ ~Landing /\ breach > Bound
  /\ on("A3", "C2") => Allowed /\ Landing /\ breach = 0
  /\ on("A4", "C2") => breach = Bound
  /\ on("A4", "C2s") => breach = Open
  /\ on("A4", "C2g") => breach > Bound
  /\ Row("A3", "C2", "common") => ~Landing /\ breach > Bound
  /\ on("any", "C2") => breach <= Bound

(* What a challenger's program, or one reference attacker, is told, and    *)
(* the exit code of the harness (an uncaught exception is Python's 1).     *)
UnderClaim == setup.config = "C2" /\ setup.root = "independent" /\ ~setup.sabotage
Judged ==
  CASE status = "TRACEBACK" -> "nothing"
    [] status = "OUT OF MODEL" -> "OUT OF MODEL"
    [] status = "OK" /\ ~UnderClaim -> "no claim"
    [] status = "OK" /\ UnderClaim /\ breach > Bound -> "BREAK"
    [] OTHER -> "NO BREAK"
ExitCode ==
  IF Judged \in {"BREAK", "nothing"} THEN 1 ELSE IF Judged = "OUT OF MODEL" THEN 3 ELSE 0

(* No program is told that it broke the claim.  The exit code that line 24 *)
(* gives that meaning is nevertheless one a program can bring about: by    *)
(* the answer that ends the harness, and by nothing else.                  *)
ClaimStands == /\ Judged # "BREAK"
               /\ ExitCode = 1 => status = "TRACEBACK" /\ setup.attacker = "any"

(* The outcome is the registered one; with --sabotage, the monitor's LAND  *)
(* not carried out, it differs (corridor_challenge.py:14), and it is the   *)
(* row that is saved by landing that shows it; and the claim stands,       *)
(* whenever an episode ends.                                               *)
AsRegistered ==
  /\ t = End => IF setup.sabotage THEN ~Row("A3", "C2", "independent") \/ ~Predicted ELSE Predicted
  /\ t = End \/ status # "OK" => ClaimStands
=================================================================================
