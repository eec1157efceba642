---------------------------- MODULE CorridorProofs ----------------------------
(* How far out the cross-checked vehicle can be misled, for every fence,   *)
(* limit, latch, slew and length of the episode.                           *)
EXTENDS MCCorridor, TLAPS

USE CorridorAssumption

Decisions == {"none", "NONE", "ALLOW", "REFUSE"}
Attackers == Reference \cup {"any"}
Setups    == [config : Configs, root : Roots, attacker : Attackers, sabotage : BOOLEAN]

TypeOK ==
  /\ setup \in Setups /\ t \in 0..End /\ p \in Int /\ g \in Int
  /\ latch \in [over : Nat, under : Nat, latched : BOOLEAN]
  /\ decision \in Decisions /\ land \in [at : -1..End, hold : Int]
  /\ breach \in Nat /\ status \in {"OK", "OUT OF MODEL", "TRACEBACK"}
  /\ status = "TRACEBACK" => setup.attacker = "any"

(* The claim is about a monitored vehicle whose second source has no part  *)
(* in the spoofing, and whose LAND is carried out.                         *)
Claimed == setup.root = "independent" /\ ~setup.sabotage /\ setup.config # "C1"

(* What the check on every reading leaves open: with the latch, the        *)
(* readings before it closes too.                                          *)
Reach == IF setup.config = "C2s" THEN Open ELSE Bound

(* The offset at the last reading, when that reading did not land the      *)
(* vehicle: within the corridor, or past it by a slew for every reading    *)
(* the latch has counted.                                                  *)
Flying ==
  /\ p + g \in 0..Target
  /\ IF Latching THEN ~latch.latched /\ latch.over < K /\ Abs(g) <= Limit + ErrorBound + latch.over * Slew
     ELSE Abs(g) <= Limit + ErrorBound
  /\ Abs(p) <= Radius + Most(Reach)

(* A LAND that holds the believed position follows the offset for as long  *)
(* as it lasts; any other stays where it began.                            *)
Descending ==
  IF setup.config = "C2g"
  THEN /\ Abs(p) <= Radius + Most(Bound) + LandTicks * Slew
       /\ t - land.at <= LandTicks =>
            p + g = land.hold /\ Abs(p) <= Radius + Most(Bound) + (t - 1 - land.at) * Slew
  ELSE Abs(p) <= Radius + Most(Reach)

IInv ==
  /\ TypeOK
  /\ decision = "ALLOW" => t > RequestAt
  /\ Landing => land.at \in 0..(t - 1)
  /\ Claimed => IF Landing THEN Descending ELSE Flying
  /\ Corridor
---------------------------------------------------------------------------
LEMMA SlewMonotone ==
  ASSUME NEW m \in Int, NEW n \in Int, m <= n
  PROVE  m * Slew <= n * Slew
<1>1. \A d \in Nat : \A s \in Nat : d * s \in Nat
  OBVIOUS
<1>2. (n - m) * Slew >= 0
  BY <1>1
<1> QED
  BY <1>2

LEMMA SlewOnce == ASSUME NEW n \in Int PROVE n * Slew \in Int /\ (n + 1) * Slew = n * Slew + Slew
OBVIOUS

LEMMA ReachFacts == Reach \in Int /\ Bound \in Int /\ Open \in Int /\ Open <= Bound /\ Most(Reach) \in Nat
                    /\ Most(Bound) \in Nat /\ Most(Reach) <= Most(Bound)
<1>1. 0 * Slew <= (K - 1) * Slew
  BY SlewMonotone
<1> QED
  BY <1>1 DEF Reach, Bound, Open, Most

(* Where the check of a movement asks for the second source, it fails on   *)
(* every gap beyond the limit.                                             *)
LEMMA CrossChecked ==
  ASSUME NEW a \in Movement, NEW snap, Rules(a, TRUE, snap) # "FAIL"
  PROVE  snap.gap = "within"
BY DEF Rules, Verdict, Request, Failures, Navigation, Movement

LEMMA GapSeen == ASSUME NEW b \in Int, NEW x \in Int PROVE Snapshot(b, x).gap = "within" <=> Abs(b - x) <= Limit
BY DEF Snapshot, Healthy

(* The second source errs little: a small gap is a small offset.           *)
LEMMA SmallGap ==
  ASSUME NEW n \in Int, NEW e \in Errs
  PROVE  Abs(n - e) <= Limit => Abs(n) <= Limit + ErrorBound
BY DEF Abs, Errs

LEMMA AbsMoves ==
  ASSUME NEW q \in Int, NEW r \in Int, NEW d \in Nat, q - r <= d, r - q <= d
  PROVE  Abs(q) <= Abs(r) + d
BY DEF Abs

LEMMA SetpointInside ==
  ASSUME NEW allowed \in BOOLEAN, t \in Nat, allowed => t >= RequestAt
  PROVE  Setpoint(allowed) \in 0..Target
<1>1. CASE ~allowed
  BY <1>1 DEF Setpoint
<1>2. CASE allowed
  <2>1. t - RequestAt + 1 \in Nat /\ Speed \in Nat
    BY <1>2
  <2>2. \A m \in Nat : \A n \in Nat : m * n \in Nat
    OBVIOUS
  <2>3. Speed * (t - RequestAt + 1) \in Nat
    BY <2>1, <2>2
  <2> QED
    BY <1>2, <2>3 DEF Setpoint
<1> QED
  BY <1>1, <1>2

(* Guided to a point inside the fence, an offset takes it no further.       *)
LEMMA ReachKept ==
  ASSUME NEW q \in Int, NEW n \in Int, NEW r \in Int, q + n \in 0..Target, Abs(n) <= r - Target + Radius
  PROVE  Abs(q) <= Radius + Most(r)
<1>1. q + n >= 0 /\ q + n <= Target /\ Target <= Radius /\ Target >= 0 /\ Radius \in Int /\ Target \in Int
  OBVIOUS
<1>2. n <= r - Target + Radius /\ -n <= r - Target + Radius
  BY <1>1 DEF Abs
<1>3. Most(r) \in Int /\ Most(r) >= r
  BY DEF Most
<1>4. q <= Radius + Most(r)
  BY <1>1, <1>2, <1>3
<1>5. -q <= Radius + Most(r)
  BY <1>1, <1>2, <1>3
<1> QED
  BY <1>4, <1>5 DEF Abs

(* A position is as far beyond the fence as its distance says.             *)
LEMMA BeyondFacts ==
  ASSUME NEW q \in Int, NEW n \in Nat
  PROVE  Beyond(q) \in Nat /\ (Abs(q) <= Radius + n => Beyond(q) <= n)
BY DEF Beyond, Abs

LEMMA InsideFence == ASSUME NEW q \in 0..Target PROVE Beyond(q) = 0
<1>1. q \in Int /\ ~(q < 0) /\ ~(q > Radius)
  OBVIOUS
<1> QED
  BY <1>1 DEF Beyond, Abs

LEMMA UpdateType ==
  ASSUME NEW l \in [over : Nat, under : Nat, latched : BOOLEAN], NEW gap \in Int
  PROVE  Update(l, gap) \in [over : Nat, under : Nat, latched : BOOLEAN]
<1> DEFINE over    == IF gap > Limit THEN l.over + 1 ELSE 0
           under   == IF gap < Release THEN l.under + 1 ELSE 0
           latched == IF l.latched THEN under < K ELSE over >= K
<1>1. over \in Nat /\ under \in Nat
  OBVIOUS
<1>2. (under < K) \in BOOLEAN /\ (over >= K) \in BOOLEAN
  OBVIOUS
<1>3. Update(l, gap) = [over |-> over, under |-> under, latched |-> latched]
  BY DEF Update
<1> HIDE DEF over, under
<1>4. latched \in BOOLEAN
  BY <1>2, Zenon
<1> HIDE DEF latched
<1> QED
  BY <1>1, <1>3, <1>4

LEMMA ErrIsInt == Errs \subseteq Int
BY DEF Errs

LEMMA TypeFacts ==
  IInv => /\ t \in Nat /\ p \in Int /\ g \in Int /\ decision \in Decisions
          /\ decision = "ALLOW" => t > RequestAt
<1>1. IInv => t \in 0..End /\ p \in Int /\ g \in Int /\ decision \in Decisions /\ (decision = "ALLOW" => t > RequestAt)
  BY Zenon DEF IInv, TypeOK
<1> QED
  BY <1>1

LEMMA InitIInv == Init => IInv
<1> SUFFICES ASSUME Init PROVE IInv
  OBVIOUS
<1>1. TypeOK /\ ~Landing
  BY DEF Init, TypeOK, Setups, Attackers, Decisions, NotYet, Landing
<1>2. 0 * Slew = 0 /\ LandTicks * Slew \in Nat
  OBVIOUS
<1>3. Flying
  BY <1>2, ReachFacts DEF Init, Flying, Abs
<1>4. Corridor
  BY <1>2, ReachFacts DEF Init, Corridor, Most
<1> QED
  BY <1>1, <1>3, <1>4 DEF IInv, Init

LEMMA TickStep ==
  ASSUME IInv, NEW ng \in Moves, NEW e \in Errs, Tick(ng, e)
  PROVE  IInv'
<1> DEFINE b == p + ng
           x == (IF setup.root = "common" THEN b ELSE p) + e
           snap == Snapshot(b, x)
           d == Decision(snap)
           l == IF Latching /\ ~Landing THEN Update(latch, Abs(b - x)) ELSE latch
           mon == IF Landing THEN "PASS" ELSE Monitor(d = "ALLOW", snap, l)
           landing == IF mon = "FAIL" /\ ~setup.sabotage THEN [at |-> t, hold |-> b] ELSE land
<1> USE DEF IInv
<1>1. /\ status = "OK" /\ t < End /\ t' = t + 1 /\ g' = ng /\ decision' = d /\ latch' = l /\ land' = landing
      /\ p' = Moved(ng, d, landing) /\ breach' = IF Beyond(p') > breach THEN Beyond(p') ELSE breach
      /\ setup' = setup /\ status' = status
  BY DEF Tick
<1>2. ng \in Int /\ ng - g <= Slew /\ g - ng <= Slew /\ e \in Int /\ b \in Int /\ x \in Int /\ t \in Nat /\ p \in Int /\ g \in Int
  <2>1. t \in Nat /\ p \in Int /\ g \in Int
    BY TypeFacts
  <2>0. e \in Int
    BY ErrIsInt
  <2>2. ng \in Int /\ ng - g <= Slew /\ g - ng <= Slew
    BY <2>1 DEF Moves
  <2> QED
    BY <2>0, <2>1, <2>2
<1> HIDE DEF snap
<1>3. d \in Decisions /\ (d = "ALLOW" => t >= RequestAt)
  <2>1. decision \in Decisions /\ t \in Nat /\ (decision = "ALLOW" => t > RequestAt)
    BY TypeFacts
  <2>2. CASE t # RequestAt
    BY <2>1, <2>2 DEF Decision
  <2>3. CASE t = RequestAt
    <3>1. d \in {"NONE", "ALLOW", "REFUSE"}
      BY <2>3 DEF Decision
    <3> QED
      BY <3>1, <2>1, <2>3 DEF Decisions
  <2> QED
    BY <2>2, <2>3
<1>4. Setpoint(d = "ALLOW") \in 0..Target
  BY <1>2, <1>3, SetpointInside
<1>5. l \in [over : Nat, under : Nat, latched : BOOLEAN]
  <2>1. latch.over \in Nat /\ latch.under \in Nat /\ latch.latched \in BOOLEAN /\ latch \in [over : Nat, under : Nat, latched : BOOLEAN]
    BY DEF TypeOK
  <2>2. Update(latch, Abs(b - x)) \in [over : Nat, under : Nat, latched : BOOLEAN]
    <3>1. Abs(b - x) \in Int
      BY <1>2 DEF Abs
    <3> QED
      BY <2>1, <3>1, UpdateType
  <2> HIDE DEF b, x
  <2> QED
    BY <2>1, <2>2
<1>6. landing \in [at : -1..End, hold : Int]
  BY <1>1, <1>2 DEF TypeOK
<1>7. p' \in Int
  BY <1>1, <1>2, <1>4, <1>6 DEF Moved
<1>8. Beyond(p') \in Nat /\ breach' \in Nat
  BY <1>1, <1>7, BeyondFacts DEF TypeOK
<1>9. TypeOK'
  BY <1>1, <1>2, <1>3, <1>5, <1>6, <1>7, <1>8 DEF TypeOK
<1>10. (Landing => land.at \in 0..(t - 1))'
  BY <1>1, <1>2 DEF Landing, NotYet
<1>11. (decision = "ALLOW" => t > RequestAt)'
  BY <1>1, <1>2, <1>3
<1>12. Landing' <=> landing # NotYet
  BY <1>1 DEF Landing, NotYet
<1>13. Claimed' <=> Claimed
  BY <1>1 DEF Claimed
<1>14. Reach' = Reach /\ (Latching' <=> Latching)
  BY <1>1 DEF Reach, Latching, Open, Bound
<1>15. (Claimed => IF Landing THEN Descending ELSE Flying)'
  <2> SUFFICES ASSUME Claimed PROVE IF Landing' THEN Descending' ELSE Flying'
    BY <1>13
  <2>1. x = p + e /\ Abs(b - x) = Abs(ng - e) /\ Abs(b - x) \in Nat
    BY <1>2 DEF Claimed, Abs
  <2>2. setup.config \in {"C2s", "C2", "C2g"} /\ (Latching <=> setup.config # "C2s")
    BY DEF Claimed, Latching, TypeOK, Setups
  <2> HIDE DEF b, x, snap, d, l, mon, landing
  <2>3. ASSUME ~Landing, mon = "FAIL" PROVE IF Landing' THEN Descending' ELSE Flying'
    <3>1. landing = [at |-> t, hold |-> b] /\ landing # NotYet
      BY <2>3, <1>2 DEF landing, Claimed, NotYet
    <3>2. p' = p
      BY <3>1, <1>1, <1>2 DEF Moved, b
    <3>3. Abs(p') <= Radius + Most(Reach) /\ (setup.config = "C2g" => Reach = Bound)
      BY <3>2, <2>3 DEF Flying, Reach
    <3>4. 0 * Slew = 0 /\ LandTicks * Slew \in Nat
      OBVIOUS
    <3>5. Descending'
      BY <3>1, <3>2, <3>3, <3>4, <1>1, <1>2, <1>14, <1>7, ReachFacts DEF Descending, b, Abs, Bound, Open, Most
    <3> QED
      BY <3>1, <3>5, <1>12
  <2>4. ASSUME ~Landing, mon # "FAIL" PROVE IF Landing' THEN Descending' ELSE Flying'
    <3>1. landing = NotYet /\ p' + ng \in 0..Target
      BY <2>4, <1>1, <1>2, <1>4 DEF landing, Landing, Moved
    <3>2. ASSUME Latching
          PROVE  ~l.latched /\ l.over \in 0..(K - 1) /\ Abs(ng) <= Limit + ErrorBound + l.over * Slew
      <4>1. l = Update(latch, Abs(ng - e)) /\ ~l.latched
        BY <3>2, <2>4, <2>2, <2>1 DEF l, mon, Monitor
      <4>2. ~latch.latched /\ latch.over \in Nat /\ latch.over < K /\ Abs(g) <= Limit + ErrorBound + latch.over * Slew
        BY <3>2, <2>4 DEF Flying, TypeOK
      <4>3. l.over = (IF Abs(ng - e) > Limit THEN latch.over + 1 ELSE 0) /\ ~(l.over >= K)
        BY <4>1, <4>2 DEF Update
      <4>4. 0 * Slew = 0 /\ latch.over * Slew \in Int /\ (latch.over + 1) * Slew = latch.over * Slew + Slew
        BY <4>2, SlewOnce
      <4>5. Abs(ng) <= Abs(g) + Slew
        BY <1>2, AbsMoves
      <4>6. Abs(ng - e) <= Limit => Abs(ng) <= Limit + ErrorBound
        BY <1>2, SmallGap
      <4>7. Abs(ng) \in Int /\ Abs(g) \in Int /\ Abs(ng - e) \in Int
        BY <1>2 DEF Abs
      <4>8. CASE Abs(ng - e) > Limit
        BY <4>1, <4>2, <4>3, <4>4, <4>5, <4>7, <4>8
      <4>9. CASE Abs(ng - e) <= Limit
        BY <4>1, <4>2, <4>3, <4>4, <4>6, <4>7, <4>9
      <4> QED
        BY <4>7, <4>8, <4>9
    <3>3. ASSUME ~Latching PROVE Abs(ng) <= Limit + ErrorBound
      <4>1. Rules(IF d = "ALLOW" THEN "goto" ELSE "takeoff", TRUE, snap) # "FAIL"
        BY <3>3, <2>2, <2>4 DEF mon, Monitor
      <4>2. snap.gap = "within"
        BY <4>1, CrossChecked DEF Movement
      <4> QED
        BY <4>2, <2>1, <1>2, GapSeen, SmallGap DEF snap
    <3>4. Abs(ng) <= Reach - Target + Radius
      <4>1. ASSUME Latching PROVE l.over * Slew <= (K - 1) * Slew
        BY <4>1, <3>2, SlewMonotone
      <4>2. ASSUME Latching PROVE Abs(ng) <= Reach - Target + Radius
        <5>1. l.over * Slew \in Int /\ (K - 1) * Slew \in Int /\ Abs(ng) \in Int
          BY <4>2, <3>2, <1>2, SlewOnce DEF Abs
        <5> QED
          BY <5>1, <4>1, <4>2, <3>2, <2>2 DEF Reach, Bound, Open
      <4>3. ASSUME ~Latching PROVE Abs(ng) <= Reach - Target + Radius
        BY <4>3, <3>3, <2>2, <1>2 DEF Reach, Open, Abs
      <4> QED
        BY <4>2, <4>3
    <3>5. Abs(p') <= Radius + Most(Reach)
      <4>1. Reach \in Int
        BY ReachFacts
      <4> QED
        BY <3>1, <3>4, <4>1, <1>2, <1>7, ReachKept
    <3>6. Flying'
      BY <3>1, <3>2, <3>3, <3>5, <1>1, <1>2, <1>14 DEF Flying, Abs
    <3> QED
      BY <3>1, <3>6, <1>12
  <2>5. ASSUME Landing PROVE IF Landing' THEN Descending' ELSE Flying'
    <3>1. landing = land /\ landing # NotYet /\ land.at \in 0..(t - 1) /\ land.hold \in Int
      BY <2>5 DEF landing, mon, Landing, TypeOK
    <3>2. CASE setup.config # "C2g"
      <4>1. p' = p
        BY <3>1, <3>2, <1>1 DEF Moved
      <4> QED
        BY <4>1, <3>1, <3>2, <2>5, <1>1, <1>12, <1>14 DEF Descending
    <3>3. CASE setup.config = "C2g" /\ t < land.at + LandTicks
      <4>1. p' = land.hold - ng /\ p + g = land.hold /\ Abs(p) <= Radius + Most(Bound) + (t - 1 - land.at) * Slew
        BY <3>1, <3>3, <2>5, <1>1, <1>2 DEF Moved, Descending
      <4>2. Abs(p') <= Abs(p) + Slew
        BY <4>1, <3>1, <1>2, <1>7, AbsMoves
      <4>3. t - 1 - land.at \in Int /\ (t - 1 - land.at) + 1 = t' - 1 - land.at
        BY <3>1, <1>1, <1>2
      <4>4. (t - 1 - land.at) * Slew \in Int /\ (t' - 1 - land.at) * Slew = (t - 1 - land.at) * Slew + Slew
        BY <4>3, SlewOnce
      <4>5. (t' - 1 - land.at) * Slew <= LandTicks * Slew /\ LandTicks * Slew \in Int
        BY <4>3, <3>1, <3>3, <1>1, <1>2, SlewMonotone, SlewOnce
      <4>6. Abs(p) \in Int /\ Abs(p') \in Int
        BY <1>2, <1>7 DEF Abs
      <4>7. Abs(p') <= Radius + Most(Bound) + (t' - 1 - land.at) * Slew
        BY <4>1, <4>2, <4>4, <4>6, ReachFacts
      <4>8. Abs(p') <= Radius + Most(Bound) + LandTicks * Slew
        BY <4>7, <4>4, <4>5, <4>6, ReachFacts
      <4>9. land' = land /\ p' + g' = land.hold
        BY <4>1, <3>1, <1>1, <1>2
      <4>10. Abs(p)' = Abs(p') /\ Most(Bound)' = Most(Bound)
        BY DEF Abs, Most, Bound, Open
      <4>11. Descending'
        BY <4>7, <4>8, <4>9, <4>10, <3>3, <1>1 DEF Descending
      <4> QED
        BY <4>11, <3>1, <1>12
    <3>4. CASE setup.config = "C2g" /\ ~(t < land.at + LandTicks)
      <4>1. p' = p
        BY <3>1, <3>4, <1>1 DEF Moved
      <4>2. Abs(p)' = Abs(p) /\ Most(Bound)' = Most(Bound) /\ land' = land /\ setup' = setup
        BY <4>1, <3>1, <1>1 DEF Abs, Most, Bound, Open
      <4>3. ~(t' - land.at <= LandTicks)
        BY <3>1, <3>4, <1>1, <1>2
      <4>4. Descending'
        BY <4>2, <4>3, <3>4, <2>5 DEF Descending
      <4> QED
        BY <4>4, <3>1, <1>12
    <3> QED
      BY <3>2, <3>3, <3>4
  <2> QED
    BY <2>3, <2>4, <2>5
<1>16. Corridor'
  <2> SUFFICES ASSUME Claimed PROVE Corridor'
    <3>1. CASE setup.config = "C1" \/ setup.root # "independent" \/ setup.sabotage
      BY <3>1, <1>1 DEF Corridor
    <3> QED
      BY <3>1 DEF Claimed
  <2>1. LandTicks * Slew \in Nat
    OBVIOUS
  <2>2. setup.config \in {"C2s", "C2"} => Abs(p') <= Radius + Most(Reach)
    BY <1>13, <1>14, <1>15, <1>1 DEF Flying, Descending, Abs, Most
  <2>3. setup.config = "C2g" => Abs(p') <= Radius + Most(Bound) + LandTicks * Slew
    <3> SUFFICES ASSUME setup.config = "C2g" PROVE Abs(p') <= Radius + Most(Bound) + LandTicks * Slew
      OBVIOUS
    <3>1. Reach = Bound
      BY DEF Reach
    <3>2. Landing' => Abs(p') <= Radius + Most(Bound) + LandTicks * Slew
      BY <1>13, <1>15, <1>1 DEF Descending, Abs, Most, Bound, Open
    <3>3. ~Landing' => Abs(p') <= Radius + Most(Bound)
      BY <3>1, <1>13, <1>14, <1>15 DEF Flying, Abs, Most
    <3>4. Abs(p') \in Int
      BY <1>7 DEF Abs
    <3> QED
      BY <2>1, <3>2, <3>3, <3>4, ReachFacts
  <2>4. setup.config \in {"C2s", "C2"} => Beyond(p') <= Most(Reach)
    BY <2>2, <1>7, ReachFacts, BeyondFacts
  <2>5. setup.config = "C2g" => Beyond(p') <= Most(Bound) + LandTicks * Slew
    <3>1. Most(Bound) + LandTicks * Slew \in Nat
      BY <2>1, ReachFacts
    <3> QED
      BY <3>1, <2>1, <2>3, <1>7, ReachFacts, BeyondFacts
  <2>6. /\ setup.config = "C2s" => breach <= Most(Open)
        /\ setup.config = "C2"  => breach <= Most(Bound)
        /\ setup.config = "C2g" => breach <= Most(Bound) + LandTicks * Slew
    BY DEF Claimed, Corridor
  <2>7. /\ setup.config = "C2s" => breach' <= Most(Open)
        /\ setup.config = "C2"  => breach' <= Most(Bound)
        /\ setup.config = "C2g" => breach' <= Most(Bound) + LandTicks * Slew
    BY <2>4, <2>5, <2>6, <1>1 DEF Reach
  <2> QED
    BY <2>7, <1>1 DEF Corridor, Most, Open, Bound
<1> QED
  BY <1>9, <1>10, <1>11, <1>15, <1>16

LEMMA NextStep == IInv /\ [Next]_vars => IInv'
<1> SUFFICES ASSUME IInv, [Next]_vars PROVE IInv'
  OBVIOUS
<1>1. CASE \E m \in Allowable : Tick(m[1], m[2])
  <2>1. PICK m \in Moves \X Errs : Tick(m[1], m[2])
    BY <1>1 DEF Allowable
  <2>2. m[1] \in Moves /\ m[2] \in Errs
    OBVIOUS
  <2> QED
    BY <2>1, <2>2, TickStep
<1>2. CASE OutOfModel \/ Uncaught
  <2>1. /\ UNCHANGED <<setup, t, p, g, latch, decision, land, breach>>
        /\ status' = "OUT OF MODEL" \/ (status' = "TRACEBACK" /\ setup.attacker = "any")
    BY <1>2 DEF OutOfModel, Uncaught, EndsEarly
  <2> QED
    BY <2>1 DEF IInv, TypeOK, Landing, Claimed, Flying, Descending, Corridor, Reach, Latching, Most, Bound, Open, Abs
<1>3. CASE UNCHANGED vars
  BY <1>3 DEF IInv, vars, TypeOK, Landing, Claimed, Flying, Descending, Corridor, Reach, Latching, Most, Bound, Open, Abs
<1> QED
  BY <1>1, <1>2, <1>3 DEF Next

(* The inductive invariant holds in every reachable state: it says how far *)
(* the offset can be from the corridor at the reading that has not yet     *)
(* landed the vehicle, and how far a held descent has followed it.         *)
THEOREM Invariance == Spec => []IInv
BY InitIInv, NextStep, PTL DEF Spec

(* The registered bounds B and B_s (corridor_challenge.py:54) are kept for *)
(* every fence, limit, latch, slew, error bound, speed and episode length. *)
THEOREM CorridorKept == Spec => []Corridor
<1>1. IInv => Corridor
  BY DEF IInv
<1> QED
  BY <1>1, Invariance, PTL

LEMMA NotBroken == ASSUME IInv, Bound >= 0 PROVE ClaimStands
<1>1. UnderClaim => breach <= Bound
  BY ReachFacts DEF IInv, Corridor, UnderClaim, Most
<1>2. breach \in Nat /\ Bound \in Int
  BY ReachFacts DEF IInv, TypeOK
<1>3. UnderClaim => ~(breach > Bound)
  BY <1>1, <1>2
<1>4. Judged # "BREAK" /\ (Judged = "nothing" => status = "TRACEBACK")
  BY <1>3 DEF Judged
<1>5. ExitCode = 1 => Judged = "nothing"
  BY <1>4 DEF ExitCode
<1>6. status = "TRACEBACK" => setup.attacker = "any"
  BY DEF IInv, TypeOK
<1> QED
  BY <1>4, <1>5, <1>6 DEF ClaimStands

(* No program, however it moves and whenever its episode ends, is told     *)
(* that it broke the claim of corridor_challenge.py:601, unless the corridor *)
(* ends so far inside the fence that the bound itself is negative; and the *)
(* exit code of a break is left to a program whose answer ends the harness *)
(* with a traceback.                                                       *)
THEOREM ClaimNotBroken == ASSUME Bound >= 0 PROVE Spec => []ClaimStands
<1>1. IInv => ClaimStands
  BY NotBroken
<1> QED
  BY <1>1, Invariance, PTL
---------------------------------------------------------------------------
(* Where the guidance has the vehicle, once its request is allowed.        *)
Guided(n) == IF n > RequestAt THEN Least(Speed * (n - RequestAt), Target) ELSE 0

LEMMA SpeedMonotone ==
  ASSUME NEW m \in Int, NEW n \in Int, m <= n
  PROVE  Speed * m <= Speed * n /\ Speed * m \in Int /\ Speed * n \in Int
<1>1. \A d \in Nat : \A s \in Nat : s * d \in Nat
  OBVIOUS
<1>2. Speed * (n - m) >= 0
  BY <1>1
<1> QED
  BY <1>2

LEMMA GuidedFacts ==
  ASSUME NEW n \in Nat
  PROVE  /\ Guided(n) \in 0..Target /\ Guided(n) <= Guided(n + 1)
         /\ n > RequestAt => Guided(n) <= Speed * (n - RequestAt)
         /\ n > RequestAt /\ Target <= Speed * (n - RequestAt) => Guided(n) = Target
<1>1. Speed * (n - RequestAt) <= Speed * (n + 1 - RequestAt) /\ Speed * (n - RequestAt) \in Int /\ Speed * (n + 1 - RequestAt) \in Int
  BY SpeedMonotone
<1>2. n > RequestAt => Speed * (n - RequestAt) >= 0
  <2>1. n > RequestAt => Speed * 0 <= Speed * (n - RequestAt)
    BY SpeedMonotone
  <2> QED
    BY <2>1
<1>3. Speed * (n + 1 - RequestAt) >= 0 \/ ~(n + 1 > RequestAt)
  <2>1. n + 1 > RequestAt => Speed * 0 <= Speed * (n + 1 - RequestAt)
    BY SpeedMonotone
  <2> QED
    BY <2>1
<1> QED
  BY <1>1, <1>2, <1>3 DEF Guided, Least

LEMMA SetpointGuided ==
  ASSUME t \in Nat, t >= RequestAt
  PROVE  Setpoint(TRUE) = Guided(t + 1)
<1> DEFINE s == Speed * (t + 1 - RequestAt)
           capped == IF s < Target THEN s ELSE Target
<1>1. t - RequestAt + 1 = t + 1 - RequestAt /\ t + 1 > RequestAt
  OBVIOUS
<1>2. s \in Int /\ Target \in Int
  BY SpeedMonotone
<1>3. Setpoint(TRUE) = capped
  BY <1>1 DEF Setpoint
<1>4. Guided(t + 1) = IF s <= Target THEN s ELSE Target
  BY <1>1 DEF Guided, Least
<1> HIDE DEF s
<1>5. Guided(t + 1) = capped
  BY <1>2, <1>4
<1> HIDE DEF capped
<1> QED
  BY <1>3, <1>5
---------------------------------------------------------------------------
(* Without an attacker: the error of the second source alone, when the     *)
(* limit allows for it, neither closes the latch nor fails a check.        *)
Undisturbed ==
  /\ g = 0 /\ p = Guided(t) /\ ~Landing /\ breach = 0
  /\ latch.over = 0 /\ ~latch.latched
  /\ decision = (IF t > RequestAt THEN "ALLOW" ELSE "none")

HonestInv == IInv /\ (setup.attacker = "A0" => Undisturbed)

LEMMA HealthyPasses ==
  ASSUME NEW a \in Movement, NEW cross \in BOOLEAN PROVE Rules(a, cross, Healthy) = "PASS"
<1>1. Healthy.fix = "good" /\ Healthy.sats = "good" /\ Healthy.ekf = {"absolute"} /\ Healthy.battery = "good"
      /\ Healthy.here = "within" /\ Healthy.gap = "within"
  BY DEF Healthy
<1> DEFINE req == Request(a, "good", "within", cross)
<1>2. req.action = a /\ req.alt = "good" /\ (a = "goto" => req.there = "within")
  BY DEF Request
<1> HIDE DEF req
<1>3. Navigation(req, Healthy) = {}
  BY <1>1 DEF Navigation
<1>4. Space(req, Healthy) = {}
  BY <1>1, <1>2 DEF Space
<1>5. Failures(req, Healthy) = {}
  BY <1>1, <1>2, <1>3, <1>4 DEF Failures
<1> QED
  BY <1>5 DEF Rules, Verdict, req

LEMMA HonestTick ==
  ASSUME ErrorBound <= Limit, HonestInv, setup.attacker = "A0", NEW e \in Errs, Tick(0, e)
  PROVE  Undisturbed'
<1> DEFINE b == p
           x == p + e
           snap == Snapshot(b, x)
           d == Decision(snap)
           l == IF Latching THEN Update(latch, Abs(b - x)) ELSE latch
<1>1. /\ g = 0 /\ p \in 0..Target /\ ~Landing /\ breach = 0 /\ latch.over = 0 /\ ~latch.latched
      /\ decision = (IF t > RequestAt THEN "ALLOW" ELSE "none")
  BY TypeFacts, GuidedFacts DEF HonestInv, Undisturbed
<1>2. e \in Int /\ p \in Int /\ t \in Nat /\ Abs(e) <= ErrorBound /\ Abs(b - x) <= Limit /\ Abs(b) <= Radius /\ Abs(b - x) \in Int
  BY <1>1, ErrIsInt, TypeFacts DEF Errs, Abs, HonestInv
<1>3. snap = Healthy
  <2>1. snap = [Healthy EXCEPT !.here = "within", !.gap = "within"]
    BY <1>2 DEF Snapshot
  <2> QED
    BY <2>1 DEF Healthy
<1>4. d = IF t >= RequestAt THEN "ALLOW" ELSE "none"
  <2>1. Rules("goto", TRUE, snap) = "PASS"
    BY <1>3, HealthyPasses DEF Movement
  <2>2. d = IF t # RequestAt THEN decision ELSE "ALLOW"
    BY <2>1, <1>1 DEF Decision
  <2> QED
    BY <2>2, <1>1, <1>2
<1>5. l.over = 0 /\ ~l.latched
  <2>1. CASE Latching
    <3>1. ~(Abs(b - x) > Limit) /\ ~(0 >= K)
      BY <1>2
    <3> QED
      BY <2>1, <3>1, <1>1 DEF Update
  <2> QED
    BY <2>1, <1>1
<1>6. Monitor(d = "ALLOW", snap, l) # "FAIL"
  <2>1. Rules(IF d = "ALLOW" THEN "goto" ELSE "takeoff", TRUE, snap) = "PASS"
        /\ Rules(IF d = "ALLOW" THEN "goto" ELSE "takeoff", FALSE, snap) = "PASS"
    BY <1>3, HealthyPasses DEF Movement
  <2> QED
    BY <2>1, <1>5 DEF Monitor
<1>7. p + 0 = b /\ (IF setup.root = "common" THEN p + 0 ELSE p) + e = x
  BY <1>2
<1> HIDE DEF b, x, snap, d, l
<1>8. /\ t' = t + 1 /\ g' = 0 /\ decision' = d /\ latch' = l /\ land' = land
      /\ p' = Moved(0, d, land) /\ breach' = IF Beyond(p') > breach THEN Beyond(p') ELSE breach
  BY <1>1, <1>6, <1>7, Zenon DEF Tick, snap, d, l
<1>9. Setpoint(d = "ALLOW") = Guided(t + 1)
  <2>1. CASE t >= RequestAt
    <3>1. (d = "ALLOW") = TRUE
      BY <1>4, <2>1
    <3>2. Setpoint(d = "ALLOW") = Setpoint(TRUE)
      BY <3>1, Zenon
    <3> QED
      BY <1>2, <2>1, <3>2, SetpointGuided
  <2>2. CASE ~(t >= RequestAt)
    <3>1. d # "ALLOW" /\ ~(t + 1 > RequestAt)
      BY <1>2, <1>4, <2>2
    <3> QED
      BY <3>1 DEF Setpoint, Guided
  <2> QED
    BY <2>1, <2>2
<1>10. p' = Guided(t + 1) /\ p' \in 0..Target /\ p' \in Int
  <2>1. Guided(t + 1) \in 0..Target
    BY <1>2, GuidedFacts
  <2> QED
    BY <1>1, <1>8, <1>9, <2>1 DEF Moved, Landing
<1>11. Beyond(p') = 0
  BY <1>10, InsideFence
<1>12. t' > RequestAt <=> t >= RequestAt
  BY <1>2, <1>8
<1>13. Guided(t)' = Guided(t + 1)
  BY <1>8 DEF Guided, Least
<1> QED
  BY <1>1, <1>4, <1>5, <1>8, <1>10, <1>11, <1>12, <1>13 DEF Undisturbed, Landing, NotYet

LEMMA InitHonest == Init => HonestInv
BY InitIInv, TypeFacts DEF Init, HonestInv, Undisturbed, Landing, Guided

LEMMA HonestNext == ASSUME ErrorBound <= Limit PROVE HonestInv /\ [Next]_vars => HonestInv'
<1> SUFFICES ASSUME HonestInv, [Next]_vars, setup'.attacker = "A0" PROVE Undisturbed'
  BY NextStep DEF HonestInv
<1>1. CASE \E m \in Allowable : Tick(m[1], m[2])
  <2>1. PICK m \in Moves \X Errs : m[1] \in Offsets /\ Tick(m[1], m[2])
    BY <1>1 DEF Allowable
  <2>2. setup' = setup /\ setup.attacker = "A0"
    BY <2>1 DEF Tick
  <2>3. Push("A0") = 0
    BY DEF Push
  <2>4. m[1] = 0 /\ m[2] \in Errs
    BY <2>1, <2>2, <2>3 DEF Offsets
  <2> QED
    BY <2>1, <2>2, <2>4, HonestTick
<1>2. CASE OutOfModel \/ Uncaught \/ UNCHANGED vars
  <2>1. UNCHANGED <<setup, t, p, g, latch, decision, land, breach>>
    BY <1>2 DEF OutOfModel, Uncaught, EndsEarly, vars
  <2> QED
    BY <2>1 DEF HonestInv, Undisturbed, Landing, Guided, Least
<1> QED
  BY <1>1, <1>2 DEF Next

(* V14a and V14b for every size: where the limit allows for the second     *)
(* source's error, the defence costs an honest flight nothing.  Its request *)
(* is allowed, it is never landed, never leaves the fence, and is at every *)
(* tick where the guidance has it.                                         *)
THEOREM HonestFlies ==
  ASSUME ErrorBound <= Limit
  PROVE  Spec => [](setup.attacker = "A0" => /\ ~Landing /\ breach = 0 /\ p = Guided(t)
                                             /\ t > RequestAt => Allowed)
<1>1. HonestInv => (setup.attacker = "A0" => /\ ~Landing /\ breach = 0 /\ p = Guided(t)
                                             /\ t > RequestAt => Allowed)
  BY DEF HonestInv, Undisturbed, Allowed
<1> QED
  BY <1>1, InitHonest, HonestNext, PTL DEF Spec
---------------------------------------------------------------------------
(* The registered outcome does not come out of the registered sizes alone. *)
(* It does for all of these, with distances in units of the slew: the      *)
(* corridor reaches beyond the fence; an early ramp stays inside it and    *)
(* closes the latch before the request; the limit is ridden before the     *)
(* vehicle is at its target; a naive ramp is landed inside the fence; and  *)
(* the episode is long enough for each of them.                            *)
Sizes ==
  /\ Slew = 1 /\ ErrorBound <= Limit /\ 1 <= Limit + ErrorBound
  /\ 1 <= Open
  /\ 2 * (Limit + ErrorBound) <= Radius
  /\ Limit + ErrorBound + K < RequestAt
  /\ Speed * (Limit + ErrorBound + 1) < Target
  /\ Speed * (Limit + ErrorBound + K + 1) + Limit + ErrorBound + K - 1 <= Radius
  /\ RequestAt + Limit + ErrorBound + K + 1 < End
  /\ Target <= Speed * (End - K - 1 - RequestAt)
  /\ 2 <= LandTicks

(* The registered constants (corridor_challenge.py:46), in whole metres,   *)
(* are among them.                                                         *)
LEMMA RegisteredSizes ==
  ASSUME Radius = 300, Target = 299, Limit = 25, K = 3, ErrorBound = 5, Slew = 1, Speed = 5,
         RequestAt = 40, End = 160, LandTicks = 30
  PROVE  Sizes
BY DEF Sizes, Open

(* The gap a push of n leaves with the error aligned, and what it leads to. *)
Shift(n)  == IF setup.root = "common" THEN Least(n, ErrorBound) ELSE n - Least(n, ErrorBound)
Stopped(n) ==
  \/ setup.config = "C2s" /\ Shift(n) > Limit
  \/ Latching /\ latch'.latched

(* The check, when all is in order but the gap.                            *)
LEMMA OnlyTheGap ==
  ASSUME NEW a \in Movement, NEW cross \in BOOLEAN, NEW b \in Int, NEW x \in Int, Abs(b) <= Radius
  PROVE  Rules(a, cross, Snapshot(b, x)) = IF cross /\ ~(Abs(b - x) <= Limit) THEN "FAIL" ELSE "PASS"
<1> DEFINE snap == Snapshot(b, x)
           req == Request(a, "good", "within", cross)
<1>1. snap.fix = "good" /\ snap.sats = "good" /\ snap.ekf = {"absolute"} /\ snap.battery = "good" /\ snap.here = "within"
  BY DEF Snapshot, Healthy
<1>2. snap.gap = "within" <=> Abs(b - x) <= Limit
  BY GapSeen
<1>3. req.action = a /\ req.alt = "good" /\ (a = "goto" => req.there = "within") /\ req.cross = cross
  BY DEF Request
<1> HIDE DEF req, snap
<1>4. Navigation(req, snap) = IF cross /\ ~(Abs(b - x) <= Limit) THEN {"gap"} ELSE {}
  BY <1>1, <1>2, <1>3 DEF Navigation
<1>5. Space(req, snap) = {}
  BY <1>1, <1>3 DEF Space
<1>6. Failures(req, snap) = {} <=> ~(cross /\ ~(Abs(b - x) <= Limit))
  BY <1>1, <1>3, <1>4, <1>5 DEF Failures
<1> QED
  BY <1>6 DEF Rules, Verdict, req, snap

(* One turn under a push of n, seen from inside the fence.                 *)
LEMMA Turn ==
  ASSUME IInv, NEW n \in Nat, Tick(-n, Aligned(-n)), ~Landing => Abs(p - n) <= Radius
  PROVE  /\ t' = t + 1 /\ g' = -n /\ setup' = setup /\ t < End
         /\ t # RequestAt => decision' = decision
         /\ t = RequestAt => decision' = IF Landing THEN "NONE" ELSE IF Shift(n) <= Limit THEN "ALLOW" ELSE "REFUSE"
         /\ latch' = IF Latching /\ ~Landing THEN Update(latch, Shift(n)) ELSE latch
         /\ Landing => land' = land
         /\ ~Landing => land' = IF Stopped(n) /\ ~setup.sabotage THEN [at |-> t, hold |-> p - n] ELSE NotYet
         /\ p' = Moved(-n, decision', land')
         /\ breach' = IF Beyond(p') > breach THEN Beyond(p') ELSE breach
<1> DEFINE e == Aligned(-n)
           b == p + (-n)
           x == (IF setup.root = "common" THEN b ELSE p) + e
           snap == Snapshot(b, x)
           d == Decision(snap)
           l == IF Latching /\ ~Landing THEN Update(latch, Abs(b - x)) ELSE latch
           mon == IF Landing THEN "PASS" ELSE Monitor(d = "ALLOW", snap, l)
           landing == IF mon = "FAIL" /\ ~setup.sabotage THEN [at |-> t, hold |-> b] ELSE land
<1>1. /\ t < End /\ t' = t + 1 /\ g' = -n /\ decision' = d /\ latch' = l /\ land' = landing
      /\ p' = Moved(-n, d, landing) /\ breach' = IF Beyond(p') > breach THEN Beyond(p') ELSE breach
      /\ setup' = setup
  BY Zenon DEF Tick
<1>2. p \in Int /\ t \in Nat /\ b \in Int /\ b = p - n
  BY TypeFacts
<1>3. e = -Least(n, ErrorBound) /\ e \in Int
  BY DEF Aligned, Least
<1>4. x \in Int /\ Abs(b - x) = Shift(n)
  BY <1>2, <1>3 DEF Shift, Abs, Least
<1> HIDE DEF e, b, x
<1>5. ASSUME ~Landing, NEW a \in Movement, NEW cross \in BOOLEAN
      PROVE  Rules(a, cross, snap) = IF cross /\ ~(Shift(n) <= Limit) THEN "FAIL" ELSE "PASS"
  BY <1>2, <1>4, <1>5, OnlyTheGap
<1> HIDE DEF snap
<1>6. t = RequestAt => d = IF Landing THEN "NONE" ELSE IF Shift(n) <= Limit THEN "ALLOW" ELSE "REFUSE"
  <2>1. ~Landing => Rules("goto", TRUE, snap) = IF Shift(n) <= Limit THEN "PASS" ELSE "FAIL"
    BY <1>5 DEF Movement
  <2> QED
    BY <2>1 DEF Decision
<1>7. l = IF Latching /\ ~Landing THEN Update(latch, Shift(n)) ELSE latch
  BY <1>4
<1>8. ~Landing => (mon = "FAIL" <=> Stopped(n))
  <2> SUFFICES ASSUME ~Landing PROVE mon = "FAIL" <=> Stopped(n)
    OBVIOUS
  <2> DEFINE active == IF d = "ALLOW" THEN "goto" ELSE "takeoff"
  <2>1. Rules(active, TRUE, snap) = "FAIL" <=> ~(Shift(n) <= Limit)
    BY <1>5 DEF Movement
  <2>2. Rules(active, FALSE, snap) # "FAIL"
    BY <1>5 DEF Movement
  <2>3. Shift(n) \in Int
    BY DEF Shift, Least
  <2>4. setup.config \in {"C1", "C2s", "C2", "C2g"}
    BY DEF IInv, TypeOK, Setups
  <2> HIDE DEF active, d, l
  <2>5. mon = CASE setup.config = "C1" -> "PASS" [] setup.config = "C2s" -> Rules(active, TRUE, snap)
                [] OTHER -> IF l.latched THEN "FAIL" ELSE Rules(active, FALSE, snap)
    BY DEF Monitor, active
  <2>6. l = latch' /\ (Shift(n) <= Limit <=> ~(Shift(n) > Limit))
    BY <1>1, <2>3
  <2> DEFINE closed == latch'.latched
             past == Shift(n) > Limit
  <2>7. Stopped(n) <=> (setup.config = "C2s" /\ past) \/ (setup.config \in {"C2", "C2g"} /\ closed)
    BY DEF Stopped, Latching
  <2>8. Rules(active, TRUE, snap) = "FAIL" <=> past
    BY <2>1, <2>6
  <2>9. mon = CASE setup.config = "C1" -> "PASS" [] setup.config = "C2s" -> Rules(active, TRUE, snap)
                [] OTHER -> IF closed THEN "FAIL" ELSE Rules(active, FALSE, snap)
    BY <2>5, <2>6
  <2> HIDE DEF closed, past, mon
  <2> QED
    BY <2>2, <2>4, <2>7, <2>8, <2>9
<1> HIDE DEF d, l, mon
<1>9. Landing => land' = land
  BY <1>1 DEF mon
<1>10. ~Landing => land' = IF Stopped(n) /\ ~setup.sabotage THEN [at |-> t, hold |-> p - n] ELSE NotYet
  BY <1>1, <1>2, <1>8 DEF Landing
<1>11. t # RequestAt => decision' = decision
  BY <1>1 DEF d, Decision
<1> QED
  BY <1>1, <1>6, <1>7, <1>9, <1>10, <1>11

(* A vehicle whose request was allowed flies to its target by the believed *)
(* position, as long as it is not landed.                                  *)
Allowing == ~Landing /\ decision = (IF t > RequestAt THEN "ALLOW" ELSE "none") /\ p + g = Guided(t)
Deepest  == Beyond(p) <= breach

LEMMA BeyondLeast == ASSUME NEW q \in Int PROVE Beyond(q) \in Nat /\ q - Radius <= Beyond(q)
BY DEF Beyond, Abs

LEMMA BreachFacts ==
  ASSUME IInv, IInv', breach' = IF Beyond(p') > breach THEN Beyond(p') ELSE breach
  PROVE  /\ breach' \in Nat /\ Beyond(p') \in Nat /\ breach' >= breach /\ Deepest' /\ breach' \in {breach, Beyond(p')}
         /\ p' - Radius <= breach'
<1>1. breach \in Nat /\ p' \in Int
  BY DEF IInv, TypeOK
<1>2. Beyond(p') \in Nat /\ p' - Radius <= Beyond(p')
  BY <1>1, BeyondLeast
<1>3. Deepest' <=> Beyond(p') <= breach'
  BY DEF Deepest, Beyond, Abs
<1> QED
  BY <1>1, <1>2, <1>3

LEMMA Guiding ==
  ASSUME Sizes, IInv, Allowing, NEW n \in Nat, Tick(-n, Aligned(-n)), n + g \in {0, 1},
         t = RequestAt => Shift(n) <= Limit
  PROVE  /\ t' = t + 1 /\ g' = -n /\ setup' = setup /\ t < End
         /\ latch' = IF Latching THEN Update(latch, Shift(n)) ELSE latch
         /\ decision' = (IF t' > RequestAt THEN "ALLOW" ELSE "none")
         /\ ~(Stopped(n) /\ ~setup.sabotage) => Allowing' /\ p' = Guided(t + 1) + n
         /\ Stopped(n) /\ ~setup.sabotage =>
              /\ Landing' /\ land' = [at |-> t, hold |-> p - n] /\ p' = p
         /\ breach' \in Nat /\ breach' >= breach /\ Deepest' /\ breach' \in {breach, Beyond(p')} /\ p' - Radius <= breach'
<1>1. t \in Nat /\ p \in Int /\ g \in Int /\ ~Landing /\ p + g = Guided(t) /\ Radius \in Nat /\ 2 <= Radius
  BY TypeFacts DEF Allowing, Sizes
<1>2. Guided(t) \in 0..Target /\ Guided(t + 1) \in 0..Target
  BY <1>1, GuidedFacts
<1>3. Abs(p - n) <= Radius
  <2>1. p - n = Guided(t) - (n + g)
    BY <1>1
  <2>2. p - n <= Radius /\ n - p <= Radius
    BY <1>1, <1>2, <2>1
  <2> QED
    BY <1>1, <2>2 DEF Abs
<1>4. /\ t' = t + 1 /\ g' = -n /\ setup' = setup /\ t < End
      /\ t # RequestAt => decision' = decision
      /\ t = RequestAt => decision' = IF Landing THEN "NONE" ELSE IF Shift(n) <= Limit THEN "ALLOW" ELSE "REFUSE"
      /\ latch' = IF Latching /\ ~Landing THEN Update(latch, Shift(n)) ELSE latch
      /\ ~Landing => land' = IF Stopped(n) /\ ~setup.sabotage THEN [at |-> t, hold |-> p - n] ELSE NotYet
      /\ p' = Moved(-n, decision', land')
      /\ breach' = IF Beyond(p') > breach THEN Beyond(p') ELSE breach
  BY <1>3, Turn
<1>5. decision' = (IF t' > RequestAt THEN "ALLOW" ELSE "none")
  <2>1. CASE t = RequestAt
    BY <2>1, <1>1, <1>4
  <2>2. CASE t # RequestAt
    BY <2>2, <1>1, <1>4 DEF Allowing
  <2> QED
    BY <2>1, <2>2
<1>6. Setpoint(decision' = "ALLOW") = Guided(t + 1)
  <2>1. CASE t >= RequestAt
    <3>1. (decision' = "ALLOW") = TRUE
      BY <1>1, <1>4, <1>5, <2>1
    <3>2. Setpoint(decision' = "ALLOW") = Setpoint(TRUE)
      BY <3>1, Zenon
    <3> QED
      BY <1>1, <2>1, <3>2, SetpointGuided
  <2>2. CASE ~(t >= RequestAt)
    <3>1. decision' # "ALLOW" /\ ~(t + 1 > RequestAt)
      BY <1>1, <1>4, <1>5, <2>2
    <3> QED
      BY <3>1 DEF Setpoint, Guided
  <2> QED
    BY <2>1, <2>2
<1>7. ASSUME ~(Stopped(n) /\ ~setup.sabotage) PROVE Allowing' /\ p' = Guided(t + 1) + n
  <2>1. land' = NotYet
    BY <1>1, <1>4, <1>7
  <2>2. p' = Guided(t + 1) + n
    BY <1>1, <1>2, <1>4, <1>6, <2>1 DEF Moved
  <2>3. p' + g' = Guided(t')
    BY <1>2, <1>4, <2>2
  <2>4. Allowing' <=> ~(land' # NotYet) /\ decision' = (IF t' > RequestAt THEN "ALLOW" ELSE "none") /\ p' + g' = Guided(t')
    BY DEF Allowing, Landing, NotYet, Guided, Least
  <2> QED
    BY <1>5, <2>1, <2>2, <2>3, <2>4
<1>8. ASSUME Stopped(n) /\ ~setup.sabotage PROVE Landing' /\ land' = [at |-> t, hold |-> p - n] /\ p' = p
  <2>1. land' = [at |-> t, hold |-> p - n]
    BY <1>1, <1>4, <1>8
  <2>2. land'.at = t /\ land'.hold = p - n /\ land' # NotYet
    BY <2>1, <1>1 DEF NotYet
  <2>3. Landing'
    BY <2>2 DEF Landing, NotYet
  <2>4. CASE setup.config = "C2g"
    <3>1. t < t + LandTicks
      BY <1>1 DEF Sizes
    <3>2. p' = (p - n) - (-n)
      BY <1>4, <2>2, <2>4, <3>1 DEF Moved
    <3> QED
      BY <1>1, <2>1, <2>3, <3>2
  <2>5. CASE setup.config # "C2g"
    BY <1>4, <2>1, <2>2, <2>3, <2>5 DEF Moved
  <2> QED
    BY <2>4, <2>5
<1>9. IInv'
  <2>1. -n \in Moves
    BY <1>1 DEF Moves, Sizes
  <2>2. Aligned(-n) \in Errs
    BY DEF Aligned, Errs, Least
  <2> QED
    BY <2>1, <2>2, TickStep
<1>10. breach' \in Nat /\ breach' >= breach /\ Deepest' /\ breach' \in {breach, Beyond(p')} /\ p' - Radius <= breach'
  BY <1>4, <1>9, BreachFacts
<1> QED
  BY <1>1, <1>4, <1>5, <1>7, <1>8, <1>10

(* A reference attacker makes one move.                                    *)
Turning == \E m \in Allowable : Tick(m[1], m[2])

LEMMA RefMove ==
  ASSUME Turning, setup.attacker \in {"A1", "A2", "A3", "A4"}
  PROVE  /\ Tick(-Push(setup.attacker), Aligned(-Push(setup.attacker)))
         /\ -Push(setup.attacker) \in Moves /\ Aligned(-Push(setup.attacker)) \in Errs
<1>1. PICK m \in Moves \X Errs : m[1] \in Offsets /\ m[2] \in Errors(m[1]) /\ Tick(m[1], m[2])
  BY DEF Turning, Allowable
<1>2. m[1] \in Moves /\ m[2] \in Errs
  OBVIOUS
<1>3. m[1] = -Push(setup.attacker)
  BY <1>1 DEF Offsets
<1>4. m[2] = Aligned(m[1])
  BY <1>1 DEF Errors
<1> QED
  BY <1>1, <1>2, <1>3, <1>4

LEMMA Pushes ==
  /\ Push("A1") = Least(t, 2 * (Limit + ErrorBound))
  /\ Push("A2") = Least(t, Limit + ErrorBound - 1)
  /\ Push("A3") = IF Started THEN t - RequestAt - 1 ELSE 0
  /\ Push("A4") = IF Pushing THEN Slew - g ELSE IF Started THEN Least(t - RequestAt - 1, Limit + ErrorBound) ELSE 0
<1>1. Pushing => Started
  BY DEF Pushing
<1>2. /\ Push("A1") = Least(t, 2 * (Limit + ErrorBound))
      /\ Push("A2") = Least(t, Limit + ErrorBound - 1)
      /\ Push("A3") = IF Started THEN t - RequestAt - 1 ELSE 0
  BY DEF Push
<1>3. Pushing => Push("A4") = Slew - g
  BY DEF Push
<1>4. ~Pushing /\ Started => Push("A4") = Least(t - RequestAt - 1, Limit + ErrorBound)
  BY DEF Push
<1>5. ~Pushing /\ ~Started => Push("A4") = 0
  BY DEF Push
<1> QED
  BY <1>1, <1>2, <1>3, <1>4, <1>5

(* An episode already landed.                                              *)
LEMMA Down ==
  ASSUME IInv, Landing, Turning
  PROVE  /\ t' = t + 1 /\ setup' = setup /\ land' = land /\ Landing' /\ t < End
         /\ decision' = IF t = RequestAt THEN "NONE" ELSE decision
         /\ setup.config # "C2g" => p' = p
         /\ \E n \in Moves : /\ g' = n /\ (setup.attacker = "A4" => n = -Push("A4"))
                             /\ setup.config = "C2g" /\ t < land.at + LandTicks => p' = land.hold - n
         /\ breach' \in Nat /\ breach' >= breach /\ Deepest' /\ breach' \in {breach, Beyond(p')} /\ p' - Radius <= breach'
<1>1. PICK m \in Moves \X Errs : m[1] \in Offsets /\ Tick(m[1], m[2])
  BY DEF Turning, Allowable
<1>2. m[1] \in Moves /\ m[2] \in Errs
  OBVIOUS
<1>3. /\ t < End /\ t' = t + 1 /\ g' = m[1] /\ land' = land /\ setup' = setup
      /\ decision' = IF t = RequestAt THEN "NONE" ELSE decision
      /\ p' = Moved(m[1], decision', land)
      /\ breach' = IF Beyond(p') > breach THEN Beyond(p') ELSE breach
  <2>1. /\ t < End /\ t' = t + 1 /\ g' = m[1] /\ land' = land /\ setup' = setup
        /\ p' = Moved(m[1], decision', land)
        /\ breach' = IF Beyond(p') > breach THEN Beyond(p') ELSE breach
    BY <1>1 DEF Tick
  <2>2. \E snap : decision' = Decision(snap)
    BY <1>1 DEF Tick
  <2>3. decision' = IF t = RequestAt THEN "NONE" ELSE decision
    BY <2>2 DEF Decision
  <2> QED
    BY <2>1, <2>3
<1>4. IInv'
  BY <1>1, <1>2, TickStep
<1>5. breach' \in Nat /\ breach' >= breach /\ Deepest' /\ breach' \in {breach, Beyond(p')} /\ p' - Radius <= breach'
  BY <1>3, <1>4, BreachFacts
<1>6. Landing' /\ land # NotYet
  BY <1>3 DEF Landing, NotYet
<1>7. setup.config # "C2g" => p' = p
  BY <1>3, <1>6 DEF Moved
<1>8. setup.config = "C2g" /\ t < land.at + LandTicks => p' = land.hold - m[1]
  BY <1>3, <1>6 DEF Moved
<1>9. setup.attacker = "A4" => m[1] = -Push("A4")
  BY <1>1 DEF Offsets
<1> QED
  BY <1>2, <1>3, <1>5, <1>6, <1>7, <1>8, <1>9
---------------------------------------------------------------------------
(* The rows.  A1 ramps before the request.                                 *)
Ramped(n) == IF n = 0 THEN 0 ELSE Least(n - 1, 2 * (Limit + ErrorBound))
Ramping == ~Landing /\ p = -g /\ p = Ramped(t)
Refused == Ramping /\ decision = (IF t > RequestAt THEN "REFUSE" ELSE "none") /\ breach = 0
LandedEarly ==
  /\ breach = 0
  /\ Landing => land.at < RequestAt /\ decision = (IF t > RequestAt THEN "NONE" ELSE "none")
  /\ ~Landing => /\ Ramping /\ decision = "none"
                 /\ ~latch.latched /\ latch.over = Most(t - 1 - (Limit + ErrorBound)) /\ t <= Limit + ErrorBound + K

LEMMA InFence == ASSUME NEW q \in Int, 0 <= q, q <= Radius PROVE Beyond(q) = 0
<1>1. ~(q < 0) /\ ~(q > Radius)
  OBVIOUS
<1> QED
  BY <1>1 DEF Beyond, Abs

LEMMA RampTurn ==
  ASSUME Sizes, IInv, setup.attacker = "A1", setup.root = "independent", Ramping, Turning,
         NEW n, n = Least(t, 2 * (Limit + ErrorBound))
  PROVE  /\ t' = t + 1 /\ g' = -n /\ setup' = setup /\ t < End
         /\ t # RequestAt => decision' = decision
         /\ t = RequestAt => decision' = IF n - Least(n, ErrorBound) <= Limit THEN "ALLOW" ELSE "REFUSE"
         /\ latch' = IF Latching THEN Update(latch, n - Least(n, ErrorBound)) ELSE latch
         /\ land' = IF Stopped(n) /\ ~setup.sabotage THEN [at |-> t, hold |-> p - n] ELSE NotYet
         /\ p' = Moved(-n, decision', land') /\ n \in 0..Radius
         /\ breach' \in Nat /\ breach' \in {breach, Beyond(p')}
<1>1. t \in Nat /\ p \in Int /\ g \in Int /\ ~Landing /\ 2 * (Limit + ErrorBound) <= Radius
  BY TypeFacts DEF Ramping, Sizes
<1>2. n \in 0..Radius /\ n \in Nat
  BY <1>1 DEF Least
<1>3. n = Push(setup.attacker) /\ Tick(-n, Aligned(-n)) /\ -n \in Moves /\ Aligned(-n) \in Errs
  BY RefMove, Pushes
<1>4. p - n \in {-1, 0} /\ 1 <= Radius
  <2>1. p = Ramped(t) /\ 1 <= Limit + ErrorBound
    BY DEF Ramping, Sizes
  <2> QED
    BY <1>1, <2>1 DEF Ramped, Least
<1>5. Abs(p - n) <= Radius
  BY <1>4 DEF Abs
<1>6. Shift(n) = n - Least(n, ErrorBound)
  BY DEF Shift
<1>7. IInv'
  BY <1>3, TickStep
<1>8. /\ t' = t + 1 /\ g' = -n /\ setup' = setup /\ t < End
      /\ t # RequestAt => decision' = decision
      /\ t = RequestAt => decision' = IF Landing THEN "NONE" ELSE IF Shift(n) <= Limit THEN "ALLOW" ELSE "REFUSE"
      /\ latch' = IF Latching /\ ~Landing THEN Update(latch, Shift(n)) ELSE latch
      /\ ~Landing => land' = IF Stopped(n) /\ ~setup.sabotage THEN [at |-> t, hold |-> p - n] ELSE NotYet
      /\ p' = Moved(-n, decision', land')
      /\ breach' = IF Beyond(p') > breach THEN Beyond(p') ELSE breach
  BY <1>2, <1>3, <1>5, Turn
<1>9. breach' \in Nat /\ breach' \in {breach, Beyond(p')}
  BY <1>7, <1>8, BreachFacts
<1> QED
  BY <1>1, <1>2, <1>6, <1>8, <1>9

LEMMA RefusedTick ==
  ASSUME Sizes, IInv, Row("A1", "C1", "independent"), Refused, Turning
  PROVE  Refused'
<1>1. setup.attacker = "A1" /\ setup.root = "independent" /\ setup.config = "C1" /\ Ramping /\ t \in Nat
  BY TypeFacts DEF Row, Refused
<1>2. PICK n : n = Least(t, 2 * (Limit + ErrorBound))
  OBVIOUS
<1>3. /\ t' = t + 1 /\ g' = -n /\ setup' = setup
      /\ t # RequestAt => decision' = decision
      /\ t = RequestAt => decision' = IF n - Least(n, ErrorBound) <= Limit THEN "ALLOW" ELSE "REFUSE"
      /\ land' = IF Stopped(n) /\ ~setup.sabotage THEN [at |-> t, hold |-> p - n] ELSE NotYet
      /\ p' = Moved(-n, decision', land') /\ n \in 0..Radius
      /\ breach' \in Nat /\ breach' \in {breach, Beyond(p')}
  BY <1>1, <1>2, RampTurn
<1>4. land' = NotYet /\ ~Landing'
  <2>1. ~Stopped(n)
    BY <1>1 DEF Stopped, Latching
  <2> QED
    BY <1>3, <2>1 DEF Landing, NotYet
<1>5. t = RequestAt => ~(n - Least(n, ErrorBound) <= Limit)
  BY <1>2 DEF Sizes, Least
<1>6. decision' = (IF t' > RequestAt THEN "REFUSE" ELSE "none")
  <2>1. CASE t = RequestAt
    BY <1>1, <1>3, <1>5, <2>1
  <2>2. CASE t # RequestAt
    BY <1>1, <1>3, <2>2 DEF Refused
  <2> QED
    BY <2>1, <2>2
<1>7. p' = n
  <2>1. decision' # "ALLOW"
    BY <1>6
  <2>2. Setpoint(decision' = "ALLOW") = 0
    BY <2>1 DEF Setpoint
  <2> QED
    BY <1>3, <1>4, <2>2 DEF Moved
<1>8. Ramped(t)' = n
  BY <1>1, <1>2, <1>3 DEF Ramped, Least
<1>9. breach' = 0
  <2>1. Beyond(p') = 0
    BY <1>3, <1>7, InFence
  <2> QED
    BY <1>3, <2>1 DEF Refused
<1> QED
  BY <1>3, <1>4, <1>6, <1>7, <1>8, <1>9 DEF Refused, Ramping

LEMMA LandedEarlyTick ==
  ASSUME Sizes, IInv, Row("A1", "C2", "independent"), ~setup.sabotage, Deepest, LandedEarly, Turning
  PROVE  LandedEarly'
<1>1. setup.attacker = "A1" /\ setup.root = "independent" /\ setup.config = "C2" /\ t \in Nat /\ p \in Int
  BY TypeFacts DEF Row
<1>2. CASE Landing
  <2>1. /\ t' = t + 1 /\ land' = land /\ Landing' /\ decision' = IF t = RequestAt THEN "NONE" ELSE decision
        /\ p' = p /\ breach' \in {breach, Beyond(p')}
    BY <1>1, <1>2, Down
  <2>2. breach' = 0
    <3>1. Beyond(p) = 0
      BY <1>1, BeyondLeast DEF Deepest, LandedEarly
    <3> QED
      BY <2>1, <3>1 DEF LandedEarly
  <2>3. decision' = (IF t' > RequestAt THEN "NONE" ELSE "none")
    BY <1>1, <1>2, <2>1 DEF LandedEarly
  <2>4. land.at < RequestAt
    BY <1>2 DEF LandedEarly
  <2> QED
    BY <2>1, <2>2, <2>3, <2>4 DEF LandedEarly
<1>3. CASE ~Landing
  <2>1. /\ Ramping /\ decision = "none" /\ breach = 0 /\ ~latch.latched
        /\ latch.over = Most(t - 1 - (Limit + ErrorBound)) /\ t <= Limit + ErrorBound + K
    BY <1>3 DEF LandedEarly
  <2>2. PICK n : n = Least(t, 2 * (Limit + ErrorBound))
    OBVIOUS
  <2>3. /\ t' = t + 1 /\ g' = -n /\ setup' = setup
        /\ t # RequestAt => decision' = decision
        /\ latch' = IF Latching THEN Update(latch, n - Least(n, ErrorBound)) ELSE latch
        /\ land' = IF Stopped(n) /\ ~setup.sabotage THEN [at |-> t, hold |-> p - n] ELSE NotYet
        /\ p' = Moved(-n, decision', land') /\ n \in 0..Radius
        /\ breach' \in Nat /\ breach' \in {breach, Beyond(p')}
    BY <1>1, <2>1, <2>2, RampTurn
  <2>4. decision' = "none" /\ t < RequestAt /\ t' <= RequestAt
    BY <1>1, <2>1, <2>3 DEF Sizes
  <2>5. latch' = Update(latch, n - Least(n, ErrorBound)) /\ (Stopped(n) <=> latch'.latched)
    BY <1>1, <2>3 DEF Latching, Stopped
  <2>6. latch'.over = Most(t - (Limit + ErrorBound)) /\ (latch'.latched <=> latch'.over >= K)
    <3>1. n - Least(n, ErrorBound) > Limit <=> t > Limit + ErrorBound
      BY <1>1, <2>2 DEF Sizes, Least
    <3>2. latch'.over = IF n - Least(n, ErrorBound) > Limit THEN latch.over + 1 ELSE 0
      BY <2>5 DEF Update
    <3>3. latch'.over = Most(t - (Limit + ErrorBound))
      BY <1>1, <2>1, <3>1, <3>2 DEF Most
    <3>4. latch'.latched <=> latch'.over >= K
      BY <2>1, <2>5 DEF Update
    <3> QED
      BY <3>3, <3>4
  <2>7. CASE Stopped(n)
    <3>1. land' = [at |-> t, hold |-> p - n]
      BY <2>3, <2>7
    <3>2. Landing' /\ land'.at = t /\ land' # NotYet
      BY <1>1, <3>1 DEF Landing, NotYet
    <3>3. p' = p
      BY <1>1, <2>3, <3>2 DEF Moved
    <3>4. breach' = 0
      <4>1. Beyond(p) = 0
        BY <1>1, BeyondLeast DEF Deepest, LandedEarly
      <4> QED
        BY <2>1, <2>3, <3>3, <4>1
    <3> QED
      BY <2>4, <3>2, <3>4, <2>3, <1>1 DEF LandedEarly
  <2>8. CASE ~Stopped(n)
    <3>1. land' = NotYet /\ ~Landing'
      BY <2>3, <2>8 DEF Landing, NotYet
    <3>2. p' = n
      <4>1. Setpoint(decision' = "ALLOW") = 0
        <5>1. decision' # "ALLOW"
          BY <2>4
        <5> QED
          BY <5>1 DEF Setpoint
      <4> QED
        BY <2>3, <3>1, <4>1 DEF Moved
    <3>3. Ramped(t)' = n
      BY <1>1, <2>2, <2>3 DEF Ramped, Least
    <3>4. breach' = 0
      <4>1. Beyond(p') = 0
        BY <2>3, <3>2, InFence
      <4> QED
        BY <2>1, <2>3, <4>1
    <3>5. latch'.over = Most(t - (Limit + ErrorBound)) /\ ~latch'.latched /\ ~(latch'.over >= K)
      BY <2>5, <2>6, <2>8
    <3>6. t' <= Limit + ErrorBound + K
      BY <1>1, <2>3, <3>5 DEF Most
    <3>7. (Most(t - 1 - (Limit + ErrorBound)))' = Most(t - (Limit + ErrorBound))
      <4>1. t' - 1 - (Limit + ErrorBound) = t - (Limit + ErrorBound)
        BY <1>1, <2>3
      <4> QED
        BY <4>1 DEF Most
    <3>8. Ramping'
      BY <2>3, <3>1, <3>2, <3>3 DEF Ramping
    <3> QED
      BY <2>4, <3>1, <3>4, <3>5, <3>6, <3>7, <3>8 DEF LandedEarly
  <2> QED
    BY <2>7, <2>8
<1> QED
  BY <1>2, <1>3

(* A2 stays inside what the cross-check accepts.                           *)
Calm   == latch.over = 0 /\ ~latch.latched
Unseen ==
  /\ Allowing /\ Calm /\ breach <= Open - 1
  /\ -g = IF t = 0 THEN 0 ELSE Least(t - 1, Limit + ErrorBound - 1)

LEMMA CalmStays ==
  ASSUME Calm, NEW q \in Int, q <= Limit
  PROVE  Update(latch, q).over = 0 /\ ~Update(latch, q).latched
<1>1. ~(q > Limit) /\ ~(0 >= K)
  OBVIOUS
<1>2. Update(latch, q).over = 0
  BY <1>1 DEF Update
<1>3. ~Update(latch, q).latched
  BY <1>1 DEF Calm, Update
<1> QED
  BY <1>2, <1>3

(* What leaves the latch calm and the check content does not land.         *)
LEMMA Content ==
  ASSUME IInv, Calm, NEW n \in Nat, Shift(n) <= Limit, setup.config # "C1" => Shift(n) \in Int,
         latch' = IF Latching THEN Update(latch, Shift(n)) ELSE latch
  PROVE  Calm' /\ ~Stopped(n)
<1>1. Shift(n) \in Int /\ ~(Shift(n) > Limit)
  BY DEF Shift, Least
<1>2. Calm'
  <2>1. CASE Latching
    <3>1. latch' = Update(latch, Shift(n))
      BY <2>1
    <3> QED
      BY <1>1, <3>1, CalmStays DEF Calm
  <2>2. CASE ~Latching
    BY <2>2 DEF Calm
  <2> QED
    BY <2>1, <2>2
<1> QED
  BY <1>1, <1>2 DEF Stopped, Calm

LEMMA UnseenTick ==
  ASSUME Sizes, IInv, setup.attacker = "A2", setup.root = "independent", Unseen, Turning
  PROVE  Unseen'
<1>1. t \in Nat /\ p \in Int /\ g \in Int
  BY TypeFacts
<1>2. PICK n : n = Least(t, Limit + ErrorBound - 1)
  OBVIOUS
<1>3. n \in Nat /\ n <= Limit + ErrorBound - 1 /\ n + g \in {0, 1}
  BY <1>1, <1>2 DEF Unseen, Sizes, Least
<1>4. Tick(-n, Aligned(-n))
  BY <1>2, RefMove, Pushes
<1>5. Shift(n) <= Limit
  BY <1>3 DEF Shift, Sizes, Least
<1>6. /\ t' = t + 1 /\ g' = -n /\ setup' = setup
      /\ latch' = IF Latching THEN Update(latch, Shift(n)) ELSE latch
      /\ ~(Stopped(n) /\ ~setup.sabotage) => Allowing' /\ p' = Guided(t + 1) + n
      /\ breach' \in Nat /\ breach' \in {breach, Beyond(p')}
  BY <1>3, <1>4, <1>5, Guiding DEF Unseen
<1>7. Calm' /\ ~Stopped(n)
  <2>1. Shift(n) \in Int
    BY <1>3 DEF Shift, Least
  <2> QED
    BY <1>3, <1>5, <1>6, <2>1, Content DEF Unseen
<1>8. Allowing' /\ p' = Guided(t + 1) + n
  BY <1>6, <1>7
<1>9. breach' <= Open - 1
  <2>1. Guided(t + 1) \in 0..Target /\ Open \in Int
    BY <1>1, GuidedFacts, ReachFacts
  <2>2. p' \in Int /\ 0 <= p' /\ p' <= Target + Limit + ErrorBound - 1
    BY <1>3, <1>8, <2>1
  <2>3. 1 <= Open /\ Target + Limit + ErrorBound - 1 = Radius + (Open - 1)
    BY DEF Sizes, Open
  <2>a. Open - 1 \in Nat
    BY <2>1, <2>3
  <2>b. \A q \in Int : 0 <= q => Abs(q) = q
    BY DEF Abs
  <2>4. Abs(p') <= Radius + (Open - 1) /\ Open - 1 \in Nat
    BY <2>2, <2>3, <2>a, <2>b
  <2>5. Beyond(p') <= Open - 1
    BY <2>2, <2>4, BeyondFacts
  <2> QED
    BY <1>6, <2>5 DEF Unseen
<1>10. -g' = IF t' = 0 THEN 0 ELSE Least(t' - 1, Limit + ErrorBound - 1)
  BY <1>1, <1>2, <1>3, <1>6 DEF Least
<1>11. Unseen' <=> /\ Allowing' /\ Calm' /\ breach' <= Open - 1
                   /\ -g' = IF t' = 0 THEN 0 ELSE Least(t' - 1, Limit + ErrorBound - 1)
  BY DEF Unseen, Open, Least
<1> QED
  BY <1>7, <1>8, <1>9, <1>10, <1>11

(* A3 ramps once it is allowed: unchecked in flight, or by a source that   *)
(* shares its error, or landed by the check.                               *)
Ramp(n) == IF n > RequestAt + 1 THEN n - RequestAt - 2 ELSE 0
Unchecked == Allowing /\ Calm /\ -g = Ramp(t)
Rescued ==
  /\ breach = 0
  /\ Landing => decision = "ALLOW"
  /\ ~Landing => /\ Allowing /\ -g = Ramp(t) /\ ~latch.latched
                 /\ latch.over = Most(t - RequestAt - 2 - (Limit + ErrorBound))

LEMMA Naive ==
  ASSUME IInv, Allowing, setup.attacker = "A3", -g = Ramp(t), Turning
  PROVE  /\ Ramp(t + 1) \in Nat /\ Ramp(t + 1) + g \in {0, 1} /\ t \in Nat
         /\ Tick(-Ramp(t + 1), Aligned(-Ramp(t + 1)))
<1>1. t \in Nat /\ g \in Int
  BY TypeFacts
<1>2. Started <=> t > RequestAt
  BY <1>1 DEF Started, Allowing
<1>3. Push("A3") = Ramp(t + 1)
  BY <1>1, <1>2, Pushes DEF Ramp
<1>4. Ramp(t + 1) \in Nat /\ Ramp(t + 1) + g \in {0, 1}
  BY <1>1 DEF Ramp
<1> QED
  BY <1>1, <1>3, <1>4, RefMove

LEMMA UncheckedTick ==
  ASSUME Sizes, IInv, setup.attacker = "A3", Unchecked, Turning,
         setup.config = "C1" \/ setup.root = "common"
  PROVE  Unchecked'
<1>1. PICK n : n = Ramp(t + 1)
  OBVIOUS
<1>2. n \in Nat /\ n + g \in {0, 1} /\ t \in Nat /\ Tick(-n, Aligned(-n))
  BY <1>1, Naive DEF Unchecked
<1>3. Shift(n) \in Int /\ (t = RequestAt => Shift(n) <= Limit)
  BY <1>1, <1>2 DEF Shift, Least, Ramp, Sizes
<1>4. setup.root = "common" => Shift(n) <= Limit
  BY <1>2 DEF Shift, Least, Sizes
<1>5. /\ t' = t + 1 /\ g' = -n /\ setup' = setup
      /\ latch' = IF Latching THEN Update(latch, Shift(n)) ELSE latch
      /\ ~(Stopped(n) /\ ~setup.sabotage) => Allowing'
  BY <1>2, <1>3, Guiding DEF Unchecked
<1>6. Calm' /\ ~Stopped(n)
  <2>1. CASE setup.root = "common"
    BY <1>2, <1>3, <1>4, <1>5, <2>1, Content DEF Unchecked
  <2>2. CASE setup.config = "C1"
    BY <1>5, <2>2 DEF Unchecked, Calm, Stopped, Latching
  <2> QED
    BY <2>1, <2>2
<1>7. Ramp(t)' = n
  <2>1. Ramp(t)' = Ramp(t + 1)
    BY <1>5 DEF Ramp
  <2> QED
    BY <1>1, <2>1
<1>8. -g' = n
  BY <1>2, <1>5
<1> QED
  BY <1>5, <1>6, <1>7, <1>8 DEF Unchecked

(* A step that stays inside the fence, or stays put, adds no breach.       *)
LEMMA StillInside ==
  ASSUME IInv, Deepest, breach = 0, breach' \in {breach, Beyond(p')}, p' = p \/ p' \in 0..Radius
  PROVE  breach' = 0
<1>1. p \in Int /\ Beyond(p) = 0
  BY TypeFacts, BeyondLeast DEF Deepest
<1>2. p' \in 0..Radius => Beyond(p') = 0
  BY InFence
<1> QED
  BY <1>1, <1>2

LEMMA RescuedTick ==
  ASSUME Sizes, IInv, Row("A3", "C2", "independent"), ~setup.sabotage, Deepest, Rescued, Turning
  PROVE  Rescued'
<1>1. setup.attacker = "A3" /\ setup.root = "independent" /\ setup.config = "C2" /\ t \in Nat /\ p \in Int
  BY TypeFacts DEF Row
<1>2. CASE Landing
  <2>1. /\ Landing' /\ decision' = IF t = RequestAt THEN "NONE" ELSE decision
        /\ p' = p /\ breach' \in {breach, Beyond(p')}
    BY <1>1, <1>2, Down
  <2>2. breach' = 0
    BY <2>1, StillInside DEF Rescued
  <2>3. decision' = "ALLOW"
    <3>1. decision = "ALLOW" /\ t > RequestAt
      BY <1>2, TypeFacts DEF Rescued
    <3> QED
      BY <1>1, <2>1, <3>1
  <2> QED
    BY <2>1, <2>2, <2>3 DEF Rescued
<1>3. CASE ~Landing
  <2>1. /\ Allowing /\ -g = Ramp(t) /\ ~latch.latched /\ breach = 0
        /\ latch.over = Most(t - RequestAt - 2 - (Limit + ErrorBound))
    BY <1>3 DEF Rescued
  <2>2. PICK n : n = Ramp(t + 1)
    OBVIOUS
  <2>3. n \in Nat /\ n + g \in {0, 1} /\ Tick(-n, Aligned(-n))
    BY <1>1, <2>1, <2>2, Naive
  <2>4. Shift(n) \in Int /\ (t = RequestAt => Shift(n) <= Limit) /\ (Shift(n) > Limit <=> n > Limit + ErrorBound)
    BY <1>1, <2>2, <2>3 DEF Shift, Least, Ramp
  <2>5. /\ t' = t + 1 /\ g' = -n
        /\ latch' = Update(latch, Shift(n))
        /\ decision' = (IF t' > RequestAt THEN "ALLOW" ELSE "none")
        /\ ~Stopped(n) => Allowing' /\ p' = Guided(t + 1) + n
        /\ Stopped(n) => Landing' /\ p' = p
        /\ breach' \in {breach, Beyond(p')}
    BY <1>1, <2>1, <2>3, <2>4, Guiding DEF Latching
  <2>6. latch'.over = Most(t - RequestAt - 1 - (Limit + ErrorBound)) /\ (latch'.latched <=> latch'.over >= K)
    <3>1. latch'.over = IF Shift(n) > Limit THEN latch.over + 1 ELSE 0
      BY <2>5 DEF Update
    <3>2. n > Limit + ErrorBound <=> t - RequestAt - 1 - (Limit + ErrorBound) > 0
      BY <1>1, <2>2 DEF Ramp, Sizes
    <3>3. latch'.over = Most(t - RequestAt - 1 - (Limit + ErrorBound))
      BY <1>1, <2>1, <2>4, <3>1, <3>2 DEF Most
    <3>4. latch'.latched <=> latch'.over >= K
      BY <2>1, <2>5 DEF Update
    <3> QED
      BY <3>3, <3>4
  <2>7. Stopped(n) <=> latch'.latched
    BY <1>1 DEF Stopped, Latching
  <2>8. CASE Stopped(n)
    <3>1. t - RequestAt - 1 - (Limit + ErrorBound) >= 1
      BY <1>1, <2>6, <2>7, <2>8 DEF Most
    <3>2. decision' = "ALLOW"
      BY <1>1, <2>5, <3>1 DEF Sizes
    <3>3. breach' = 0
      BY <2>1, <2>5, <2>8, StillInside
    <3> QED
      BY <2>5, <2>8, <3>2, <3>3 DEF Rescued
  <2>9. CASE ~Stopped(n)
    <3>1. t - RequestAt - 1 - (Limit + ErrorBound) < K
      BY <1>1, <2>6, <2>7, <2>9 DEF Most
    <3>2. n <= Limit + ErrorBound + K - 1
      BY <1>1, <2>2, <3>1 DEF Ramp
    <3>3. Guided(t + 1) >= 0 /\ Guided(t + 1) <= Speed * (Limit + ErrorBound + K + 1)
      <4>1. Guided(t + 1) \in 0..Target /\ (t + 1 > RequestAt => Guided(t + 1) <= Speed * (t + 1 - RequestAt))
        BY <1>1, GuidedFacts
      <4>2. t + 1 - RequestAt <= Limit + ErrorBound + K + 1
        BY <1>1, <3>1
      <4>3. /\ Speed * (t + 1 - RequestAt) <= Speed * (Limit + ErrorBound + K + 1)
            /\ Speed * (t + 1 - RequestAt) \in Int /\ Speed * (Limit + ErrorBound + K + 1) \in Int
        BY <1>1, <4>2, SpeedMonotone
      <4>4. 0 <= Speed * (Limit + ErrorBound + K + 1)
        <5>1. Speed * 0 <= Speed * (Limit + ErrorBound + K + 1)
          BY SpeedMonotone
        <5> QED
          BY <5>1
      <4>5. ~(t + 1 > RequestAt) => Guided(t + 1) = 0
        BY DEF Guided
      <4> QED
        BY <4>1, <4>3, <4>4, <4>5
    <3>4. p' \in 0..Radius
      <4>1. Speed * (Limit + ErrorBound + K + 1) + Limit + ErrorBound + K - 1 <= Radius
        BY DEF Sizes
      <4>2. Speed * (Limit + ErrorBound + K + 1) \in Int /\ Guided(t + 1) \in Int
        BY <1>1, SpeedMonotone, GuidedFacts
      <4>3. p' = Guided(t + 1) + n
        BY <2>5, <2>9
      <4> QED
        BY <2>3, <3>2, <3>3, <4>1, <4>2, <4>3
    <3>5. breach' = 0
      BY <2>1, <2>5, <3>4, StillInside
    <3>6. Ramp(t)' = n
      <4>1. Ramp(t)' = Ramp(t + 1)
        BY <2>5 DEF Ramp
      <4> QED
        BY <2>2, <4>1
    <3>7. (Most(t - RequestAt - 2 - (Limit + ErrorBound)))' = Most(t - RequestAt - 1 - (Limit + ErrorBound))
      <4>1. t' - RequestAt - 2 - (Limit + ErrorBound) = t - RequestAt - 1 - (Limit + ErrorBound)
        BY <1>1, <2>5
      <4> QED
        BY <4>1 DEF Most
    <3>8. -g' = n /\ ~latch'.latched
      BY <2>3, <2>5, <2>7, <2>9
    <3>9. ~Landing'
      BY <2>5, <2>9 DEF Allowing
    <3> QED
      BY <2>5, <2>6, <2>9, <3>5, <3>6, <3>7, <3>8, <3>9 DEF Rescued
  <2> QED
    BY <2>8, <2>9
<1> QED
  BY <1>2, <1>3

(* A4 rides the limit until the vehicle is at its target, and then pushes  *)
(* on at every reading the latch takes to close; where LAND holds the      *)
(* believed position, beyond that.                                         *)
Waiting ==
  /\ Allowing /\ Calm /\ -g = Least(Ramp(t), Limit + ErrorBound)
  /\ t > RequestAt => Speed * (t - 1 - RequestAt) < Target
Pressing(j) ==
  /\ Allowing /\ ~latch.latched /\ latch.over = j /\ -g = Limit + ErrorBound + j
  /\ t - j > RequestAt /\ Speed * (t - j - 1 - RequestAt) < Target /\ Target <= Speed * (t - j - RequestAt)
Pushed == Latching /\ latch.over \in 1..(K - 1) /\ Pressing(latch.over)
Ridden ==
  /\ decision = "ALLOW"
  /\ setup.config = "C2s" => breach >= Open
  /\ setup.config = "C2"  => breach >= Bound
  /\ setup.config = "C2g" =>
       /\ land.at > RequestAt /\ Target <= Speed * (land.at - RequestAt) /\ Speed * (land.at - K - RequestAt) < Target
       /\ t = land.at + 1 => land.hold = Target - 1 /\ -g = Limit + ErrorBound + K
       /\ t > land.at + 1 => breach > Bound
Riding == (~Landing => Waiting \/ Pushed) /\ (Landing => Ridden)

LEMMA BoundIs == Sizes => Bound = Target - Radius + Limit + ErrorBound + K - 1 /\ Open = Target - Radius + Limit + ErrorBound
<1>1. Slew = 1 => (K - 1) * Slew = K - 1
  OBVIOUS
<1> QED
  BY <1>1 DEF Sizes, Bound, Open

Monitored == setup.root = "independent" /\ ~setup.sabotage /\ setup.config \in {"C2", "C2s", "C2g"}

LEMMA Press ==
  ASSUME Sizes, IInv, setup.attacker = "A4", Monitored, NEW j \in 0..(K - 1), Pressing(j), setup.config = "C2s" => j = 0, Turning
  PROVE  Riding'
<1>1. /\ t \in Nat /\ p \in Int /\ g \in Int /\ Allowing /\ ~latch.latched /\ latch.over = j /\ -g = Limit + ErrorBound + j
      /\ t - j > RequestAt /\ Speed * (t - j - 1 - RequestAt) < Target /\ Target <= Speed * (t - j - RequestAt)
      /\ t > RequestAt /\ j \in Nat /\ j < K
  BY TypeFacts DEF Pressing
<1>2. PICK n : n = Limit + ErrorBound + j + 1
  OBVIOUS
<1>3. Target <= Speed * (t - RequestAt) /\ Target <= Speed * (t + 1 - RequestAt)
  <2>1. Speed * (t - j - RequestAt) <= Speed * (t - RequestAt) /\ Speed * (t - RequestAt) <= Speed * (t + 1 - RequestAt)
        /\ Speed * (t - j - RequestAt) \in Int /\ Speed * (t - RequestAt) \in Int /\ Speed * (t + 1 - RequestAt) \in Int
    BY <1>1, SpeedMonotone
  <2> QED
    BY <1>1, <2>1
<1>4. Guided(t) = Target /\ Guided(t + 1) = Target
  BY <1>1, <1>3, GuidedFacts
<1>5. Push("A4") = n
  <2>1. Pushing
    <3>1. Speed * ((IF Landing THEN land.at ELSE t) - RequestAt) = Speed * (t - RequestAt)
      BY <1>1 DEF Allowing
    <3>2. Speed * (t - RequestAt) \in Int
      BY <1>1, SpeedMonotone
    <3> QED
      BY <1>1, <1>3, <3>1, <3>2 DEF Pushing, Started, Allowing
  <2> QED
    BY <1>1, <1>2, <2>1, Pushes DEF Sizes
<1>6. n \in Nat /\ n + g \in {0, 1} /\ Tick(-n, Aligned(-n))
  BY <1>1, <1>2, <1>5, RefMove
<1>7. Shift(n) = Limit + j + 1 /\ Shift(n) > Limit
  BY <1>1, <1>2 DEF Shift, Monitored, Least
<1>8. /\ t' = t + 1 /\ g' = -n /\ setup' = setup
      /\ latch' = IF Latching THEN Update(latch, Shift(n)) ELSE latch
      /\ decision' = (IF t' > RequestAt THEN "ALLOW" ELSE "none")
      /\ ~Stopped(n) => Allowing'
      /\ Stopped(n) => Landing' /\ land' = [at |-> t, hold |-> p - n] /\ p' = p
      /\ breach' \in Nat /\ p' - Radius <= breach'
  BY <1>1, <1>6, Guiding DEF Monitored
<1>9. p = Target + Limit + ErrorBound + j /\ p - n = Target - 1
  BY <1>1, <1>2, <1>4 DEF Allowing
<1>10. decision' = "ALLOW"
  BY <1>1, <1>8
<1>11. Latching => latch'.over = j + 1 /\ (latch'.latched <=> j + 1 >= K)
  <2> SUFFICES ASSUME Latching PROVE latch'.over = j + 1 /\ (latch'.latched <=> j + 1 >= K)
    OBVIOUS
  <2>1. latch' = Update(latch, Shift(n))
    BY <1>8
  <2>2. latch'.over = j + 1
    BY <1>1, <1>7, <2>1 DEF Update
  <2>3. latch'.latched <=> j + 1 >= K
    BY <1>1, <1>7, <2>1 DEF Update
  <2> QED
    BY <2>2, <2>3
<1>12. CASE Stopped(n)
  <2>1. Landing' /\ land'.at = t /\ land'.hold = Target - 1 /\ p' = p
    BY <1>8, <1>9, <1>12
  <2>2. Latching => j + 1 = K
    <3>1. Latching => latch'.latched
      BY <1>12 DEF Stopped, Latching
    <3> QED
      BY <1>1, <1>11, <3>1
  <2>3. setup.config = "C2s" => breach' >= Open
    BY <1>1, <1>8, <1>9, <2>1, BoundIs
  <2>4. setup.config \in {"C2", "C2g"} => breach' >= Bound
    BY <1>1, <1>8, <1>9, <2>1, <2>2, BoundIs DEF Latching
  <2>5. setup.config = "C2g" => Speed * (land'.at - K - RequestAt) < Target /\ -g' = Limit + ErrorBound + K
    <3> SUFFICES ASSUME setup.config = "C2g" PROVE Speed * (land'.at - K - RequestAt) < Target /\ -g' = Limit + ErrorBound + K
      OBVIOUS
    <3>1. land'.at - K - RequestAt = t - j - 1 - RequestAt
      BY <1>1, <2>1, <2>2 DEF Latching
    <3>2. -g' = Limit + ErrorBound + K
      BY <1>1, <1>2, <1>6, <1>8, <2>2 DEF Latching
    <3> QED
      BY <1>1, <3>1, <3>2
  <2>6. Ridden' <=>
          /\ decision' = "ALLOW"
          /\ setup'.config = "C2s" => breach' >= Open
          /\ setup'.config = "C2"  => breach' >= Bound
          /\ setup'.config = "C2g" =>
               /\ land'.at > RequestAt /\ Target <= Speed * (land'.at - RequestAt) /\ Speed * (land'.at - K - RequestAt) < Target
               /\ t' = land'.at + 1 => land'.hold = Target - 1 /\ -g' = Limit + ErrorBound + K
               /\ t' > land'.at + 1 => breach' > Bound
    BY DEF Ridden, Open, Bound
  <2>7. Ridden'
    BY <1>1, <1>3, <1>8, <1>10, <2>1, <2>3, <2>4, <2>5, <2>6
  <2> QED
    BY <2>1, <2>7 DEF Riding
<1>13. CASE ~Stopped(n)
  <2>1. Latching /\ ~latch'.latched
    BY <1>7, <1>13 DEF Stopped, Latching, Monitored
  <2>2. latch'.over = j + 1 /\ j + 1 \in 1..(K - 1)
    BY <1>1, <1>11, <2>1
  <2>3. t' - (j + 1) = t - j /\ t' - (j + 1) - 1 - RequestAt = t - j - 1 - RequestAt /\ t' - (j + 1) - RequestAt = t - j - RequestAt
    BY <1>1, <1>8
  <2>4. -g' = Limit + ErrorBound + (j + 1)
    BY <1>1, <1>2, <1>6, <1>8
  <2>5. /\ Allowing' /\ ~latch'.latched /\ -g' = Limit + ErrorBound + latch'.over
        /\ t' - latch'.over > RequestAt /\ Speed * (t' - latch'.over - 1 - RequestAt) < Target
        /\ Target <= Speed * (t' - latch'.over - RequestAt)
    BY <1>1, <1>8, <1>13, <2>1, <2>2, <2>3, <2>4
  <2>6. Pushed'
    BY <1>8, <2>1, <2>2, <2>5 DEF Pushed, Pressing, Latching
  <2>7. ~Landing'
    BY <2>5 DEF Allowing
  <2> QED
    BY <2>6, <2>7 DEF Riding
<1> QED
  BY <1>12, <1>13

LEMMA Wait ==
  ASSUME Sizes, IInv, setup.attacker = "A4", Monitored, Waiting, Turning
  PROVE  Riding'
<1>1. t \in Nat /\ p \in Int /\ g \in Int /\ Allowing /\ Calm
  BY TypeFacts DEF Waiting
<1>2. Pushing <=> t > RequestAt /\ Target <= Speed * (t - RequestAt)
  <2>1. Speed * ((IF Landing THEN land.at ELSE t) - RequestAt) = Speed * (t - RequestAt)
    BY <1>1 DEF Allowing
  <2>2. Speed * (t - RequestAt) \in Int
    BY <1>1, SpeedMonotone
  <2>3. Started <=> t > RequestAt
    BY <1>1 DEF Started, Allowing
  <2> QED
    BY <2>1, <2>2, <2>3 DEF Pushing
<1>3. CASE Pushing
  <2>1. t - RequestAt >= Limit + ErrorBound + 2
    <3>1. SUFFICES ASSUME t - RequestAt <= Limit + ErrorBound + 1 PROVE FALSE
      BY <1>1
    <3>2. /\ Speed * (t - RequestAt) <= Speed * (Limit + ErrorBound + 1)
          /\ Speed * (t - RequestAt) \in Int /\ Speed * (Limit + ErrorBound + 1) \in Int
      BY <1>1, <3>1, SpeedMonotone
    <3>3. Target <= Speed * (t - RequestAt) /\ Speed * (Limit + ErrorBound + 1) < Target
      BY <1>2, <1>3 DEF Sizes
    <3> QED
      BY <3>2, <3>3
  <2>2. -g = Limit + ErrorBound
    BY <1>1, <2>1 DEF Waiting, Ramp, Least
  <2>3. Speed * (t - 0 - 1 - RequestAt) < Target /\ Target <= Speed * (t - 0 - RequestAt) /\ t - 0 > RequestAt
    <3>1. t - 0 - 1 - RequestAt = t - 1 - RequestAt /\ t - 0 - RequestAt = t - RequestAt
      BY <1>1
    <3> QED
      BY <1>1, <1>2, <1>3, <3>1 DEF Waiting
  <2>4. Pressing(0)
    BY <1>1, <2>2, <2>3 DEF Pressing, Calm
  <2>5. 0 \in 0..(K - 1)
    OBVIOUS
  <2> QED
    BY <2>4, <2>5, Press
<1>4. CASE ~Pushing
  <2>1. PICK n : n = Least(Ramp(t + 1), Limit + ErrorBound)
    OBVIOUS
  <2>2. Push("A4") = n
    <3>1. Started <=> t > RequestAt
      BY <1>1 DEF Started, Allowing
    <3> QED
      BY <1>1, <1>4, <2>1, <3>1, Pushes DEF Ramp, Least
  <2>3. n \in Nat /\ n <= Limit + ErrorBound /\ n + g \in {0, 1}
    BY <1>1, <2>1 DEF Waiting, Ramp, Least
  <2>4. Tick(-n, Aligned(-n))
    BY <2>2, RefMove
  <2>5. Shift(n) \in Int /\ Shift(n) <= Limit
    BY <2>3 DEF Shift, Least, Monitored
  <2>6. /\ t' = t + 1 /\ g' = -n /\ setup' = setup
        /\ latch' = IF Latching THEN Update(latch, Shift(n)) ELSE latch
        /\ ~(Stopped(n) /\ ~setup.sabotage) => Allowing'
    BY <1>1, <2>3, <2>4, <2>5, Guiding
  <2>7. Calm' /\ ~Stopped(n)
    BY <1>1, <2>3, <2>5, <2>6, Content
  <2>8. t' > RequestAt => Speed * (t' - 1 - RequestAt) < Target
    <3>1. t' - 1 - RequestAt = t - RequestAt
      BY <1>1, <2>6
    <3>2. CASE t > RequestAt
      <4>1. Speed * (t - RequestAt) \in Int /\ ~(Target <= Speed * (t - RequestAt))
        BY <1>1, <1>2, <1>4, <3>2, SpeedMonotone
      <4> QED
        BY <3>1, <4>1
    <3>3. CASE t = RequestAt
      <4>1. /\ Speed * (t - RequestAt) <= Speed * (Limit + ErrorBound + 1) /\ Speed * (Limit + ErrorBound + 1) < Target
            /\ Speed * (t - RequestAt) \in Int /\ Speed * (Limit + ErrorBound + 1) \in Int
        BY <1>1, <3>3, SpeedMonotone DEF Sizes
      <4> QED
        BY <3>1, <4>1
    <3> QED
      BY <1>1, <2>6, <3>2, <3>3
  <2>9. -g' = n /\ (Least(Ramp(t), Limit + ErrorBound))' = n
    <3>1. Ramp(t)' = Ramp(t + 1)
      BY <2>6 DEF Ramp
    <3>2. (Least(Ramp(t), Limit + ErrorBound))' = Least(Ramp(t + 1), Limit + ErrorBound)
      BY <3>1 DEF Least
    <3> QED
      BY <2>1, <2>3, <2>6, <3>2
  <2>10. Waiting' /\ ~Landing'
    BY <2>6, <2>7, <2>8, <2>9 DEF Waiting, Allowing
  <2> QED
    BY <2>10 DEF Riding
<1> QED
  BY <1>3, <1>4

LEMMA RidingTick ==
  ASSUME Sizes, IInv, setup.attacker = "A4", Monitored, Riding, Turning
  PROVE  Riding'
<1>1. CASE ~Landing
  <2>1. CASE Waiting
    BY <2>1, Wait
  <2>2. CASE Pushed
    <3>1. setup.config # "C2s" /\ latch.over \in 0..(K - 1) /\ Pressing(latch.over)
      BY <2>2 DEF Pushed, Latching
    <3> QED
      BY <3>1, Press
  <2> QED
    BY <1>1, <2>1, <2>2 DEF Riding
<1>2. CASE Landing
  <2>1. PICK n \in Moves :
          /\ t' = t + 1 /\ setup' = setup /\ land' = land /\ Landing'
          /\ decision' = IF t = RequestAt THEN "NONE" ELSE decision
          /\ g' = n /\ n = -Push("A4")
          /\ setup.config = "C2g" /\ t < land.at + LandTicks => p' = land.hold - n
          /\ breach' \in Nat /\ breach' >= breach /\ p' - Radius <= breach'
    BY <1>2, Down
  <2>2. Ridden /\ t \in Nat /\ g \in Int /\ land.at \in 0..(t - 1) /\ breach \in Nat /\ t > RequestAt
    <3>1. Ridden
      BY <1>2 DEF Riding
    <3> QED
      BY <1>2, <3>1, TypeFacts DEF Ridden, IInv, TypeOK
  <2>3. decision' = "ALLOW"
    BY <2>1, <2>2 DEF Ridden
  <2>4. setup.config = "C2g" /\ t' > land.at + 1 => breach' > Bound
    <3> SUFFICES ASSUME setup.config = "C2g", t' > land.at + 1 PROVE breach' > Bound
      OBVIOUS
    <3>1. CASE t > land.at + 1
      BY <2>1, <2>2, <3>1, ReachFacts DEF Ridden
    <3>2. CASE t = land.at + 1
      <4>1. land.hold = Target - 1 /\ -g = Limit + ErrorBound + K /\ Target <= Speed * (land.at - RequestAt)
        BY <2>2, <3>2 DEF Ridden
      <4>2. Pushing
        <5>1. Started /\ (IF Landing THEN land.at ELSE t) = land.at /\ Speed * (land.at - RequestAt) \in Int
          <6>1. land.at - RequestAt \in Int
            BY <2>2
          <6> QED
            BY <1>2, <2>2, <6>1, SpeedMonotone DEF Started, Ridden
        <5> QED
          BY <4>1, <5>1 DEF Pushing
      <4>3. n = -(Limit + ErrorBound + K + 1)
        BY <2>1, <2>2, <4>1, <4>2, Pushes DEF Sizes
      <4>4. p' = Target + Limit + ErrorBound + K
        BY <2>1, <2>2, <3>2, <4>1, <4>3 DEF Sizes
      <4> QED
        BY <2>1, <4>4, BoundIs
    <3> QED
      BY <2>1, <2>2, <3>1, <3>2
  <2>5. ~(t' = land.at + 1)
    BY <2>1, <2>2
  <2>6. Ridden' <=>
          /\ decision' = "ALLOW"
          /\ setup'.config = "C2s" => breach' >= Open
          /\ setup'.config = "C2"  => breach' >= Bound
          /\ setup'.config = "C2g" =>
               /\ land'.at > RequestAt /\ Target <= Speed * (land'.at - RequestAt) /\ Speed * (land'.at - K - RequestAt) < Target
               /\ t' = land'.at + 1 => land'.hold = Target - 1 /\ -g' = Limit + ErrorBound + K
               /\ t' > land'.at + 1 => breach' > Bound
    BY DEF Ridden, Open, Bound
  <2>7. setup.config = "C2s" => breach' >= Open
    BY <2>1, <2>2, ReachFacts DEF Ridden
  <2>8. setup.config = "C2" => breach' >= Bound
    BY <2>1, <2>2, ReachFacts DEF Ridden
  <2>9. Ridden'
    BY <2>1, <2>2, <2>3, <2>4, <2>5, <2>6, <2>7, <2>8 DEF Ridden
  <2> QED
    BY <2>1, <2>9 DEF Riding
<1> QED
  BY <1>1, <1>2
---------------------------------------------------------------------------
(* The course of every row, and of what they have in common: the breach is *)
(* no less than where the vehicle is, and a sabotaged one is not landed.   *)
Course ==
  /\ Deepest
  /\ setup.sabotage => ~Landing
  /\ Row("A1", "C1", "independent") => Refused
  /\ Row("A1", "C2", "independent") /\ ~setup.sabotage => LandedEarly
  /\ setup.attacker = "A2" /\ setup.root = "independent" => Unseen
  /\ setup.attacker = "A3" /\ (setup.config = "C1" \/ setup.root = "common") => Unchecked
  /\ Row("A3", "C2", "independent") /\ ~setup.sabotage => Rescued
  /\ setup.attacker = "A4" /\ Monitored => Riding

CourseInv == HonestInv /\ Course

LEMMA NoOffset == Init => -g = 0
<1> SUFFICES ASSUME Init PROVE -g = 0
  OBVIOUS
<1>1. \A q \in Int : q >= 0 /\ q <= 0 => -q = q
  OBVIOUS
<1>2. g \in Int /\ g >= 0 /\ g <= 0 /\ g = 0
  BY DEF Init
<1>3. -g = g
  BY <1>1, <1>2, Zenon
<1> QED
  BY <1>2, <1>3, Zenon

LEMMA InitCourse == ASSUME Sizes PROVE Init => CourseInv
<1> SUFFICES ASSUME Init PROVE Course
  BY InitHonest DEF CourseInv
<1>1. /\ t = 0 /\ p = 0 /\ g = 0 /\ -g = 0 /\ breach = 0 /\ decision = "none" /\ ~Landing
      /\ latch.over = 0 /\ ~latch.latched
  BY NoOffset DEF Init, Landing
<1>2. /\ ErrorBound \in Nat /\ Limit \in Nat /\ K \in Nat \ {0} /\ RequestAt \in Nat
      /\ 1 <= Limit + ErrorBound /\ Open \in Int /\ 1 <= Open
  BY ReachFacts DEF Sizes
<1>3. Deepest
  <2>1. Beyond(0) = 0
    BY InFence
  <2> QED
    BY <1>1, <2>1 DEF Deepest
<1>4. Ramping
  BY <1>1 DEF Ramping, Ramped
<1>5. Allowing /\ Calm /\ Ramp(t) = 0
  BY <1>1, <1>2 DEF Allowing, Calm, Guided, Ramp
<1>6. Refused
  BY <1>1, <1>2, <1>4 DEF Refused
<1>7. LandedEarly
  <2>1. Most(t - 1 - (Limit + ErrorBound)) = 0 /\ t <= Limit + ErrorBound + K
    BY <1>1, <1>2 DEF Most
  <2> QED
    BY <1>1, <1>4, <2>1 DEF LandedEarly
<1>8. Unseen
  BY <1>1, <1>2, <1>5 DEF Unseen
<1>9. Unchecked
  BY <1>1, <1>5 DEF Unchecked
<1>10. Rescued
  <2>1. Most(t - RequestAt - 2 - (Limit + ErrorBound)) = 0
    BY <1>1, <1>2 DEF Most
  <2> QED
    BY <1>1, <1>5, <2>1 DEF Rescued
<1>11. Riding
  BY <1>1, <1>2, <1>5 DEF Riding, Waiting, Least
<1> QED
  BY <1>1, <1>3, <1>6, <1>7, <1>8, <1>9, <1>10, <1>11 DEF Course

LEMMA CourseTurn == ASSUME Sizes, CourseInv, Turning PROVE Course'
<1>1. PICK m \in Moves \X Errs : Tick(m[1], m[2])
  BY DEF Turning, Allowable
<1>2. IInv /\ IInv' /\ setup' = setup
  <2>1. m[1] \in Moves /\ m[2] \in Errs /\ IInv
    BY DEF CourseInv, HonestInv
  <2> QED
    BY <1>1, <2>1, TickStep DEF Tick
<1>3. Deepest'
  <2>1. breach' = IF Beyond(p') > breach THEN Beyond(p') ELSE breach
    BY <1>1 DEF Tick
  <2> QED
    BY <1>2, <2>1, BreachFacts
<1>4. setup.sabotage => ~Landing'
  <2>1. setup.sabotage => land' = land
    BY <1>1 DEF Tick
  <2> QED
    BY <2>1 DEF CourseInv, Course, Landing, NotYet
<1>5. Row("A1", "C1", "independent") => Refused'
  BY <1>2, RefusedTick DEF CourseInv, Course
<1>6. Row("A1", "C2", "independent") /\ ~setup.sabotage => LandedEarly'
  BY <1>2, LandedEarlyTick DEF CourseInv, Course
<1>7. setup.attacker = "A2" /\ setup.root = "independent" => Unseen'
  BY <1>2, UnseenTick DEF CourseInv, Course
<1>8. setup.attacker = "A3" /\ (setup.config = "C1" \/ setup.root = "common") => Unchecked'
  BY <1>2, UncheckedTick DEF CourseInv, Course
<1>9. Row("A3", "C2", "independent") /\ ~setup.sabotage => Rescued'
  BY <1>2, RescuedTick DEF CourseInv, Course
<1>10. setup.attacker = "A4" /\ Monitored => Riding'
  BY <1>2, RidingTick DEF CourseInv, Course
<1>11. /\ \A a, c, r : Row(a, c, r)' <=> Row(a, c, r)
       /\ Monitored' <=> Monitored
  BY <1>2 DEF Row, Monitored
<1>12. /\ Row("A1", "C1", "independent")' <=> Row("A1", "C1", "independent")
       /\ Row("A1", "C2", "independent")' <=> Row("A1", "C2", "independent")
       /\ Row("A3", "C2", "independent")' <=> Row("A3", "C2", "independent")
  BY <1>11
<1> QED
  BY <1>2, <1>3, <1>4, <1>5, <1>6, <1>7, <1>8, <1>9, <1>10, <1>11, <1>12, Zenon DEF Course

LEMMA CourseNext == ASSUME Sizes PROVE CourseInv /\ [Next]_vars => CourseInv'
<1> SUFFICES ASSUME CourseInv, [Next]_vars PROVE Course'
  BY HonestNext DEF CourseInv, Sizes
<1>1. CASE Turning
  BY <1>1, CourseTurn
<1>2. CASE OutOfModel \/ Uncaught \/ UNCHANGED vars
  <2>1. UNCHANGED <<setup, t, p, g, latch, decision, land, breach>>
    BY <1>2 DEF OutOfModel, Uncaught, EndsEarly, vars
  <2>2. Landing' = Landing /\ Allowing' = Allowing /\ Calm' = Calm /\ Ramping' = Ramping /\ Deepest' = Deepest
    BY <2>1 DEF Landing, Allowing, Calm, Ramping, Deepest, Guided, Ramped, Least, Beyond, Abs
  <2>3. Refused' = Refused /\ Unseen' = Unseen /\ Unchecked' = Unchecked
    BY <2>1, <2>2 DEF Refused, Unseen, Unchecked, Open, Least, Ramp
  <2>4. LandedEarly' = LandedEarly /\ Rescued' = Rescued
    BY <2>1, <2>2 DEF LandedEarly, Rescued, Most, Ramp
  <2>5. Waiting' = Waiting /\ Pushed' = Pushed /\ Ridden' = Ridden
    BY <2>1, <2>2 DEF Waiting, Pushed, Pressing, Ridden, Latching, Least, Ramp, Open, Bound
  <2>6. Course' = Course
    BY <2>1, <2>2, <2>3, <2>4, <2>5 DEF Course, Riding, Row, Monitored
  <2> QED
    BY <2>6 DEF CourseInv
<1> QED
  BY <1>1, <1>2 DEF Next, Turning

(* What there is time for before the episode ends.                         *)
LEMMA EndFacts ==
  ASSUME Sizes
  PROVE  /\ RequestAt + Limit + ErrorBound + K + 1 < End /\ Guided(End) = Target
         /\ \A j \in Int : j <= K => Target <= Speed * (End - j - 1 - RequestAt)
         /\ \A n \in Int : Speed * n < Target => n < End - K - 1 - RequestAt
<1>1. RequestAt + Limit + ErrorBound + K + 1 < End /\ Target <= Speed * (End - K - 1 - RequestAt)
  BY DEF Sizes
<1>2. \A n \in Int : n >= End - K - 1 - RequestAt => Target <= Speed * n
  <2> SUFFICES ASSUME NEW n \in Int, n >= End - K - 1 - RequestAt PROVE Target <= Speed * n
    OBVIOUS
  <2>1. /\ Speed * (End - K - 1 - RequestAt) <= Speed * n
        /\ Speed * (End - K - 1 - RequestAt) \in Int /\ Speed * n \in Int
    BY SpeedMonotone
  <2> QED
    BY <1>1, <2>1
<1>3. Guided(End) = Target
  <2>1. End > RequestAt /\ End - RequestAt \in Int /\ End - RequestAt >= End - K - 1 - RequestAt
    BY <1>1
  <2>2. Target <= Speed * (End - RequestAt)
    BY <1>2, <2>1
  <2> QED
    BY <2>1, <2>2, GuidedFacts
<1>4. \A j \in Int : j <= K => Target <= Speed * (End - j - 1 - RequestAt)
  <2> SUFFICES ASSUME NEW j \in Int, j <= K PROVE Target <= Speed * (End - j - 1 - RequestAt)
    OBVIOUS
  <2>1. End - j - 1 - RequestAt \in Int /\ End - j - 1 - RequestAt >= End - K - 1 - RequestAt
    OBVIOUS
  <2> QED
    BY <1>2, <2>1
<1>5. \A n \in Int : Speed * n < Target => n < End - K - 1 - RequestAt
  <2> SUFFICES ASSUME NEW n \in Int, Speed * n < Target, n >= End - K - 1 - RequestAt PROVE FALSE
    OBVIOUS
  <2>1. Target <= Speed * n
    BY <1>2
  <2>2. n <= n /\ Target \in Int
    OBVIOUS
  <2>3. Speed * n \in Int
    BY <2>2, SpeedMonotone
  <2> QED
    BY <2>1, <2>2, <2>3
<1> QED
  BY <1>1, <1>3, <1>4, <1>5

(* The outcome of each row.                                                *)
LEMMA Outcomes ==
  ASSUME Sizes, CourseInv, t = End
  PROVE  /\ setup.attacker = "A0" => Allowed /\ ~Landing /\ breach = 0 /\ p = Target
         /\ Row("A1", "C1", "independent") => decision = "REFUSE" /\ breach = 0
         /\ Row("A1", "C2", "independent") /\ ~setup.sabotage =>
              decision = "NONE" /\ land.at < RequestAt /\ breach = 0
         /\ setup.attacker = "A2" /\ setup.root = "independent" => Allowed /\ ~Landing /\ breach = Open - 1
         /\ setup.attacker = "A3" /\ (setup.config = "C1" \/ setup.root = "common") =>
              Allowed /\ ~Landing /\ breach > Bound
         /\ Row("A3", "C2", "independent") /\ ~setup.sabotage => Allowed /\ Landing /\ breach = 0
         /\ setup.attacker = "A4" /\ Monitored =>
              /\ setup.config = "C2" => breach = Bound
              /\ setup.config = "C2s" => breach = Open
              /\ setup.config = "C2g" => breach > Bound
         /\ UnderClaim => breach <= Bound
<1>1. /\ RequestAt + Limit + ErrorBound + K + 1 < End /\ Guided(End) = Target
      /\ \A j \in Int : j <= K => Target <= Speed * (End - j - 1 - RequestAt)
      /\ \A n \in Int : Speed * n < Target => n < End - K - 1 - RequestAt
  BY EndFacts
<1>2. t > RequestAt /\ IInv /\ p \in Int /\ g \in Int /\ breach \in Nat
  <2>1. IInv
    BY DEF CourseInv, HonestInv
  <2>2. breach \in Nat
    BY <2>1 DEF IInv, TypeOK
  <2>3. p \in Int /\ g \in Int
    BY <2>1, TypeFacts
  <2>4. t > RequestAt
    BY <1>1
  <2> QED
    BY <2>1, <2>2, <2>3, <2>4
<1>3. Allowing => Allowed /\ ~Landing /\ p + g = Target
  BY <1>1, <1>2 DEF Allowing, Allowed
<1>4. p - Radius <= breach
  <2>1. Beyond(p) <= breach
    BY DEF CourseInv, Course, Deepest
  <2> QED
    BY <1>2, <2>1, BeyondLeast
<1>5. Bound = Target - Radius + Limit + ErrorBound + K - 1 /\ Open = Target - Radius + Limit + ErrorBound
      /\ 1 <= Open /\ Bound \in Nat /\ Open \in Nat /\ Most(Bound) = Bound /\ Most(Open) = Open
  <2>1. Bound = Target - Radius + Limit + ErrorBound + K - 1 /\ Open = Target - Radius + Limit + ErrorBound /\ 1 <= Open
    BY BoundIs DEF Sizes
  <2>2. Bound \in Nat /\ Open \in Nat
    BY <2>1
  <2> QED
    BY <2>1, <2>2 DEF Most
<1>6. setup.attacker = "A0" => Allowed /\ ~Landing /\ breach = 0 /\ p = Target
  BY <1>1, <1>2 DEF CourseInv, HonestInv, Undisturbed, Allowed
<1>7. Row("A1", "C1", "independent") => decision = "REFUSE" /\ breach = 0
  BY <1>2 DEF CourseInv, Course, Refused
<1>8. ASSUME Row("A1", "C2", "independent"), ~setup.sabotage
      PROVE  decision = "NONE" /\ land.at < RequestAt /\ breach = 0
  <2>1. LandedEarly
    BY <1>8 DEF CourseInv, Course
  <2>2. Landing
    BY <1>1, <2>1 DEF LandedEarly
  <2> QED
    BY <1>2, <2>1, <2>2 DEF LandedEarly
<1>9. ASSUME setup.attacker = "A2", setup.root = "independent"
      PROVE  Allowed /\ ~Landing /\ breach = Open - 1
  <2>1. Unseen
    BY <1>9 DEF CourseInv, Course
  <2>2. -g = Limit + ErrorBound - 1 /\ breach <= Open - 1
    BY <1>1, <2>1 DEF Unseen, Least
  <2> QED
    BY <1>2, <1>3, <1>4, <1>5, <2>1, <2>2 DEF Unseen
<1>10. ASSUME setup.attacker = "A3", setup.config = "C1" \/ setup.root = "common"
       PROVE  Allowed /\ ~Landing /\ breach > Bound
  <2>1. Unchecked
    BY <1>10 DEF CourseInv, Course
  <2>2. -g = End - RequestAt - 2
    BY <1>1, <2>1 DEF Unchecked, Ramp
  <2> QED
    BY <1>1, <1>2, <1>3, <1>4, <1>5, <2>1, <2>2 DEF Unchecked
<1>11. ASSUME Row("A3", "C2", "independent"), ~setup.sabotage
       PROVE  Allowed /\ Landing /\ breach = 0
  <2>1. Rescued
    BY <1>11 DEF CourseInv, Course
  <2>2. ASSUME ~Landing PROVE latch.over < K
    BY <1>2, <1>11, <2>2 DEF IInv, Claimed, Flying, Row, Latching
  <2>3. ASSUME ~Landing PROVE latch.over >= K
    <3>1. latch.over = Most(End - RequestAt - 2 - (Limit + ErrorBound))
      BY <2>1, <2>3 DEF Rescued
    <3> QED
      BY <1>1, <3>1 DEF Most
  <2>4. latch.over \in Nat
    BY <1>2 DEF IInv, TypeOK
  <2>5. Landing
    BY <2>2, <2>3, <2>4
  <2> QED
    BY <2>1, <2>5 DEF Rescued, Allowed
<1>12. ASSUME setup.attacker = "A4", Monitored
       PROVE  /\ setup.config = "C2" => breach = Bound
              /\ setup.config = "C2s" => breach = Open
              /\ setup.config = "C2g" => breach > Bound
  <2>1. Riding
    BY <1>12 DEF CourseInv, Course
  <2>2. ~Waiting
    <3>1. SUFFICES ASSUME Waiting PROVE FALSE
      OBVIOUS
    <3>2. Speed * (End - 1 - RequestAt) < Target
      BY <1>2, <3>1 DEF Waiting
    <3> QED
      BY <1>1, <3>2
  <2>3. ~Pushed
    <3>1. SUFFICES ASSUME Pushed PROVE FALSE
      OBVIOUS
    <3>2. PICK j \in 1..(K - 1) : Pressing(j)
      BY <3>1 DEF Pushed
    <3>3. Speed * (End - j - 1 - RequestAt) < Target
      BY <3>2 DEF Pressing
    <3>4. End - j - 1 - RequestAt < End - K - 1 - RequestAt
      BY <1>1, <3>3
    <3> QED
      BY <3>4
  <2>4. Landing /\ Ridden
    BY <2>1, <2>2, <2>3 DEF Riding
  <2>5. /\ setup.config = "C2s" => breach <= Open
        /\ setup.config = "C2" => breach <= Bound
    BY <1>2, <1>5, <1>12 DEF IInv, Corridor, Monitored
  <2>6. setup.config = "C2g" => breach > Bound
    <3> SUFFICES ASSUME setup.config = "C2g" PROVE breach > Bound
      OBVIOUS
    <3>1. land.at \in Int /\ land.at - K - RequestAt \in Int /\ Speed * (land.at - K - RequestAt) < Target
      BY <1>2, <2>4 DEF IInv, Ridden
    <3>2. land.at - K - RequestAt < End - K - 1 - RequestAt
      BY <1>1, <3>1
    <3>3. t > land.at + 1
      BY <3>1, <3>2
    <3> QED
      BY <2>4, <3>3 DEF Ridden
  <2> QED
    BY <1>2, <1>5, <2>4, <2>5, <2>6 DEF Ridden
<1>13. UnderClaim => breach <= Bound
  BY <1>2, <1>5 DEF UnderClaim, IInv, Corridor
<1> QED
  BY <1>6, <1>7, <1>8, <1>9, <1>10, <1>11, <1>12, <1>13

LEMMA RegisteredAtEnd == ASSUME Sizes, CourseInv, t = End, ~setup.sabotage PROVE Predicted
<1>1. \A c \in Configs : Row("A0", c, "independent") => Allowed /\ ~Landing /\ breach = 0 /\ p = Target
  BY Outcomes DEF Row
<1>2. Row("A1", "C1", "independent") => decision = "REFUSE" /\ breach = 0
  BY Outcomes
<1>3. Row("A1", "C2", "independent") => decision = "NONE" /\ land.at < RequestAt /\ breach = 0
  BY Outcomes
<1>4. Row("A2", "C1", "independent") \/ Row("A2", "C2", "independent") => Allowed /\ ~Landing /\ breach = Open - 1
  BY Outcomes DEF Row
<1>5. Row("A3", "C1", "independent") => Allowed /\ ~Landing /\ breach > Bound
  BY Outcomes DEF Row
<1>6. Row("A3", "C2", "independent") => Allowed /\ Landing /\ breach = 0
  BY Outcomes
<1>7. /\ Row("A4", "C2", "independent") => breach = Bound
      /\ Row("A4", "C2s", "independent") => breach = Open
      /\ Row("A4", "C2g", "independent") => breach > Bound
  BY Outcomes DEF Row, Monitored
<1>8. Row("A3", "C2", "common") => ~Landing /\ breach > Bound
  BY Outcomes DEF Row
<1>9. Row("any", "C2", "independent") => breach <= Bound
  BY Outcomes DEF Row, UnderClaim
<1> QED
  BY <1>1, <1>2, <1>3, <1>4, <1>5, <1>6, <1>7, <1>8, <1>9, Zenon DEF Predicted

LEMMA NotSaved == ASSUME setup.sabotage, Row("A3", "C2", "independent"), ~Landing PROVE ~Predicted
BY Zenon DEF Predicted

(* Every prediction of run_all (corridor_challenge.py), V14a to V14g, comes *)
(* true at the end of every episode of these sizes, the registered ones    *)
(* among them: the honest vehicle arrives, the early ramp is refused or    *)
(* landed before the request, the vehicle misled within the corridor is    *)
(* not landed, the naive ramp is landed inside the fence or flies out      *)
(* where nothing checks it, and the one that rides the limit reaches the   *)
(* bound exactly.  With --sabotage the row that landing saves differs, and *)
(* at no end is a program told that it broke the claim, nor is the exit    *)
(* code that of a break but after a traceback.                             *)
THEOREM RegisteredOutcome == ASSUME Sizes PROVE Spec => []AsRegistered
<1>1. CourseInv => AsRegistered
  <2> SUFFICES ASSUME CourseInv PROVE AsRegistered
    OBVIOUS
  <2>1. IInv
    BY DEF CourseInv, HonestInv
  <2>2. ClaimStands
    <3>1. Bound >= 0 /\ Bound \in Int
      <4>1. Bound = Target - Radius + Limit + ErrorBound + K - 1 /\ Open = Target - Radius + Limit + ErrorBound /\ 1 <= Open
        BY BoundIs DEF Sizes
      <4> QED
        BY <4>1
    <3> QED
      BY <2>1, <3>1, NotBroken
  <2>3. ASSUME t = End
        PROVE  IF setup.sabotage THEN ~Row("A3", "C2", "independent") \/ ~Predicted ELSE Predicted
    <3>1. setup.sabotage => ~Landing
      BY DEF CourseInv, Course
    <3> QED
      BY <2>3, <3>1, RegisteredAtEnd, NotSaved
  <2> QED
    BY <2>2, <2>3, Zenon DEF AsRegistered
<1> QED
  BY <1>1, InitCourse, CourseNext, PTL DEF Spec
---------------------------------------------------------------------------
(* The reference attackers keep to the rules they are held to, whatever    *)
(* becomes of the vehicle: their episodes are never ended early.           *)
Keeps ==
  /\ status = "OK"
  /\ setup.attacker = "A0" => g = 0
  /\ setup.attacker = "A1" => -g = Ramped(t)
  /\ setup.attacker = "A2" => -g = IF t = 0 THEN 0 ELSE Least(t - 1, Limit + ErrorBound - 1)
  /\ setup.attacker = "A3" => -g = IF Started THEN Ramp(t) ELSE 0
  /\ setup.attacker = "A4" => /\ g <= 0 /\ (~Started => g = 0)
                              /\ Started /\ ~Pushing => -g = Least(Ramp(t), Limit + ErrorBound)

KeepsInv == IInv /\ (setup.attacker \in Reference => Keeps)

LEMMA StartedFacts == ASSUME IInv PROVE Started <=> Allowed
BY TypeFacts DEF Started, Allowed

(* Each push is a move of one tick from the one before.                    *)
LEMMA PushMoves ==
  ASSUME IInv, Keeps, setup.attacker \in {"A1", "A2", "A3", "A4"}, 1 <= Slew, 1 <= Limit + ErrorBound
  PROVE  Push(setup.attacker) \in Nat /\ -Push(setup.attacker) \in Moves
<1>1. t \in Nat /\ g \in Int
  BY TypeFacts
<1>2. Started => t > RequestAt
  BY DEF Started
<1>3. ASSUME NEW q \in Nat, q + g \in 0..Slew PROVE -q \in Moves
  BY <1>1, <1>3 DEF Moves
<1>4. CASE setup.attacker = "A1"
  <2>1. Push("A1") \in Nat /\ Push("A1") + g \in 0..Slew
    BY <1>1, <1>4, Pushes DEF Keeps, Ramped, Least
  <2> QED
    BY <1>3, <1>4, <2>1
<1>5. CASE setup.attacker = "A2"
  <2>1. Push("A2") \in Nat /\ Push("A2") + g \in 0..Slew
    BY <1>1, <1>5, Pushes DEF Keeps, Least
  <2> QED
    BY <1>3, <1>5, <2>1
<1>6. CASE setup.attacker = "A3"
  <2>1. Push("A3") \in Nat /\ Push("A3") + g \in 0..Slew
    BY <1>1, <1>2, <1>6, Pushes DEF Keeps, Ramp
  <2> QED
    BY <1>3, <1>6, <2>1
<1>7. CASE setup.attacker = "A4" /\ Pushing
  <2>1. Push("A4") = Slew - g /\ g <= 0
    BY <1>7, Pushes DEF Keeps
  <2> QED
    BY <1>1, <1>3, <1>7, <2>1
<1>8. CASE setup.attacker = "A4" /\ ~Pushing
  <2>1. Push("A4") = IF Started THEN Least(t - RequestAt - 1, Limit + ErrorBound) ELSE 0
    BY <1>8, Pushes
  <2>2. IF Started THEN -g = Least(Ramp(t), Limit + ErrorBound) ELSE g = 0
    BY <1>8 DEF Keeps
  <2>3. Push("A4") \in Nat /\ Push("A4") + g \in 0..Slew
    BY <1>1, <1>2, <2>1, <2>2 DEF Ramp, Least
  <2> QED
    BY <1>3, <1>8, <2>3
<1> QED
  BY <1>4, <1>5, <1>6, <1>7, <1>8

LEMMA AlwaysAMove ==
  ASSUME IInv, Keeps, setup.attacker \in Reference, 1 <= Slew, 1 <= Limit + ErrorBound
  PROVE  Allowable # {}
<1>1. CASE setup.attacker = "A0"
  <2>1. 0 \in Moves /\ 0 \in Errs
    BY <1>1 DEF Keeps, Moves, Errs
  <2>2. Push("A0") = 0
    BY DEF Push
  <2>3. 0 \in Offsets
    <3>0. \A q \in Int : q >= 0 /\ q <= 0 => -q = q
      OBVIOUS
    <3>1. -Push("A0") = 0
      BY <2>2, <3>0
    <3> QED
      BY <1>1, <3>1, Zenon DEF Offsets
  <2>4. 0 \in Errors(0)
    BY <1>1, <2>1 DEF Errors
  <2>5. <<0, 0>> \in Allowable
    BY <2>1, <2>3, <2>4 DEF Allowable
  <2> QED
    BY <2>5
<1>2. CASE setup.attacker # "A0"
  <2>1. setup.attacker \in {"A1", "A2", "A3", "A4"}
    BY <1>2 DEF Reference
  <2>2. PICK q \in Int : q = -Push(setup.attacker) /\ q \in Moves /\ q <= 0
    BY <2>1, PushMoves
  <2>3. Aligned(q) \in Errs
    BY <2>2 DEF Aligned, Errs, Least
  <2>4. q \in Offsets /\ Aligned(q) \in Errors(q)
    BY <2>1, <2>2 DEF Offsets, Errors
  <2>5. <<q, Aligned(q)>> \in Allowable
    BY <2>2, <2>3, <2>4 DEF Allowable
  <2> QED
    BY <2>5
<1> QED
  BY <1>1, <1>2

LEMMA KeepsTurn ==
  ASSUME KeepsInv, setup.attacker \in Reference, Turning, 1 <= Slew, 1 <= Limit + ErrorBound
  PROVE  Keeps'
<1>1. PICK m \in Moves \X Errs : m[1] \in Offsets /\ Tick(m[1], m[2])
  BY DEF Turning, Allowable
<1>2. IInv /\ IInv' /\ Keeps /\ t \in Nat /\ g \in Int
  <2>1. m[1] \in Moves /\ m[2] \in Errs /\ IInv /\ Keeps
    BY DEF KeepsInv
  <2> QED
    BY <1>1, <2>1, TickStep, TypeFacts
<1>3. /\ t' = t + 1 /\ g' = m[1] /\ setup' = setup /\ status' = status
      /\ t # RequestAt => decision' = decision
      /\ land' = land \/ (~Landing /\ land' = [at |-> t, hold |-> p + m[1]])
  <2>1. \E snap : decision' = Decision(snap)
    BY <1>1 DEF Tick
  <2>2. t # RequestAt => decision' = decision
    BY <2>1 DEF Decision
  <2>3. land' = land \/ (~Landing /\ land' = [at |-> t, hold |-> p + m[1]])
    <3>1. \E mon : /\ land' = IF mon = "FAIL" /\ ~setup.sabotage THEN [at |-> t, hold |-> p + m[1]] ELSE land
                   /\ Landing => mon = "PASS"
      BY <1>1, Zenon DEF Tick
    <3> QED
      BY <3>1
  <2> QED
    BY <1>1, <2>2, <2>3 DEF Tick
<1>4. m[1] = -Push(setup.attacker)
  BY <1>1 DEF Offsets, Reference
<1>5. (Started <=> Allowed) /\ (Started' <=> decision' = "ALLOW") /\ (Started => t > RequestAt)
  BY <1>2, TypeFacts DEF Started, Allowed, IInv
<1>6. /\ t # RequestAt => (Started' <=> Started)
      /\ t = RequestAt => ~Started
  BY <1>2, <1>3, <1>5 DEF Allowed
<1>7. setup.attacker = "A0" => g' = 0
  <2>1. Push("A0") = 0
    BY DEF Push
  <2>2. \A q \in Int : q >= 0 /\ q <= 0 => -q = q
    OBVIOUS
  <2>3. -Push("A0") = 0
    BY <2>1, <2>2
  <2> QED
    BY <1>3, <1>4, <2>3, Zenon
<1>8. setup.attacker = "A1" => -g' = Ramped(t')
  BY <1>2, <1>3, <1>4, Pushes DEF Ramped, Least
<1>9. setup.attacker = "A2" => -g' = IF t' = 0 THEN 0 ELSE Least(t' - 1, Limit + ErrorBound - 1)
  BY <1>2, <1>3, <1>4, Pushes DEF Least
<1>10. setup.attacker = "A3" => -g' = IF Started' THEN Ramp(t') ELSE 0
  BY <1>2, <1>3, <1>4, <1>5, <1>6, Pushes DEF Ramp
<1>11. ASSUME setup.attacker = "A4"
       PROVE  /\ g' <= 0 /\ (~Started' => g' = 0)
              /\ Started' /\ ~Pushing' => -g' = Least(Ramp(t'), Limit + ErrorBound)
  <2>1. g' = -Push("A4") /\ Push("A4") \in Nat
    BY <1>2, <1>3, <1>4, <1>11, PushMoves
  <2>2. Push("A4") = IF Pushing THEN Slew - g ELSE IF Started THEN Least(t - RequestAt - 1, Limit + ErrorBound) ELSE 0
    BY Pushes
  <2>3. Pushing => Started
    BY DEF Pushing
  <2>4. ASSUME Pushing PROVE Pushing'
    <3> DEFINE from == (IF Landing THEN land.at ELSE t) - RequestAt
               to   == (IF Landing' THEN land'.at ELSE t') - RequestAt
    <3>1. from \in Int /\ to \in Int /\ from <= to
      <4>1. CASE Landing
        <5>1. land' = land /\ Landing' /\ land.at \in Int
          BY <1>2, <1>3, <4>1 DEF Landing, NotYet, IInv
        <5> QED
          BY <4>1, <5>1
      <4>2. CASE ~Landing
        <5>1. Landing' => land'.at = t
          BY <1>3, <4>2 DEF Landing, NotYet
        <5> QED
          BY <1>2, <1>3, <4>2, <5>1
      <4> QED
        BY <4>1, <4>2
    <3>2. Target <= Speed * from /\ Started
      BY <2>4 DEF Pushing
    <3>3. Started'
      BY <1>6, <3>2
    <3> HIDE DEF from, to
    <3>4. Target <= Speed * to
      BY <3>1, <3>2, SpeedMonotone
    <3> QED
      BY <3>3, <3>4 DEF Pushing, to, Landing, NotYet
  <2>5. ~Started' => ~Started
    BY <1>6
  <2>6. ~Started' => g' = 0
    <3>1. \A q \in Int : q >= 0 /\ q <= 0 => -q = q
      OBVIOUS
    <3> QED
      BY <2>1, <2>2, <2>3, <2>5, <3>1
  <2>7. Started' /\ ~Pushing' => -g' = Least(Ramp(t'), Limit + ErrorBound)
    BY <1>2, <1>3, <1>5, <1>6, <2>1, <2>2, <2>4 DEF Ramp, Least
  <2>8. g' <= 0
    BY <2>1
  <2> QED
    BY <2>6, <2>7, <2>8
<1>12. Keeps' <=>
         /\ status' = "OK"
         /\ setup'.attacker = "A0" => g' = 0
         /\ setup'.attacker = "A1" => -g' = Ramped(t')
         /\ setup'.attacker = "A2" => -g' = IF t' = 0 THEN 0 ELSE Least(t' - 1, Limit + ErrorBound - 1)
         /\ setup'.attacker = "A3" => -g' = IF Started' THEN Ramp(t') ELSE 0
         /\ setup'.attacker = "A4" => /\ g' <= 0 /\ (~Started' => g' = 0)
                                      /\ Started' /\ ~Pushing' => -g' = Least(Ramp(t'), Limit + ErrorBound)
  BY DEF Keeps, Ramped, Ramp, Least
<1> QED
  BY <1>2, <1>3, <1>7, <1>8, <1>9, <1>10, <1>11, <1>12 DEF Keeps

(* The registered attackers keep to the moves check_move allows, at every  *)
(* tick of every configuration, landed or not: no row of run_all is        *)
(* OUT OF MODEL, so each of them reaches the end its prediction is about.  *)
THEOREM ReferencesKeepTheRules ==
  ASSUME 1 <= Slew, 1 <= Limit + ErrorBound
  PROVE  Spec => [](setup.attacker \in Reference => status = "OK")
<1>1. Init => KeepsInv
  <2> SUFFICES ASSUME Init PROVE Keeps
    BY InitIInv DEF KeepsInv
  <2>1. t = 0 /\ g = 0 /\ status = "OK" /\ ~Started
    BY DEF Init, Started
  <2>2. -g = 0
    BY NoOffset
  <2> QED
    BY <2>1, <2>2 DEF Keeps, Ramped
<1>2. KeepsInv /\ [Next]_vars => KeepsInv'
  <2> SUFFICES ASSUME KeepsInv, [Next]_vars, setup'.attacker \in Reference PROVE Keeps'
    BY NextStep DEF KeepsInv
  <2>1. CASE Turning
    <3>1. setup' = setup
      BY <2>1 DEF Turning, Tick
    <3> QED
      BY <2>1, <3>1, KeepsTurn
  <2>2. CASE OutOfModel \/ Uncaught
    <3>1. setup' = setup /\ (setup.attacker = "any" \/ Allowable = {})
      BY <2>2 DEF OutOfModel, Uncaught, EndsEarly
    <3>2. setup.attacker \in Reference /\ setup.attacker # "any"
      BY <3>1 DEF Reference
    <3> QED
      BY <3>1, <3>2, AlwaysAMove DEF KeepsInv
  <2>3. CASE UNCHANGED vars
    BY <2>3 DEF vars, KeepsInv, Keeps, Ramped, Ramp, Least, Started, Pushing, Landing
  <2> QED
    BY <2>1, <2>2, <2>3 DEF Next, Turning
<1>3. KeepsInv => (setup.attacker \in Reference => status = "OK")
  BY DEF KeepsInv, Keeps
<1> QED
  BY <1>1, <1>2, <1>3, PTL DEF Spec
---------------------------------------------------------------------------
(* The decisions about recovery are a finite table.                        *)
Agreeing == {"0", "3", "4", "5", "3f", "4f", "5f"}

Truth     == Message("truth", "now", "independent")
Past      == Message("past", "before", "independent")
Echo      == Message("A", "now", "gnss-derived")
Relabelled == [Past EXCEPT !.observed = "now", !.mac = FALSE]

LEMMA MessageFacts ==
  /\ NoMessage.says = "nothing"
  /\ Truth.says = "truth" /\ Truth.observed = "now" /\ Truth.root = "independent" /\ Truth.mac = TRUE
     /\ Truth.seq = 131 /\ Truth.nonce = "this" /\ Truth # NoMessage
  /\ Past.says = "past" /\ Past.observed = "before" /\ Past.root = "independent" /\ Past.mac = TRUE
     /\ Past.seq = 100 /\ Past.nonce = "old" /\ Past # NoMessage
  /\ Echo.says = "A" /\ Echo.observed = "now" /\ Echo.root = "gnss-derived" /\ Echo.mac = TRUE
     /\ Echo.seq = 131 /\ Echo.nonce = "this" /\ Echo # NoMessage
  /\ Relabelled.observed = "now" /\ Relabelled.mac = FALSE /\ Relabelled.seq = 100 /\ Relabelled.nonce = "old"
     /\ Relabelled # NoMessage
<1>1. NoMessage.says = "nothing"
  BY DEF NoMessage
<1>2. /\ Truth.says = "truth" /\ Truth.observed = "now" /\ Truth.root = "independent" /\ Truth.mac = TRUE
      /\ Truth.seq = 131 /\ Truth.nonce = "this"
  BY DEF Truth, Message
<1>3. /\ Past.says = "past" /\ Past.observed = "before" /\ Past.root = "independent" /\ Past.mac = TRUE
      /\ Past.seq = 100 /\ Past.nonce = "old"
  BY DEF Past, Message
<1>4. /\ Echo.says = "A" /\ Echo.observed = "now" /\ Echo.root = "gnss-derived" /\ Echo.mac = TRUE
      /\ Echo.seq = 131 /\ Echo.nonce = "this"
  BY DEF Echo, Message
<1>5. /\ Relabelled.observed = "now" /\ Relabelled.mac = FALSE /\ Relabelled.seq = 100 /\ Relabelled.nonce = "old"
      /\ Relabelled.says = "past"
  BY DEF Relabelled, Past, Message
<1> QED
  BY <1>1, <1>2, <1>3, <1>4, <1>5

LEMMA HonestFacts ==
  /\ Honest("1") = NoMessage /\ Honest("6") = NoMessage
  /\ Honest("0") = Truth /\ Honest("2") = Truth
  /\ Honest("3") = Past /\ Honest("3f") = Past /\ Honest("7") = Past /\ Honest("5") = Past /\ Honest("5f") = Past
  /\ Honest("4") = Echo /\ Honest("4f") = Echo
BY DEF Honest, Truth, Past, Echo

LEMMA GapFacts == \A c \in Cases : Gap(c) = "within" <=> c \in Agreeing
<1> SUFFICES ASSUME NEW c \in Cases PROVE Gap(c) = "within" <=> c \in Agreeing
  OBVIOUS
<1> DEFINE says == Honest(c).says
<1>1. /\ c \in {"1", "6"} => says = "nothing"
      /\ c \in {"0", "2"} => says = "truth"
      /\ c \in {"3", "3f", "7", "5", "5f"} => says = "past"
      /\ c \in {"4", "4f"} => says = "A"
  BY HonestFacts, MessageFacts
<1>2. SpoofedA(c) <=> c \notin {"0", "6", "7"}
  BY DEF SpoofedA
<1> QED
  BY <1>1, <1>2 DEF Gap, Cases, Agreeing

LEMMA CheckFacts ==
  ASSUME NEW c \in Cases
  PROVE  /\ Check("goto", c) = "PASS" <=> c \in Agreeing
         /\ Check("rtl", c) = "PASS" <=> c \in Agreeing
         /\ Check("land", c) = "PASS"
<1> DEFINE snap == BuildCase(c)
<1>1. snap.fix = "good" /\ snap.sats = "good" /\ snap.ekf = {"absolute"} /\ snap.battery = "good"
      /\ snap.here = "within" /\ (snap.gap = "within" <=> c \in Agreeing)
  BY GapFacts DEF BuildCase, Healthy
<1> HIDE DEF snap
<1>2. ASSUME NEW a \in {"goto", "rtl"}
      PROVE  Failures(Request(a, "good", "within", TRUE), snap) = IF c \in Agreeing THEN {} ELSE {"gap"}
  <2> DEFINE req == Request(a, "good", "within", TRUE)
  <2>1. req.action = a /\ req.cross = TRUE /\ (a = "goto" => req.alt = "good" /\ req.there = "within")
    BY DEF Request, Movement
  <2> HIDE DEF req
  <2>2. Navigation(req, snap) = IF c \in Agreeing THEN {} ELSE {"gap"}
    BY <1>1, <2>1 DEF Navigation
  <2>3. a = "goto" => Space(req, snap) = {}
    BY <1>1, <2>1 DEF Space
  <2> QED
    BY <1>1, <2>1, <2>2, <2>3 DEF Failures, Movement, req
<1>3. Failures(Request("land", "good", "within", TRUE), snap) = {}
  BY DEF Failures, Request, Movement
<1> QED
  BY <1>2, <1>3 DEF Check, Verdict, snap

(* What the rules on the message see.                                      *)
LEMMA ArrivedFacts ==
  /\ Arrived("1") = NoMessage /\ Arrived("6") = NoMessage
  /\ \A c \in Cases \ {"1", "6"} :
       /\ Arrived(c) # NoMessage
       /\ Arrived(c).observed = "now" <=> c \in {"0", "2", "4", "3f", "4f", "5f"}
       /\ Arrived(c).mac <=> c \notin {"3f", "5f"}
       /\ Arrived(c).nonce = "this" <=> c \in {"0", "2", "4", "4f"}
       /\ Arrived(c).seq > LastAccepted
       /\ DeclaredRoot(c) = "independent" <=> c # "4"
<1>1. Arrived("1") = NoMessage /\ Arrived("6") = NoMessage
  BY HonestFacts DEF Arrived
<1> DEFINE Seen(c) ==
       /\ Arrived(c) # NoMessage
       /\ Arrived(c).observed = "now" <=> c \in {"0", "2", "4", "3f", "4f", "5f"}
       /\ Arrived(c).mac <=> c \notin {"3f", "5f"}
       /\ Arrived(c).nonce = "this" <=> c \in {"0", "2", "4", "4f"}
       /\ Arrived(c).seq > LastAccepted
       /\ DeclaredRoot(c) = "independent" <=> c # "4"
<1>2. ASSUME NEW c \in {"0", "2"} PROVE Seen(c)
  <2>1. Arrived(c) = Truth /\ DeclaredRoot(c) = "independent"
    BY HonestFacts, MessageFacts DEF Arrived, DeclaredRoot
  <2> QED
    BY <2>1, MessageFacts DEF LastAccepted
<1>3. ASSUME NEW c \in {"3", "7", "5"} PROVE Seen(c)
  <2>1. Arrived(c) = Past /\ DeclaredRoot(c) = "independent"
    BY HonestFacts, MessageFacts DEF Arrived, DeclaredRoot
  <2> QED
    BY <2>1, MessageFacts DEF LastAccepted
<1>4. ASSUME NEW c \in {"3f", "5f"} PROVE Seen(c)
  <2>1. Arrived(c) = Relabelled /\ DeclaredRoot(c) = "independent"
    <3>1. Honest(c) = Past
      BY HonestFacts
    <3> QED
      BY <3>1, MessageFacts DEF Arrived, DeclaredRoot, Relabelled
  <2> QED
    BY <2>1, MessageFacts DEF LastAccepted
<1>5. ASSUME NEW c \in {"4", "4f"} PROVE Seen(c)
  <2>1. Arrived(c) = Echo /\ DeclaredRoot(c) = (IF c = "4f" THEN "independent" ELSE "gnss-derived")
    BY HonestFacts, MessageFacts DEF Arrived, DeclaredRoot
  <2> QED
    BY <2>1, MessageFacts DEF LastAccepted
<1> QED
  BY <1>1, <1>2, <1>3, <1>4, <1>5 DEF Cases

Decided0(a, c) == IF a = "land_nohold" THEN "NOT EXPRESSIBLE"
                  ELSE IF a = "land_hold" \/ c \in Agreeing THEN "ALLOW" ELSE "REFUSE"
Decided(a, c, accepted) == IF a = "land_nohold" \/ c \in accepted THEN "ALLOW" ELSE "REFUSE"

LEMMA PolicyFacts ==
  \A a \in Actions : \A c \in Cases :
    /\ P0(a, c) = Decided0(a, c)
    /\ P1(a, c) = Decided(a, c, {"0", "3f", "4f", "5f"})
    /\ P2(a, c, FALSE) = Decided(a, c, {"0", "4", "4f"})
    /\ P2(a, c, TRUE) = Decided(a, c, {"0", "3", "4", "5", "4f"})
<1> SUFFICES ASSUME NEW a \in Actions, NEW c \in Cases
             PROVE  /\ P0(a, c) = Decided0(a, c)
                    /\ P1(a, c) = Decided(a, c, {"0", "3f", "4f", "5f"})
                    /\ P2(a, c, FALSE) = Decided(a, c, {"0", "4", "4f"})
                    /\ P2(a, c, TRUE) = Decided(a, c, {"0", "3", "4", "5", "4f"})
  OBVIOUS
<1>1. a # "land_nohold" => (NavCheck(a, c) <=> c \in Agreeing)
  BY CheckFacts DEF NavCheck, Actions
<1>2. P0(a, c) = IF a = "land_nohold" THEN "NOT EXPRESSIBLE"
                 ELSE IF a = "land_hold" \/ c \in Agreeing THEN "ALLOW" ELSE "REFUSE"
  BY CheckFacts DEF P0, Gated, Actions
<1>3. CASE a = "land_nohold"
  BY <1>2, <1>3 DEF P1, P2, Gated, Decided0, Decided
<1>4. CASE a # "land_nohold" /\ c \notin Agreeing
  BY <1>1, <1>2, <1>4 DEF P1, P2, Gated, Agreeing, Decided0, Decided
<1>5. CASE a # "land_nohold" /\ c \in Agreeing
  <2>1. c \in Cases \ {"1", "6"}
    BY <1>5 DEF Agreeing
  <2>2. /\ Arrived(c) # NoMessage
        /\ Arrived(c).observed = "now" <=> c \in {"0", "4", "3f", "4f", "5f"}
        /\ Arrived(c).mac <=> c \notin {"3f", "5f"}
        /\ Arrived(c).nonce = "this" <=> c \in {"0", "4", "4f"}
        /\ Arrived(c).seq > LastAccepted
        /\ DeclaredRoot(c) = "independent" <=> c # "4"
    BY <1>5, <2>1, ArrivedFacts DEF Agreeing
  <2>3. (Arrived(c).observed = "now" /\ DeclaredRoot(c) = "independent") <=> c \in {"0", "3f", "4f", "5f"}
    BY <2>2
  <2>4. P1(a, c) = IF c \in {"0", "3f", "4f", "5f"} THEN "ALLOW" ELSE "REFUSE"
    BY <1>1, <1>5, <2>2, <2>3 DEF P1, Gated
  <2>5. Authentic(Arrived(c), FALSE) <=> c \in {"0", "4", "4f"}
    BY <2>2 DEF Authentic
  <2>6. Authentic(Arrived(c), TRUE) <=> c \notin {"3f", "5f"}
    BY <2>2 DEF Authentic
  <2>7. P2(a, c, FALSE) = IF c \in {"0", "4", "4f"} THEN "ALLOW" ELSE "REFUSE"
    BY <1>1, <1>5, <2>5 DEF P2, Gated
  <2>8. P2(a, c, TRUE) = IF c \in {"0", "3", "4", "5", "4f"} THEN "ALLOW" ELSE "REFUSE"
    BY <1>1, <1>5, <2>6 DEF P2, Gated, Agreeing
  <2> QED
    BY <1>2, <1>5, <2>4, <2>7, <2>8 DEF Decided0, Decided
<1> QED
  BY <1>3, <1>4, <1>5

LEMMA TableHolds == Predictions(Table(FALSE))
<1> DEFINE table == Table(FALSE)
<1>1. \A a \in Actions : \A c \in Cases :
        table.P0[a][c] = P0(a, c) /\ table.P1[a][c] = P1(a, c) /\ table.P2[a][c] = P2(a, c, FALSE)
  BY DEF Table
<1> HIDE DEF table
<1>2. ASSUME NEW c \in Cases
      PROVE  /\ table.P0["rtl"][c] = "ALLOW" <=> c \in {"0", "3", "4", "5", "3f", "4f", "5f"}
             /\ table.P0["land_hold"][c] = "ALLOW" /\ table.P0["land_nohold"][c] = "NOT EXPRESSIBLE"
  <2>1. "rtl" \in Actions /\ "land_hold" \in Actions /\ "land_nohold" \in Actions
    BY DEF Actions
  <2>2. /\ P0("rtl", c) = IF c \in Agreeing THEN "ALLOW" ELSE "REFUSE"
        /\ P0("land_hold", c) = "ALLOW" /\ P0("land_nohold", c) = "NOT EXPRESSIBLE"
    BY <2>1, PolicyFacts DEF Decided0
  <2> QED
    BY <1>1, <2>1, <2>2 DEF Agreeing
<1>3. ASSUME NEW a \in Actions PROVE table.P0[a]["1"] = table.P0[a]["6"]
  <2>1. "1" \in Cases /\ "6" \in Cases /\ "1" \notin Agreeing /\ "6" \notin Agreeing
    BY DEF Cases, Agreeing
  <2>2. P0(a, "1") = P0(a, "6")
    <3>1. P0(a, "1") = Decided0(a, "1") /\ P0(a, "6") = Decided0(a, "6")
      BY <2>1, PolicyFacts
    <3> QED
      BY <2>1, <3>1 DEF Decided0
  <2> QED
    BY <1>1, <2>1, <2>2
<1>4. ASSUME NEW a \in Actions, NEW c \in Cases
      PROVE  /\ table.P1[a][c] = IF c \in {"3f", "4f", "5f"} THEN "ALLOW" ELSE Justified(a, c)
             /\ table.P2[a][c] = IF c \in {"4", "4f"} THEN "ALLOW" ELSE Justified(a, c)
  <2>1. /\ table.P1[a][c] = Decided(a, c, {"0", "3f", "4f", "5f"})
        /\ table.P2[a][c] = Decided(a, c, {"0", "4", "4f"})
    BY <1>1, PolicyFacts
  <2> QED
    BY <2>1 DEF Justified, Decided
<1>5. /\ \A c \in Cases : table.P0["rtl"][c] = "ALLOW" <=> c \in {"0", "3", "4", "5", "3f", "4f", "5f"}
      /\ \A c \in Cases : table.P0["land_hold"][c] = "ALLOW" /\ table.P0["land_nohold"][c] = "NOT EXPRESSIBLE"
  BY <1>2
<1>6. \A a \in Actions : table.P0[a]["1"] = table.P0[a]["6"]
  BY <1>3
<1>7. \A a \in Actions : \A c \in Cases :
        table.P1[a][c] = IF c \in {"3f", "4f", "5f"} THEN "ALLOW" ELSE Justified(a, c)
  BY <1>4
<1>8. \A a \in Actions : \A c \in Cases :
        table.P2[a][c] = IF c \in {"4", "4f"} THEN "ALLOW" ELSE Justified(a, c)
  BY <1>4
<1>9. Predictions(table)
  BY <1>5, <1>6, <1>7, <1>8 DEF Predictions
<1> QED
  BY <1>9 DEF table

(* With --sabotage a replayed message sends the vehicle home.              *)
LEMMA TableSabotaged == ~Predictions(Table(TRUE))
<1>1. Table(TRUE).P2["goto"]["3"] = P2("goto", "3", TRUE) /\ "goto" \in Actions /\ "3" \in Cases
  BY DEF Table, Actions, Cases
<1>2. P2("goto", "3", TRUE) = "ALLOW" /\ Justified("goto", "3") = "REFUSE"
  BY <1>1, PolicyFacts DEF Justified, Decided
<1> DEFINE table == Table(TRUE)
<1>3. table.P2["goto"]["3"] # Justified("goto", "3")
  BY <1>1, <1>2
<1> HIDE DEF table
<1>4. SUFFICES ASSUME Predictions(table) PROVE FALSE
  BY DEF table
<1>5. \A a \in Actions : \A c \in Cases :
        table.P2[a][c] = IF c \in {"4", "4f"} THEN "ALLOW" ELSE Justified(a, c)
  BY <1>4 DEF Predictions
<1> QED
  BY <1>1, <1>3, <1>5

(* The registered table of recovery_admissibility.py comes out of the code *)
(* (V15), and does not once the nonce is not looked at.                    *)
THEOREM RecoveryTable == Spec => []RecoveryAdmissible
<1>1. RecoveryAdmissible
  BY TableHolds, TableSabotaged DEF RecoveryAdmissible, Admissible
<1> QED
  BY <1>1, PTL
===============================================================================
