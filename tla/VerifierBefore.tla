---------------------------- MODULE VerifierBefore ----------------------------
(***************************************************************************)
(* The verifier and the vehicle check as issue 5 found them, kept beside   *)
(* the packages that issue reports (evidence/attacks/issue-005/): a NaN is *)
(* below no limit and above none, so a reading that is no number passed    *)
(* every rule.  Here they judge the packages today's verifier judges.      *)
(***************************************************************************)
EXTENDS PackageVerifier

(* A reading that is no finite number failed nothing.                      *)
FailuresBefore(req, snap) ==
  LET low(r)    == snap[r] \in {"low", "unknown"}
      beyond(x) == x = "beyond"
      nav == {r \in {"fix", "sats"} : low(r)}
             \cup (IF "uninitialized" \in snap.ekf \/ "absolute" \notin snap.ekf THEN {"ekf position"} ELSE {})
             \cup (snap.ekf \cap {"glitch"})
             \cup (IF req.cross /\ snap.gap \in {"absent", "beyond"} THEN {"gap"} ELSE {})
      space == (IF req.alt # "good" THEN {"altitude"} ELSE {})
               \cup (IF beyond(snap.here) THEN {"here"} ELSE {})
               \cup (IF req.action = "goto" /\ beyond(req.there) THEN {"target"} ELSE {})
  IN  CASE req.action \in Movement -> space \cup nav \cup (IF low("battery") THEN {"battery"} ELSE {})
        [] req.action = "rtl" -> nav
        [] OTHER -> {}

VerdictBefore(req, snap) == IF FailuresBefore(req, snap) = {} THEN "PASS" ELSE "FAIL"

(* An integer that no double holds stopped the verifier where a distance   *)
(* is computed from it.                                                    *)
StopsBefore(d) ==
  /\ d.kind = "vehicle" /\ d.request.action \in Movement \cup {"rtl"}
  /\ \/ d.request.action # "rtl" /\ "nonfinite" \in {d.telemetry.here, d.request.there}
     \/ d.request.cross /\ d.telemetry.gap = "nonfinite"

(* What the fixes left as it is, in the words of that file: which keys a   *)
(* package may have, the gate, the zones, the states, and the replies of a *)
(* model and of a companion.                                               *)
ClosedBefore(d)    == d.schema = "v0" /\ d.closed /\ MeasurementClosed(d) /\ d.contract = "absent"
GateBefore(d)      == Replay(d.input) = d.top
ThermalBefore(d)   == ThermalStatusDerived(d)
StatesBefore(d)    == EvidenceStates(d) /\ NotOverclaimed(d)
ModelBefore(d)     == d.reading \in ModelKinds.reading /\ "output" \notin d.stale /\ d.check = ModelRechecked(d)
CompanionBefore(d) ==
  d.reading \in CompanionKinds.reading \ {"not a record"} /\ "output" \notin d.stale /\ d.check = CompanionRechecked(d)
VehicleBefore(d) ==
  d.reading = "snapshot" /\ d.given \in VehicleKinds.given /\ "output" \notin d.stale /\ d.check = VerdictBefore(d.request, d.telemetry)

(* Any number of rounds was run.                                           *)
RecomputedBefore(d, recordedOnly) ==
  CASE d.kind = "chain" -> d.given \in ChainKinds.given /\ d.reading = "output"
    [] d.kind = "model" -> ModelBefore(d)
    [] d.kind = "companion" -> CompanionBefore(d)
    [] d.kind = "vehicle" -> VehicleBefore(d)
    [] OTHER -> recordedOnly

(* A count of failed probes that is below zero, or NaN, is not above zero: *)
(* none had failed.                                                        *)
ProvenanceBefore(d) ==
  IF d.counts = "malformed" THEN d.validation = "VALIDATED" ELSE VerifierProvenance(d)

(* The commands sent were not compared with the authorized ones.           *)
EffectBoundBefore(d) ==
  IF d.kind # "vehicle" THEN EffectBound(d)
  ELSE /\ d.input.status = d.check /\ d.act = "as given"
       /\ d.effect # "none" => d.top.decision = "ALLOW" /\ d.exec \in {"SUCCEEDED", "FAILED"}
       /\ d.outcome <=> d.exec = "SUCCEEDED"

ConsistentBefore(d, recordedOnly) ==
  /\ Digests(d) /\ d.form # "no object" /\ ClosedBefore(d)
  /\ ~StopsBefore(d) /\ RecomputedBefore(d, recordedOnly) /\ d.said = d.top
  /\ ~d.bound /\ ProvenanceBefore(d)
  /\ ThermalBefore(d) /\ StatesBefore(d)
  /\ EffectBoundBefore(d) /\ ModelFileNamed(d) /\ ExecutionOnlyIfAllowed(d)
  /\ GateBefore(d)

(* A log with an entry written another way than the one canonical one was  *)
(* read all the same; and a package that is no object, or nested deeper    *)
(* than the stack is, ended the verifier with a traceback, whose exit code *)
(* is that of a check that failed.                                         *)
WitnessedBefore(ask) == ask.witness \in {"latest", "latest, loosely written"}
SignedBefore(ask)    == ask.signature = "valid"
ExitBefore(d, ask) ==
  IF ask.signature = "half asked" \/ ask.witness = "no log named" THEN 2
  ELSE IF d.form = "no object" THEN 1
  ELSE IF StopsBefore(d) \/ ask.signature = "unavailable" \/ ask.witness = "unreadable" THEN 2
  ELSE IF /\ ask.signature = "not asked" \/ SignedBefore(ask)
          /\ ask.witness = "not asked" \/ WitnessedBefore(ask)
          /\ ConsistentBefore(d, ask.recordedOnly)
         THEN 0 ELSE 1

NonFinite(d) ==
  \/ d.form = "not finite"
  \/ d.kind = "companion" /\ d.reading = "not JSON"
  \/ d.kind = "vehicle" /\ \/ d.given = "no limits" \/ "nonfinite" \in {d.request.alt, d.request.there}
                           \/ \E r \in {"fix", "sats", "battery", "here", "gap"} : d.telemetry[r] = "nonfinite"

---------------------------------------------------------------------------
(* The tool as it was, in the same words: no vehicle, no package; it asks  *)
(* the Gate with the check's verdict, sends what it is allowed to send and *)
(* writes what was sent.                                                   *)
NoVehicleBefore == run.backend = "mavlink" /\ run.link = "silent"
PreparedBefore ==
  Asking(VerdictBefore(run.request, run.telemetry),
         IF run.request.action \in {"takeoff", "goto", "land", "rtl"} THEN "listed" ELSE "other", ThermalOf)
SentBefore ==
  IF run.backend = "mavlink" /\ run.request.action = "takeoff" /\ run.ends = "never armed" THEN "arming only" ELSE "as asked"
WrittenBefore ==
  LET asked == Packaged(PreparedBefore)
      gate  == Replay(asked)
      ran   == gate.decision = "ALLOW"
      state == IF run.source = "measured" THEN "DERIVED" ELSE "OPERATOR"
  IN  [doc EXCEPT !.input = asked, !.top = gate, !.said = gate, !.check = VerdictBefore(run.request, run.telemetry),
                  !.exec = IF ran THEN "SUCCEEDED" ELSE "none", !.effect = IF ran THEN SentBefore ELSE "none",
                  !.outcome = ran, !.tag = state, !.line = state]

(* What its stand-in for a vehicle reports, in each scenario and with or   *)
(* without an independent position, and its check's own probe.             *)
StandIn ==
  LET seen(s, gap) == {s, [s EXCEPT !.gap = gap]}
      air == [Healthy EXCEPT !.gap = "absent"]
  IN  seen(air, "within") \cup seen(air, "beyond") \cup seen([air EXCEPT !.battery = "low"], "within")
      \cup seen([air EXCEPT !.fix = "low", !.sats = "low", !.ekf = {"uninitialized"}], "within")
      \cup seen([air EXCEPT !.here = "beyond"], "within")
SaysTheSame ==
  /\ \A snap \in StandIn, req \in SomeRequests : VerdictBefore(req, snap) = Verdict(req, snap)
  /\ \A cross \in BOOLEAN : LET probe == Request("goto", "good", "within", cross) IN
       VerdictBefore(probe, Healthy) = "PASS" /\ VerdictBefore(probe, [Healthy EXCEPT !.fix = "low"]) = "FAIL"

(* A vehicle reports integers: of what the tool itself reads, the check    *)
(* said then what it says now, and an honest run of either tool writes the *)
(* same package.                                                           *)
ToolUnchanged ==
  /\ SaysTheSame
  /\ stage = "final" /\ run.tool = "vehicle" /\ edited = {} => ~NoVehicleBefore /\ doc = WrittenBefore

(* The fixes since (issue 5, NONFINITE_PROBE.md, DK_PREREG.md, SV-FIX-001) *)
(* only refuse more, and only what they name: a package that was           *)
(* consistent and is no longer has a value that is no number, counts that  *)
(* are none, rounds that are not run, a key given twice or values nested   *)
(* too deep, commands other than those authorized, or a witness log that   *)
(* is not canonical; and one that has become consistent reports such a     *)
(* value as failed and moved nothing.  What the tool writes has not        *)
(* changed.                                                                *)
FixOnlyTightens ==
  /\ ToolUnchanged
  /\ stage = "final" =>
      LET d == [doc EXCEPT !.schema = "v0", !.contract = "absent"]
      IN  Consistent(d, TRUE, TRUE) \/ ConsistentBefore(d, TRUE) => \A ask \in Asks : ask.legacy =>
            LET before == ExitBefore(d, ask)
                now    == ExitCode(d, ask)
            IN  /\ before = 0 /\ now # 0 =>
                     \/ NonFinite(d) \/ ~MaxDepth(d) \/ ~NoDuplicateKeys(d) \/ d.counts = "malformed"
                     \/ d.kind = "chain" /\ d.given \in {"no rounds", "too many rounds"}
                     \/ d.kind = "vehicle" /\ d.top.decision = "ALLOW" /\ ~SentAuthorized(d)
                     \/ ask.witness = "latest, loosely written"
                /\ now = 0 /\ before # 0 => NonFinite(d) /\ d.check = "FAIL" /\ d.effect = "none" /\ d.exec = "none"
===============================================================================
