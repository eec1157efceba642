---------------------------- MODULE PackageVerifier ----------------------------
(***************************************************************************)
(* verify() of verify_package.py: the checks of a package, and what a      *)
(* package that passes them shows.  The rules of the producers are written *)
(* again here, as the program does.                                        *)
(***************************************************************************)
EXTENDS Package

(* A number that is not finite is not JSON, a key may not be given twice,  *)
(* and nothing nests deeper than a limit: such a file is not looked at.    *)
MaxDepth(d) == d.form # "deep"
NoDuplicateKeys(d) == d.form # "repeated"
NoNonFinite(d) == d.form # "not finite" /\ ~(d.kind = "vehicle" /\ d.request.alt = "nonfinite")
Unreadable(d) == ~MaxDepth(d) \/ ~NoDuplicateKeys(d) \/ ~NoNonFinite(d) \/ d.form = "no object"

ContractBinding(d, legacy) ==
  CASE d.schema = "v1" -> d.contract = "trusted" [] d.schema = "v0" -> legacy [] OTHER -> TRUE

(* A contract is a key of sv.package/1 only, what was sent or written is   *)
(* none of a chain's, and an outcome is one of a flight's.                 *)
MeasurementClosed(d) ==
  /\ d.kind = "chain" => d.effect = "none"
  /\ d.kind \in {"chain", "model", "companion"} => ~d.outcome
SchemaClosed(d) == d.closed /\ MeasurementClosed(d) /\ (d.schema = "v0" => d.contract = "absent")

(* The checks of the producers, written again.                             *)
ModelRechecked(d) == IF d.reading = "right" THEN "PASS" ELSE "FAIL"

CompanionRechecked(d) ==
  CASE d.reading = "deterministic" -> "PASS" [] d.reading = "cached" -> "PASS" [] d.reading = "not JSON" -> "PASS"
    [] d.reading \in {"conflict", "large model"} -> "INSUFFICIENT_EVIDENCE"
    [] d.reading = "no strings" -> "FAIL"

VehicleProblems(req, snap) ==
  LET moves     == req.action \in {"takeoff", "goto"}
      navigates == moves \/ req.action = "rtl"
  IN  {r \in {"fix", "sats"} : navigates /\ snap[r] # "good"}
      \cup {e \in {"uninitialized", "glitch"} : navigates /\ e \in snap.ekf}
      \cup {e \in {"absolute"} : navigates /\ e \notin snap.ekf}
      \cup {r \in {"gap"} : navigates /\ req.cross /\ snap[r] # "within"}
      \cup {r \in {"battery"} : moves /\ snap[r] # "good"}
      \cup {r \in {"here"} : moves /\ snap[r] # "within"}
      \cup {r \in {"alt"} : moves /\ req[r] # "good"}
      \cup {r \in {"there"} : req.action = "goto" /\ req[r] # "within"}

VehicleRechecked(d) == IF VehicleProblems(d.request, d.telemetry) = {} THEN "PASS" ELSE "FAIL"

(* The measurement, recomputed from what the package carries: the reply is *)
(* parsed, the snapshot or the record checked once more.  The artifact is  *)
(* read as strictly as the package: a request or a record with a number    *)
(* that is not finite is none.                                             *)
Recomputed(d, recordedOnly) ==
  CASE d.kind = "chain" -> d.given = "rounds" /\ d.reading = "output"
    [] d.kind = "model" -> d.reading \in ModelKinds.reading /\ "output" \notin d.stale
                           /\ d.check = ModelRechecked(d)
    [] d.kind = "companion" -> d.reading \in CompanionKinds.reading \ {"not a record", "not JSON"} /\ "output" \notin d.stale
                               /\ d.check = CompanionRechecked(d)
    [] d.kind = "vehicle" -> d.reading = "snapshot" /\ d.given = "flight" /\ "output" \notin d.stale
                             /\ d.check = VehicleRechecked(d)
    [] OTHER -> recordedOnly

(* The recorded status of the verifier is the one its counts give, and the *)
(* record's verification is one that status lets through.                  *)
ValidationStatus(d) ==
  CASE d.counts = "malformed" -> "MALFORMED" [] d.counts = "failed" -> "FAIL"
    [] d.counts = "passing" -> "VALIDATED"   [] OTHER -> "INSUFFICIENT_EVIDENCE"

VerifierProvenance(d) ==
  d.counts # "no verifier" =>
    /\ d.validation = ValidationStatus(d)
    /\ d.validation # "VALIDATED" => d.input.status = d.validation

(* The thermal status is recomputed when the package says it was measured. *)
Rederived(zones) ==
  LET known(d) == zones[d] \in {"cool", "hot"}
  IN  IF ~\A d \in Domains : known(d) THEN "unknown"
      ELSE IF \E d \in Domains : zones[d] = "hot" THEN "degraded" ELSE "healthy"

ThermalStatusDerived(d) ==
  IF d.source = "measured" THEN d.policy = "pinned" /\ Rederived(d.zones) = d.input.runtime ELSE d.policy = "none"

(* Mutant: a tag may say more than the source does.                        *)
EvidenceStatesPromoted(d) == d.tag \notin {"MEASURED"} /\ (d.tag = "DEFAULTED" => d.input.runtime = "healthy")

(* evidence_state_problems(): no value is tagged as better than it is.     *)
EvidenceStates(d) ==
  d.tag # "none" =>
    /\ d.tag \in {"DERIVED", "OPERATOR", "DEFAULTED", "ABSENT"}
    /\ d.tag = "ABSENT" => d.input.runtime = "unknown"
    /\ d.tag = "DEFAULTED" => d.input.runtime = "healthy"
    /\ d.tag = "DERIVED" <=> d.source = "measured"

(* sent_command_problems(): the commands carry the authorized parameters.  *)
(* A mode carries none, and an arming is no take-off.                      *)
SentAuthorized(d) ==
  IF d.backend = "fake" THEN d.effect = "as asked"
  ELSE IF d.request.action \in Movement THEN d.effect \in {"as asked", "another mode"}
  ELSE d.effect # "otherwise"

(* Mutant: the measurement is not bound to the record.                     *)
EffectBoundLoosely(d) ==
  CASE d.kind \in {"model", "companion"} -> d.act = "as given"
    [] d.kind = "vehicle" -> d.act = "as given" /\ (d.outcome <=> d.exec = "SUCCEEDED")
    [] OTHER -> TRUE

(* Mutant: the comparison of the commands replaces the rule that commands  *)
(* are sent under ALLOW.                                                   *)
EffectBoundReplaced(d) ==
  CASE d.kind = "vehicle" ->
         /\ d.input.status = d.check /\ d.act = "as given" /\ (d.outcome <=> d.exec = "SUCCEEDED")
         /\ d.top.decision = "ALLOW" /\ d.exec \in {"SUCCEEDED", "FAILED"} => SentAuthorized(d)
    [] d.kind \in {"model", "companion"} ->
         /\ d.input.status = d.check /\ d.act = "as given"
         /\ d.effect = IF d.exec = "SUCCEEDED" /\ d.reading \notin {"garbage", "no strings", "not a record"}
                       THEN "as asked" ELSE "none"
    [] OTHER -> TRUE

(* model_check_bound, companion_check_bound, vehicle_check_bound.          *)
EffectBound(d) ==
  CASE d.kind \in {"model", "companion"} ->
         /\ d.input.status = d.check /\ d.act = "as given"
         /\ d.effect = IF d.exec = "SUCCEEDED" /\ d.reading \notin {"garbage", "no strings", "not a record"}
                       THEN "as asked" ELSE "none"
    [] d.kind = "vehicle" ->
         /\ d.input.status = d.check /\ d.act = "as given"
         /\ d.effect # "none" => d.top.decision = "ALLOW" /\ d.exec \in {"SUCCEEDED", "FAILED"}
         /\ d.outcome <=> d.exec = "SUCCEEDED"
         /\ d.top.decision = "ALLOW" /\ d.exec \in {"SUCCEEDED", "FAILED"} => SentAuthorized(d)
    [] OTHER -> TRUE

(* The file the operator named is the one the server says it has loaded.   *)
ModelFileNamed(d) == d.kind = "model" => d.served # "another file"

ExecutionOnlyIfAllowed(d) == d.exec # "none" => d.exec \in {"SUCCEEDED", "FAILED"} /\ d.top.decision = "ALLOW"

(* The limitations line is the one the tags and the source give.           *)
Statement(d) == IF d.tag # "none" THEN d.tag ELSE IF d.source = "measured" THEN "measured" ELSE "declared"
NotOverclaimed(d) == d.fresh = "NOT_PROVEN" /\ d.line = Statement(d)

Digests(d) == d.stale = {}

Consistent(d, legacy, recordedOnly) ==
  /\ Digests(d) /\ ~Unreadable(d)
  /\ d.schema \in {"v0", "v1"} /\ ContractBinding(d, legacy) /\ SchemaClosed(d)
  /\ Recomputed(d, recordedOnly) /\ d.said = d.top
  /\ ~d.bound /\ VerifierProvenance(d)
  /\ ThermalStatusDerived(d) /\ EvidenceStates(d)
  /\ EffectBound(d) /\ ModelFileNamed(d) /\ ExecutionOnlyIfAllowed(d)
  /\ NotOverclaimed(d)
  /\ Replay(d.input) = d.top

(* What may be asked of the verifier beside the checks (parse_args), and   *)
(* what its exit code says (main): 0 for a package that passes them all, 1 *)
(* for one that fails one, and 2 where it could not look.                  *)
Asks == [legacy : BOOLEAN, recordedOnly : BOOLEAN,
         signature : {"not asked", "valid", "invalid", "unavailable", "half asked"},
         witness : {"not asked", "latest", "latest, loosely written", "not the latest", "unreadable", "no log named"}]

Signed(ask) == ask.signature = "valid"
CouldNotLook(d, ask) ==
  \/ ask.signature = "half asked" \/ ask.witness = "no log named"
  \/ Unreadable(d)
  \/ ask.signature = "unavailable" \/ ask.witness \in {"unreadable", "latest, loosely written"}

ExitCode(d, ask) ==
  IF CouldNotLook(d, ask) THEN 2
  ELSE IF /\ ask.signature = "not asked" \/ Signed(ask)
          /\ ask.witness \in {"not asked", "latest"}
          /\ Consistent(d, ask.legacy, ask.recordedOnly)
         THEN 0 ELSE 1
---------------------------------------------------------------------------
(* The packages of the runs modelled here that do not verify: a chain of   *)
(* no rounds, or of more than the verifier runs; a log line that is no     *)
(* object, or holds what is not JSON; an altitude or a limit that is no    *)
(* finite number; a take-off whose vehicle never armed                     *)
(* (docs/VEHICLE_ACTION.md:69 has every package verify); a program's keys  *)
(* or numbers the verifier does not take; a keyed run whose executor       *)
(* raised, recorded as UNKNOWN; and a run of a capability with a parent,   *)
(* decided without the registry the package then shows.                    *)
Gap ==
  \/ run.tool = "chain" /\ run.given # "rounds"
  \/ run.tool = "companion" /\ run.reading \in {"not a record", "not JSON"}
  \/ run.tool = "vehicle" /\ (run.request.alt = "nonfinite" \/ run.given = "no limits" \/ EffectOf = "arming only")
  \/ run.tool = "library" /\ (exec = "UNKNOWN" \/ run.extra # "nothing")
  \/ /\ run.tool = "library" /\ run.snapshot = "given" /\ input.registry = "None"
     /\ Concluded = [decision |-> "REFUSE", reasons |-> <<"capability_parent_requires_registry">>]

(* "The parts are mutually consistent and the recorded decision is the one *)
(* the Gate produces" (package.py): a package nobody has touched, of a run *)
(* as RunKinds has them, verifies if and only if it is none of Gap,        *)
(* whatever was decided and however the run ended.                         *)
HonestVerifies ==
  stage = "final" /\ edited = {} =>
    \A ask \in Asks :
      /\ ExitCode(doc, ask) = 0 => ~Gap
      /\ ~Gap /\ ask.signature \in {"not asked", "valid"} /\ ask.witness \in {"not asked", "latest"} => ExitCode(doc, ask) = 0

(* However a package was changed and resealed: if it is consistent, be it  *)
(* as a legacy one, and shows an effect or an execution, then the artifact *)
(* and the readings it carries pass the check, the Gate allows them, and a *)
(* movement sent is the one authorized.                                    *)
EffectsAreEarned ==
  stage = "final" /\ (doc.exec # "none" \/ doc.effect # "none") /\ Consistent(doc, TRUE, FALSE) =>
    /\ CheckOf(doc.kind, doc) = "PASS" /\ doc.input.status = "PASS"
    /\ doc.top = [decision |-> "ALLOW", reasons |-> <<>>]
    /\ doc.input.authorized = "True" /\ doc.input.runtime = "healthy" /\ doc.input.parent \in {"none", "authorized"}
    /\ doc.kind = "vehicle" /\ doc.request.action \in Movement => doc.effect \in {"as asked", "another mode"}

(* "No implicit promotion" (evidence_states.py): in a consistent package a *)
(* status called measured or derived is the one its zones give, and one    *)
(* nobody supplied has let nothing through.                                *)
ResourceStateIsHonest ==
  stage = "final" /\ Consistent(doc, FALSE, FALSE) =>
    /\ doc.tag = "DERIVED" \/ doc.line \in {"measured", "DERIVED"} => doc.input.runtime = Derived(doc.zones)
    /\ doc.tag = "ABSENT" => doc.top.decision = "REFUSE" /\ doc.effect = "none"
================================================================================
