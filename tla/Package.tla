-------------------------------- MODULE Package --------------------------------
(***************************************************************************)
(* An evidence package from the run that makes it to the check that reads  *)
(* it.  Four tools (make_package.py, model_action.py, companion_action.py, *)
(* vehicle_action.py), or a program using the library, check what they     *)
(* were given, ask the Gate, act on ALLOW and write a package              *)
(* (package.py); anybody may then change the package, with or without      *)
(* recomputing its digests; verify_package.py says whether it is           *)
(* consistent.                                                             *)
(*                                                                         *)
(* A document holds one value of each kind the checks tell apart.  A       *)
(* digest is either of what it is written beside or not: stale is the set  *)
(* of the digests that are not.  A run starts as one that goes well, and   *)
(* is varied in a few places (Variations), and its package edited in a few *)
(* (Changes, of which a varied run takes up two for each variation).       *)
(***************************************************************************)
EXTENDS Gate, VehicleCheck

CONSTANTS Tools,          \* the producers
          Domains,        \* the thermal domains the policy limits
          SomeRequests, SomeSnapshots,  \* of the vehicle
          OddRequests, OddSnapshots,    \* that no tool writes and no vehicle sends: integers that no double holds
          Changes         \* how much is changed, before and after

ASSUME PackageAssumption ==
  /\ Tools \subseteq {"library", "chain", "model", "companion", "vehicle"}
  /\ Changes \in Nat /\ SomeSnapshots \cup OddSnapshots \subseteq Snapshots

(* A target is two integers (offset), and so is what a vehicle reports     *)
(* (snapshot): its own are all such as a double holds.                     *)
ASSUME VehicleAssumption ==
  /\ \A req \in SomeRequests : req.there \in IF req.action = "goto" THEN {"within", "beyond"} ELSE {"none"}
  /\ \A req \in OddRequests  : req.there = IF req.action = "goto" THEN "nonfinite" ELSE "none"
  /\ \A snap \in SomeSnapshots : "nonfinite" \notin {snap.fix, snap.sats, snap.battery, snap.here, snap.gap}

VARIABLES run,    \* what the producer is given and what happens to it
          stage,  \* setup, deciding, ran, final, or no package
          exec,   \* the execution status the record gets
          doc,    \* the package at its final path
          edited  \* what has been changed in it since

packageVars == <<input, varied, at, reasons, decision, run, stage, exec, doc, edited>>

NoDoc == [kind |-> "none"]
Temperatures == {"cool", "hot", "offline", "unreadable"}
AllCool == [d \in Domains |-> "cool"]

(* What may be different in a run of each tool: its options, what it reads *)
(* and how what it does ends.  json.dumps() writes a NaN or an Infinity,   *)
(* and json.loads() reads one: a log line "not JSON" is a deterministic    *)
(* answer beside such a number (or nested deeper than the verifier reads), *)
(* a flight has "no limits" if its fence, ceiling or cross-check is such a *)
(* number, and a program may put one, or keys of its own, into a package.  *)
Thermal == [source |-> {"declared", "measured"}, declared |-> {"healthy", "degraded", "unknown"},
            zones |-> [Domains -> Temperatures]]
LibraryKinds   == [counts |-> {"passing", "none", "failed", "no verifier"}, ends |-> {"done", "raises"},
                   keyed |-> BOOLEAN, snapshot |-> {"as decided", "given"}, extra |-> {"nothing", "keys", "not finite"}]
ChainKinds     == [given |-> {"rounds", "no rounds", "too many rounds"}, source |-> Thermal.source \cup {"absent"},
                   declared |-> Thermal.declared, zones |-> Thermal.zones]
ModelKinds     == [reading |-> {"right", "wrong", "garbage"}, asked |-> {"listed", "other", "unnamed"},
                   served |-> {"no file", "the file", "another file", "no server"}, ends |-> {"done", "raises"},
                   source |-> Thermal.source, declared |-> Thermal.declared, zones |-> Thermal.zones]
CompanionKinds == [reading |-> {"deterministic", "cached", "large model", "conflict", "no strings", "not a record", "not JSON"},
                   declared |-> Thermal.declared, ends |-> {"done", "raises"}]
VehicleKinds   == [request |-> SomeRequests, given |-> {"flight", "no limits"}, telemetry |-> SomeSnapshots, backend |-> {"fake", "mavlink"},
                   link |-> {"answers", "silent"},
                   ends |-> {"done", "not reached", "never armed", "raises", "no telemetry"},
                   source |-> Thermal.source, declared |-> Thermal.declared, zones |-> Thermal.zones]
RunKinds == [library |-> LibraryKinds, chain |-> ChainKinds, model |-> ModelKinds,
             companion |-> CompanionKinds, vehicle |-> VehicleKinds]

GoodRun(tool) ==
  [tool |-> tool, source |-> "declared", declared |-> "healthy", zones |-> AllCool, ends |-> "done",
   counts |-> "passing", keyed |-> FALSE, snapshot |-> "as decided", extra |-> "nothing", asked |-> "listed", backend |-> "mavlink",
   served |-> "the file", link |-> "answers",
   given |-> CASE tool = "vehicle" -> "flight" [] tool \in {"chain", "library"} -> "rounds" [] OTHER -> "task",
   reading |-> CASE tool = "vehicle" -> "snapshot" [] tool = "model" -> "right"
                 [] tool = "companion" -> "deterministic" [] OTHER -> "output",
   request |-> Request("goto", "good", "within", TRUE), telemetry |-> Healthy]

PackageInit ==
  /\ Init
  /\ run \in {GoodRun(tool) : tool \in Tools}
  /\ stage = "setup" /\ exec = "none" /\ doc = NoDoc /\ edited = {}
---------------------------------------------------------------------------
(* derive_thermal_status: a limited domain that cannot be read, or has no  *)
(* reading, makes the status unknown, whatever the others say.             *)
Derived(zones) ==
  CASE \E d \in Domains : zones[d] \in {"unreadable", "offline"} -> "unknown"
    [] \A d \in Domains : zones[d] = "cool" -> "healthy"
    [] OTHER -> "degraded"

(* The deterministic checks: of a chain's output, computed again; of a     *)
(* model's reply, of the route a companion says its answer took, and of a  *)
(* flight (VehicleCheck).                                                  *)
ChainCheck(reading) == IF reading = "output" THEN "PASS" ELSE "FAIL"
ModelCheck(reading) == IF reading = "right" THEN "PASS" ELSE "FAIL"

CompanionCheck(reading) ==
  CASE reading \in {"deterministic", "cached", "not JSON"} -> "PASS"
    [] reading \in {"large model", "conflict"} -> "INSUFFICIENT_EVIDENCE"
    [] OTHER -> "FAIL"

CheckOf(kind, of) ==
  CASE kind = "chain" -> ChainCheck(of.reading)
    [] kind = "model" -> ModelCheck(of.reading)
    [] kind = "companion" -> CompanionCheck(of.reading)
    [] kind = "vehicle" -> Verdict(of.request, of.telemetry)
    [] OTHER -> "PASS"

(* The status of the verifier's validation comes before its verdict.       *)
Validated(counts, status) ==
  CASE counts = "failed" -> "FAIL" [] counts = "none" -> "INSUFFICIENT_EVIDENCE" [] OTHER -> status

ThermalOf == IF run.source = "measured" THEN Derived(run.zones) ELSE run.declared

(* A tool has an authorized capability without a floor, and a policy that  *)
(* lists the actions it knows.                                             *)
Asking(status, action, thermal) ==
  [input EXCEPT !.status = status, !.runtime = thermal,
                !.action = IF action = "unnamed" THEN "unnamed" ELSE @,
                !.allowOnly = IF action = "listed" THEN "list with it" ELSE "list without it",
                !.floor = "none", !.quality = "absent", !.maxSteps = "none", !.stepCount = "absent"]

(* What each tool puts before the Gate; a program may put anything.        *)
PreparedChain     == Asking(ChainCheck(run.reading), "listed", IF run.source = "absent" THEN "unknown" ELSE ThermalOf)
PreparedModel     == Asking(ModelCheck(run.reading), IF run.reading = "garbage" THEN "unnamed" ELSE run.asked, ThermalOf)
PreparedCompanion == Asking(CompanionCheck(run.reading), "listed", run.declared)
PreparedVehicle   == Asking(Verdict(run.request, run.telemetry),
                            IF run.request.action \in Movement \cup {"land", "rtl"} THEN "listed" ELSE "other", ThermalOf)
PreparedLibrary   == [input EXCEPT !.status = Validated(run.counts, @)]

Prepared ==
  CASE run.tool = "chain" -> PreparedChain [] run.tool = "model" -> PreparedModel
    [] run.tool = "companion" -> PreparedCompanion [] run.tool = "vehicle" -> PreparedVehicle
    [] OTHER -> PreparedLibrary

VaryRun(f) ==
  /\ stage = "setup" /\ f \notin varied /\ Cardinality(varied) < Variations
  /\ \E k \in RunKinds[run.tool][f] \ {run[f]} : run' = [run EXCEPT ![f] = k]
  /\ varied' = varied \cup {f}
  /\ UNCHANGED <<input, at, reasons, decision, stage, exec, doc, edited>>

(* A tool that cannot have what it needs stops before anything is decided: *)
(* no model answers, or the one that does is not the file the operator     *)
(* named (a stale server on the port, docs/MODEL_ACTION.md); or no vehicle *)
(* is at the link, gives a heartbeat, or sends each of the messages a      *)
(* snapshot is made of.                                                    *)
NoModel     == run.tool = "model" /\ run.served \in {"no server", "another file"}
NoVehicle   == run.tool = "vehicle" /\ run.backend = "mavlink" /\ run.link = "silent"
CouldNotRun == NoModel \/ NoVehicle

Ask ==
  /\ stage = "setup"
  /\ IF CouldNotRun THEN stage' = "no package" /\ UNCHANGED <<at, input>>
     ELSE stage' = "deciding" /\ at' = 1 /\ input' = Prepared
  /\ UNCHANGED <<varied, reasons, decision, run, exec, doc, edited>>

(* Act on the decision.  A tool whose executor raises, or whose vehicle    *)
(* gives no telemetry afterwards, stops without a package.                 *)
Act ==
  /\ stage = "deciding" /\ decision # "none"
  /\ LET raised == decision = "ALLOW" /\ run.ends = "raises"
     IN  /\ exec' = IF decision # "ALLOW" THEN "none"
                    ELSE IF raised THEN IF run.keyed THEN "UNKNOWN" ELSE "FAILED"
                    ELSE "SUCCEEDED"
         /\ stage' = IF \/ decision = "ALLOW" /\ input.action = "None"
                        \/ raised /\ run.tool # "library"
                        \/ run.ends = "no telemetry"
                     THEN "no package" ELSE "ran"
  /\ UNCHANGED <<input, varied, at, reasons, decision, run, doc, edited>>
---------------------------------------------------------------------------
(* What of the effect the measurement records: the hash of the note or of  *)
(* the answer that was written, or the commands the vehicle was sent.      *)
NoteWritten    == exec = "SUCCEEDED"
AnswerReleased == exec = "SUCCEEDED"
CommandsSent ==
  IF exec # "SUCCEEDED" THEN "none"
  ELSE IF run.backend = "mavlink" /\ run.ends = "never armed" /\ run.request.action = "takeoff" THEN "arming only"
  ELSE "as asked"
EffectOf ==
  CASE run.tool = "vehicle" -> CommandsSent
    [] (run.tool = "model" /\ NoteWritten) \/ (run.tool = "companion" /\ AnswerReleased) -> "as asked"
    [] OTHER -> "none"

(* The limitations line on resource state: generated from the tags, if     *)
(* there are any.                                                          *)
LineOf(tag, source) == IF tag # "none" THEN tag ELSE IF source = "measured" THEN "measured" ELSE "declared"

(* Mutant: a derived status is tagged as somebody's word.                  *)
TagOfGiven ==
  IF run.tool = "library" THEN "none" ELSE IF run.source = "absent" THEN "ABSENT" ELSE "OPERATOR"

TagOf ==
  IF run.tool = "library" THEN "none"
  ELSE CASE run.source = "measured" -> "DERIVED" [] run.source = "absent" -> "ABSENT" [] OTHER -> "OPERATOR"

(* build_package().                                                        *)
Built ==
  [form |-> IF run.extra = "not finite" THEN "not finite" ELSE "plain",
   schema |-> "v1", contract |-> "trusted", closed |-> run.extra # "keys", served |-> run.served,
   kind |-> IF run.tool = "library" THEN "chain" ELSE run.tool,
   given |-> run.given, reading |-> run.reading, request |-> run.request, telemetry |-> run.telemetry,
   check |-> CheckOf(run.tool, run),
   backend |-> run.backend, effect |-> EffectOf, outcome |-> run.tool = "vehicle" /\ exec = "SUCCEEDED",
   act |-> "as given", exec |-> exec,
   said |-> [decision |-> decision, reasons |-> reasons], top |-> [decision |-> decision, reasons |-> reasons],
   input |-> [Packaged(input) EXCEPT !.registry = IF run.snapshot = "given" THEN "given" ELSE @],
   source |-> run.source, zones |-> run.zones, policy |-> IF run.source = "measured" THEN "pinned" ELSE "none",
   tag |-> TagOf, line |-> LineOf(TagOf, run.source),
   counts |-> run.counts, validation |-> Validated(run.counts, "VALIDATED"), bound |-> FALSE, fresh |-> "NOT_PROVEN",
   stale |-> {}]

(* It is written beside its name and then renamed; a writer that dies      *)
(* leaves nothing under the name.                                          *)
Write ==
  /\ stage = "ran"
  /\ \/ stage' = "final" /\ doc' = Built
     \/ stage' = "no package" /\ UNCHANGED doc
  /\ UNCHANGED <<input, varied, at, reasons, decision, run, exec, edited>>
---------------------------------------------------------------------------
(* Somebody changes the package: one part of it, everything that is said   *)
(* about the rest staying as it is (act and effect are relative to what    *)
(* was given and read, which the package carries).  A key that is given    *)
(* twice, its first value as deep as one likes, changes no digest: they    *)
(* are of what was parsed, where the last one counts.                      *)
EditKinds ==
  [form |-> {"plain", "repeated", "deep", "no object"}, served |-> IF doc.kind = "model" THEN {"no file", "the file", "another file"} ELSE {},
   schema |-> {"v1", "v0", "other"}, contract |-> {"trusted", "other", "absent"}, closed |-> BOOLEAN,
   kind |-> {"chain", "model", "companion", "vehicle", "unknown kind"},
   reading |-> CASE doc.kind = "vehicle" -> {doc.reading}
                 [] doc.kind \in {"model", "companion"} -> RunKinds[doc.kind].reading
                 [] OTHER -> {"output", "forged output"},
   given |-> IF doc.kind = "chain" THEN ChainKinds.given ELSE {doc.given},
   request |-> IF doc.kind = "vehicle" THEN SomeRequests \cup OddRequests ELSE {}, telemetry |-> IF doc.kind = "vehicle" THEN SomeSnapshots \cup OddSnapshots ELSE {},
   check |-> IF doc.kind = "chain" THEN {} ELSE {"PASS", "FAIL", "INSUFFICIENT_EVIDENCE"},
   effect |-> CASE doc.kind = "chain" -> {} [] doc.kind = "vehicle" -> {"none", "as asked", "otherwise", "arming only", "another mode"}
                [] OTHER -> {"none", "as asked", "otherwise"},
   outcome |-> IF doc.kind = "vehicle" THEN BOOLEAN ELSE {}, backend |-> IF doc.kind = "vehicle" THEN {"fake", "mavlink"} ELSE {},
   act |-> {"as given", "otherwise"},
   exec |-> {"none", "SUCCEEDED", "FAILED", "UNKNOWN"},
   said |-> {doc.said, [decision |-> "ALLOW", reasons |-> <<>>]}, top |-> {doc.top, [decision |-> "ALLOW", reasons |-> <<>>]},
   source |-> {"declared", "measured", "absent"}, zones |-> {doc.zones, AllCool}, policy |-> {"pinned", "none", "other limits"},
   tag |-> {"none", "DERIVED", "OPERATOR", "ABSENT", "DEFAULTED", "MEASURED"},
   line |-> {"declared", "measured", "DERIVED", "OPERATOR", "ABSENT", "DEFAULTED", "MEASURED"},
   counts |-> {"passing", "none", "failed", "malformed", "no verifier"},
   validation |-> {"VALIDATED", "INSUFFICIENT_EVIDENCE", "FAIL"}, bound |-> BOOLEAN, fresh |-> {"NOT_PROVEN", "claimed"}]
Edited == DOMAIN EditKinds
InRecord == {"act", "exec", "said"}

Edit(f) ==
  /\ stage = "final" /\ f \notin edited /\ doc.form = "plain" /\ 2 * Cardinality(varied) + Cardinality(edited) < Changes /\ (edited = {} \/ doc.stale # {})
  /\ \E k \in EditKinds[f] \ {doc[f]} : doc' = [doc EXCEPT ![f] = k, !.stale = @ \cup (IF f = "form" THEN {} ELSE {"package"}) \cup
        (IF f \in InRecord THEN {"record"} ELSE IF f \in {"given", "request"} THEN {"artifact"} ELSE IF f \in {"reading", "telemetry"} THEN {"output"} ELSE {})]
  /\ edited' = edited \cup {f}
  /\ UNCHANGED <<input, varied, at, reasons, decision, run, stage, exec>>

EditInput(f) ==
  /\ stage = "final" /\ f \notin edited /\ doc.form = "plain" /\ 2 * Cardinality(varied) + Cardinality(edited) < Changes /\ (edited = {} \/ doc.stale # {})
  /\ \E k \in Kinds[f] \ {doc.input[f]} :
       doc' = [doc EXCEPT !.input = Packaged([@ EXCEPT ![f] = k]), !.stale = @ \cup {"package", "record"}]
  /\ edited' = edited \cup {f}
  /\ UNCHANGED <<input, varied, at, reasons, decision, run, stage, exec>>

Reseal ==
  /\ stage = "final" /\ doc.stale # {} /\ doc' = [doc EXCEPT !.stale = {}]
  /\ UNCHANGED <<input, varied, at, reasons, decision, run, stage, exec, edited>>

PackageNext ==
  \/ run.tool = "library" /\ \E f \in Fields : Vary(f) /\ stage = "setup" /\ UNCHANGED <<run, stage, exec, doc, edited>>
  \/ \E f \in DOMAIN RunKinds[run.tool] : VaryRun(f)
  \/ Ask
  \/ stage = "deciding" /\ Examine /\ UNCHANGED <<run, stage, exec, doc, edited>>
  \/ Act \/ Write \/ Reseal
  \/ stage = "final" /\ ((\E f \in Edited : Edit(f)) \/ (\E f \in Fields : EditInput(f)))

PackageSpec == PackageInit /\ [][PackageNext]_packageVars
=================================================================================
