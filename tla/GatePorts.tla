------------------------------ MODULE GatePorts ------------------------------
(***************************************************************************)
(* The ports of the Gate contract sv.gate/0 (CONTRACT.md): programs in Go, *)
(* Rust and Python that read a case as JSON and decide it, each written    *)
(* without the kernel.  A port is the list of what its rules say of a      *)
(* case, in the order of its code: a rule stops the gate with its reason,  *)
(* or notes a reason to defer, or says nothing.                            *)
(***************************************************************************)
EXTENDS GateConstraint, PortJSON, SequencesExt

Why(c, why)  == IF c THEN <<why>> ELSE <<>>
Stop(c, why) == [stops |-> c, says |-> Why(c, why)]
Note(c, why) == [stops |-> FALSE, says |-> Why(c, why)]

Outcome(rules) ==
  LET stopping == {n \in DOMAIN rules : rules[n].stops}
      first    == CHOOSE n \in stopping : \A m \in stopping : n <= m
      noted    == FlattenSeq([n \in DOMAIN rules |-> rules[n].says])
  IN  IF stopping # {} THEN [decision |-> "REFUSE", reasons |-> rules[first].says]
      ELSE [decision |-> IF noted = <<>> THEN "ALLOW" ELSE "DEFER", reasons |-> noted]

(* The case of an input (to_input): JSON has no tuples.                    *)
Case(i) == Packaged(i)

(* No status is NOT_VERIFIED; one outside the vocabulary is UNKNOWN.       *)
StatusOf(i) == CASE i.status = "absent" -> "NOT_VERIFIED" [] i.status = "misspelt" -> "UNKNOWN" [] OTHER -> i.status

(* What is asked for and what the policy lists, as JSON values.            *)
Requested(i) == CASE i.action = "None" -> Null [] i.action = "unnamed" -> Str("") [] i.action = "one" -> Whole(1) [] OTHER -> Str("it")
Permitted(i) ==
  CASE i.allowOnly = "list with it" -> {Str("it")} [] i.allowOnly = "list of true" -> {Bool(TRUE)}
    [] i.allowOnly = "none" -> {} [] OTHER -> {Str("other")}

Missing(i) == [n \in DOMAIN Required |-> Note(i.evidence[Required[n]] # "True", Required[n])]
---------------------------------------------------------------------------
(* Go: an input whose capability is no object has none of its members.     *)
(* Mutant: a quality that is no number falls through to the metadata.      *)
GoQualityFallingThrough(i) ==
  LET q == IF i.quality \in {"absent", "text"} THEN i.metaQuality ELSE i.quality
  IN  IF q \in {"not in range", "high"} THEN q ELSE "low"

GoQuality(i) ==
  LET q == IF i.quality # "absent" THEN i.quality ELSE i.metaQuality
  IN  IF q \in {"not in range", "high"} THEN q ELSE "low"

GoGate(i) ==
  LET s == StatusOf(i)
      q == GoQuality(i)
  IN  Outcome(<<Stop(i.digest = "empty", "missing_input_digest"),
                Stop(s \in {"FAIL", "NOT_VERIFIED", "UNKNOWN"}, "verification_not_passed"),
                Stop(s = "REFUTED", "verification_refuted"),
                Note(s = "INSUFFICIENT_EVIDENCE", "verification_insufficient_evidence"),
                Stop(i.capability = "None", "capability_missing"),
                Stop(i.authorized # "True", "capability_not_authorized"),
                Stop(i.parent # "none" /\ i.registry = "None", "capability_parent_requires_registry"),
                Stop(i.parent = "unregistered", "capability_parent_missing"),
                Stop(i.parent \in {"unauthorized", "truthy"}, "capability_parent_not_authorized"),
                Stop(i.action = "of another", "action_capability_mismatch"),
                Stop(i.runtime = "unknown", "runtime_state_unavailable"),
                Note(i.runtime = "degraded", "runtime_not_healthy")>>
              \o Missing(i)
              \o <<Note(i.floor # "none" /\ q = "not in range", "evidence_quality_invalid"),
                   Note(i.floor # "none" /\ q = "low", "evidence_quality_below_threshold"),
                   Note(i.maxSteps # "none" /\ i.stepCount \in {"bool", "fraction", "below 1"}, "invalid_step_count_metadata"),
                   Stop(i.maxSteps # "none" /\ i.stepCount = "over", "capability_max_steps_exceeded"),
                   Stop(i.allowOnly = "text", "policy_invalid"),
                   Stop(GoPresent(Requested(i)) /\ i.allowOnly # "none" /\ ~\E m \in Permitted(i) : PyEq(Requested(i), m),
                        "action_not_permitted_by_policy")>>)

(* Rust: a rule per match arm; a number is an integer if it is written     *)
(* without fraction or exponent.                                           *)
RustInteger(n) == n \in {"within", "over", "below 1"}

RustGate(i) ==
  LET s      == StatusOf(i)
      number(x) == IF x \in {"absent", "text"} THEN "low" ELSE x
      q      == IF i.quality # "absent" THEN number(i.quality) ELSE number(i.metaQuality)
      counts == i.maxSteps # "none" /\ i.stepCount # "absent"
      list   == i.allowOnly \notin {"none", "text"}
  IN  Outcome(<<Stop(i.digest = "empty", "missing_input_digest"),
                Stop(s \notin {"PASS", "INSUFFICIENT_EVIDENCE", "REFUTED"}, "verification_not_passed"),
                Stop(s = "REFUTED", "verification_refuted"),
                Note(s = "INSUFFICIENT_EVIDENCE", "verification_insufficient_evidence"),
                Stop(i.capability = "None", "capability_missing"),
                Stop(i.authorized # "True", "capability_not_authorized"),
                Stop(i.parent # "none" /\ i.registry = "None", "capability_parent_requires_registry"),
                Stop(i.parent = "unregistered", "capability_parent_missing"),
                Stop(i.parent \notin {"none", "authorized"}, "capability_parent_not_authorized"),
                Stop(i.action = "of another", "action_capability_mismatch"),
                Stop(i.runtime \notin {"healthy", "degraded"}, "runtime_state_unavailable"),
                Note(i.runtime = "degraded", "runtime_not_healthy")>>
              \o Missing(i)
              \o <<Note(i.floor # "none" /\ q = "not in range", "evidence_quality_invalid"),
                   Note(i.floor # "none" /\ q = "low", "evidence_quality_below_threshold"),
                   Stop(counts /\ i.stepCount = "over", "capability_max_steps_exceeded"),
                   Note(counts /\ (~RustInteger(i.stepCount) \/ i.stepCount = "below 1"), "invalid_step_count_metadata"),
                   Stop(i.allowOnly = "text", "policy_invalid"),
                   Stop(RustPresent(Requested(i)) /\ list /\ ~\E m \in Permitted(i) : RustEq(Requested(i), m),
                        "action_not_permitted_by_policy")>>)

(* Python, by another author, from the contract alone.                     *)
PythonGate(i) ==
  LET s       == StatusOf(i)
      top     == i.quality # "absent"
      q       == IF top THEN i.quality ELSE i.metaQuality
      integer == i.stepCount \notin {"bool", "fraction"}
      counted == i.maxSteps # "none" /\ i.stepCount # "absent"
  IN  Outcome(<<Stop(i.digest = "empty", "missing_input_digest"),
                Stop(s \in {"FAIL", "NOT_VERIFIED", "UNKNOWN"}, "verification_not_passed"),
                Stop(s = "REFUTED", "verification_refuted"),
                Note(s = "INSUFFICIENT_EVIDENCE", "verification_insufficient_evidence"),
                Stop(i.capability = "None", "capability_missing"),
                Stop(i.authorized # "True", "capability_not_authorized"),
                Stop(i.parent # "none" /\ i.registry = "None", "capability_parent_requires_registry"),
                Stop(i.parent = "unregistered", "capability_parent_missing"),
                Stop(i.parent \in {"unauthorized", "truthy"}, "capability_parent_not_authorized"),
                Stop(i.action = "of another", "action_capability_mismatch"),
                Stop(i.runtime = "unknown", "runtime_state_unavailable"),
                Note(i.runtime # "healthy", "runtime_not_healthy")>>
              \o Missing(i)
              \o <<Note(i.floor # "none" /\ q = "not in range", "evidence_quality_invalid"),
                   Note(i.floor # "none" /\ q \in {"absent", "text", "low"}, "evidence_quality_below_threshold"),
                   Note(counted /\ (~integer \/ i.stepCount = "below 1"), "invalid_step_count_metadata"),
                   Stop(counted /\ i.stepCount = "over", "capability_max_steps_exceeded"),
                   Stop(i.allowOnly = "text", "policy_invalid"),
                   Stop(Truthy(Requested(i)) /\ i.allowOnly # "none"
                          /\ ~\E m \in Permitted(i) : PyEqual(Requested(i), m), "action_not_permitted_by_policy")>>)

---------------------------------------------------------------------------
(* The words of a runtime state, which every port lists again; the gate    *)
(* knows a state only as healthy, degraded or unknown.                     *)
Reported == {"thermal_status", "compute_budget", "power_status"}
Words(thermal, compute, power) == [thermal_status |-> thermal, compute_budget |-> compute, power_status |-> power]

KernelState(said) ==
  LET healthy  == Words({"normal", "cool"}, {"available", "constrained", "low"}, {"stable"})
      degraded == Words({"warning", "high", "hot", "critical", "unsafe"}, {"exhausted"}, {"unsafe"})
  IN  CASE \E f \in Reported : said[f] \notin healthy[f] \cup degraded[f] -> "unknown"
        [] \A f \in Reported : said[f] \in healthy[f] -> "healthy"
        [] OTHER -> "degraded"

Vocab == Words(<<{"normal", "cool"}, {"warning", "high", "hot", "critical", "unsafe"}>>,
               <<{"available", "constrained", "low"}, {"exhausted"}>>, <<{"stable"}, {"unsafe"}>>)
GoState(said) ==
  IF \E f \in Reported : said[f] \notin Vocab[f][1] /\ said[f] \notin Vocab[f][2] THEN "unknown"
  ELSE IF \E f \in Reported : said[f] \in Vocab[f][2] THEN "degraded" ELSE "healthy"

RustState(said) ==
  LET bad     == Words({"warning", "high", "hot", "critical", "unsafe"}, {"exhausted"}, {"unsafe"})
      healthy == Words({"normal", "cool"}, {"available", "constrained", "low"}, {"stable"})
      seen    == {f \in Reported : said[f] \in bad[f]}
  IN  IF \E f \in Reported \ seen : said[f] \notin healthy[f] THEN "unknown"
      ELSE IF seen # {} THEN "degraded" ELSE "healthy"

RuntimeValues == Words({"normal", "cool", "warning", "high", "hot", "critical", "unsafe"},
                       {"available", "constrained", "low", "exhausted"}, {"stable", "unsafe"})
PythonState(said) ==
  LET degraded == Words({"warning", "high", "hot", "critical", "unsafe"}, {"exhausted"}, {"unsafe"})
  IN  IF \E f \in Reported : said[f] \notin RuntimeValues[f] THEN "unknown"
      ELSE IF \E f \in Reported : said[f] \in degraded[f] THEN "degraded" ELSE "healthy"

(* The verifier asks first whether a state is available, then whether it   *)
(* is healthy.                                                             *)
VerifierState(said) ==
  LET vocab     == Words([ok |-> {"normal", "cool"}, bad |-> {"warning", "high", "hot", "critical", "unsafe"}],
                         [ok |-> {"available", "constrained", "low"}, bad |-> {"exhausted"}],
                         [ok |-> {"stable"}, bad |-> {"unsafe"}])
      available == \A f \in Reported : said[f] \in vocab[f].ok \cup vocab[f].bad
  IN  CASE ~available -> "unknown" [] \A f \in Reported : said[f] \in vocab[f].ok -> "healthy" [] OTHER -> "degraded"

SpokenAlike ==
  \A said \in [Reported -> (UNION {RuntimeValues[f] : f \in Reported}) \cup {"", "NORMAL"}] :
    \A port \in {GoState(said), RustState(said), PythonState(said), VerifierState(said)} : port = KernelState(said)

---------------------------------------------------------------------------
(* The vectors (gate_contract.py): the cases of gate_constraint.py, which  *)
(* vary one input in one place or every input at once, and a few more.     *)
Base == [Good EXCEPT !.registry = "given", !.quality = "absent", !.metaQuality = "high"]

Lattice ==
  [digest : {"given", "empty"}, status : {"PASS", "INSUFFICIENT_EVIDENCE", "FAIL"}, capability : {"given"},
   authorized : {"True", "False"}, parent : {"none", "unauthorized"}, registry : {"given"},
   action : {"of the capability", "of another"}, runtime : {"healthy", "degraded", "unknown"},
   evidence : {Base.evidence, [Base.evidence EXCEPT ![Required[1]] = "absent"]},
   floor : {"set"}, quality : {"absent"}, metaQuality : {"high", "low"},
   maxSteps : {"set"}, stepCount : {"within", "over"}, allowOnly : {"tuple with it", "list without it"}]
Singles == (UNION {{[Base EXCEPT ![f] = k] : k \in Kinds[f]} : f \in Fields})
           \cup {[Base EXCEPT !.parent = "authorized", !.registry = "None"], [Base EXCEPT !.action = "one", !.allowOnly = "list of true"]}
Vectors == {Case(i) : i \in Lattice \cup Singles}

(* The verifier's gate with one of its rules switched off, and the rules   *)
(* that could be without any vector noticing.                             *)
Without(why, i) ==
  LET rules   == ReplayRefusals(i)
      failing == {n \in DOMAIN rules : rules[n].fails /\ rules[n].why # why}
      first   == CHOOSE n \in failing : \A m \in failing : n <= m
      defer   == SelectSeq(ReplayDeferrals(i), LAMBDA w : w # why)
  IN  IF failing # {} THEN [decision |-> "REFUSE", reasons |-> <<rules[first].why>>]
      ELSE [decision |-> IF defer = <<>> THEN "ALLOW" ELSE "DEFER", reasons |-> defer]

Rules == {rule.why : rule \in ToSet(ReplayRefusals(Case(Base)))}
         \cup {"verification_insufficient_evidence", "runtime_not_healthy", Required[1], "evidence_quality_invalid",
               "evidence_quality_below_threshold", "invalid_step_count_metadata"}
(* An implementation conforms that has the decision and the reasons of     *)
(* every vector (report); a crash is no decision.                          *)
Conforms(decided) == \A v \in Vectors : decided[v] = Replay(v)
Survived == {why \in Rules : Conforms([v \in Vectors |-> Without(why, v)])}
---------------------------------------------------------------------------
(* The checks of gate_constraint.py and its mutants of the kernel: the     *)
(* verifier's gate, which is the kernel's (ReplayAgrees), with one of its  *)
(* rules dropped, answered too early, or read more loosely.  M16 is of the *)
(* workflow.                                                               *)
Decided(d, why) == [decision |-> d, reasons |-> why]

EarlyDefer(why, rules, i) ==
  IF why \in ToSet(ReplayDeferrals(i)) /\ \A n \in 1..rules : ~ReplayRefusals(i)[n].fails
    THEN Decided("DEFER", <<why>>) ELSE Replay(i)

OverrunDefers(i) ==
  LET rest == Without("capability_max_steps_exceeded", i)
  IN  IF rest.decision = "REFUSE" \/ i.maxSteps = "none" \/ i.stepCount # "over" THEN rest
      ELSE Decided("DEFER", rest.reasons \o <<"capability_max_steps_exceeded">>)

Taken(f, from, to, i) == Replay(IF i[f] \in from THEN [i EXCEPT ![f] = to] ELSE i)

TruthyEvidence(i) == [i EXCEPT !.evidence = [n \in DOMAIN @ |-> IF @[n] = "truthy" THEN "True" ELSE @[n]]]

Mutant(m, i) ==
  CASE m = "M00" -> Replay(i)
    [] m = "M01" -> Decided("ALLOW", <<>>)
    [] m = "M02" -> Decided("REFUSE", <<"mutant">>)
    [] m = "M03" -> Without("missing_input_digest", i)
    [] m \in {"M04", "M19"} -> Taken("status", {"REFUTED"}, "FAIL", i)
    [] m = "M05" -> Taken("authorized", {"truthy"}, "True", i)
    [] m = "M06" -> Without("action_capability_mismatch", i)
    [] m = "M07" -> Without("runtime_state_unavailable", i)
    [] m = "M08" -> EarlyDefer("verification_insufficient_evidence", 3, i)
    [] m = "M09" -> EarlyDefer("runtime_not_healthy", 10, i)
    [] m = "M10" -> Without("verification_insufficient_evidence", i)
    [] m = "M11" -> Without("action_not_permitted_by_policy", i)
    [] m = "M12" -> Taken("runtime", {"degraded", "unknown"}, "healthy", i)
    [] m = "M13" -> Replay(TruthyEvidence(i))
    [] m = "M14" -> Without("evidence_quality_invalid", i)
    [] m = "M15" -> Taken("allowOnly", {"text"}, "list with it", i)
    [] m = "M17" -> OverrunDefers(i)
    [] m = "M18" -> Taken("parent", {"truthy"}, "authorized", i)
Mutants == {"M00", "M01", "M02", "M03", "M04", "M05", "M06", "M07", "M08", "M09", "M10", "M11", "M12", "M13", "M14",
            "M15", "M17", "M18", "M19"}

(* What a case must come to: the specification's decision and the reason   *)
(* of a refutation (single_ok, lattice); and one fault more never makes    *)
(* the gate less strict.  The experiment gives no quality at top level.    *)
AsExpected(got, i) ==
  /\ got.decision = "ALLOW" <=> ~Refused(i) /\ ~NotAllowed(i)
  /\ Refused(i) => got.decision = "REFUSE"
  /\ i.status = "REFUTED" => got.reasons = <<"verification_refuted">>

Points     == {Case(i) : i \in Lattice}
Axes       == [f \in Fields |-> {i[f] : i \in Points}]
Strictness == [ALLOW |-> 0, DEFER |-> 1, REFUSE |-> 2]
Monotone(decided) ==
  \A i \in Points, f \in Fields : i[f] = Case(Base)[f] =>
    \A k \in Axes[f] : Strictness[decided[i].decision] <= Strictness[decided[[i EXCEPT ![f] = k]].decision]

CleanRun(decided) == (\A i \in Vectors : i.quality = "absent" => AsExpected(decided[i], i)) /\ Monotone(decided)
Unkilled == {m \in Mutants : CleanRun([i \in Vectors |-> Mutant(m, i)])}

(* "Someone else [can] build it in any language and prove it decides the   *)
(* same way" (CONTRACT.md:3): every port gives the kernel's decision and   *)
(* its reasons, in their order, ...                                        *)
PortsDecide ==
  [][decision' # decision =>
       \A port \in {GoGate(Case(input)), RustGate(Case(input)), PythonGate(Case(input))} : Concluded' = port]_vars

(* ... and conforms; ...                                                   *)
PortsConform ==
  /\ Conforms([v \in Vectors |-> GoGate(v)]) /\ Conforms([v \in Vectors |-> RustGate(v)])
  /\ Conforms([v \in Vectors |-> PythonGate(v)])

(* ... it reads JSON's values as Python does, and knows the same words; a  *)
(* gate that lacks one of the rules differs on a vector, so that one which *)
(* passes them all lacks none; and the checks of gate_constraint.py pass   *)
(* the gate as it is (M00) and none of its mutants.                        *)
PortsAgree == ReadAlike /\ SpokenAlike /\ Survived = {} /\ Unkilled = {"M00"} /\ PortsConform /\ PortsDecide
==============================================================================
