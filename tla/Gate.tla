--------------------------------- MODULE Gate ---------------------------------
(***************************************************************************)
(* Gate.evaluate (decision.py): the rules one after the other, some        *)
(* refusing at once, some adding a reason to defer.  Replay is the         *)
(* verifier's own copy of the gate (verify_package.py replay_gate), stated *)
(* as what it decides: the first refusing rule of the record as it stands  *)
(* in a package, or else every reason to defer.                            *)
(*                                                                         *)
(* An input starts as one the gate allows and is varied in a few places.   *)
(* A field holds one value of each kind the two programs tell apart; an    *)
(* unnamed action is one of the capability that asks for the empty string, *)
(* and "one" asks for the number 1.                                        *)
(***************************************************************************)
EXTENDS Naturals, Sequences, FiniteSets

CONSTANTS Required,    \* the evidence a capability requires, in order
          Variations   \* in how many places an input is varied

ASSUME GateAssumption == Required \in Seq(STRING) /\ Variations \in Nat

VARIABLES input, varied, at, reasons, decision

vars == <<input, varied, at, reasons, decision>>

Kinds == [digest     |-> {"given", "empty"},
          status     |-> {"PASS", "INSUFFICIENT_EVIDENCE", "FAIL", "REFUTED", "absent", "misspelt"},
          capability |-> {"given", "None"},
          authorized |-> {"True", "truthy", "False"},
          parent     |-> {"none", "unregistered", "unauthorized", "truthy", "authorized"},
          registry   |-> {"given", "None"},
          action     |-> {"of the capability", "one", "unnamed", "of another", "None"},
          runtime    |-> {"healthy", "degraded", "unknown"},
          evidence   |-> [{Required[i] : i \in DOMAIN Required} -> {"True", "truthy", "absent"}],
          floor      |-> {"none", "set"},
          quality    |-> {"absent", "text", "not in range", "low", "high"},
          metaQuality |-> {"absent", "text", "not in range", "low", "high"},
          maxSteps   |-> {"none", "set"},
          stepCount  |-> {"absent", "within", "over", "bool", "fraction", "below 1"},
          allowOnly  |-> {"none", "tuple with it", "list without it", "list of true", "text"}]
Fields == DOMAIN Kinds

Good == [digest |-> "given", status |-> "PASS", capability |-> "given", authorized |-> "True",
         parent |-> "none", registry |-> "None", action |-> "of the capability", runtime |-> "healthy",
         evidence |-> [n \in {Required[i] : i \in DOMAIN Required} |-> "True"],
         floor |-> "set", quality |-> "high", metaQuality |-> "absent",
         maxSteps |-> "set", stepCount |-> "within", allowOnly |-> "tuple with it"]

Init == input = Good /\ varied = {} /\ at = 0 /\ reasons = <<>> /\ decision = "none"

Vary(f) ==
  /\ at = 0 /\ f \notin varied /\ Cardinality(varied) < Variations
  /\ \E k \in Kinds[f] \ {Good[f]} : input' = [input EXCEPT ![f] = k]
  /\ varied' = varied \cup {f}
  /\ UNCHANGED <<at, reasons, decision>>

Evaluate == at = 0 /\ at' = 1 /\ UNCHANGED <<input, varied, reasons, decision>>
---------------------------------------------------------------------------
(* The gate.  A present top-level quality that is no number counts as 0.0; *)
(* only an absent one falls through to the metadata.                       *)
QualityOrDefault ==
  LET q == IF input.quality # "absent" THEN input.quality ELSE input.metaQuality
  IN  IF q \in {"absent", "text"} THEN "low" ELSE q

Refuse(why) == decision' = "REFUSE" /\ reasons' = <<why>> /\ UNCHANGED at
Defer(why)  == reasons' = reasons \o why /\ at' = at + 1 /\ UNCHANGED decision
Go          == Defer(<<>>)
Rule(n)     == decision = "none" /\ at = n /\ UNCHANGED <<input, varied>>
RefuseIf(failing, why) == IF failing THEN Refuse(why) ELSE Go
DeferIf(failing, why)  == Defer(IF failing THEN <<why>> ELSE <<>>)

Digest == Rule(1) /\ RefuseIf(input.digest = "empty", "missing_input_digest")

(* Mutant: insufficient evidence is answered at once.                      *)
VerificationAtOnce ==
  /\ Rule(2)
  /\ CASE input.status = "REFUTED" -> Refuse("verification_refuted")
       [] input.status \in {"FAIL", "absent", "misspelt"} -> Refuse("verification_not_passed")
       [] input.status = "INSUFFICIENT_EVIDENCE" ->
            decision' = "DEFER" /\ reasons' = <<"verification_insufficient_evidence">> /\ UNCHANGED at
       [] OTHER -> Go

Verification ==
  /\ Rule(2)
  /\ CASE input.status = "REFUTED" -> Refuse("verification_refuted")
       [] input.status \in {"FAIL", "absent", "misspelt"} -> Refuse("verification_not_passed")
       [] input.status = "INSUFFICIENT_EVIDENCE" -> Defer(<<"verification_insufficient_evidence">>)
       [] OTHER -> Go

CapabilityGiven == Rule(3) /\ RefuseIf(input.capability = "None", "capability_missing")

(* Mutant: truthiness, not identity.                                       *)
AuthorizedTruthy == Rule(4) /\ RefuseIf(input.authorized = "False", "capability_not_authorized")

Authorized == Rule(4) /\ RefuseIf(input.authorized # "True", "capability_not_authorized")

Parent ==
  /\ Rule(5)
  /\ CASE input.parent = "none" -> Go
       [] input.parent # "none" /\ input.registry = "None" -> Refuse("capability_parent_requires_registry")
       [] input.registry = "given" /\ input.parent = "unregistered" -> Refuse("capability_parent_missing")
       [] input.registry = "given" /\ input.parent \in {"unauthorized", "truthy"} -> Refuse("capability_parent_not_authorized")
       [] OTHER -> Go

ActionMatches == Rule(6) /\ RefuseIf(input.action = "of another", "action_capability_mismatch")
RuntimeAvailable == Rule(7) /\ RefuseIf(input.runtime = "unknown", "runtime_state_unavailable")
RuntimeHealthy == Rule(8) /\ DeferIf(input.runtime = "degraded", "runtime_not_healthy")

(* One look for each name required; the rules that remain follow.          *)
RequiredEvidence ==
  \E n \in DOMAIN Required :
    Rule(8 + n) /\ DeferIf(input.evidence[Required[n]] # "True", Required[n])
Rest(n) == Rule(8 + Len(Required) + n)

Quality ==
  /\ Rest(1)
  /\ CASE input.floor = "none" -> Go
       [] input.floor = "set" /\ QualityOrDefault = "not in range" -> Defer(<<"evidence_quality_invalid">>)
       [] input.floor = "set" /\ QualityOrDefault = "low" -> Defer(<<"evidence_quality_below_threshold">>)
       [] OTHER -> Go

Steps ==
  /\ Rest(2)
  /\ IF input.maxSteps = "none" THEN Go
     ELSE CASE input.stepCount = "over" -> Refuse("capability_max_steps_exceeded")
            [] input.stepCount \in {"bool", "fraction", "below 1"} -> Defer(<<"invalid_step_count_metadata">>)
            [] OTHER -> Go

(* Python equality: the number one is in a list of True.                   *)
Listed(i) == IF i.action = "one" THEN i.allowOnly = "list of true" ELSE i.allowOnly \in {"tuple with it", "list with it"}

Policy ==
  /\ Rest(3)
  /\ CASE input.allowOnly = "text" -> Refuse("policy_invalid")
       [] input.allowOnly \notin {"none", "text"} /\ input.action \notin {"None", "unnamed"} /\ ~Listed(input) -> Refuse("action_not_permitted_by_policy")
       [] OTHER -> Go

Conclude ==
  /\ Rest(4)
  /\ decision' = IF reasons = <<>> THEN "ALLOW" ELSE "DEFER"
  /\ UNCHANGED <<at, reasons>>

Examine ==
  \/ Digest \/ Verification \/ CapabilityGiven \/ Authorized \/ Parent \/ ActionMatches
  \/ RuntimeAvailable \/ RuntimeHealthy \/ RequiredEvidence \/ Quality \/ Steps \/ Policy \/ Conclude

Next == (\E f \in Fields : Vary(f)) \/ Evaluate \/ Examine

Spec == Init /\ [][Next]_vars
---------------------------------------------------------------------------
(* The record as a package holds it: JSON has lists, and no tuples.        *)
Packaged(i) == [i EXCEPT !.allowOnly = IF @ = "tuple with it" THEN "list with it" ELSE @]

(* replay_gate(): the refusing rules in their order, ...                   *)
ReplayRefusals(i) ==
  <<[fails |-> i.digest = "empty", why |-> "missing_input_digest"],
    [fails |-> i.status = "REFUTED", why |-> "verification_refuted"],
    [fails |-> i.status \notin {"PASS", "INSUFFICIENT_EVIDENCE", "REFUTED"}, why |-> "verification_not_passed"],
    [fails |-> i.capability = "None", why |-> "capability_missing"],
    [fails |-> i.authorized # "True", why |-> "capability_not_authorized"],
    [fails |-> i.parent # "none" /\ i.registry = "None", why |-> "capability_parent_requires_registry"],
    [fails |-> i.parent = "unregistered", why |-> "capability_parent_missing"],
    [fails |-> i.parent \notin {"none", "authorized"}, why |-> "capability_parent_not_authorized"],
    [fails |-> i.action = "of another", why |-> "action_capability_mismatch"],
    [fails |-> i.runtime \notin {"healthy", "degraded"}, why |-> "runtime_state_unavailable"],
    [fails |-> i.maxSteps # "none" /\ i.stepCount = "over", why |-> "capability_max_steps_exceeded"],
    [fails |-> i.allowOnly \notin {"none", "list with it", "list without it", "list of true"}, why |-> "policy_invalid"],
    [fails |-> i.action \notin {"None", "unnamed"} /\ i.allowOnly # "none" /\ ~Listed(i), why |-> "action_not_permitted_by_policy"]>>

(* ... and the reasons to defer, the required evidence that is not there   *)
(* in its order.                                                           *)
Lacking(i, n) == {m \in 1..n : i.evidence[Required[m]] # "True"}
Place(i, k)   == CHOOSE m \in Lacking(i, Len(Required)) : Cardinality(Lacking(i, m)) = k
NamesLacking(i, n) == [k \in 1..Cardinality(Lacking(i, n)) |-> Required[Place(i, k)]]
ReplayQuality(i) ==
  LET number(q) == IF q \in {"absent", "text"} THEN "low" ELSE q
  IN  IF i.quality = "absent" THEN number(i.metaQuality) ELSE number(i.quality)
ReplayDeferrals(i) ==
  LET when(c, why) == IF c THEN <<why>> ELSE <<>>
  IN  when(i.status = "INSUFFICIENT_EVIDENCE", "verification_insufficient_evidence")
      \o when(i.runtime # "healthy", "runtime_not_healthy")
      \o NamesLacking(i, Len(Required))
      \o when(i.floor = "set" /\ ReplayQuality(i) = "not in range", "evidence_quality_invalid")
      \o when(i.floor = "set" /\ ReplayQuality(i) = "low", "evidence_quality_below_threshold")
      \o when(i.maxSteps # "none" /\ i.stepCount \in {"bool", "fraction", "below 1"}, "invalid_step_count_metadata")

Replay(i) ==
  LET rules   == ReplayRefusals(i)
      failing == {n \in DOMAIN rules : rules[n].fails}
      first   == CHOOSE n \in failing : \A m \in failing : n <= m
      defer   == ReplayDeferrals(i)
  IN  IF failing # {} THEN [decision |-> "REFUSE", reasons |-> <<rules[first].why>>]
      ELSE [decision |-> IF defer = <<>> THEN "ALLOW" ELSE "DEFER", reasons |-> defer]

(* gate_replay: a challenger who replays the gate from the package gets the *)
(* decision and the reasons the kernel recorded, in the same order; so a    *)
(* deferral masks no refusal and drops no other reason (decision.py:72).    *)
Concluded == [decision |-> decision, reasons |-> reasons]
ReplayAgrees == [][decision' # decision => Concluded' = Replay(Packaged(input))]_vars
===============================================================================
