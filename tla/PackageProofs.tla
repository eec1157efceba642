----------------------------- MODULE PackageProofs -----------------------------
(***************************************************************************)
(* What is so of the gate, of the verifier's replay of it and of packages, *)
(* for every input, every list of required evidence and every document:    *)
(*   1. the gate meets its fail-closed specification exactly;              *)
(*   2. the verifier's replay of a recorded input reaches the gate's       *)
(*      decision and reasons;                                              *)
(*   3. what a run has asked when the gate decides, and both again for the *)
(*      runs of the tools;                                                 *)
(*   4. what every document that passes the checks shows, however it came  *)
(*      about;                                                             *)
(*   5. the package of an honest run passes them, but for the runs of Gap; *)
(*   6. the fixes since issue 5 have only tightened the checks;            *)
(*   7. the ports of the gate in Go, Rust and Python decide as it does.    *)
(***************************************************************************)
EXTENDS VerifierBefore, GatePorts, SequenceTheorems, FiniteSetTheorems, WellFoundedInduction, TLAPS

---------------------------------------------------------------------------
(* 1.  The gate.                                                           *)

USE GateAssumption

End == 8 + Len(Required)

(* The n-th rule has nothing to refuse, ...                                *)
Passes(i, n) ==
  /\ n = 1 => i.digest # "empty"
  /\ n = 2 => i.status \in {"PASS", "INSUFFICIENT_EVIDENCE"}
  /\ n = 3 => i.capability # "None"
  /\ n = 4 => i.authorized = "True"
  /\ n = 5 => i.parent = "none" \/ (i.parent = "authorized" /\ i.registry = "given")
  /\ n = 6 => i.action # "of another"
  /\ n = 7 => i.runtime # "unknown"
  /\ n = End + 2 => ~(i.maxSteps = "set" /\ i.stepCount = "over")
  /\ n = End + 3 => i.allowOnly # "text" /\ (i.allowOnly = "none" \/ i.action \in {"None", "unnamed"} \/ Listed(i))

(* ... or has a reason to defer.                                           *)
Defers(i, n) ==
  \/ n = 2 /\ i.status = "INSUFFICIENT_EVIDENCE"
  \/ n = 8 /\ i.runtime = "degraded"
  \/ \E m \in DOMAIN Required : n = 8 + m /\ i.evidence[Required[m]] # "True"
  \/ n = End + 1 /\ i.floor = "set" /\ QualityShown(i) # "high"
  \/ n = End + 2 /\ i.maxSteps = "set" /\ i.stepCount \in {"bool", "fraction", "below 1"}

Needed ==
  {"status", "parent", "registry", "authorized", "runtime", "floor", "quality", "metaQuality", "maxSteps", "stepCount"}
Deferrals ==
  {Required[n] : n \in DOMAIN Required} \cup
  {"none", "verification_insufficient_evidence", "runtime_not_healthy", "evidence_quality_invalid",
   "evidence_quality_below_threshold", "invalid_step_count_metadata"}

InputOK == DOMAIN input = Fields /\ \A f \in Needed : input[f] \in Kinds[f]

(* While the gate has not decided, no rule behind it had anything to       *)
(* refuse, and a reason has been noted exactly when one of them defers.    *)
Examining ==
  /\ at \in Nat /\ reasons \in Seq(Deferrals)
  /\ \A n \in Nat : 0 < n /\ n < at => Passes(input, n)
  /\ reasons # <<>> <=> \E n \in Nat : 0 < n /\ n < at /\ Defers(input, n)

IInv == InputOK /\ (decision = "none" => Examining)

LEMMA LenFacts ==
  /\ Len(Required) \in Nat /\ DOMAIN Required = 1..Len(Required)
  /\ End \in Nat /\ End = 8 + Len(Required)
BY DEF End

LEMMA KindFacts ==
  /\ Needed \subseteq Fields
  /\ Kinds["status"] = {"PASS", "INSUFFICIENT_EVIDENCE", "FAIL", "REFUTED", "absent", "misspelt"}
  /\ Kinds["parent"] = {"none", "unregistered", "unauthorized", "truthy", "authorized"}
  /\ Kinds["registry"] = {"given", "None"}
  /\ Kinds["authorized"] = {"True", "truthy", "False"}
  /\ Kinds["runtime"] = {"healthy", "degraded", "unknown"}
  /\ Kinds["quality"] = {"absent", "text", "not in range", "low", "high"}
  /\ Kinds["metaQuality"] = {"absent", "text", "not in range", "low", "high"}
  /\ Kinds["maxSteps"] = {"none", "set"} /\ Kinds["floor"] = {"none", "set"}
  /\ Kinds["stepCount"] = {"absent", "within", "over", "bool", "fraction", "below 1"}
BY DEF Kinds, Fields, Needed

LEMMA GoodFacts == DOMAIN Good = Fields /\ \A f \in Needed : Good[f] \in Kinds[f]
<1>1. DOMAIN Good = Fields
  BY DEF Good, Fields, Kinds
<1>2. /\ Good["status"] = "PASS" /\ Good["parent"] = "none" /\ Good["registry"] = "None" /\ Good["authorized"] = "True"
      /\ Good["runtime"] = "healthy" /\ Good["quality"] = "high" /\ Good["metaQuality"] = "absent" /\ Good["maxSteps"] = "set"
      /\ Good["floor"] = "set" /\ Good["stepCount"] = "within"
  BY DEF Good
<1>3. /\ Good["status"] \in Kinds["status"] /\ Good["parent"] \in Kinds["parent"]
      /\ Good["registry"] \in Kinds["registry"] /\ Good["authorized"] \in Kinds["authorized"]
      /\ Good["runtime"] \in Kinds["runtime"] /\ Good["quality"] \in Kinds["quality"]
      /\ Good["metaQuality"] \in Kinds["metaQuality"] /\ Good["maxSteps"] \in Kinds["maxSteps"]
      /\ Good["floor"] \in Kinds["floor"] /\ Good["stepCount"] \in Kinds["stepCount"]
  BY <1>2, KindFacts
<1>4. \A f \in Needed : Good[f] \in Kinds[f]
  BY <1>3, Zenon DEF Needed
<1> QED
  BY <1>1, <1>4

LEMMA Typed ==
  ASSUME InputOK
  PROVE  /\ input.status \in {"PASS", "INSUFFICIENT_EVIDENCE", "FAIL", "REFUTED", "absent", "misspelt"}
         /\ input.parent \in {"none", "unregistered", "unauthorized", "truthy", "authorized"}
         /\ input.registry \in {"given", "None"}
         /\ input.authorized \in {"True", "truthy", "False"}
         /\ input.runtime \in {"healthy", "degraded", "unknown"}
         /\ input.quality \in {"absent", "text", "not in range", "low", "high"}
         /\ input.metaQuality \in {"absent", "text", "not in range", "low", "high"}
         /\ input.maxSteps \in {"none", "set"}
BY KindFacts DEF InputOK, Needed

LEMMA Noting ==
  ASSUME NEW S, NEW s \in Seq(S), NEW why \in S
  PROVE  s \o <<why>> \in Seq(S) /\ s \o <<why>> # <<>> /\ s \o <<>> = s
<1>1. s \o <<>> = s
  BY ConcatEmptySeq, Zenon
<1>2. <<why>> \in Seq(S) /\ Len(<<why>>) = 1
  OBVIOUS
<1>3. s \o <<why>> \in Seq(S) /\ Len(s \o <<why>>) = Len(s) + 1
  BY <1>2, ConcatProperties
<1>4. Len(s) \in Nat /\ Len(<<>>) = 0
  OBVIOUS
<1>5. s \o <<why>> # <<>>
  BY <1>3, <1>4
<1> QED
  BY <1>1, <1>3, <1>5

LEMMA InitIInv == Init => IInv
<1> SUFFICES ASSUME Init PROVE IInv
  OBVIOUS
<1>1. InputOK
  BY GoodFacts DEF Init, InputOK
<1>2. Examining
  BY DEF Init, Examining
<1> QED
  BY <1>1, <1>2 DEF IInv

LEMMA VaryStep == ASSUME IInv, NEW f \in Fields, Vary(f) PROVE IInv'
<1>1. InputOK'
  BY KindFacts DEF IInv, InputOK, Vary
<1>2. at = 0 /\ at' = 0 /\ reasons' = reasons /\ decision' = decision
  BY DEF Vary
<1>3. decision = "none" => Examining'
  BY <1>2 DEF IInv, Examining
<1> QED
  BY <1>1, <1>2, <1>3 DEF IInv

LEMMA EvaluateStep == ASSUME IInv, Evaluate PROVE IInv'
BY DEF IInv, InputOK, Examining, Evaluate

(* A rule refuses, or notes one reason or none and passes on.              *)
LEMMA RefuseStep == ASSUME IInv, NEW why, Refuse(why), UNCHANGED input PROVE IInv'
BY DEF Refuse, IInv, InputOK

LEMMA DeferStep ==
  ASSUME IInv, decision = "none", at > 0, UNCHANGED input, NEW why \in Deferrals, NEW failing \in BOOLEAN,
         DeferIf(failing, why), Passes(input, at), failing <=> Defers(input, at)
  PROVE  IInv'
<1>1. Examining
  BY DEF IInv
<1>2. /\ at' = at + 1 /\ decision' = decision /\ reasons' \in Seq(Deferrals)
      /\ reasons' # <<>> <=> reasons # <<>> \/ failing
  BY <1>1, Noting DEF DeferIf, Defer, Examining
<1>3. \A n \in Nat : n < at' <=> n < at \/ n = at
  BY <1>1, <1>2 DEF Examining
<1>4. Examining'
  BY <1>1, <1>2, <1>3 DEF Examining
<1> QED
  BY <1>2, <1>4 DEF IInv, InputOK

LEMMA GoStep ==
  ASSUME IInv, decision = "none", at > 0, UNCHANGED input, Go, Passes(input, at), ~Defers(input, at)
  PROVE  IInv'
<1>1. DeferIf(FALSE, "none") /\ "none" \in Deferrals
  BY DEF Go, DeferIf, Deferrals
<1> QED
  BY <1>1, DeferStep, Zenon

LEMMA Early ==
  /\ \A n \in 1..8 : n # End + 1 /\ n # End + 2 /\ n # End + 3 /\ n # End + 4
  /\ \A n \in 1..8 : \A m \in DOMAIN Required : n # 8 + m
BY LenFacts

(* A rule that only refuses.                                               *)
LEMMA RefuseIfStep ==
  ASSUME IInv, NEW n \in Nat \ {0}, Rule(n), NEW why, NEW failing \in BOOLEAN, RefuseIf(failing, why),
         ~failing => Passes(input, n) /\ ~Defers(input, n)
  PROVE  IInv'
<1>1. decision = "none" /\ at = n /\ at > 0 /\ UNCHANGED input
  BY DEF Rule
<1>2. CASE failing
  BY <1>1, <1>2, RefuseStep DEF RefuseIf
<1>3. CASE ~failing
  <2>1. Go
    BY <1>3 DEF RefuseIf
  <2>2. Passes(input, at) /\ ~Defers(input, at)
    BY <1>1, <1>3
  <2> QED
    BY <1>1, <2>1, <2>2, GoStep
<1> QED
  BY <1>2, <1>3

LEMMA EarlyDefers == ASSUME NEW n \in 1..8, n # 2, n # 8 PROVE ~Defers(input, n)
BY Early, Zenon DEF Defers

LEMMA DigestStep == ASSUME IInv, Digest PROVE IInv'
<1>1. 1 \in 1..8 /\ 1 \in Nat \ {0} /\ 1 # 2 /\ 1 # 8
  OBVIOUS
<1>2. 1 # End + 1 /\ 1 # End + 2 /\ 1 # End + 3
  BY <1>1, Early
<1>3. ASSUME ~(input.digest = "empty") PROVE Passes(input, 1)
  BY <1>2, <1>3 DEF Passes
<1>4. Rule(1) /\ RefuseIf(input.digest = "empty", "missing_input_digest") /\ (input.digest = "empty") \in BOOLEAN
  BY DEF Digest
<1>5. ~Defers(input, 1)
  BY <1>1, EarlyDefers
<1> QED
  BY <1>1, <1>3, <1>4, <1>5, RefuseIfStep, Zenon

LEMMA CapabilityGivenStep == ASSUME IInv, CapabilityGiven PROVE IInv'
<1>1. 3 \in 1..8 /\ 3 \in Nat \ {0} /\ 3 # 2 /\ 3 # 8
  OBVIOUS
<1>2. 3 # End + 1 /\ 3 # End + 2 /\ 3 # End + 3
  BY <1>1, Early
<1>3. ASSUME ~(input.capability = "None") PROVE Passes(input, 3)
  BY <1>2, <1>3 DEF Passes
<1>4. Rule(3) /\ RefuseIf(input.capability = "None", "capability_missing") /\ (input.capability = "None") \in BOOLEAN
  BY DEF CapabilityGiven
<1>5. ~Defers(input, 3)
  BY <1>1, EarlyDefers
<1> QED
  BY <1>1, <1>3, <1>4, <1>5, RefuseIfStep, Zenon

LEMMA AuthorizedStep == ASSUME IInv, Authorized PROVE IInv'
<1>1. 4 \in 1..8 /\ 4 \in Nat \ {0} /\ 4 # 2 /\ 4 # 8
  OBVIOUS
<1>2. 4 # End + 1 /\ 4 # End + 2 /\ 4 # End + 3
  BY <1>1, Early
<1>3. ASSUME ~(input.authorized # "True") PROVE Passes(input, 4)
  BY <1>2, <1>3 DEF Passes
<1>4. Rule(4) /\ RefuseIf(input.authorized # "True", "capability_not_authorized") /\ (input.authorized # "True") \in BOOLEAN
  BY DEF Authorized
<1>5. ~Defers(input, 4)
  BY <1>1, EarlyDefers
<1> QED
  BY <1>1, <1>3, <1>4, <1>5, RefuseIfStep, Zenon

LEMMA ActionMatchesStep == ASSUME IInv, ActionMatches PROVE IInv'
<1>1. 6 \in 1..8 /\ 6 \in Nat \ {0} /\ 6 # 2 /\ 6 # 8
  OBVIOUS
<1>2. 6 # End + 1 /\ 6 # End + 2 /\ 6 # End + 3
  BY <1>1, Early
<1>3. ASSUME ~(input.action = "of another") PROVE Passes(input, 6)
  <2>1. 6 # 1 /\ 6 # 2 /\ 6 # 3 /\ 6 # 4 /\ 6 # 5 /\ 6 # 7
    OBVIOUS
  <2> QED
    BY <1>2, <1>3, <2>1, Zenon DEF Passes
<1>4. Rule(6) /\ RefuseIf(input.action = "of another", "action_capability_mismatch") /\ (input.action = "of another") \in BOOLEAN
  BY DEF ActionMatches
<1>5. ~Defers(input, 6)
  BY <1>1, EarlyDefers
<1> QED
  BY <1>1, <1>3, <1>4, <1>5, RefuseIfStep, Zenon

LEMMA RuntimeAvailableStep == ASSUME IInv, RuntimeAvailable PROVE IInv'
<1>1. 7 \in 1..8 /\ 7 \in Nat \ {0} /\ 7 # 2 /\ 7 # 8
  OBVIOUS
<1>2. 7 # End + 1 /\ 7 # End + 2 /\ 7 # End + 3
  BY <1>1, Early
<1>3. ASSUME ~(input.runtime = "unknown") PROVE Passes(input, 7)
  BY <1>2, <1>3 DEF Passes
<1>4. Rule(7) /\ RefuseIf(input.runtime = "unknown", "runtime_state_unavailable") /\ (input.runtime = "unknown") \in BOOLEAN
  BY DEF RuntimeAvailable
<1>5. ~Defers(input, 7)
  BY <1>1, EarlyDefers
<1> QED
  BY <1>1, <1>3, <1>4, <1>5, RefuseIfStep, Zenon

LEMMA VerificationStep == ASSUME IInv, Verification PROVE IInv'
<1>1. decision = "none" /\ at = 2 /\ at > 0 /\ UNCHANGED input
  BY DEF Verification, Rule
<1>2. 2 # 8 /\ 2 # End + 1 /\ 2 # End + 2 /\ 2 # End + 3 /\ \A m \in DOMAIN Required : 2 # 8 + m
  BY Early
<1>3. input.status \in {"PASS", "INSUFFICIENT_EVIDENCE", "FAIL", "REFUTED", "absent", "misspelt"}
  BY Typed DEF IInv
<1>4. CASE input.status = "REFUTED"
  BY <1>1, <1>4, RefuseStep DEF Verification
<1>5. CASE input.status \in {"FAIL", "absent", "misspelt"}
  <2>1. Refuse("verification_not_passed")
    BY <1>5 DEF Verification
  <2> QED
    BY <1>1, <2>1, RefuseStep
<1>6. CASE input.status = "INSUFFICIENT_EVIDENCE"
  <2>1. DeferIf(TRUE, "verification_insufficient_evidence")
    BY <1>6 DEF Verification, DeferIf
  <2>2. Passes(input, 2)
    BY <1>2, <1>6 DEF Passes
  <2>3. Defers(input, 2)
    BY <1>6, Zenon DEF Defers
  <2>4. "verification_insufficient_evidence" \in Deferrals
    BY DEF Deferrals
  <2> QED
    BY <1>1, <2>1, <2>2, <2>3, <2>4, DeferStep, Zenon
<1>7. CASE input.status = "PASS"
  <2>1. Go
    BY <1>7 DEF Verification
  <2>2. Passes(input, 2)
    BY <1>2, <1>7 DEF Passes
  <2>3. ~Defers(input, 2)
    BY <1>2, <1>7, Zenon DEF Defers
  <2> QED
    BY <1>1, <2>1, <2>2, <2>3, GoStep
<1> QED
  BY <1>3, <1>4, <1>5, <1>6, <1>7

LEMMA ParentStep == ASSUME IInv, Parent PROVE IInv'
<1>1. decision = "none" /\ at = 5 /\ at > 0 /\ UNCHANGED input /\ InputOK
  BY DEF Parent, Rule, IInv
<1>2. 5 # End + 1 /\ 5 # End + 2 /\ 5 # End + 3 /\ 5 \in 1..8 /\ 5 # 2 /\ 5 # 8
  BY Early
<1>3. CASE input.parent = "none" \/ (input.parent = "authorized" /\ input.registry = "given")
  <2>1. Go
    BY <1>3 DEF Parent
  <2>2. Passes(input, 5)
    BY <1>2, <1>3 DEF Passes
  <2>3. ~Defers(input, 5)
    BY <1>2, EarlyDefers
  <2> QED
    BY <1>1, <2>1, <2>2, <2>3, GoStep
<1>4. CASE ~(input.parent = "none" \/ (input.parent = "authorized" /\ input.registry = "given"))
  <2>1. \E why : Refuse(why)
    BY <1>1, <1>4, Typed DEF Parent
  <2> QED
    BY <1>1, <2>1, RefuseStep
<1> QED
  BY <1>3, <1>4

LEMMA RuntimeHealthyStep == ASSUME IInv, RuntimeHealthy PROVE IInv'
<1>1. /\ decision = "none" /\ at = 8 /\ at > 0 /\ UNCHANGED input
      /\ DeferIf(input.runtime = "degraded", "runtime_not_healthy")
  BY DEF RuntimeHealthy, Rule
<1>2. /\ 8 # 2 /\ 8 # End + 1 /\ 8 # End + 2 /\ 8 # End + 3
      /\ \A m \in DOMAIN Required : 8 # 8 + m
  BY Early
<1>3. Passes(input, 8)
  BY <1>2 DEF Passes
<1>4. Defers(input, 8) <=> input.runtime = "degraded"
  BY <1>2, Zenon DEF Defers
<1>5. "runtime_not_healthy" \in Deferrals /\ (input.runtime = "degraded") \in BOOLEAN
  BY DEF Deferrals
<1> QED
  BY <1>1, <1>3, <1>4, <1>5, DeferStep, Zenon

LEMMA RequiredEvidenceStep == ASSUME IInv, RequiredEvidence PROVE IInv'
<1>1. PICK n \in DOMAIN Required : Rule(8 + n) /\ DeferIf(input.evidence[Required[n]] # "True", Required[n])
  BY DEF RequiredEvidence
<1>2. decision = "none" /\ at = 8 + n /\ UNCHANGED input
  BY <1>1 DEF Rule
<1>3. /\ 8 + n \notin 1..8 /\ 8 + n > 0 /\ 8 + n \in Nat
      /\ 8 + n # End + 1 /\ 8 + n # End + 2 /\ 8 + n # End + 3
      /\ \A m \in DOMAIN Required : 8 + n = 8 + m => m = n
  BY LenFacts
<1>4. /\ 8 + n # 1 /\ 8 + n # 2 /\ 8 + n # 3 /\ 8 + n # 4 /\ 8 + n # 5 /\ 8 + n # 6 /\ 8 + n # 7 /\ 8 + n # 8
  BY LenFacts
<1>5. Passes(input, 8 + n)
  BY <1>3, <1>4, Zenon DEF Passes
<1>6. Defers(input, 8 + n) <=> input.evidence[Required[n]] # "True"
  BY <1>3, <1>4, Zenon DEF Defers
<1>7. Required[n] \in Deferrals /\ (input.evidence[Required[n]] # "True") \in BOOLEAN
  BY DEF Deferrals
<1>8. at > 0
  BY <1>2, <1>3
<1> QED
  BY <1>1, <1>2, <1>5, <1>6, <1>7, <1>8, DeferStep, Zenon

LEMMA QualityStep == ASSUME IInv, Quality PROVE IInv'
<1>1. decision = "none" /\ at = End + 1 /\ UNCHANGED input /\ InputOK
  BY DEF Quality, Rest, Rule, IInv, End
<1>2. /\ End + 1 > 0 /\ End + 1 # End + 2 /\ End + 1 # End + 3 /\ \A m \in DOMAIN Required : End + 1 # 8 + m
      /\ End + 1 # 1 /\ End + 1 # 2 /\ End + 1 # 3 /\ End + 1 # 4
      /\ End + 1 # 5 /\ End + 1 # 6 /\ End + 1 # 7 /\ End + 1 # 8
  BY LenFacts
<1>3. Passes(input, End + 1)
  BY <1>2, Zenon DEF Passes
<1>4. Defers(input, End + 1) <=> input.floor = "set" /\ QualityShown(input) # "high"
  BY <1>2, Zenon DEF Defers
<1>5. at > 0
  BY <1>1, <1>2
<1>6. /\ QualityShown(input) \in {"absent", "text", "not in range", "low", "high"}
      /\ QualityOrDefault = IF QualityShown(input) \in {"absent", "text"} THEN "low" ELSE QualityShown(input)
  BY <1>1, Typed DEF QualityShown, QualityOrDefault
<1>7. CASE input.floor = "set" /\ QualityShown(input) # "high"
  <2>1. PICK why \in Deferrals : DeferIf(TRUE, why)
    BY <1>6, <1>7 DEF Quality, DeferIf, Deferrals
  <2>2. TRUE <=> Defers(input, End + 1)
    BY <1>4, <1>7
  <2> QED
    BY <1>1, <1>3, <1>5, <2>1, <2>2, DeferStep, Zenon
<1>8. CASE ~(input.floor = "set" /\ QualityShown(input) # "high")
  <2>1. Go
    BY <1>6, <1>8 DEF Quality
  <2>2. ~Defers(input, End + 1)
    BY <1>4, <1>8
  <2> QED
    BY <1>1, <1>3, <1>5, <2>1, <2>2, GoStep
<1> QED
  BY <1>7, <1>8

LEMMA StepsStep == ASSUME IInv, Steps PROVE IInv'
<1>1. decision = "none" /\ at = End + 2 /\ UNCHANGED input /\ input.maxSteps \in {"none", "set"}
  BY Typed DEF Steps, Rest, Rule, End, IInv
<1>2. /\ End + 2 > 0 /\ End + 2 # End + 1 /\ End + 2 # End + 3 /\ \A m \in DOMAIN Required : End + 2 # 8 + m
      /\ End + 2 # 1 /\ End + 2 # 2 /\ End + 2 # 3 /\ End + 2 # 4
      /\ End + 2 # 5 /\ End + 2 # 6 /\ End + 2 # 7 /\ End + 2 # 8
  BY LenFacts
<1>3. Passes(input, End + 2) <=> ~(input.maxSteps = "set" /\ input.stepCount = "over")
  BY <1>2, Zenon DEF Passes
<1>4. Defers(input, End + 2) <=> input.maxSteps = "set" /\ input.stepCount \in {"bool", "fraction", "below 1"}
  BY <1>2, Zenon DEF Defers
<1>5. at > 0
  BY <1>1, <1>2
<1>6. CASE input.maxSteps = "set" /\ input.stepCount = "over"
  <2>1. Refuse("capability_max_steps_exceeded")
    BY <1>6 DEF Steps
  <2> QED
    BY <1>1, <2>1, RefuseStep
<1>7. CASE input.maxSteps = "set" /\ input.stepCount \in {"bool", "fraction", "below 1"}
  <2>1. DeferIf(TRUE, "invalid_step_count_metadata")
    BY <1>7 DEF Steps, DeferIf
  <2>2. Passes(input, End + 2) /\ (TRUE <=> Defers(input, End + 2)) /\ "invalid_step_count_metadata" \in Deferrals
    BY <1>3, <1>4, <1>7 DEF Deferrals
  <2> QED
    BY <1>1, <1>5, <2>1, <2>2, DeferStep, Zenon
<1>8. CASE ~(input.maxSteps = "set" /\ input.stepCount \in {"over", "bool", "fraction", "below 1"})
  <2>1. Go
    BY <1>1, <1>8 DEF Steps
  <2>2. Passes(input, End + 2) /\ ~Defers(input, End + 2)
    BY <1>3, <1>4, <1>8
  <2> QED
    BY <1>1, <1>5, <2>1, <2>2, GoStep
<1> QED
  BY <1>6, <1>7, <1>8

LEMMA PolicyStep == ASSUME IInv, Policy PROVE IInv'
<1>1. decision = "none" /\ at = End + 3 /\ UNCHANGED input
  BY DEF Policy, Rest, Rule, End
<1>2. /\ End + 3 > 0 /\ End + 3 # End + 1 /\ End + 3 # End + 2 /\ \A m \in DOMAIN Required : End + 3 # 8 + m
      /\ End + 3 # 1 /\ End + 3 # 2 /\ End + 3 # 3 /\ End + 3 # 4
      /\ End + 3 # 5 /\ End + 3 # 6 /\ End + 3 # 7 /\ End + 3 # 8
  BY LenFacts
<1> DEFINE Fine == input.allowOnly # "text" /\ (input.allowOnly = "none" \/ input.action \in {"None", "unnamed"} \/ Listed(input))
<1>3. Fine => Passes(input, End + 3)
  BY <1>2, Zenon DEF Passes
<1>4. ~Defers(input, End + 3)
  BY <1>2, Zenon DEF Defers
<1>5. at > 0
  BY <1>1, <1>2
<1>6. (Go /\ Fine) \/ \E why : Refuse(why)
  BY DEF Policy
<1>7. CASE Go /\ Fine
  BY <1>1, <1>3, <1>4, <1>5, <1>7, GoStep
<1>8. CASE \E why : Refuse(why)
  BY <1>1, <1>8, RefuseStep
<1> QED
  BY <1>6, <1>7, <1>8

LEMMA NextStep == IInv /\ [Next]_vars => IInv'
<1> SUFFICES ASSUME IInv, [Next]_vars PROVE IInv'
  OBVIOUS
<1>1. CASE \E f \in Fields : Vary(f)
  BY <1>1, VaryStep
<1>2. CASE Evaluate
  BY <1>2, EvaluateStep
<1>3. CASE Examine
  <2>1. CASE Conclude
    BY <2>1 DEF Conclude, Rest, Rule, IInv, InputOK
  <2> QED
    BY <1>3, <2>1, DigestStep, VerificationStep, CapabilityGivenStep, AuthorizedStep, ParentStep, ActionMatchesStep,
       RuntimeAvailableStep, RuntimeHealthyStep, RequiredEvidenceStep, QualityStep, StepsStep, PolicyStep DEF Examine
<1>4. CASE UNCHANGED vars
  BY <1>4 DEF vars, IInv, InputOK, Examining
<1> QED
  BY <1>1, <1>2, <1>3, <1>4 DEF Next

(* What the rules that have passed say together.                           *)
LEMMA AllPassed ==
  ASSUME InputOK, \A n \in Nat : 0 < n /\ n < End + 4 => Passes(input, n)
  PROVE  ~Refused(input) /\ (NotAllowed(input) <=> \E n \in Nat : 0 < n /\ n < End + 4 /\ Defers(input, n))
<1>1. /\ Passes(input, 1) /\ Passes(input, 2) /\ Passes(input, 3) /\ Passes(input, 4) /\ Passes(input, 5)
      /\ Passes(input, 6) /\ Passes(input, 7) /\ Passes(input, End + 2) /\ Passes(input, End + 3)
  BY LenFacts
<1>2. /\ input.digest # "empty" /\ input.status \in {"PASS", "INSUFFICIENT_EVIDENCE"} /\ input.capability # "None"
      /\ input.authorized = "True"
      /\ input.parent = "none" \/ (input.parent = "authorized" /\ input.registry = "given")
      /\ input.action # "of another" /\ input.runtime # "unknown"
      /\ ~(input.maxSteps = "set" /\ input.stepCount = "over")
      /\ input.allowOnly # "text"
      /\ input.allowOnly = "none" \/ input.action \in {"None", "unnamed"} \/ Listed(input)
  BY <1>1, Zenon DEF Passes
<1>3. ~Refused(input)
  BY <1>2 DEF Refused
<1>4. NotAllowed(input) <=>
        \/ input.status = "INSUFFICIENT_EVIDENCE" \/ input.runtime = "degraded"
        \/ \E m \in DOMAIN Required : input.evidence[Required[m]] # "True"
        \/ input.floor = "set" /\ QualityShown(input) # "high"
        \/ input.maxSteps = "set" /\ input.stepCount \in {"bool", "fraction", "below 1"}
  BY <1>2 DEF NotAllowed
<1>5. ASSUME NEW n \in Nat, 0 < n, n < End + 4, Defers(input, n) PROVE NotAllowed(input)
  BY <1>4, <1>5, Zenon DEF Defers
<1>6. ASSUME NotAllowed(input) PROVE \E n \in Nat : 0 < n /\ n < End + 4 /\ Defers(input, n)
  <2>1. \A n \in {2, 8, End + 1, End + 2} : n \in Nat /\ 0 < n /\ n < End + 4
    BY LenFacts
  <2>2. \A m \in DOMAIN Required : 8 + m \in Nat /\ 0 < 8 + m /\ 8 + m < End + 4
    BY LenFacts
  <2>3. \E n \in {2, 8, End + 1, End + 2} \cup {8 + m : m \in DOMAIN Required} : Defers(input, n)
    BY <1>4, <1>6, Zenon DEF Defers
  <2> QED
    BY <2>1, <2>2, <2>3
<1> QED
  BY <1>3, <1>5, <1>6

LEMMA InvGate == Spec => []IInv
<1> QED
  BY InitIInv, NextStep, PTL DEF Spec

(* Each refusal has a cause.                                               *)
LEMMA RefusalStep ==
  ASSUME IInv, Examine, decision' # decision, ~Conclude
  PROVE  decision' = "REFUSE" /\ (Refused(input) \/ NotAllowed(input))
<1> USE DEF Go, Defer, DeferIf, RefuseIf, Refuse, Rule, Rest
<1>1. CASE Digest \/ CapabilityGiven \/ Authorized \/ ActionMatches \/ RuntimeAvailable
  BY <1>1, Typed DEF IInv, Digest, CapabilityGiven, Authorized, ActionMatches, RuntimeAvailable, Refused, NotAllowed
<1>2. CASE Verification
  BY <1>2 DEF Verification, Refused
<1>3. CASE Parent
  BY <1>3 DEF Parent, Refused, NotAllowed
<1>4. CASE RuntimeHealthy \/ RequiredEvidence
  BY <1>4 DEF RuntimeHealthy, RequiredEvidence
<1>5. CASE Quality
  BY <1>5 DEF Quality
<1>6. CASE Steps
  BY <1>6, Typed DEF IInv, Steps, Refused
<1>7. CASE Policy
  BY <1>7 DEF Policy, Refused, NotAllowed
<1> QED
  BY <1>1, <1>2, <1>3, <1>4, <1>5, <1>6, <1>7 DEF Examine

(* A decision is ALLOW exactly when nothing is wrong.                      *)
LEMMA DecisionConstrained ==
  ASSUME IInv, Examine, decision' # decision
  PROVE  /\ decision' = "ALLOW" <=> ~Refused(input) /\ ~NotAllowed(input)
         /\ Refused(input) => decision' = "REFUSE"
<1>1. CASE Conclude
  <2>1. decision = "none" /\ at = End + 4 /\ Examining /\ InputOK
    BY <1>1 DEF Conclude, Rest, Rule, IInv, End
  <2>2. ~Refused(input) /\ (NotAllowed(input) <=> reasons # <<>>)
    BY <2>1, AllPassed DEF Examining
  <2> QED
    BY <1>1, <2>2 DEF Conclude
<1>2. CASE ~Conclude
  BY <1>2, RefusalStep
<1> QED
  BY <1>1, <1>2

(* gate_constraint.py for every input and every list of required evidence: *)
(* the gate allows exactly the inputs nothing is wrong with, and what must *)
(* be refused is refused, whatever else would only defer it.               *)
THEOREM GateConstrained == Spec => Constrained
<1> DEFINE Right == decision' # decision =>
       /\ decision' = "ALLOW" <=> ~Refused(input) /\ ~NotAllowed(input)
       /\ Refused(input) => decision' = "REFUSE"
<1>1. IInv /\ [Next]_vars => [Right]_vars
  <2> SUFFICES ASSUME IInv, Next, decision' # decision PROVE Right
    BY DEF vars
  <2>1. Examine
    BY DEF Next, Vary, Evaluate
  <2> QED
    BY <2>1, DecisionConstrained
<1> QED
  BY <1>1, InvGate, PTL DEF Spec, Constrained
---------------------------------------------------------------------------
(* 2.  The replay.                                                         *)

When(c, why) == IF c THEN <<why>> ELSE <<>>

(* What the gate has noted when it comes to its n-th rule.                 *)
NotedStatus(i)   == When(i.status = "INSUFFICIENT_EVIDENCE", "verification_insufficient_evidence")
NotedRuntime(i)  == NotedStatus(i) \o When(i.runtime # "healthy", "runtime_not_healthy")
NotedNames(i, m) == NotedRuntime(i) \o NamesLacking(i, m)
NotedQuality(i)  ==
  NotedNames(i, Len(Required)) \o When(i.floor = "set" /\ ReplayQuality(i) = "not in range", "evidence_quality_invalid")
                               \o When(i.floor = "set" /\ ReplayQuality(i) = "low", "evidence_quality_below_threshold")
NotedSteps(i)    ==
  NotedQuality(i) \o When(i.maxSteps # "none" /\ i.stepCount \in {"bool", "fraction", "below 1"}, "invalid_step_count_metadata")
Noted(i, n) ==
  IF n <= 2 THEN <<>> ELSE IF n <= 8 THEN NotedStatus(i) ELSE IF n <= End + 1 THEN NotedNames(i, n - 9)
  ELSE IF n = End + 2 THEN NotedQuality(i) ELSE NotedSteps(i)

NotesInv ==
  /\ input.allowOnly \in Kinds["allowOnly"] \cup {"list with it"}
  /\ decision = "none" => reasons = Noted(input, at)

(* The names that are lacking among the first m are those among the first  *)
(* m - 1, and the m-th if it is lacking: no other has its place.           *)
LEMMA LackingFacts ==
  ASSUME NEW i, NEW m \in 1..Len(Required)
  PROVE  /\ IsFiniteSet(Lacking(i, m)) /\ IsFiniteSet(Lacking(i, m - 1))
         /\ Cardinality(Lacking(i, m)) \in Nat /\ Cardinality(Lacking(i, m - 1)) \in Nat
         /\ i.evidence[Required[m]] # "True" => Cardinality(Lacking(i, m)) = Cardinality(Lacking(i, m - 1)) + 1
         /\ i.evidence[Required[m]] = "True" => Lacking(i, m) = Lacking(i, m - 1)
<1>1. m \in Nat /\ m - 1 \in Nat /\ 1 \in Int /\ m \in Int /\ m - 1 \in Int
  BY LenFacts
<1>2. IsFiniteSet(1..m) /\ IsFiniteSet(1..(m - 1))
  BY <1>1, FS_Interval
<1>3. Lacking(i, m) \in SUBSET (1..m) /\ Lacking(i, m - 1) \in SUBSET (1..(m - 1))
  BY DEF Lacking
<1>4. IsFiniteSet(Lacking(i, m)) /\ IsFiniteSet(Lacking(i, m - 1))
  BY <1>2, <1>3, FS_Subset
<1>5. Cardinality(Lacking(i, m)) \in Nat /\ Cardinality(Lacking(i, m - 1)) \in Nat
  BY <1>4, FS_CardinalityType
<1>6. 1..m = (1..(m - 1)) \cup {m} /\ m \notin 1..(m - 1)
  BY <1>1
<1>7. ASSUME i.evidence[Required[m]] # "True" PROVE Lacking(i, m) = Lacking(i, m - 1) \cup {m} /\ m \notin Lacking(i, m - 1)
  BY <1>6, <1>7 DEF Lacking
<1>8. ASSUME i.evidence[Required[m]] = "True" PROVE Lacking(i, m) = Lacking(i, m - 1)
  BY <1>6, <1>8 DEF Lacking
<1> QED
  BY <1>4, <1>5, <1>7, <1>8, FS_AddElement

LEMMA OwnPlace ==
  ASSUME NEW i, NEW m \in 1..Len(Required), i.evidence[Required[m]] # "True"
  PROVE  Place(i, Cardinality(Lacking(i, m))) = m
<1> DEFINE n == Len(Required)
           c == Cardinality(Lacking(i, m))
<1>1. n \in Nat /\ m \in 1..n /\ m \in Lacking(i, n) /\ m \in Lacking(i, m)
  BY LenFacts DEF Lacking
<1>2. ASSUME NEW p \in Lacking(i, n), Cardinality(Lacking(i, p)) = c PROVE p = m
  <2>1. p \in 1..n /\ i.evidence[Required[p]] # "True" /\ p \in Lacking(i, p)
    BY LenFacts DEF Lacking
  <2>2. IsFiniteSet(Lacking(i, p)) /\ IsFiniteSet(Lacking(i, m))
    BY <2>1, LackingFacts
  <2>3. CASE p < m
    <3>1. Lacking(i, p) \in SUBSET Lacking(i, m) /\ m \notin Lacking(i, p)
      BY <1>1, <2>1, <2>3 DEF Lacking
    <3> QED
      BY <1>1, <1>2, <2>2, <3>1, FS_Subset
  <2>4. CASE m < p
    <3>1. Lacking(i, m) \in SUBSET Lacking(i, p) /\ p \notin Lacking(i, m)
      BY <1>1, <2>1, <2>4 DEF Lacking
    <3> QED
      BY <1>2, <2>1, <2>2, <3>1, FS_Subset
  <2> QED
    BY <1>1, <2>1, <2>3, <2>4
<1> QED
  BY <1>1, <1>2 DEF Place

LEMMA NamesAreASequence ==
  ASSUME NEW i, NEW m \in 0..Len(Required)
  PROVE  \E S : /\ NamesLacking(i, m) \in Seq(S) /\ {Required[n] : n \in DOMAIN Required} \subseteq S
                /\ Len(NamesLacking(i, m)) = Cardinality(Lacking(i, m))
<1> DEFINE c == Cardinality(Lacking(i, m))
           S == {Required[Place(i, k)] : k \in 1..c} \cup {Required[n] : n \in DOMAIN Required}
<1>1. c \in Nat
  <2>1. CASE m = 0
    <3>1. Lacking(i, m) = {}
      BY <2>1 DEF Lacking
    <3> QED
      BY <3>1, FS_EmptySet
  <2>2. CASE m # 0
    BY <2>2, LenFacts, LackingFacts
  <2> QED
    BY <2>1, <2>2
<1>2. NamesLacking(i, m) \in [1..c -> S]
  BY DEF NamesLacking
<1> HIDE DEF c
<1>3. NamesLacking(i, m) \in Seq(S) /\ Len(NamesLacking(i, m)) = c
  BY <1>1, <1>2
<1> QED
  BY <1>3 DEF c

LEMMA NamesGrow ==
  ASSUME NEW i, NEW m \in 1..Len(Required)
  PROVE  NamesLacking(i, m) = NamesLacking(i, m - 1) \o When(i.evidence[Required[m]] # "True", Required[m])
<1>1. m - 1 \in 0..Len(Required) /\ m \in DOMAIN Required
  BY LenFacts
<1>2. PICK S : /\ NamesLacking(i, m - 1) \in Seq(S) /\ {Required[n] : n \in DOMAIN Required} \subseteq S
               /\ Len(NamesLacking(i, m - 1)) = Cardinality(Lacking(i, m - 1))
  BY <1>1, NamesAreASequence
<1>3. CASE i.evidence[Required[m]] = "True"
  <2>1. NamesLacking(i, m) = NamesLacking(i, m - 1)
    BY <1>3, LackingFacts DEF NamesLacking
  <2>2. NamesLacking(i, m - 1) \o <<>> = NamesLacking(i, m - 1)
    BY <1>2, ConcatEmptySeq
  <2> QED
    BY <1>3, <2>1, <2>2 DEF When
<1>4. CASE i.evidence[Required[m]] # "True"
  <2> DEFINE c == Cardinality(Lacking(i, m))
             d == Cardinality(Lacking(i, m - 1))
             s == NamesLacking(i, m - 1) \o <<Required[m]>>
  <2>1. c = d + 1 /\ d \in Nat /\ c \in Nat
    BY <1>4, LackingFacts
  <2>2. Required[m] \in S /\ <<Required[m]>> \in Seq(S) /\ Len(<<Required[m]>>) = 1
    BY <1>1, <1>2
  <2>3. /\ s \in Seq(S) /\ Len(s) = d + 1
        /\ \A k \in 1..(d + 1) : s[k] = IF k <= d THEN NamesLacking(i, m - 1)[k] ELSE <<Required[m]>>[k - d]
    BY <1>2, <2>2, ConcatProperties
  <2>4. \A k \in 1..d : NamesLacking(i, m - 1)[k] = Required[Place(i, k)]
    BY DEF NamesLacking
  <2>5. Required[Place(i, c)] = Required[m]
    BY <1>4, OwnPlace
  <2> HIDE DEF c, d
  <2>6. \A k \in 1..c : s[k] = Required[Place(i, k)]
    BY <2>1, <2>3, <2>4, <2>5
  <2>7. DOMAIN s = 1..c
    BY <2>1, <2>3
  <2>8. NamesLacking(i, m) = [k \in 1..c |-> Required[Place(i, k)]]
    BY DEF NamesLacking, c
  <2>9. s \in [1..c -> S]
    BY <2>1, <2>3, LenProperties
  <2> HIDE DEF s
  <2>10. s = [k \in 1..c |-> Required[Place(i, k)]]
    BY <2>6, <2>9
  <2> QED
    BY <1>4, <2>8, <2>10 DEF When, s
<1> QED
  BY <1>3, <1>4

LEMMA WhenFacts ==
  /\ \A S : \A why \in S : \A c \in BOOLEAN : When(c, why) \in Seq(S)
  /\ \A c \in BOOLEAN : \A why : (When(c, why) = <<>>) <=> ~c
<1>1. ASSUME NEW S, NEW why \in S, NEW c \in BOOLEAN PROVE When(c, why) \in Seq(S)
  BY DEF When
<1>2. ASSUME NEW c \in BOOLEAN, NEW why PROVE (When(c, why) = <<>>) <=> ~c
  <2>1. <<why>> # <<>>
    OBVIOUS
  <2> QED
    BY <2>1 DEF When
<1> QED
  BY <1>1, <1>2

LEMMA NotedNamesGrow ==
  ASSUME NEW i, NEW m \in 1..Len(Required)
  PROVE  NotedNames(i, m) = NotedNames(i, m - 1) \o When(i.evidence[Required[m]] # "True", Required[m])
<1>1. m - 1 \in 0..Len(Required) /\ m \in DOMAIN Required
  BY LenFacts
<1>2. PICK S : NamesLacking(i, m - 1) \in Seq(S) /\ {Required[n] : n \in DOMAIN Required} \subseteq S
  BY <1>1, NamesAreASequence
<1> DEFINE T == S \cup {"verification_insufficient_evidence", "runtime_not_healthy"}
           W == When(i.evidence[Required[m]] # "True", Required[m])
<1>3. NamesLacking(i, m - 1) \in Seq(T)
  BY <1>2, SeqMonotonic
<1>4. Required[m] \in T /\ "verification_insufficient_evidence" \in T /\ "runtime_not_healthy" \in T
  BY <1>1, <1>2
<1>5. W \in Seq(T)
  BY <1>4, WhenFacts
<1>6. NotedRuntime(i) \in Seq(T)
  <2>1. /\ When(i.status = "INSUFFICIENT_EVIDENCE", "verification_insufficient_evidence") \in Seq(T)
        /\ When(i.runtime # "healthy", "runtime_not_healthy") \in Seq(T)
    BY <1>4, WhenFacts
  <2> QED
    BY <2>1, ConcatProperties DEF NotedRuntime, NotedStatus
<1> HIDE DEF T, W
<1>7. (NotedRuntime(i) \o NamesLacking(i, m - 1)) \o W = NotedRuntime(i) \o (NamesLacking(i, m - 1) \o W)
  BY <1>3, <1>5, <1>6, ConcatAssociative
<1> QED
  BY <1>7, NamesGrow DEF NotedNames, W

LEMMA NotedFirstNames == ASSUME NEW i PROVE NotedNames(i, 0) = NotedRuntime(i)
<1>1. Lacking(i, 0) = {}
  BY DEF Lacking
<1>2. Cardinality(Lacking(i, 0)) = 0
  BY <1>1, FS_EmptySet
<1>3. NamesLacking(i, 0) = <<>>
  BY <1>2 DEF NamesLacking
<1>4. NotedRuntime(i) \in Seq({"verification_insufficient_evidence", "runtime_not_healthy"})
  BY WhenFacts, ConcatProperties DEF NotedRuntime, NotedStatus
<1> QED
  BY <1>3, <1>4, ConcatEmptySeq DEF NotedNames

(* A rule that notes what Noted says, or nothing.                          *)
LEMMA NoteStep ==
  ASSUME NotesInv, decision = "none", UNCHANGED input, NEW w, Defer(w), Noted(input, at + 1) = Noted(input, at) \o w
  PROVE  NotesInv'
<1>1. reasons' = Noted(input, at + 1) /\ at' = at + 1 /\ input' = input
  BY DEF Defer, NotesInv
<1>2. reasons' = Noted(input', at')
  BY <1>1
<1> QED
  BY <1>1, <1>2 DEF NotesInv

LEMMA NotesGoStep ==
  ASSUME IInv, NotesInv, decision = "none", UNCHANGED input, Go, Noted(input, at + 1) = Noted(input, at)
  PROVE  NotesInv'
<1>1. reasons \in Seq(Deferrals) /\ reasons = Noted(input, at)
  BY DEF IInv, Examining, NotesInv
<1>2. Noted(input, at) \o <<>> = Noted(input, at)
  BY <1>1, ConcatEmptySeq
<1> QED
  BY <1>2, NoteStep, Zenon DEF Go

LEMMA NotesRefuseStep ==
  ASSUME NotesInv, decision = "none", UNCHANGED input, NEW why, Refuse(why)
  PROVE  NotesInv'
BY DEF Refuse, NotesInv

LEMMA NotesQuiet ==
  /\ \A n \in {1, 3, 4, 5, 6, 7} : Noted(input, n + 1) = Noted(input, n)
  /\ Noted(input, End + 4) = Noted(input, End + 3)
<1>1. ASSUME NEW n \in {1, 3, 4, 5, 6, 7} PROVE Noted(input, n + 1) = Noted(input, n)
  BY DEF Noted
<1>2. Noted(input, End + 4) = Noted(input, End + 3)
  BY LenFacts DEF Noted
<1> QED
  BY <1>1, <1>2

LEMMA NotesRefuseIfStep ==
  ASSUME IInv, NotesInv, NEW n, Rule(n), NEW why, NEW failing \in BOOLEAN, RefuseIf(failing, why),
         Noted(input, n + 1) = Noted(input, n)
  PROVE  NotesInv'
<1>1. decision = "none" /\ at = n /\ UNCHANGED input
  BY DEF Rule
<1>2. CASE failing
  BY <1>1, <1>2, NotesRefuseStep DEF RefuseIf
<1>3. CASE ~failing
  BY <1>1, <1>3, NotesGoStep DEF RefuseIf
<1> QED
  BY <1>2, <1>3

LEMMA NotesEarly ==
  ASSUME IInv, NotesInv, Digest \/ CapabilityGiven \/ Authorized \/ ActionMatches \/ RuntimeAvailable
  PROVE  NotesInv'
<1>1. /\ Noted(input, 1 + 1) = Noted(input, 1) /\ Noted(input, 3 + 1) = Noted(input, 3)
      /\ Noted(input, 4 + 1) = Noted(input, 4) /\ Noted(input, 6 + 1) = Noted(input, 6)
      /\ Noted(input, 7 + 1) = Noted(input, 7)
  BY NotesQuiet
<1>2. PICK n \in {1, 3, 4, 6, 7} : \E why : \E failing \in BOOLEAN : Rule(n) /\ RefuseIf(failing, why)
  <2>1. CASE Digest
    BY <2>1 DEF Digest
  <2>2. CASE CapabilityGiven
    BY <2>2 DEF CapabilityGiven
  <2>3. CASE Authorized
    BY <2>3 DEF Authorized
  <2>4. CASE ActionMatches
    BY <2>4 DEF ActionMatches
  <2>5. CASE RuntimeAvailable
    BY <2>5 DEF RuntimeAvailable
  <2> QED
    BY <2>1, <2>2, <2>3, <2>4, <2>5
<1>3. Noted(input, n + 1) = Noted(input, n)
  BY <1>1
<1> QED
  BY <1>2, <1>3, NotesRefuseIfStep

LEMMA NotesVerification == ASSUME IInv, NotesInv, Verification PROVE NotesInv'
<1>1. decision = "none" /\ at = 2 /\ UNCHANGED input
  BY DEF Verification, Rule
<1>2. input.status \in {"PASS", "INSUFFICIENT_EVIDENCE", "FAIL", "REFUTED", "absent", "misspelt"}
  BY Typed DEF IInv
<1>3. Noted(input, 2) = <<>> /\ Noted(input, 2 + 1) = NotedStatus(input)
  BY DEF Noted
<1>4. CASE input.status \in {"REFUTED", "FAIL", "absent", "misspelt"}
  <2>1. \E why : Refuse(why)
    BY <1>4 DEF Verification
  <2> QED
    BY <1>1, <2>1, NotesRefuseStep
<1>5. CASE input.status = "INSUFFICIENT_EVIDENCE"
  <2>0. <<>> \o <<"verification_insufficient_evidence">> = <<"verification_insufficient_evidence">>
    OBVIOUS
  <2>1. Defer(<<"verification_insufficient_evidence">>)
    BY <1>5 DEF Verification
  <2>2. Noted(input, 2 + 1) = Noted(input, 2) \o <<"verification_insufficient_evidence">>
    BY <1>3, <1>5, <2>0 DEF NotedStatus, When
  <2> QED
    BY <1>1, <2>1, <2>2, NoteStep
<1>6. CASE input.status = "PASS"
  <2>1. Go
    BY <1>6 DEF Verification
  <2>2. Noted(input, 2 + 1) = Noted(input, 2)
    BY <1>3, <1>6 DEF NotedStatus, When
  <2> QED
    BY <1>1, <2>1, <2>2, NotesGoStep
<1> QED
  BY <1>2, <1>4, <1>5, <1>6

LEMMA NotesParent == ASSUME IInv, NotesInv, Parent PROVE NotesInv'
<1>1. decision = "none" /\ at = 5 /\ UNCHANGED input
  BY DEF Parent, Rule
<1>2. Noted(input, 5 + 1) = Noted(input, 5)
  BY NotesQuiet
<1>3. Go \/ \E why : Refuse(why)
  BY DEF Parent
<1> QED
  BY <1>1, <1>2, <1>3, NotesGoStep, NotesRefuseStep

LEMMA NotesRuntime == ASSUME IInv, NotesInv, RuntimeHealthy PROVE NotesInv'
<1>1. decision = "none" /\ at = 8 /\ UNCHANGED input /\ InputOK /\ Examining
  BY DEF RuntimeHealthy, Rule, IInv
<1>2. input.runtime # "unknown"
  <2>1. Passes(input, 7)
    BY <1>1 DEF Examining
  <2> QED
    BY <2>1, Zenon DEF Passes
<1>3. (input.runtime # "healthy") <=> (input.runtime = "degraded")
  BY <1>1, <1>2, Typed
<1>4. Noted(input, 8) = NotedStatus(input) /\ Noted(input, 8 + 1) = NotedNames(input, 0)
  BY LenFacts DEF Noted
<1>5. Defer(When(input.runtime # "healthy", "runtime_not_healthy"))
  BY <1>3 DEF RuntimeHealthy, DeferIf, When
<1>6. Noted(input, 8 + 1) = Noted(input, 8) \o When(input.runtime # "healthy", "runtime_not_healthy")
  BY <1>4, NotedFirstNames DEF NotedRuntime
<1> QED
  BY <1>1, <1>5, <1>6, NoteStep

LEMMA NotesEvidence == ASSUME IInv, NotesInv, RequiredEvidence PROVE NotesInv'
<1>1. PICK n \in DOMAIN Required : Rule(8 + n) /\ DeferIf(input.evidence[Required[n]] # "True", Required[n])
  BY DEF RequiredEvidence
<1>2. decision = "none" /\ at = 8 + n /\ UNCHANGED input
  BY <1>1 DEF Rule
<1>3. Defer(When(input.evidence[Required[n]] # "True", Required[n]))
  BY <1>1 DEF DeferIf, When
<1>4. n \in 1..Len(Required)
  BY LenFacts
<1>5. Noted(input, at) = NotedNames(input, n - 1) /\ Noted(input, at + 1) = NotedNames(input, n)
  <2>1. ~(8 + n <= 2) /\ ~(8 + n <= 8) /\ 8 + n <= End + 1 /\ 8 + n - 9 = n - 1
    BY <1>4, LenFacts
  <2>2. ~(8 + n + 1 <= 2) /\ ~(8 + n + 1 <= 8) /\ 8 + n + 1 <= End + 1 /\ 8 + n + 1 - 9 = n
    BY <1>4, LenFacts
  <2> QED
    BY <1>2, <2>1, <2>2 DEF Noted
<1> QED
  BY <1>2, <1>3, <1>4, <1>5, NotedNamesGrow, NoteStep

LEMMA NotedAt ==
  ASSUME NEW i, NEW n \in Nat
  PROVE  /\ n > 8 /\ n <= End + 1 => Noted(i, n) = NotedNames(i, n - 9)
         /\ n = End + 2 => Noted(i, n) = NotedQuality(i)
         /\ n > End + 2 => Noted(i, n) = NotedSteps(i)
BY LenFacts DEF Noted

LEMMA NotesQuality == ASSUME IInv, NotesInv, Quality PROVE NotesInv'
<1>1. decision = "none" /\ at = End + 1 /\ UNCHANGED input
  BY DEF Quality, Rest, Rule, End
<1> DEFINE N == NotedNames(input, Len(Required))
           Invalid == input.floor = "set" /\ ReplayQuality(input) = "not in range"
           Below == input.floor = "set" /\ ReplayQuality(input) = "low"
<1>2. Noted(input, at) = N /\ Noted(input, at + 1) = NotedQuality(input)
  <2>1. End + 1 \in Nat /\ End + 1 > 8 /\ End + 1 <= End + 1 /\ End + 1 - 9 = Len(Required)
    BY LenFacts
  <2>2. End + 1 + 1 \in Nat /\ End + 1 + 1 = End + 2
    BY LenFacts
  <2>3. Noted(input, End + 1) = NotedNames(input, End + 1 - 9)
    BY <2>1, NotedAt, LenFacts
  <2>4. Noted(input, End + 1 + 1) = NotedQuality(input)
    BY <2>2, NotedAt
  <2> QED
    BY <1>1, <2>1, <2>3, <2>4
<1>3. N \in Seq(Deferrals)
  BY <1>1, <1>2 DEF IInv, Examining, NotesInv
<1>4. QualityOrDefault = ReplayQuality(input)
  BY DEF QualityOrDefault, ReplayQuality
<1>5. NotedQuality(input) = (N \o When(Invalid, "evidence_quality_invalid")) \o When(Below, "evidence_quality_below_threshold")
  BY DEF NotedQuality
<1>6. "evidence_quality_invalid" \in Deferrals
  BY DEF Deferrals
<1>7. /\ N \o <<>> = N /\ N \o <<"evidence_quality_invalid">> \in Seq(Deferrals)
      /\ (N \o <<"evidence_quality_invalid">>) \o <<>> = N \o <<"evidence_quality_invalid">>
  BY <1>3, <1>6, Noting, ConcatEmptySeq
<1>8. CASE Invalid
  <2>1. Defer(<<"evidence_quality_invalid">>)
    BY <1>4, <1>8 DEF Quality
  <2>2. Noted(input, at + 1) = Noted(input, at) \o <<"evidence_quality_invalid">>
    BY <1>2, <1>5, <1>7, <1>8 DEF When
  <2> QED
    BY <1>1, <2>1, <2>2, NoteStep
<1>9. CASE Below
  <2>1. Defer(<<"evidence_quality_below_threshold">>)
    BY <1>4, <1>9 DEF Quality
  <2>2. Noted(input, at + 1) = Noted(input, at) \o <<"evidence_quality_below_threshold">>
    BY <1>2, <1>5, <1>7, <1>9 DEF When
  <2> QED
    BY <1>1, <2>1, <2>2, NoteStep
<1>10. CASE ~Invalid /\ ~Below
  <2>1. Go
    BY <1>4, <1>10 DEF Quality
  <2>2. Noted(input, at + 1) = Noted(input, at)
    BY <1>2, <1>5, <1>7, <1>10 DEF When
  <2> QED
    BY <1>1, <2>1, <2>2, NotesGoStep
<1> QED
  BY <1>8, <1>9, <1>10

LEMMA NotesSteps == ASSUME IInv, NotesInv, Steps PROVE NotesInv'
<1>1. decision = "none" /\ at = End + 2 /\ UNCHANGED input /\ input.maxSteps \in {"none", "set"}
  BY Typed DEF Steps, Rest, Rule, End, IInv
<1> DEFINE Odd == input.maxSteps # "none" /\ input.stepCount \in {"bool", "fraction", "below 1"}
<1>2. Noted(input, at) = NotedQuality(input) /\ Noted(input, at + 1) = NotedSteps(input)
  <2>1. ~(End + 2 <= 2) /\ ~(End + 2 <= 8) /\ ~(End + 2 <= End + 1)
    BY LenFacts
  <2>2. ~(End + 2 + 1 <= 2) /\ ~(End + 2 + 1 <= 8) /\ ~(End + 2 + 1 <= End + 1) /\ ~(End + 2 + 1 = End + 2)
    BY LenFacts
  <2> QED
    BY <1>1, <2>1, <2>2 DEF Noted
<1>3. NotedSteps(input) = NotedQuality(input) \o When(Odd, "invalid_step_count_metadata")
  BY DEF NotedSteps
<1>4. CASE input.maxSteps = "set" /\ input.stepCount = "over"
  <2>1. Refuse("capability_max_steps_exceeded")
    BY <1>4 DEF Steps
  <2> QED
    BY <1>1, <2>1, NotesRefuseStep
<1>5. CASE ~(input.maxSteps = "set" /\ input.stepCount = "over")
  <2>1. Defer(When(Odd, "invalid_step_count_metadata"))
    BY <1>1, <1>5 DEF Steps, When, Go
  <2> QED
    BY <1>1, <1>2, <1>3, <2>1, NoteStep
<1> QED
  BY <1>4, <1>5

LEMMA NotesPolicy == ASSUME IInv, NotesInv, Policy PROVE NotesInv'
<1>1. decision = "none" /\ at = End + 3 /\ UNCHANGED input
  BY DEF Policy, Rest, Rule, End
<1>2. Noted(input, at + 1) = Noted(input, at)
  <2>1. at + 1 = End + 4
    BY <1>1, LenFacts
  <2> QED
    BY <1>1, <2>1, NotesQuiet
<1>3. Go \/ \E why : Refuse(why)
  BY DEF Policy
<1> QED
  BY <1>1, <1>2, <1>3, NotesGoStep, NotesRefuseStep

LEMMA NotesExamine == ASSUME IInv, NotesInv, Examine PROVE NotesInv'
<1>1. CASE Conclude
  BY <1>1 DEF Conclude, Rest, Rule, NotesInv
<1> QED
  BY <1>1, NotesEarly, NotesVerification, NotesParent, NotesRuntime, NotesEvidence, NotesQuality, NotesSteps,
     NotesPolicy DEF Examine

LEMMA NotesVary == ASSUME IInv, NotesInv, NEW f \in Fields, Vary(f) PROVE NotesInv'
<1>1. at = 0 /\ at' = 0 /\ reasons' = reasons /\ decision' = decision
  BY DEF Vary
<1>2. Noted(input, 0) = <<>> /\ Noted(input', 0) = <<>>
  BY DEF Noted
<1>3. input'.allowOnly \in Kinds["allowOnly"] \cup {"list with it"}
  <2>1. PICK k \in Kinds[f] : input' = [input EXCEPT ![f] = k]
    BY DEF Vary
  <2>2. DOMAIN input = Fields /\ f \in DOMAIN input
    BY DEF IInv, InputOK
  <2>3. CASE f = "allowOnly"
    <3>1. input'["allowOnly"] = k
      BY <2>1, <2>2, <2>3
    <3> QED
      BY <2>3, <3>1
  <2>4. CASE f # "allowOnly"
    <3>1. input'.allowOnly = input.allowOnly
      BY <2>1, <2>4
    <3> QED
      BY <3>1 DEF NotesInv
  <2> QED
    BY <2>3, <2>4
<1> QED
  BY <1>1, <1>2, <1>3 DEF NotesInv

(* The refusing rules of the replay, of the record as a package holds it.  *)
LEMMA PackagedFacts ==
  ASSUME InputOK
  PROVE  /\ \A f \in Fields \ {"allowOnly"} : Packaged(input)[f] = input[f]
         /\ Packaged(input).allowOnly = IF input.allowOnly = "tuple with it" THEN "list with it" ELSE input.allowOnly
         /\ DOMAIN Packaged(input) = Fields
<1>1. DOMAIN input = Fields /\ "allowOnly" \in Fields
  BY DEF InputOK, Fields, Kinds
<1> QED
  BY <1>1 DEF Packaged

LEMMA RulesDomain == ASSUME NEW i PROVE DOMAIN ReplayRefusals(i) = 1..13
BY DEF ReplayRefusals

LEMMA RulesOf ==
  ASSUME NEW i
  PROVE  /\ ReplayRefusals(i)[1].why = "missing_input_digest" /\ ReplayRefusals(i)[2].why = "verification_refuted"
         /\ ReplayRefusals(i)[3].why = "verification_not_passed" /\ ReplayRefusals(i)[4].why = "capability_missing"
         /\ ReplayRefusals(i)[5].why = "capability_not_authorized"
         /\ ReplayRefusals(i)[6].why = "capability_parent_requires_registry"
         /\ ReplayRefusals(i)[7].why = "capability_parent_missing"
         /\ ReplayRefusals(i)[8].why = "capability_parent_not_authorized"
         /\ ReplayRefusals(i)[9].why = "action_capability_mismatch"
         /\ ReplayRefusals(i)[10].why = "runtime_state_unavailable"
         /\ ReplayRefusals(i)[11].why = "capability_max_steps_exceeded"
         /\ ReplayRefusals(i)[12].why = "policy_invalid"
         /\ ReplayRefusals(i)[13].why = "action_not_permitted_by_policy"
BY DEF ReplayRefusals

LEMMA FailsOf ==
  ASSUME NEW i
  PROVE  /\ ReplayRefusals(i)[1].fails <=> i.digest = "empty"
         /\ ReplayRefusals(i)[2].fails <=> i.status = "REFUTED"
         /\ ReplayRefusals(i)[3].fails <=> i.status \notin {"PASS", "INSUFFICIENT_EVIDENCE", "REFUTED"}
         /\ ReplayRefusals(i)[4].fails <=> i.capability = "None"
         /\ ReplayRefusals(i)[5].fails <=> i.authorized # "True"
         /\ ReplayRefusals(i)[6].fails <=> i.parent # "none" /\ i.registry = "None"
         /\ ReplayRefusals(i)[7].fails <=> i.parent = "unregistered"
         /\ ReplayRefusals(i)[8].fails <=> i.parent \notin {"none", "authorized"}
         /\ ReplayRefusals(i)[9].fails <=> i.action = "of another"
         /\ ReplayRefusals(i)[10].fails <=> i.runtime \notin {"healthy", "degraded"}
         /\ ReplayRefusals(i)[11].fails <=> i.maxSteps # "none" /\ i.stepCount = "over"
         /\ ReplayRefusals(i)[12].fails <=> i.allowOnly \notin {"none", "list with it", "list without it", "list of true"}
         /\ ReplayRefusals(i)[13].fails <=> i.action \notin {"None", "unnamed"} /\ i.allowOnly # "none" /\ ~Listed(i)
BY DEF ReplayRefusals

LEMMA FirstRule ==
  ASSUME NEW i, NEW r \in 1..13, ReplayRefusals(i)[r].fails, \A m \in 1..13 : m < r => ~ReplayRefusals(i)[m].fails
  PROVE  Replay(i) = [decision |-> "REFUSE", reasons |-> <<ReplayRefusals(i)[r].why>>]
<1> DEFINE R == ReplayRefusals(i)
           F == {n \in DOMAIN R : R[n].fails}
           first == CHOOSE n \in F : \A m \in F : n <= m
<1>1. DOMAIN R = 1..13
  BY RulesDomain
<1>2. r \in F /\ \A m \in F : m \in 1..13 /\ ~(m < r)
  BY <1>1
<1>3. first \in F /\ \A m \in F : first <= m
  <2>1. \A m \in F : r <= m
    BY <1>2
  <2> QED
    BY <1>2, <2>1
<1>4. first = r
  BY <1>2, <1>3
<1>5. Replay(i) = IF F # {} THEN [decision |-> "REFUSE", reasons |-> <<R[first].why>>]
                  ELSE [decision |-> IF ReplayDeferrals(i) = <<>> THEN "ALLOW" ELSE "DEFER", reasons |-> ReplayDeferrals(i)]
  BY Zenon DEF Replay
<1> QED
  BY <1>2, <1>4, <1>5

LEMMA NoRule ==
  ASSUME NEW i, \A m \in 1..13 : ~ReplayRefusals(i)[m].fails
  PROVE  Replay(i) = [decision |-> IF ReplayDeferrals(i) = <<>> THEN "ALLOW" ELSE "DEFER", reasons |-> ReplayDeferrals(i)]
<1>1. {n \in DOMAIN ReplayRefusals(i) : ReplayRefusals(i)[n].fails} = {}
  BY RulesDomain
<1> QED
  BY <1>1, Zenon DEF Replay

(* The rules of the replay that fail are those of the gate, in its order.  *)
Fails(r) == ReplayRefusals(Packaged(input))[r].fails

LEMMA FailsHere ==
  ASSUME InputOK, NotesInv
  PROVE  /\ Fails(1) <=> input.digest = "empty"
         /\ Fails(2) <=> input.status = "REFUTED"
         /\ Fails(3) <=> input.status \in {"FAIL", "absent", "misspelt"}
         /\ Fails(4) <=> input.capability = "None"
         /\ Fails(5) <=> input.authorized # "True"
         /\ Fails(6) <=> input.parent # "none" /\ input.registry = "None"
         /\ Fails(7) <=> input.parent = "unregistered"
         /\ Fails(8) <=> input.parent \notin {"none", "authorized"}
         /\ Fails(9) <=> input.action = "of another"
         /\ Fails(10) <=> input.runtime = "unknown"
         /\ Fails(11) <=> input.maxSteps = "set" /\ input.stepCount = "over"
         /\ Fails(12) <=> input.allowOnly = "text"
         /\ Fails(13) <=> input.action \notin {"None", "unnamed"} /\ input.allowOnly # "none" /\ ~Listed(input)
<1> DEFINE p == Packaged(input)
<1>1. /\ p.digest = input.digest /\ p.status = input.status /\ p.capability = input.capability
      /\ p.authorized = input.authorized /\ p.parent = input.parent /\ p.registry = input.registry
      /\ p.action = input.action /\ p.runtime = input.runtime /\ p.maxSteps = input.maxSteps
      /\ p.stepCount = input.stepCount
  <2>1. /\ "digest" \in Fields /\ "status" \in Fields /\ "capability" \in Fields /\ "authorized" \in Fields
        /\ "parent" \in Fields /\ "registry" \in Fields /\ "action" \in Fields /\ "runtime" \in Fields
        /\ "maxSteps" \in Fields /\ "stepCount" \in Fields
    BY DEF Fields, Kinds
  <2> QED
    BY <2>1, PackagedFacts
<1>2. p.allowOnly = IF input.allowOnly = "tuple with it" THEN "list with it" ELSE input.allowOnly
  BY PackagedFacts
<1>3. input.allowOnly \in {"none", "tuple with it", "list without it", "list of true", "text", "list with it"}
  BY DEF NotesInv, Kinds
<1>4. Listed(p) <=> Listed(input)
  BY <1>1, <1>2, <1>3 DEF Listed
<1>5. /\ p.allowOnly \notin {"none", "list with it", "list without it", "list of true"} <=> input.allowOnly = "text"
      /\ p.allowOnly # "none" <=> input.allowOnly # "none"
  BY <1>2, <1>3
<1>6. /\ input.status \notin {"PASS", "INSUFFICIENT_EVIDENCE", "REFUTED"} <=> input.status \in {"FAIL", "absent", "misspelt"}
      /\ input.runtime \notin {"healthy", "degraded"} <=> input.runtime = "unknown"
      /\ input.maxSteps # "none" <=> input.maxSteps = "set"
  BY Typed
<1> HIDE DEF p
<1>7. /\ ReplayRefusals(p)[1].fails <=> p.digest = "empty"
      /\ ReplayRefusals(p)[2].fails <=> p.status = "REFUTED"
      /\ ReplayRefusals(p)[3].fails <=> p.status \notin {"PASS", "INSUFFICIENT_EVIDENCE", "REFUTED"}
      /\ ReplayRefusals(p)[4].fails <=> p.capability = "None"
      /\ ReplayRefusals(p)[5].fails <=> p.authorized # "True"
      /\ ReplayRefusals(p)[6].fails <=> p.parent # "none" /\ p.registry = "None"
      /\ ReplayRefusals(p)[7].fails <=> p.parent = "unregistered"
      /\ ReplayRefusals(p)[8].fails <=> p.parent \notin {"none", "authorized"}
      /\ ReplayRefusals(p)[9].fails <=> p.action = "of another"
      /\ ReplayRefusals(p)[10].fails <=> p.runtime \notin {"healthy", "degraded"}
      /\ ReplayRefusals(p)[11].fails <=> p.maxSteps # "none" /\ p.stepCount = "over"
      /\ ReplayRefusals(p)[12].fails <=> p.allowOnly \notin {"none", "list with it", "list without it", "list of true"}
      /\ ReplayRefusals(p)[13].fails <=> p.action \notin {"None", "unnamed"} /\ p.allowOnly # "none" /\ ~Listed(p)
  BY FailsOf, Zenon
<1>8. Fails(1) <=> input.digest = "empty"
  BY <1>1, <1>7, Zenon DEF Fails, p
<1>9. Fails(2) <=> input.status = "REFUTED"
  BY <1>1, <1>7, Zenon DEF Fails, p
<1>10. Fails(3) <=> input.status \in {"FAIL", "absent", "misspelt"}
  BY <1>1, <1>6, <1>7, Zenon DEF Fails, p
<1>11. Fails(4) <=> input.capability = "None"
  BY <1>1, <1>7, Zenon DEF Fails, p
<1>12. Fails(5) <=> input.authorized # "True"
  BY <1>1, <1>7, Zenon DEF Fails, p
<1>13. Fails(6) <=> (input.parent # "none" /\ input.registry = "None")
  BY <1>1, <1>7, Zenon DEF Fails, p
<1>14. Fails(7) <=> input.parent = "unregistered"
  BY <1>1, <1>7, Zenon DEF Fails, p
<1>15. Fails(8) <=> input.parent \notin {"none", "authorized"}
  BY <1>1, <1>7, Zenon DEF Fails, p
<1>16. Fails(9) <=> input.action = "of another"
  BY <1>1, <1>7, Zenon DEF Fails, p
<1>17. Fails(10) <=> input.runtime = "unknown"
  BY <1>1, <1>6, <1>7, Zenon DEF Fails, p
<1>18. Fails(11) <=> (input.maxSteps = "set" /\ input.stepCount = "over")
  BY <1>1, <1>6, <1>7, Zenon DEF Fails, p
<1>19. Fails(12) <=> input.allowOnly = "text"
  BY <1>5, <1>7, Zenon DEF Fails, p
<1>20. Fails(13) <=> (input.action \notin {"None", "unnamed"} /\ input.allowOnly # "none" /\ ~Listed(input))
  BY <1>1, <1>4, <1>5, <1>7, Zenon DEF Fails, p
<1> QED
  BY <1>8, <1>9, <1>10, <1>11, <1>12, <1>13, <1>14, <1>15, <1>16, <1>17, <1>18, <1>19, <1>20

LEMMA RulesPassed ==
  ASSUME IInv, NotesInv, decision = "none"
  PROVE  /\ at > 1 => ~Fails(1)
         /\ at > 2 => ~Fails(2) /\ ~Fails(3)
         /\ at > 3 => ~Fails(4)
         /\ at > 4 => ~Fails(5)
         /\ at > 5 => ~Fails(6) /\ ~Fails(7) /\ ~Fails(8)
         /\ at > 6 => ~Fails(9)
         /\ at > 7 => ~Fails(10)
         /\ at > End + 2 => ~Fails(11)
         /\ at > End + 3 => ~Fails(12) /\ ~Fails(13)
<1>1. InputOK /\ Examining
  BY DEF IInv
<1>2. \A n \in Nat : 0 < n /\ n < at => Passes(input, n)
  BY <1>1 DEF Examining
<1>3. at \in Nat /\ End + 2 \in Nat /\ End + 3 \in Nat /\ 0 < End + 2 /\ 0 < End + 3
  BY <1>1, LenFacts DEF Examining
<1>4. Passes(input, 1) => ~Fails(1)
  BY <1>1, FailsHere, Zenon DEF Passes
<1>5. Passes(input, 2) => ~Fails(2) /\ ~Fails(3)
  <2>1. Passes(input, 2) => input.status \in {"PASS", "INSUFFICIENT_EVIDENCE"}
    BY Zenon DEF Passes
  <2>2. input.status \in {"PASS", "INSUFFICIENT_EVIDENCE"} => input.status # "REFUTED" /\ input.status \notin {"FAIL", "absent", "misspelt"}
    OBVIOUS
  <2> QED
    BY <1>1, <2>1, <2>2, FailsHere, Zenon
<1>6. Passes(input, 3) => ~Fails(4)
  BY <1>1, FailsHere, Zenon DEF Passes
<1>7. Passes(input, 4) => ~Fails(5)
  BY <1>1, FailsHere, Zenon DEF Passes
<1>8. Passes(input, 5) => ~Fails(6) /\ ~Fails(7) /\ ~Fails(8)
  <2>1. Passes(input, 5) => input.parent = "none" \/ (input.parent = "authorized" /\ input.registry = "given")
    BY Zenon DEF Passes
  <2>2. input.parent = "none" \/ (input.parent = "authorized" /\ input.registry = "given") =>
          /\ ~(input.parent # "none" /\ input.registry = "None")
          /\ input.parent # "unregistered" /\ input.parent \in {"none", "authorized"}
    OBVIOUS
  <2> QED
    BY <1>1, <2>1, <2>2, FailsHere, Zenon
<1>9. Passes(input, 6) => ~Fails(9)
  BY <1>1, FailsHere, Zenon DEF Passes
<1>10. Passes(input, 7) => ~Fails(10)
  BY <1>1, FailsHere, Zenon DEF Passes
<1>11. Passes(input, End + 2) => ~Fails(11)
  <2>1. Passes(input, End + 2) => ~(input.maxSteps = "set" /\ input.stepCount = "over")
    BY Zenon DEF Passes
  <2> QED
    BY <1>1, <2>1, FailsHere, Zenon
<1>12. Passes(input, End + 3) => ~Fails(12) /\ ~Fails(13)
  <2>1. Passes(input, End + 3) => input.allowOnly # "text" /\ (input.allowOnly = "none" \/ input.action \in {"None", "unnamed"} \/ Listed(input))
    BY Zenon DEF Passes
  <2> QED
    BY <1>1, <2>1, FailsHere, Zenon
<1> QED
  BY <1>2, <1>3, <1>4, <1>5, <1>6, <1>7, <1>8, <1>9, <1>10, <1>11, <1>12

LEMMA RefusalAgrees ==
  ASSUME NEW r \in 1..13, Fails(r), \A m \in 1..13 : m < r => ~Fails(m),
         NEW why, why = ReplayRefusals(Packaged(input))[r].why, Refuse(why)
  PROVE  Concluded' = Replay(Packaged(input))
<1>1. Replay(Packaged(input)) = [decision |-> "REFUSE", reasons |-> <<ReplayRefusals(Packaged(input))[r].why>>]
  BY FirstRule, Zenon DEF Fails
<1>2. decision' = "REFUSE" /\ reasons' = <<why>>
  BY DEF Refuse
<1> QED
  BY <1>1, <1>2 DEF Concluded

LEMMA DeferralsAreNotes ==
  ASSUME InputOK
  PROVE  ReplayDeferrals(Packaged(input)) = NotedSteps(input)
<1> DEFINE p == Packaged(input)
<1>1. /\ p.status = input.status /\ p.runtime = input.runtime /\ p.evidence = input.evidence
      /\ p.floor = input.floor /\ p.quality = input.quality /\ p.metaQuality = input.metaQuality
      /\ p.maxSteps = input.maxSteps /\ p.stepCount = input.stepCount
  <2>1. /\ "status" \in Fields /\ "runtime" \in Fields /\ "evidence" \in Fields /\ "floor" \in Fields
        /\ "quality" \in Fields /\ "metaQuality" \in Fields /\ "maxSteps" \in Fields /\ "stepCount" \in Fields
    BY DEF Fields, Kinds
  <2> QED
    BY <2>1, PackagedFacts
<1> HIDE DEF p
<1>2. ReplayQuality(p) = ReplayQuality(input)
  BY <1>1 DEF ReplayQuality
<1>3. NamesLacking(p, Len(Required)) = NamesLacking(input, Len(Required))
  BY <1>1 DEF NamesLacking, Place, Lacking
<1>4. ReplayDeferrals(p) = NotedSteps(p)
  BY DEF ReplayDeferrals, NotedSteps, NotedQuality, NotedNames, NotedRuntime, NotedStatus, When
<1>5. NotedSteps(p) = NotedSteps(input)
  BY <1>1, <1>2, <1>3 DEF NotedSteps, NotedQuality, NotedNames, NotedRuntime, NotedStatus
<1> QED
  BY <1>4, <1>5 DEF p

LEMMA ConclusionAgrees ==
  ASSUME IInv, NotesInv, Conclude
  PROVE  Concluded' = Replay(Packaged(input))
<1>1. decision = "none" /\ at = End + 4 /\ UNCHANGED <<input, reasons>> /\ InputOK
      /\ decision' = IF reasons = <<>> THEN "ALLOW" ELSE "DEFER"
  BY DEF Conclude, Rest, Rule, End, IInv
<1>2. at > 1 /\ at > 2 /\ at > 3 /\ at > 4 /\ at > 5 /\ at > 6 /\ at > 7 /\ at > End + 2 /\ at > End + 3
  BY <1>1, LenFacts
<1>3. \A m \in 1..13 : ~Fails(m)
  BY <1>1, <1>2, RulesPassed
<1>4. reasons = NotedSteps(input)
  <2>1. End + 4 \in Nat /\ End + 4 > End + 2
    BY LenFacts
  <2> QED
    BY <1>1, <2>1, NotedAt DEF NotesInv
<1>5. Replay(Packaged(input)) = [decision |-> IF NotedSteps(input) = <<>> THEN "ALLOW" ELSE "DEFER", reasons |-> NotedSteps(input)]
  BY <1>1, <1>3, NoRule, DeferralsAreNotes, Zenon DEF Fails
<1> QED
  BY <1>1, <1>4, <1>5 DEF Concluded

(* A decision is made by a rule that refuses, or at the end.               *)
LEMMA ReplayDecides ==
  ASSUME IInv, NotesInv, Examine, decision' # decision
  PROVE  Concluded' = Replay(Packaged(input))
<1> DEFINE Saying(r) == ReplayRefusals(Packaged(input))[r].why
<1>1. InputOK
  BY DEF IInv
<1>2. /\ Saying(1) = "missing_input_digest" /\ Saying(2) = "verification_refuted"
      /\ Saying(3) = "verification_not_passed" /\ Saying(4) = "capability_missing"
      /\ Saying(5) = "capability_not_authorized" /\ Saying(6) = "capability_parent_requires_registry"
      /\ Saying(7) = "capability_parent_missing" /\ Saying(8) = "capability_parent_not_authorized"
      /\ Saying(9) = "action_capability_mismatch" /\ Saying(10) = "runtime_state_unavailable"
      /\ Saying(11) = "capability_max_steps_exceeded" /\ Saying(12) = "policy_invalid"
      /\ Saying(13) = "action_not_permitted_by_policy"
  BY RulesOf, Zenon
<1> DEFINE Passed(r) ==
             /\ (1 < r => ~Fails(1)) /\ (2 < r => ~Fails(2)) /\ (3 < r => ~Fails(3)) /\ (4 < r => ~Fails(4))
             /\ (5 < r => ~Fails(5)) /\ (6 < r => ~Fails(6)) /\ (7 < r => ~Fails(7)) /\ (8 < r => ~Fails(8))
             /\ (9 < r => ~Fails(9)) /\ (10 < r => ~Fails(10)) /\ (11 < r => ~Fails(11)) /\ (12 < r => ~Fails(12))
           First(r) == Fails(r) /\ Passed(r) /\ Refuse(Saying(r))
<1>3. ASSUME NEW r \in 1..13, First(r) PROVE Concluded' = Replay(Packaged(input))
  <2>1. \A m \in 1..13 : m < r => ~Fails(m)
    BY <1>3
  <2> QED
    BY <1>3, <2>1, RefusalAgrees, Zenon
<1> HIDE DEF Saying
<1>4. CASE Digest
  <2>1. decision = "none" /\ at = 1 /\ Refuse(Saying(1)) /\ input.digest = "empty"
    BY <1>2, <1>4 DEF Digest, RefuseIf, Go, Defer, Rule
  <2>3. Fails(1)
    BY <1>1, <2>1, FailsHere, Zenon
  <2> QED
    BY <1>3, <2>1, <2>3
<1>5. CASE Verification
  <2>1. decision = "none" /\ at = 2
    BY <1>5 DEF Verification, Rule, Rest, End
  <2>2. ~Fails(1)
    BY <2>1, RulesPassed
  <2>3. \/ Refuse("verification_refuted") /\ input.status = "REFUTED"
        \/ Refuse("verification_not_passed") /\ input.status \in {"FAIL", "absent", "misspelt"}
    BY <1>5 DEF Verification, Go, Defer
  <2>4. ASSUME Refuse("verification_refuted"), input.status = "REFUTED" PROVE Concluded' = Replay(Packaged(input))
    <3>1. Fails(2)
      BY <1>1, <2>4, FailsHere
    <3>2. Refuse(Saying(2))
      BY <1>2, <2>4
    <3> QED
      BY <1>3, <2>2, <2>4, <3>1, <3>2
  <2>5. ASSUME Refuse("verification_not_passed"), input.status \in {"FAIL", "absent", "misspelt"} /\ ~Fails(2) PROVE Concluded' = Replay(Packaged(input))
    <3>1. Fails(3)
      BY <1>1, <2>5, FailsHere
    <3>2. Refuse(Saying(3))
      BY <1>2, <2>5
    <3> QED
      BY <1>3, <2>2, <2>5, <3>1, <3>2
  <2> QED
    BY <1>1, <2>3, <2>4, <2>5, FailsHere
<1>6. CASE CapabilityGiven
  <2>1. decision = "none" /\ at = 3 /\ Refuse(Saying(4)) /\ input.capability = "None"
    BY <1>2, <1>6 DEF CapabilityGiven, RefuseIf, Go, Defer, Rule
  <2>2. ~Fails(1) /\ ~Fails(2) /\ ~Fails(3)
    BY <2>1, RulesPassed
  <2>3. Fails(4)
    BY <1>1, <2>1, FailsHere, Zenon
  <2> QED
    BY <1>3, <2>1, <2>2, <2>3
<1>7. CASE Authorized
  <2>1. decision = "none" /\ at = 4 /\ Refuse(Saying(5)) /\ input.authorized # "True"
    BY <1>2, <1>7 DEF Authorized, RefuseIf, Go, Defer, Rule
  <2>2. ~Fails(1) /\ ~Fails(2) /\ ~Fails(3) /\ ~Fails(4)
    BY <2>1, RulesPassed
  <2>3. Fails(5)
    BY <1>1, <2>1, FailsHere, Zenon
  <2> QED
    BY <1>3, <2>1, <2>2, <2>3
<1>8. CASE Parent
  <2>1. decision = "none" /\ at = 5
    BY <1>8 DEF Parent, Rule, Rest, End
  <2>2. ~Fails(1) /\ ~Fails(2) /\ ~Fails(3) /\ ~Fails(4) /\ ~Fails(5)
    BY <2>1, RulesPassed
  <2>3. \/ Refuse("capability_parent_requires_registry") /\ input.parent # "none" /\ input.registry = "None"
        \/ Refuse("capability_parent_missing") /\ input.registry = "given" /\ input.parent = "unregistered"
        \/ Refuse("capability_parent_not_authorized") /\ input.registry = "given" /\ input.parent \in {"unauthorized", "truthy"}
    BY <1>8 DEF Parent, Go, Defer
  <2>4. ASSUME Refuse("capability_parent_requires_registry"), input.parent # "none" /\ input.registry = "None" PROVE Concluded' = Replay(Packaged(input))
    <3>1. Fails(6)
      BY <1>1, <2>4, FailsHere
    <3>2. Refuse(Saying(6))
      BY <1>2, <2>4
    <3> QED
      BY <1>3, <2>2, <2>4, <3>1, <3>2
  <2>5. ASSUME Refuse("capability_parent_missing"), input.registry = "given" /\ input.parent = "unregistered" /\ ~Fails(6) PROVE Concluded' = Replay(Packaged(input))
    <3>1. Fails(7)
      BY <1>1, <2>5, FailsHere
    <3>2. Refuse(Saying(7))
      BY <1>2, <2>5
    <3> QED
      BY <1>3, <2>2, <2>5, <3>1, <3>2
  <2>6. ASSUME Refuse("capability_parent_not_authorized"), input.registry = "given" /\ input.parent \in {"unauthorized", "truthy"} /\ ~Fails(6) /\ ~Fails(7) PROVE Concluded' = Replay(Packaged(input))
    <3>1. Fails(8)
      BY <1>1, <2>6, FailsHere
    <3>2. Refuse(Saying(8))
      BY <1>2, <2>6
    <3> QED
      BY <1>3, <2>2, <2>6, <3>1, <3>2
  <2> QED
    BY <1>1, <2>3, <2>4, <2>5, <2>6, FailsHere
<1>9. CASE ActionMatches
  <2>1. decision = "none" /\ at = 6
    BY <1>9 DEF ActionMatches, Rule
  <2>2. ~Fails(1) /\ ~Fails(2) /\ ~Fails(3) /\ ~Fails(4) /\ ~Fails(5) /\ ~Fails(6) /\ ~Fails(7) /\ ~Fails(8)
    BY <2>1, RulesPassed
  <2>3. Refuse("action_capability_mismatch") /\ input.action = "of another"
    BY <1>9 DEF ActionMatches, RefuseIf, Go, Defer
  <2>4. Fails(9)
    BY <1>1, <2>3, FailsHere, Zenon
  <2>5. Refuse(Saying(9))
    BY <1>2, <2>3
  <2> QED
    BY <1>3, <2>2, <2>4, <2>5
<1>10. CASE RuntimeAvailable
  <2>1. decision = "none" /\ at = 7 /\ Refuse(Saying(10)) /\ input.runtime = "unknown"
    BY <1>2, <1>10 DEF RuntimeAvailable, RefuseIf, Go, Defer, Rule
  <2>2. ~Fails(1) /\ ~Fails(2) /\ ~Fails(3) /\ ~Fails(4) /\ ~Fails(5) /\ ~Fails(6) /\ ~Fails(7) /\ ~Fails(8) /\ ~Fails(9)
    BY <2>1, RulesPassed
  <2>3. Fails(10)
    BY <1>1, <2>1, FailsHere, Zenon
  <2> QED
    BY <1>3, <2>1, <2>2, <2>3
<1>11. CASE Steps
  <2>1. decision = "none" /\ at = End + 2 /\ Refuse(Saying(11)) /\ input.maxSteps = "set" /\ input.stepCount = "over"
    BY <1>2, <1>11, <1>1, Typed DEF Steps, Go, Defer, Rest, Rule, End
  <2>2. ~Fails(1) /\ ~Fails(2) /\ ~Fails(3) /\ ~Fails(4) /\ ~Fails(5) /\ ~Fails(6) /\ ~Fails(7) /\ ~Fails(8) /\ ~Fails(9) /\ ~Fails(10)
    BY <2>1, RulesPassed, LenFacts
  <2>3. Fails(11)
    BY <1>1, <2>1, FailsHere, Zenon
  <2> QED
    BY <1>3, <2>1, <2>2, <2>3
<1>12. CASE Policy
  <2>1. decision = "none" /\ at = End + 3
    BY <1>12 DEF Policy, Rule, Rest, End
  <2>2. ~Fails(1) /\ ~Fails(2) /\ ~Fails(3) /\ ~Fails(4) /\ ~Fails(5) /\ ~Fails(6) /\ ~Fails(7) /\ ~Fails(8) /\ ~Fails(9) /\ ~Fails(10) /\ ~Fails(11)
    BY <2>1, RulesPassed, LenFacts
  <2>3. \/ Refuse("policy_invalid") /\ input.allowOnly = "text"
        \/ Refuse("action_not_permitted_by_policy") /\ input.allowOnly \notin {"none", "text"} /\ input.action \notin {"None", "unnamed"} /\ ~Listed(input)
    BY <1>12 DEF Policy, Go, Defer
  <2>4. ASSUME Refuse("policy_invalid"), input.allowOnly = "text" PROVE Concluded' = Replay(Packaged(input))
    <3>1. Fails(12)
      BY <1>1, <2>4, FailsHere
    <3>2. Refuse(Saying(12))
      BY <1>2, <2>4
    <3> QED
      BY <1>3, <2>2, <2>4, <3>1, <3>2
  <2>5. ASSUME Refuse("action_not_permitted_by_policy"), input.allowOnly \notin {"none", "text"} /\ input.action \notin {"None", "unnamed"} /\ ~Listed(input) /\ ~Fails(12) PROVE Concluded' = Replay(Packaged(input))
    <3>1. Fails(13)
      BY <1>1, <2>5, FailsHere
    <3>2. Refuse(Saying(13))
      BY <1>2, <2>5
    <3> QED
      BY <1>3, <2>2, <2>5, <3>1, <3>2
  <2> QED
    BY <1>1, <2>3, <2>4, <2>5, FailsHere
<1>13. CASE RuntimeHealthy \/ RequiredEvidence \/ Quality
  BY <1>13 DEF RuntimeHealthy, RequiredEvidence, Quality, DeferIf, Go, Defer
<1>14. CASE Conclude
  BY <1>14, ConclusionAgrees
<1> QED
  BY <1>4, <1>5, <1>6, <1>7, <1>8, <1>9, <1>10, <1>11, <1>12, <1>13, <1>14 DEF Examine

LEMMA NotedFirst == \A i : Noted(i, 0) = <<>> /\ Noted(i, 1) = <<>>
BY DEF Noted

LEMMA NotesInvariance == Spec => []NotesInv
<1>1. Init => NotesInv
  <2>1. Good["allowOnly"] \in Kinds["allowOnly"]
    BY DEF Good, Kinds
  <2> QED
    BY <2>1, NotedFirst DEF Init, NotesInv
<1>2. IInv /\ NotesInv /\ [Next]_vars => NotesInv'
  <2> SUFFICES ASSUME IInv, NotesInv, [Next]_vars PROVE NotesInv'
    OBVIOUS
  <2>1. CASE Evaluate
    BY <2>1, NotedFirst DEF Evaluate, NotesInv
  <2>2. CASE UNCHANGED vars
    BY <2>2 DEF vars, NotesInv
  <2> QED
    BY <2>1, <2>2, NotesVary, NotesExamine DEF Next
<1> QED
  BY <1>1, <1>2, InvGate, PTL DEF Spec

(* What verify_package.py replays of a recorded input is what the gate     *)
(* decided, the reasons in their order: for every input and every list of  *)
(* required evidence, whichever of its names are given twice.              *)
THEOREM VerifierReplays == Spec => ReplayAgrees
<1>1. IInv /\ NotesInv /\ [Next]_vars => [decision' # decision => Concluded' = Replay(Packaged(input))]_vars
  <2> SUFFICES ASSUME IInv, NotesInv, Next, decision' # decision PROVE Concluded' = Replay(Packaged(input))
    BY DEF vars
  <2>1. Examine
    BY DEF Next, Vary, Evaluate
  <2> QED
    BY <2>1, ReplayDecides
<1> QED
  BY <1>1, InvGate, NotesInvariance, PTL DEF Spec, ReplayAgrees
---------------------------------------------------------------------------
(* 3.  The runs.                                                           *)

(* What is so in a run of a tool: a field it may vary is one of its kinds, *)
(* and every other is as it was; nothing is examined before the tool asks. *)
ToolNames == {"library", "chain", "model", "companion", "vehicle"}

RunInv ==
  /\ run.tool \in ToolNames /\ DOMAIN run = DOMAIN GoodRun(run.tool)
  /\ \A f \in DOMAIN run :
       run[f] = GoodRun(run.tool)[f] \/ (f \in DOMAIN RunKinds[run.tool] /\ run[f] \in RunKinds[run.tool][f])

SetupInv == stage = "setup" => at = 0 /\ reasons = <<>> /\ decision = "none"

GateInv == IInv /\ NotesInv

LEMMA KindsOf ==
  /\ RunKinds["library"] = LibraryKinds /\ RunKinds["chain"] = ChainKinds /\ RunKinds["model"] = ModelKinds
  /\ RunKinds["companion"] = CompanionKinds /\ RunKinds["vehicle"] = VehicleKinds
BY DEF RunKinds

LEMMA ToolIsFixed == \A t \in ToolNames : "tool" \notin DOMAIN RunKinds[t]
<1>1. "tool" \notin DOMAIN LibraryKinds /\ "tool" \notin DOMAIN ChainKinds
  BY DEF LibraryKinds, ChainKinds
<1>2. "tool" \notin DOMAIN ModelKinds /\ "tool" \notin DOMAIN CompanionKinds
  BY DEF ModelKinds, CompanionKinds
<1>3. "tool" \notin DOMAIN VehicleKinds
  BY DEF VehicleKinds
<1> QED
  BY <1>1, <1>2, <1>3, KindsOf DEF ToolNames

LEMMA GoodTool == \A t \in ToolNames : GoodRun(t).tool = t /\ "tool" \in DOMAIN GoodRun(t)
BY DEF GoodRun

LEMMA RunStep == ASSUME RunInv, NEW f \in DOMAIN RunKinds[run.tool], VaryRun(f) PROVE RunInv'
<1>1. PICK k \in RunKinds[run.tool][f] : run' = [run EXCEPT ![f] = k]
  BY DEF VaryRun
<1>2. f # "tool" /\ run.tool \in ToolNames
  BY ToolIsFixed DEF RunInv
<1>3. run'.tool = run.tool /\ DOMAIN run' = DOMAIN run
  BY <1>1, <1>2
<1>4. ASSUME NEW g \in DOMAIN run
      PROVE  run'[g] = GoodRun(run.tool)[g] \/ (g \in DOMAIN RunKinds[run.tool] /\ run'[g] \in RunKinds[run.tool][g])
  <2>1. CASE g = f
    BY <1>1, <2>1
  <2>2. CASE g # f
    BY <1>1, <2>2 DEF RunInv
  <2> QED
    BY <2>1, <2>2
<1> QED
  BY <1>2, <1>3, <1>4 DEF RunInv

(* What the gate is asked: of the right kinds, whichever tool asks.        *)
LEMMA FieldsOfRun ==
  ASSUME RunInv, NEW f \in {"declared", "source", "zones", "reading", "given", "counts", "keyed", "snapshot", "extra", "served",
                            "ends", "asked", "backend", "link", "request", "telemetry"}
  PROVE  run[f] = GoodRun(run.tool)[f] \/ (f \in DOMAIN RunKinds[run.tool] /\ run[f] \in RunKinds[run.tool][f])
<1>1. \A t \in ToolNames : f \in DOMAIN GoodRun(t)
  BY DEF GoodRun
<1> QED
  BY <1>1 DEF RunInv

LEMMA DeclaredKinds == ASSUME RunInv PROVE run.declared \in {"healthy", "degraded", "unknown"}
<1>1. run["declared"] = "healthy" \/ ("declared" \in DOMAIN RunKinds[run.tool] /\ run["declared"] \in RunKinds[run.tool]["declared"])
  <2>1. GoodRun(run.tool)["declared"] = "healthy"
    BY DEF GoodRun
  <2> QED
    BY <2>1, FieldsOfRun
<1>2. /\ "declared" \notin DOMAIN LibraryKinds
      /\ ChainKinds["declared"] = {"healthy", "degraded", "unknown"} /\ ModelKinds["declared"] = {"healthy", "degraded", "unknown"}
      /\ CompanionKinds["declared"] = {"healthy", "degraded", "unknown"}
      /\ VehicleKinds["declared"] = {"healthy", "degraded", "unknown"}
  BY DEF LibraryKinds, ChainKinds, ModelKinds, CompanionKinds, VehicleKinds, Thermal
<1> QED
  BY <1>1, <1>2, KindsOf DEF RunInv, ToolNames

LEMMA ZonesKinds == ASSUME RunInv PROVE run.zones \in [Domains -> Temperatures]
<1>1. run["zones"] = AllCool \/ ("zones" \in DOMAIN RunKinds[run.tool] /\ run["zones"] \in RunKinds[run.tool]["zones"])
  <2>1. GoodRun(run.tool)["zones"] = AllCool
    BY DEF GoodRun
  <2> QED
    BY <2>1, FieldsOfRun
<1>2. /\ "zones" \notin DOMAIN LibraryKinds /\ "zones" \notin DOMAIN CompanionKinds
      /\ ChainKinds["zones"] = [Domains -> Temperatures] /\ ModelKinds["zones"] = [Domains -> Temperatures]
      /\ VehicleKinds["zones"] = [Domains -> Temperatures]
  BY DEF LibraryKinds, ChainKinds, ModelKinds, CompanionKinds, VehicleKinds, Thermal
<1>3. AllCool \in [Domains -> Temperatures]
  BY DEF AllCool, Temperatures
<1> QED
  BY <1>1, <1>2, <1>3, KindsOf DEF RunInv, ToolNames

LEMMA ThermalKinds == ASSUME RunInv PROVE ThermalOf \in {"healthy", "degraded", "unknown"}
<1>1. Derived(run.zones) \in {"healthy", "degraded", "unknown"}
  BY DEF Derived
<1> QED
  BY <1>1, DeclaredKinds DEF ThermalOf

AskedAs(i, status, thermal) ==
  /\ DOMAIN i = Fields /\ (\A f \in Needed : i[f] \in Kinds[f])
  /\ i.allowOnly \in {"list with it", "list without it"}
  /\ i.status = status /\ i.runtime = thermal

LEMMA AskingOK ==
  ASSUME InputOK, NEW status \in {"PASS", "INSUFFICIENT_EVIDENCE", "FAIL"}, NEW action,
         NEW thermal \in {"healthy", "degraded", "unknown"}
  PROVE  AskedAs(Asking(status, action, thermal), status, thermal)
<1> DEFINE i == Asking(status, action, thermal)
<1>1. DOMAIN input = Fields /\ \A f \in Needed : input[f] \in Kinds[f]
  BY DEF InputOK
<1>2. {"status", "runtime", "action", "allowOnly", "floor", "quality", "maxSteps", "stepCount"} \subseteq Fields
  BY DEF Fields, Kinds
<1>3. DOMAIN i = Fields
  BY <1>1 DEF Asking
<1>4. /\ i["status"] = status /\ i["runtime"] = thermal /\ i["quality"] = "absent" /\ i["maxSteps"] = "none"
      /\ i["floor"] = "none" /\ i["stepCount"] = "absent"
      /\ i["parent"] = input["parent"] /\ i["registry"] = input["registry"] /\ i["authorized"] = input["authorized"]
      /\ i["metaQuality"] = input["metaQuality"]
      /\ i["allowOnly"] \in {"list with it", "list without it"}
  BY <1>1, <1>2 DEF Asking
<1>5. /\ "parent" \in Needed /\ "registry" \in Needed /\ "authorized" \in Needed /\ "metaQuality" \in Needed
  BY DEF Needed
<1>6. \A f \in Needed : i[f] \in Kinds[f]
  <2> HIDE DEF i
  <2>1. /\ i["status"] \in Kinds["status"] /\ i["runtime"] \in Kinds["runtime"] /\ i["quality"] \in Kinds["quality"]
        /\ i["maxSteps"] \in Kinds["maxSteps"] /\ i["floor"] \in Kinds["floor"] /\ i["stepCount"] \in Kinds["stepCount"]
    BY <1>4, KindFacts
  <2>2. /\ i["parent"] \in Kinds["parent"] /\ i["registry"] \in Kinds["registry"]
        /\ i["authorized"] \in Kinds["authorized"] /\ i["metaQuality"] \in Kinds["metaQuality"]
    BY <1>1, <1>4, <1>5
  <2> QED
    BY <2>1, <2>2, Zenon DEF Needed
<1> QED
  BY <1>3, <1>4, <1>6 DEF AskedAs

(* What the gate was asked says what the tool's check said, and what the   *)
(* tool was given of the resource state.                                   *)
AsksOf(i) ==
  /\ run.tool # "library" =>
       i.status = CheckOf(run.tool, run) /\ i.runtime = (IF run.source = "absent" THEN "unknown" ELSE ThermalOf)
  /\ run.tool = "library" =>
       /\ run.counts = "failed" => i.status = "FAIL"
       /\ run.counts = "none" => i.status = "INSUFFICIENT_EVIDENCE"

LEMMA SourceKinds ==
  ASSUME RunInv
  PROVE  /\ run.tool \in {"library", "companion"} => run.source = "declared"
         /\ run.tool \in {"model", "vehicle"} => run.source \in {"declared", "measured"}
         /\ run.tool = "chain" => run.source \in {"declared", "measured", "absent"}
<1>1. run["source"] = "declared" \/ ("source" \in DOMAIN RunKinds[run.tool] /\ run["source"] \in RunKinds[run.tool]["source"])
  <2>1. GoodRun(run.tool)["source"] = "declared"
    BY DEF GoodRun
  <2> QED
    BY <2>1, FieldsOfRun
<1>2. /\ "source" \notin DOMAIN LibraryKinds /\ "source" \notin DOMAIN CompanionKinds
      /\ ChainKinds["source"] = {"declared", "measured", "absent"} /\ ModelKinds["source"] = {"declared", "measured"}
      /\ VehicleKinds["source"] = {"declared", "measured"}
  BY DEF LibraryKinds, ChainKinds, ModelKinds, CompanionKinds, VehicleKinds, Thermal
<1> QED
  BY <1>1, <1>2, KindsOf DEF RunInv, ToolNames

LEMMA CheckKinds ==
  /\ \A r : ChainCheck(r) \in {"PASS", "FAIL"} /\ ModelCheck(r) \in {"PASS", "FAIL"}
  /\ \A r : CompanionCheck(r) \in {"PASS", "INSUFFICIENT_EVIDENCE", "FAIL"}
  /\ \A q, s : Verdict(q, s) \in {"PASS", "FAIL"}
<1>1. \A r : ChainCheck(r) \in {"PASS", "FAIL"} /\ ModelCheck(r) \in {"PASS", "FAIL"}
  BY DEF ChainCheck, ModelCheck
<1>2. \A r : CompanionCheck(r) \in {"PASS", "INSUFFICIENT_EVIDENCE", "FAIL"}
  BY DEF CompanionCheck
<1>3. \A q, s : Verdict(q, s) \in {"PASS", "FAIL"}
  BY DEF Verdict
<1> QED
  BY <1>1, <1>2, <1>3

AskedWell(i) ==
  /\ DOMAIN i = Fields /\ (\A f \in Needed : i[f] \in Kinds[f])
  /\ i.allowOnly \in Kinds["allowOnly"] \cup {"list with it"}
  /\ AsksOf(i)

LEMMA AllowKinds == {"list with it", "list without it"} \subseteq Kinds["allowOnly"] \cup {"list with it"}
BY DEF Kinds

LEMMA ToolAsksWell ==
  ASSUME RunInv, InputOK, run.tool # "library", NEW status, status = CheckOf(run.tool, run),
         NEW action, NEW thermal, thermal = IF run.source = "absent" THEN "unknown" ELSE ThermalOf,
         status \in {"PASS", "INSUFFICIENT_EVIDENCE", "FAIL"}
  PROVE  AskedWell(Asking(status, action, thermal))
<1>1. thermal \in {"healthy", "degraded", "unknown"}
  BY ThermalKinds
<1> DEFINE i == Asking(status, action, thermal)
<1>2. AskedAs(i, status, thermal)
  BY <1>1, AskingOK
<1> HIDE DEF i
<1>3. AsksOf(i)
  BY <1>2 DEF AsksOf, AskedAs
<1>4. AskedWell(i)
  BY <1>2, <1>3, AllowKinds DEF AskedWell, AskedAs
<1> QED
  BY <1>4 DEF i

LEMMA PreparedWell == ASSUME RunInv, GateInv PROVE AskedWell(Prepared)
<1>1. InputOK /\ input.allowOnly \in Kinds["allowOnly"] \cup {"list with it"}
  BY DEF GateInv, IInv, NotesInv
<1>2. CASE run.tool = "chain"
  <2>1. Prepared = Asking(ChainCheck(run.reading), "listed", IF run.source = "absent" THEN "unknown" ELSE ThermalOf)
    BY <1>2 DEF Prepared, PreparedChain
  <2>2. CheckOf(run.tool, run) = ChainCheck(run.reading)
    BY <1>2 DEF CheckOf
  <2> QED
    BY <1>1, <1>2, <2>1, <2>2, CheckKinds, ToolAsksWell
<1>3. CASE run.tool = "model"
  <2>1. PICK action : Prepared = Asking(ModelCheck(run.reading), action, ThermalOf)
    BY <1>3 DEF Prepared, PreparedModel
  <2>2. CheckOf(run.tool, run) = ModelCheck(run.reading)
    BY <1>3 DEF CheckOf
  <2>3. run.source # "absent"
    BY <1>3, SourceKinds
  <2> QED
    BY <1>1, <1>3, <2>1, <2>2, <2>3, CheckKinds, ToolAsksWell
<1>4. CASE run.tool = "companion"
  <2>1. Prepared = Asking(CompanionCheck(run.reading), "listed", run.declared)
    BY <1>4 DEF Prepared, PreparedCompanion
  <2>2. CheckOf(run.tool, run) = CompanionCheck(run.reading)
    BY <1>4 DEF CheckOf
  <2>3. run.source = "declared"
    BY <1>4, SourceKinds
  <2>4. run.declared = IF run.source = "absent" THEN "unknown" ELSE ThermalOf
    BY <2>3 DEF ThermalOf
  <2> QED
    BY <1>1, <1>4, <2>1, <2>2, <2>4, CheckKinds, ToolAsksWell
<1>5. CASE run.tool = "vehicle"
  <2>1. PICK action : Prepared = Asking(Verdict(run.request, run.telemetry), action, ThermalOf)
    BY <1>5 DEF Prepared, PreparedVehicle
  <2>2. CheckOf(run.tool, run) = Verdict(run.request, run.telemetry)
    BY <1>5 DEF CheckOf
  <2>3. run.source # "absent"
    BY <1>5, SourceKinds
  <2> QED
    BY <1>1, <1>5, <2>1, <2>2, <2>3, CheckKinds, ToolAsksWell
<1>6. CASE run.tool = "library"
  <2>1. Prepared = [input EXCEPT !.status = Validated(run.counts, input.status)]
    BY <1>6 DEF Prepared, PreparedLibrary
  <2>2. Validated(run.counts, input.status) \in Kinds["status"]
    BY <1>1, Typed, KindFacts DEF Validated
  <2>3. DOMAIN input = Fields /\ "status" \in Fields /\ "allowOnly" \in Fields /\ \A f \in Needed : input[f] \in Kinds[f]
    BY <1>1 DEF InputOK, Fields, Kinds
  <2>4. DOMAIN Prepared = Fields /\ Prepared["status"] = Validated(run.counts, input.status)
        /\ \A f \in Fields \ {"status"} : Prepared[f] = input[f]
    BY <2>1, <2>3
  <2>5. ASSUME NEW f \in Needed PROVE Prepared[f] \in Kinds[f]
    <3>1. CASE f = "status"
      BY <2>2, <2>4, <3>1
    <3>2. CASE f # "status"
      BY <2>3, <2>4, <3>2, KindFacts
    <3> QED
      BY <3>1, <3>2
  <2>6. AsksOf(Prepared)
    BY <1>6, <2>4 DEF AsksOf, Validated
  <2> QED
    BY <1>1, <2>3, <2>4, <2>5, <2>6 DEF AskedWell
<1> QED
  BY <1>2, <1>3, <1>4, <1>5, <1>6 DEF RunInv, ToolNames

(* The invariants of a run up to its package.                              *)
LEMMA SetupStart == PackageInit => GateInv /\ RunInv /\ SetupInv
<1> SUFFICES ASSUME PackageInit PROVE GateInv /\ RunInv /\ SetupInv
  OBVIOUS
<1>1. GateInv
  <2>1. Init => NotesInv
    <3>1. Good["allowOnly"] \in Kinds["allowOnly"]
      BY DEF Good, Kinds
    <3> QED
      BY <3>1, NotedFirst DEF Init, NotesInv
  <2> QED
    BY <2>1, InitIInv DEF PackageInit, GateInv
<1>2. RunInv
  <2>1. PICK t \in Tools : run = GoodRun(t)
    BY DEF PackageInit
  <2>2. t \in ToolNames
    BY PackageAssumption DEF ToolNames
  <2> QED
    BY <2>1, <2>2, GoodTool DEF RunInv
<1>3. SetupInv
  BY DEF PackageInit, Init, SetupInv
<1> QED
  BY <1>1, <1>2, <1>3

LEMMA SetupStep ==
  ASSUME GateInv, RunInv, SetupInv, [PackageNext]_packageVars
  PROVE  GateInv' /\ RunInv' /\ SetupInv'
<1>1. CASE run.tool = "library" /\ \E f \in Fields : Vary(f) /\ stage = "setup" /\ UNCHANGED <<run, stage, exec, doc, edited>>
  <2>1. PICK f \in Fields : Vary(f) /\ UNCHANGED <<run, stage>>
    BY <1>1
  <2>2. GateInv'
    BY <2>1, VaryStep, NotesVary DEF GateInv
  <2>3. RunInv' /\ SetupInv'
    BY <2>1 DEF RunInv, SetupInv, Vary
  <2> QED
    BY <2>2, <2>3
<1>2. CASE \E f \in DOMAIN RunKinds[run.tool] : VaryRun(f)
  <2>1. PICK f \in DOMAIN RunKinds[run.tool] : VaryRun(f)
    BY <1>2
  <2>2. UNCHANGED <<input, at, reasons, decision, stage>>
    BY <2>1 DEF VaryRun
  <2>3. GateInv' /\ SetupInv'
    BY <2>2 DEF GateInv, IInv, InputOK, Examining, NotesInv, SetupInv
  <2> QED
    BY <2>1, <2>3, RunStep
<1>3. CASE Ask
  <2>1. UNCHANGED <<run, reasons, decision>> /\ stage = "setup" /\ stage' # "setup"
    BY <1>3 DEF Ask
  <2>2. CASE CouldNotRun
    <3>1. UNCHANGED <<at, input>>
      BY <1>3, <2>2 DEF Ask
    <3> QED
      BY <2>1, <3>1 DEF GateInv, IInv, InputOK, Examining, NotesInv, SetupInv, RunInv
  <2>3. CASE ~CouldNotRun
    <3>1. at' = 1 /\ input' = Prepared
      BY <1>3, <2>3 DEF Ask
    <3>2. AskedWell(input')
      BY <3>1, PreparedWell
    <3>3. InputOK'
      BY <3>2 DEF AskedWell, InputOK
    <3>4. reasons' = <<>> /\ decision' = "none" /\ SetupInv' /\ RunInv'
      BY <2>1 DEF SetupInv, RunInv
    <3>5. Examining'
      BY <3>1, <3>4 DEF Examining
    <3>6. NotesInv'
      BY <3>1, <3>2, <3>4, NotedFirst DEF NotesInv, AskedWell
    <3> QED
      BY <3>3, <3>4, <3>5, <3>6 DEF GateInv, IInv
  <2> QED
    BY <2>2, <2>3
<1>4. CASE stage = "deciding" /\ Examine /\ UNCHANGED <<run, stage, exec, doc, edited>>
  <2>1. IInv'
    BY <1>4, NextStep DEF GateInv, Next
  <2>2. NotesInv'
    BY <1>4, NotesExamine DEF GateInv
  <2> QED
    BY <1>4, <2>1, <2>2 DEF GateInv, RunInv, SetupInv
<1>5. CASE UNCHANGED <<input, at, reasons, decision, run>> /\ (stage' # "setup" \/ stage' = stage)
  BY <1>5 DEF GateInv, IInv, InputOK, Examining, NotesInv, SetupInv, RunInv
<1>6. ASSUME Act \/ Write \/ Reseal \/ (stage = "final" /\ ((\E f \in Edited : Edit(f)) \/ (\E f \in Fields : EditInput(f))))
             \/ UNCHANGED packageVars
      PROVE  UNCHANGED <<input, at, reasons, decision, run>> /\ (stage' # "setup" \/ stage' = stage)
  BY <1>6 DEF Act, Write, Reseal, Edit, EditInput, packageVars
<1> QED
  BY <1>1, <1>2, <1>3, <1>4, <1>5, <1>6 DEF PackageNext

LEMMA SetupInvariance == PackageSpec => [](GateInv /\ RunInv /\ SetupInv)
<1> QED
  BY SetupStart, SetupStep, PTL DEF PackageSpec

LEMMA DecidesByExamining ==
  ASSUME SetupInv, [PackageNext]_packageVars, decision' # decision
  PROVE  Examine
<1>1. ~(\E f \in Fields : Vary(f)) /\ ~(\E f \in DOMAIN RunKinds[run.tool] : VaryRun(f))
  BY DEF Vary, VaryRun
<1>2. ~Ask /\ ~Act /\ ~Write /\ ~Reseal
  BY DEF Ask, Act, Write, Reseal
<1>3. ~(\E f \in Edited : Edit(f)) /\ ~(\E f \in Fields : EditInput(f))
  BY DEF Edit, EditInput
<1>4. ~UNCHANGED packageVars
  BY DEF packageVars
<1> QED
  BY <1>1, <1>2, <1>3, <1>4 DEF PackageNext

(* Of what the tools and a program put before the gate: what it decides is *)
(* what the package's verifier will replay.                                *)
THEOREM PackagesReplay == PackageSpec => ReplayAgrees
<1>1. GateInv /\ SetupInv /\ [PackageNext]_packageVars => [decision' # decision => Concluded' = Replay(Packaged(input))]_vars
  <2> SUFFICES ASSUME GateInv, SetupInv, [PackageNext]_packageVars, decision' # decision PROVE Concluded' = Replay(Packaged(input))
    BY DEF vars
  <2>1. Examine
    BY DecidesByExamining
  <2> QED
    BY <2>1, ReplayDecides DEF GateInv
<1> QED
  BY <1>1, SetupInvariance, PTL DEF PackageSpec, ReplayAgrees

(* And the fail-closed specification holds of every decision of a run.     *)
THEOREM PackagesConstrained == PackageSpec => Constrained
<1> DEFINE Right == decision' # decision =>
       /\ decision' = "ALLOW" <=> ~Refused(input) /\ ~NotAllowed(input)
       /\ Refused(input) => decision' = "REFUSE"
<1>1. GateInv /\ SetupInv /\ [PackageNext]_packageVars => [Right]_vars
  <2> SUFFICES ASSUME GateInv, SetupInv, [PackageNext]_packageVars, decision' # decision PROVE Right
    BY DEF vars
  <2>1. Examine
    BY DecidesByExamining
  <2> QED
    BY <2>1, DecisionConstrained DEF GateInv
<1> QED
  BY <1>1, SetupInvariance, PTL DEF PackageSpec, Constrained
---------------------------------------------------------------------------
(* 4.  Documents.                                                          *)

(* A record the replay allows: no rule refuses it and none defers.         *)
LEMMA ReplayRefuses ==
  ASSUME NEW i, NEW r \in 1..13, ReplayRefusals(i)[r].fails
  PROVE  Replay(i).decision = "REFUSE"
<1>1. {n \in DOMAIN ReplayRefusals(i) : ReplayRefusals(i)[n].fails} # {}
  BY RulesDomain
<1> DEFINE F == {n \in DOMAIN ReplayRefusals(i) : ReplayRefusals(i)[n].fails}
           first == CHOOSE n \in F : \A m \in F : n <= m
<1>2. Replay(i) = [decision |-> "REFUSE", reasons |-> <<ReplayRefusals(i)[first].why>>]
  BY <1>1, Zenon DEF Replay
<1> HIDE DEF first
<1> QED
  BY <1>2

LEMMA NotesAreEmpty ==
  ASSUME NEW i, NotedSteps(i) = <<>>
  PROVE  i.status # "INSUFFICIENT_EVIDENCE" /\ i.runtime = "healthy"
<1>1. Len(Required) \in 0..Len(Required)
  BY LenFacts
<1>2. PICK S : NamesLacking(i, Len(Required)) \in Seq(S)
  BY <1>1, NamesAreASequence
<1> DEFINE T == S \cup {"verification_insufficient_evidence", "runtime_not_healthy", "evidence_quality_invalid",
                        "evidence_quality_below_threshold", "invalid_step_count_metadata"}
           W1 == When(i.status = "INSUFFICIENT_EVIDENCE", "verification_insufficient_evidence")
           W2 == When(i.runtime # "healthy", "runtime_not_healthy")
           N  == NamesLacking(i, Len(Required))
           W3 == When(i.floor = "set" /\ ReplayQuality(i) = "not in range", "evidence_quality_invalid")
           W4 == When(i.floor = "set" /\ ReplayQuality(i) = "low", "evidence_quality_below_threshold")
           W5 == When(i.maxSteps # "none" /\ i.stepCount \in {"bool", "fraction", "below 1"}, "invalid_step_count_metadata")
<1>3. W1 \in Seq(T) /\ W2 \in Seq(T) /\ W3 \in Seq(T) /\ W4 \in Seq(T) /\ W5 \in Seq(T)
  BY WhenFacts
<1>4. N \in Seq(T)
  BY <1>2, SeqMonotonic
<1>5. NotedSteps(i) = (((((W1 \o W2) \o N) \o W3) \o W4) \o W5)
  BY DEF NotedSteps, NotedQuality, NotedNames, NotedRuntime, NotedStatus
<1>6. (W1 = <<>> <=> i.status # "INSUFFICIENT_EVIDENCE") /\ (W2 = <<>> <=> i.runtime = "healthy")
  BY WhenFacts
<1> HIDE DEF W1, W2, W3, W4, W5, N, T
<1>7. /\ (W1 \o W2) \in Seq(T) /\ ((W1 \o W2) \o N) \in Seq(T) /\ (((W1 \o W2) \o N) \o W3) \in Seq(T)
      /\ ((((W1 \o W2) \o N) \o W3) \o W4) \in Seq(T)
  BY <1>3, <1>4, ConcatProperties
<1>8. ((((W1 \o W2) \o N) \o W3) \o W4) = <<>>
  <2>1. (((((W1 \o W2) \o N) \o W3) \o W4) \o W5) = <<>>
    BY <1>5
  <2> QED
    BY <1>3, <1>7, <2>1, ConcatEqualIffEmpty
<1>9. (((W1 \o W2) \o N) \o W3) = <<>>
  BY <1>3, <1>7, <1>8, ConcatEqualIffEmpty
<1>10. ((W1 \o W2) \o N) = <<>>
  BY <1>3, <1>7, <1>9, ConcatEqualIffEmpty
<1>11. (W1 \o W2) = <<>>
  BY <1>4, <1>7, <1>10, ConcatEqualIffEmpty
<1>12. W1 = <<>> /\ W2 = <<>>
  BY <1>3, <1>11, ConcatEqualIffEmpty
<1> QED
  BY <1>6, <1>12

LEMMA ReplayedNotes == \A i : ReplayDeferrals(i) = NotedSteps(i)
BY DEF ReplayDeferrals, NotedSteps, NotedQuality, NotedNames, NotedRuntime, NotedStatus, When

LEMMA ReplayAllows ==
  ASSUME NEW i, Replay(i).decision = "ALLOW"
  PROVE  /\ Replay(i) = [decision |-> "ALLOW", reasons |-> <<>>]
         /\ i.status = "PASS" /\ i.authorized = "True" /\ i.runtime = "healthy" /\ i.parent \in {"none", "authorized"}
<1>1. \A r \in 1..13 : ~ReplayRefusals(i)[r].fails
  BY ReplayRefuses
<1>2. Replay(i) = [decision |-> IF ReplayDeferrals(i) = <<>> THEN "ALLOW" ELSE "DEFER", reasons |-> ReplayDeferrals(i)]
  BY <1>1, NoRule
<1>3. ReplayDeferrals(i) = <<>>
  BY <1>2
<1>4. i.status # "INSUFFICIENT_EVIDENCE" /\ i.runtime = "healthy"
  BY <1>3, ReplayedNotes, NotesAreEmpty
<1>5. ~ReplayRefusals(i)[2].fails /\ ~ReplayRefusals(i)[3].fails /\ ~ReplayRefusals(i)[5].fails /\ ~ReplayRefusals(i)[8].fails
  BY <1>1
<1>6. /\ ~(i.status = "REFUTED") /\ ~(i.status \notin {"PASS", "INSUFFICIENT_EVIDENCE", "REFUTED"})
      /\ ~(i.authorized # "True") /\ ~(i.parent \notin {"none", "authorized"})
  BY <1>5, FailsOf, Zenon
<1> QED
  BY <1>2, <1>3, <1>4, <1>6

LEMMA NavigationFinds ==
  \A q, s : Navigation(q, s) = {} <=>
    /\ s.fix = "good" /\ s.sats = "good" /\ "uninitialized" \notin s.ekf /\ "glitch" \notin s.ekf /\ "absolute" \in s.ekf
    /\ q.cross => s.gap = "within"
BY DEF Navigation

LEMMA SpaceFinds ==
  \A q, s : Space(q, s) = {} <=>
    /\ s.here = "within" /\ q.alt = "good"
    /\ q.action = "goto" => q.there = "within"
BY DEF Space

(* The verifier's own rules for a flight and the tool's find the same      *)
(* flights in order.                                                       *)
LEMMA VehicleChecksAgree == \A q, s : VehicleProblems(q, s) = {} <=> Failures(q, s) = {}
<1> TAKE q, s
<1>1. CASE q.action \in Movement
  <2>1. q.action \in {"takeoff", "goto"} /\ q.action # "rtl"
    BY <1>1 DEF Movement
  <2>2. VehicleProblems(q, s) = {} <=>
          /\ s.fix = "good" /\ s.sats = "good" /\ "uninitialized" \notin s.ekf /\ "glitch" \notin s.ekf /\ "absolute" \in s.ekf
          /\ q.cross => s.gap = "within"
          /\ s.battery = "good" /\ s.here = "within" /\ q.alt = "good"
          /\ q.action = "goto" => q.there = "within"
    BY <2>1 DEF VehicleProblems
  <2>3. Failures(q, s) = {} <=>
          /\ s.fix = "good" /\ s.sats = "good" /\ "uninitialized" \notin s.ekf /\ "glitch" \notin s.ekf /\ "absolute" \in s.ekf
          /\ q.cross => s.gap = "within"
          /\ s.battery = "good" /\ s.here = "within" /\ q.alt = "good"
          /\ q.action = "goto" => q.there = "within"
    <3>1. Failures(q, s) = Space(q, s) \cup Navigation(q, s) \cup (IF s.battery # "good" THEN {"battery"} ELSE {})
      BY <1>1, <2>1 DEF Failures
    <3>2. Failures(q, s) = {} <=> Space(q, s) = {} /\ Navigation(q, s) = {} /\ s.battery = "good"
      BY <3>1
    <3> QED
      BY <3>2, NavigationFinds, SpaceFinds
  <2> QED
    BY <2>2, <2>3
<1>2. CASE q.action = "rtl"
  <2>1. ~(q.action \in {"takeoff", "goto"}) /\ ~(q.action \in Movement)
    BY <1>2 DEF Movement
  <2>2. VehicleProblems(q, s) = {} <=>
          /\ s.fix = "good" /\ s.sats = "good" /\ "uninitialized" \notin s.ekf /\ "glitch" \notin s.ekf /\ "absolute" \in s.ekf
          /\ q.cross => s.gap = "within"
    BY <1>2, <2>1 DEF VehicleProblems
  <2>3. Failures(q, s) = {} <=>
          /\ s.fix = "good" /\ s.sats = "good" /\ "uninitialized" \notin s.ekf /\ "glitch" \notin s.ekf /\ "absolute" \in s.ekf
          /\ q.cross => s.gap = "within"
    BY <1>2, <2>1, NavigationFinds DEF Failures
  <2> QED
    BY <2>2, <2>3
<1>3. CASE q.action \notin Movement /\ q.action # "rtl"
  <2>1. Failures(q, s) = {}
    BY <1>3 DEF Failures
  <2>2. VehicleProblems(q, s) = {}
    BY <1>3 DEF VehicleProblems, Movement
  <2> QED
    BY <2>1, <2>2
<1> QED
  BY <1>1, <1>2, <1>3

(* What every document that passes the checks shows, whoever wrote it.     *)
Earned(d) ==
  /\ CheckOf(d.kind, d) = "PASS" /\ d.input.status = "PASS"
  /\ d.top = [decision |-> "ALLOW", reasons |-> <<>>]
  /\ d.input.authorized = "True" /\ d.input.runtime = "healthy" /\ d.input.parent \in {"none", "authorized"}
  /\ d.kind = "vehicle" /\ d.request.action \in Movement => d.effect \in {"as asked", "another mode"}

KnownKinds == {"chain", "model", "companion", "vehicle"}

LEMMA KindIsKnown == \A d : Recomputed(d, FALSE) => d.kind \in KnownKinds
BY DEF Recomputed, KnownKinds

(* An effect that is shown was allowed, whatever the package is of.        *)
LEMMA EffectsAreAllowed ==
  ASSUME NEW d, SchemaClosed(d), Recomputed(d, FALSE), EffectBound(d), ExecutionOnlyIfAllowed(d),
         d.exec # "none" \/ d.effect # "none"
  PROVE  d.top.decision = "ALLOW" /\ (d.kind \in {"model", "companion"} => d.exec # "none")
         /\ (d.kind = "vehicle" => d.exec \in {"SUCCEEDED", "FAILED"})
<1>1. d.exec # "none" => d.exec \in {"SUCCEEDED", "FAILED"} /\ d.top.decision = "ALLOW"
  BY DEF ExecutionOnlyIfAllowed
<1>2. d.kind \in KnownKinds
  BY KindIsKnown
<1>3. CASE d.kind = "chain"
  <2>1. d.effect = "none"
    BY <1>3 DEF SchemaClosed, MeasurementClosed
  <2> QED
    BY <1>1, <1>3, <2>1
<1>4. CASE d.kind \in {"model", "companion"}
  <2>1. d.exec # "SUCCEEDED" => d.effect = "none"
    BY <1>4 DEF EffectBound
  <2> QED
    BY <1>1, <1>4, <2>1
<1>5. CASE d.kind = "vehicle"
  <2>1. d.effect # "none" => d.top.decision = "ALLOW" /\ d.exec \in {"SUCCEEDED", "FAILED"}
    BY <1>5, Zenon DEF EffectBound
  <2> QED
    BY <1>1, <1>5, <2>1
<1> QED
  BY <1>2, <1>3, <1>4, <1>5 DEF KnownKinds

LEMMA ChecksAreTheTools ==
  ASSUME NEW d, Recomputed(d, FALSE), EffectBound(d), d.input.status = "PASS"
  PROVE  CheckOf(d.kind, d) = "PASS"
<1>1. d.kind \in KnownKinds
  BY KindIsKnown
<1>2. CASE d.kind = "chain"
  BY <1>2 DEF Recomputed, CheckOf, ChainCheck
<1>3. CASE d.kind = "model"
  <2>1. ModelRechecked(d) = "PASS"
    BY <1>3 DEF Recomputed, EffectBound
  <2> QED
    BY <1>3, <2>1 DEF ModelRechecked, CheckOf, ModelCheck
<1>4. CASE d.kind = "companion"
  <2>1. CompanionRechecked(d) = "PASS" /\ d.reading \in CompanionKinds.reading \ {"not a record", "not JSON"}
    BY <1>4 DEF Recomputed, EffectBound
  <2>2. d.reading \in {"deterministic", "cached", "large model", "conflict", "no strings"}
    BY <2>1 DEF CompanionKinds
  <2>3. d.reading \in {"deterministic", "cached"}
    BY <2>1, <2>2 DEF CompanionRechecked
  <2> QED
    BY <1>4, <2>3 DEF CheckOf, CompanionCheck
<1>5. CASE d.kind = "vehicle"
  <2>1. d.check = VehicleRechecked(d) /\ d.input.status = d.check
    BY <1>5, Zenon DEF Recomputed, EffectBound
  <2>2. VehicleProblems(d.request, d.telemetry) = {}
    BY <2>1 DEF VehicleRechecked
  <2>3. Verdict(d.request, d.telemetry) = "PASS"
    BY <2>2, VehicleChecksAgree DEF Verdict
  <2> QED
    BY <1>5, <2>3 DEF CheckOf
<1> QED
  BY <1>1, <1>2, <1>3, <1>4, <1>5 DEF KnownKinds

LEMMA ConsistentParts ==
  \A d : \A legacy, only \in BOOLEAN : Consistent(d, legacy, only) =>
    /\ SchemaClosed(d) /\ Recomputed(d, only) /\ EffectBound(d) /\ ExecutionOnlyIfAllowed(d)
    /\ ThermalStatusDerived(d) /\ EvidenceStates(d) /\ NotOverclaimed(d) /\ Replay(d.input) = d.top
BY Zenon DEF Consistent

LEMMA EarnedByChecks ==
  ASSUME NEW d, Consistent(d, TRUE, FALSE), d.exec # "none" \/ d.effect # "none"
  PROVE  Earned(d)
<1>1. /\ SchemaClosed(d) /\ Recomputed(d, FALSE) /\ EffectBound(d) /\ ExecutionOnlyIfAllowed(d)
      /\ Replay(d.input) = d.top
  BY ConsistentParts, Zenon
<1>2. d.top.decision = "ALLOW"
  BY <1>1, EffectsAreAllowed
<1>3. /\ Replay(d.input) = [decision |-> "ALLOW", reasons |-> <<>>]
      /\ d.input.status = "PASS" /\ d.input.authorized = "True" /\ d.input.runtime = "healthy"
      /\ d.input.parent \in {"none", "authorized"}
  BY <1>1, <1>2, ReplayAllows
<1>4. CheckOf(d.kind, d) = "PASS"
  BY <1>1, <1>3, ChecksAreTheTools
<1>5. ASSUME d.kind = "vehicle", d.request.action \in Movement PROVE d.effect \in {"as asked", "another mode"}
  <2>1. d.exec \in {"SUCCEEDED", "FAILED"}
    BY <1>1, <1>5, EffectsAreAllowed
  <2>2. SentAuthorized(d)
    BY <1>1, <1>2, <1>5, <2>1, Zenon DEF EffectBound
  <2> QED
    BY <1>5, <2>2 DEF SentAuthorized
<1> QED
  BY <1>1, <1>3, <1>4, <1>5 DEF Earned

(* Whatever was done to a package: an effect or an execution it shows is   *)
(* one the gate allows of what the package carries.  This is so of every   *)
(* document, for verify_package.py's checks alone.                         *)
THEOREM EffectsEarned == PackageSpec => []EffectsAreEarned
<1>1. EffectsAreEarned
  BY EarnedByChecks, Zenon DEF EffectsAreEarned, Earned
<1> QED
  BY <1>1, PTL DEF PackageSpec

(* The two derivations of a thermal status, of readings the model knows.   *)
LEMMA DerivationsAgree == \A z \in [Domains -> Temperatures] : Derived(z) = Rederived(z)
<1> TAKE z \in [Domains -> Temperatures]
<1>1. \A d \in Domains : z[d] \in {"cool", "hot", "offline", "unreadable"}
  BY DEF Temperatures
<1>2. CASE \E d \in Domains : z[d] \in {"unreadable", "offline"}
  <2>1. Derived(z) = "unknown"
    BY <1>2 DEF Derived
  <2>2. Rederived(z) = "unknown"
    BY <1>2 DEF Rederived
  <2> QED
    BY <2>1, <2>2
<1>3. CASE \A d \in Domains : z[d] = "cool"
  <2>1. Derived(z) = "healthy"
    BY <1>3 DEF Derived
  <2>2. Rederived(z) = "healthy"
    BY <1>3 DEF Rederived
  <2> QED
    BY <2>1, <2>2
<1>4. CASE (\A d \in Domains : z[d] \notin {"unreadable", "offline"}) /\ (\E d \in Domains : z[d] # "cool")
  <2>1. Derived(z) = "degraded"
    BY <1>4 DEF Derived
  <2>2. (\A d \in Domains : z[d] \in {"cool", "hot"}) /\ \E d \in Domains : z[d] = "hot"
    BY <1>1, <1>4
  <2>3. Rederived(z) = "degraded"
    BY <2>2 DEF Rederived
  <2> QED
    BY <2>1, <2>3
<1> QED
  BY <1>2, <1>3, <1>4

HonestState(d) ==
  /\ d.tag = "DERIVED" \/ d.line \in {"measured", "DERIVED"} => d.input.runtime = Derived(d.zones)
  /\ d.tag = "ABSENT" => d.top.decision = "REFUSE" /\ d.effect = "none"

LEMMA StateByChecks ==
  ASSUME NEW d, d.zones \in [Domains -> Temperatures], Consistent(d, FALSE, FALSE)
  PROVE  HonestState(d)
<1>1. /\ SchemaClosed(d) /\ Recomputed(d, FALSE) /\ EffectBound(d) /\ ExecutionOnlyIfAllowed(d)
      /\ ThermalStatusDerived(d) /\ EvidenceStates(d) /\ NotOverclaimed(d) /\ Replay(d.input) = d.top
  BY ConsistentParts, Zenon
<1>2. ASSUME d.tag = "DERIVED" \/ d.line \in {"measured", "DERIVED"} PROVE d.input.runtime = Derived(d.zones)
  <2>1. d.line = IF d.tag # "none" THEN d.tag ELSE IF d.source = "measured" THEN "measured" ELSE "declared"
    BY <1>1 DEF NotOverclaimed, Statement
  <2>2. d.tag # "none" => d.tag \in {"DERIVED", "OPERATOR", "DEFAULTED", "ABSENT"} /\ (d.tag = "DERIVED" <=> d.source = "measured")
    BY <1>1 DEF EvidenceStates
  <2>3. d.source = "measured"
    BY <1>2, <2>1, <2>2
  <2>4. Rederived(d.zones) = d.input.runtime
    BY <1>1, <2>3 DEF ThermalStatusDerived
  <2> QED
    BY <2>4, DerivationsAgree
<1>3. ASSUME d.tag = "ABSENT" PROVE d.top.decision = "REFUSE" /\ d.effect = "none"
  <2>1. d.input.runtime = "unknown"
    BY <1>1, <1>3 DEF EvidenceStates
  <2>2. d.input.runtime \notin {"healthy", "degraded"}
    BY <2>1
  <2>3. ReplayRefusals(d.input)[10].fails
    BY <2>2, FailsOf, Zenon
  <2>4. 10 \in 1..13
    OBVIOUS
  <2>5. d.top.decision = "REFUSE"
    BY <1>1, <2>3, <2>4, ReplayRefuses
  <2>6. d.effect = "none"
    BY <1>1, <2>5, EffectsAreAllowed
  <2> QED
    BY <2>5, <2>6
<1> QED
  BY <1>2, <1>3 DEF HonestState

(* A package has a reading for every limited domain, whatever is changed   *)
(* in it.                                                                  *)
ZonesInv == stage = "final" => "zones" \in DOMAIN doc /\ doc.zones \in [Domains -> Temperatures]

LEMMA ZonesStep ==
  ASSUME RunInv, ZonesInv, [PackageNext]_packageVars
  PROVE  ZonesInv'
<1>1. CASE UNCHANGED doc /\ (stage' # "final" \/ stage' = stage)
  BY <1>1 DEF ZonesInv
<1>2. CASE Write
  <2>1. CASE doc' = Built
    <3>1. "zones" \in DOMAIN Built /\ Built.zones = run.zones
      BY DEF Built
    <3> QED
      BY <2>1, <3>1, ZonesKinds DEF ZonesInv
  <2>2. CASE UNCHANGED doc /\ stage' = "no package"
    BY <2>2 DEF ZonesInv
  <2> QED
    BY <1>2, <2>1, <2>2 DEF Write
<1>3. CASE stage = "final" /\ \E f \in Edited : Edit(f)
  <2>1. PICK f \in Edited : Edit(f)
    BY <1>3
  <2>2. PICK k, s : k \in EditKinds[f] /\ doc' = [doc EXCEPT ![f] = k, !.stale = s]
    BY <2>1 DEF Edit
  <2>3. doc.zones \in [Domains -> Temperatures] /\ "zones" \in DOMAIN doc
    BY <1>3 DEF ZonesInv
  <2>4. EditKinds["zones"] = {doc.zones, AllCool}
    BY DEF EditKinds
  <2>5. AllCool \in [Domains -> Temperatures]
    BY DEF AllCool, Temperatures
  <2>6. doc'.zones \in [Domains -> Temperatures] /\ "zones" \in DOMAIN doc'
    <3>1. CASE f = "zones"
      BY <2>2, <2>3, <2>4, <2>5, <3>1
    <3>2. CASE f # "zones"
      BY <2>2, <2>3, <3>2
    <3> QED
      BY <3>1, <3>2
  <2> QED
    BY <2>6 DEF ZonesInv
<1>4. CASE stage = "final" /\ \E f \in Fields : EditInput(f)
  <2>1. PICK i, s : doc' = [doc EXCEPT !.input = i, !.stale = s]
    BY <1>4 DEF EditInput
  <2> QED
    BY <1>4, <2>1 DEF ZonesInv
<1>5. CASE Reseal
  <2>1. doc' = [doc EXCEPT !.stale = {}] /\ stage = "final"
    BY <1>5 DEF Reseal
  <2> QED
    BY <2>1 DEF ZonesInv
<1>6. ASSUME \/ \E f \in Fields : Vary(f) /\ stage = "setup" /\ UNCHANGED <<run, stage, exec, doc, edited>>
             \/ \E f \in DOMAIN RunKinds[run.tool] : VaryRun(f)
             \/ Ask
             \/ stage = "deciding" /\ Examine /\ UNCHANGED <<run, stage, exec, doc, edited>>
             \/ Act
             \/ UNCHANGED packageVars
      PROVE  UNCHANGED doc /\ (stage' # "final" \/ stage' = stage)
  BY <1>6 DEF VaryRun, Ask, Act, packageVars
<1> QED
  BY <1>1, <1>2, <1>3, <1>4, <1>5, <1>6 DEF PackageNext

(* A thermal status called derived or measured is the one that the         *)
(* readings in the package give, and an absent one let nothing through.    *)
THEOREM ResourceStatesAreHonest == PackageSpec => []ResourceStateIsHonest
<1>1. PackageInit => ZonesInv
  BY DEF PackageInit, ZonesInv
<1>2. PackageSpec => []ZonesInv
  BY <1>1, ZonesStep, SetupInvariance, PTL DEF PackageSpec
<1>3. ZonesInv => ResourceStateIsHonest
  BY StateByChecks, Zenon DEF ZonesInv, ResourceStateIsHonest, HonestState
<1> QED
  BY <1>2, <1>3, PTL
---------------------------------------------------------------------------
(* 5.  Honest packages.                                                    *)

(* A run that came to its package: what was asked, decided and done.       *)
AskedInv == stage \in {"deciding", "ran", "final"} => AsksOf(input) /\ ~NoModel

ReplayedInv == decision # "none" => Concluded = Replay(Packaged(input))

ActedInv ==
  stage \in {"ran", "final"} =>
    /\ decision # "none"
    /\ exec = IF decision # "ALLOW" THEN "none" ELSE IF run.ends # "raises" THEN "SUCCEEDED"
              ELSE IF run.keyed THEN "UNKNOWN" ELSE "FAILED"
    /\ decision = "ALLOW" /\ run.ends = "raises" => run.tool = "library"

WrittenInv == stage = "final" /\ edited = {} => doc = Built

HonestInv == AskedInv /\ ReplayedInv /\ ActedInv /\ WrittenInv

LEMMA HonestStart == PackageInit => HonestInv
BY DEF PackageInit, Init, HonestInv, AskedInv, ReplayedInv, ActedInv, WrittenInv

LEMMA ExamineKeeps == ASSUME Examine PROVE UNCHANGED input /\ decision = "none"
BY DEF Examine, Digest, Verification, CapabilityGiven, Authorized, Parent, ActionMatches, RuntimeAvailable, RuntimeHealthy,
       RequiredEvidence, Quality, Steps, Policy, Conclude, Rest, Rule

LEMMA AskHonest == ASSUME GateInv, RunInv, SetupInv, HonestInv, Ask PROVE HonestInv'
<1>1. UNCHANGED <<run, decision>> /\ decision = "none"
  BY DEF Ask, SetupInv
<1>2. CASE CouldNotRun
  <2>1. stage' = "no package"
    BY <1>2 DEF Ask
  <2> QED
    BY <1>1, <2>1 DEF HonestInv, AskedInv, ReplayedInv, ActedInv, WrittenInv
<1>3. CASE ~CouldNotRun
  <2>1. stage' = "deciding" /\ input' = Prepared /\ ~NoModel
    BY <1>3 DEF Ask, CouldNotRun
  <2>2. AsksOf(Prepared)
    BY PreparedWell DEF AskedWell
  <2>3. (AsksOf(input) /\ ~NoModel)'
    BY <1>1, <2>1, <2>2 DEF AsksOf, CheckOf, ThermalOf, NoModel
  <2> QED
    BY <1>1, <2>1, <2>3 DEF HonestInv, AskedInv, ReplayedInv, ActedInv, WrittenInv
<1> QED
  BY <1>2, <1>3

LEMMA KeepsAsked ==
  ASSUME UNCHANGED <<input, run>>
  PROVE  (AsksOf(input) /\ ~NoModel)' <=> AsksOf(input) /\ ~NoModel
BY DEF AsksOf, CheckOf, ThermalOf, NoModel

LEMMA ExamineHonest ==
  ASSUME GateInv, HonestInv, stage = "deciding", Examine, UNCHANGED <<run, stage, exec, doc, edited>>
  PROVE  HonestInv'
<1>1. UNCHANGED input /\ decision = "none"
  BY ExamineKeeps
<1>2. AskedInv'
  BY <1>1, KeepsAsked DEF HonestInv, AskedInv
<1>3. ASSUME decision' # "none" PROVE (Concluded = Replay(Packaged(input)))'
  <2>1. Concluded' = Replay(Packaged(input))
    BY <1>1, <1>3, ReplayDecides DEF GateInv
  <2> QED
    BY <1>1, <2>1
<1>4. ReplayedInv'
  BY <1>3 DEF ReplayedInv
<1>5. ActedInv' /\ WrittenInv'
  BY DEF ActedInv, WrittenInv
<1> QED
  BY <1>2, <1>4, <1>5 DEF HonestInv

LEMMA ActHonest == ASSUME HonestInv, Act PROVE HonestInv'
<1>1. UNCHANGED <<input, at, reasons, decision, run>> /\ stage = "deciding" /\ decision # "none" /\ stage' \in {"ran", "no package"}
  BY DEF Act
<1>2. AskedInv'
  BY <1>1, KeepsAsked DEF HonestInv, AskedInv
<1>3. ReplayedInv'
  BY <1>1 DEF HonestInv, ReplayedInv, Concluded
<1>4. ActedInv'
  BY <1>1 DEF Act, ActedInv
<1>5. WrittenInv'
  BY <1>1 DEF WrittenInv
<1> QED
  BY <1>2, <1>3, <1>4, <1>5 DEF HonestInv

LEMMA BuiltKeeps == ASSUME UNCHANGED <<input, reasons, decision, run, exec>> PROVE Built' = Built
BY DEF Built, CheckOf, EffectOf, CommandsSent, NoteWritten, AnswerReleased, TagOf, LineOf

LEMMA WriteHonest == ASSUME HonestInv, Write PROVE HonestInv'
<1>1. UNCHANGED <<input, at, reasons, decision, run, exec>> /\ stage = "ran" /\ stage' \in {"final", "no package"}
      /\ (stage' = "final" => doc' = Built)
  BY DEF Write
<1>2. AskedInv'
  BY <1>1, KeepsAsked DEF HonestInv, AskedInv
<1>3. ReplayedInv'
  BY <1>1 DEF HonestInv, ReplayedInv, Concluded
<1>4. ActedInv'
  BY <1>1 DEF HonestInv, ActedInv
<1>5. Built' = Built
  BY <1>1, BuiltKeeps
<1>6. WrittenInv'
  BY <1>1, <1>5 DEF WrittenInv
<1> QED
  BY <1>2, <1>3, <1>4, <1>6 DEF HonestInv

LEMMA LaterHonest ==
  ASSUME HonestInv, UNCHANGED <<input, at, reasons, decision, run, exec, stage>>,
         UNCHANGED <<doc, edited>> \/ edited' # {} \/ (stage = "final" /\ edited # {} /\ edited' = edited)
  PROVE  HonestInv'
<1>1. AskedInv'
  BY KeepsAsked DEF HonestInv, AskedInv
<1>2. ReplayedInv'
  BY DEF HonestInv, ReplayedInv, Concluded
<1>3. ActedInv'
  BY DEF HonestInv, ActedInv
<1>4. Built' = Built
  BY BuiltKeeps
<1>5. WrittenInv'
  BY <1>4 DEF HonestInv, WrittenInv
<1> QED
  BY <1>1, <1>2, <1>3, <1>5 DEF HonestInv

LEMMA HonestStep ==
  ASSUME GateInv, RunInv, SetupInv, HonestInv, [PackageNext]_packageVars
  PROVE  HonestInv'
<1>1. CASE (\E f \in Fields : Vary(f) /\ stage = "setup" /\ UNCHANGED <<run, stage, exec, doc, edited>>)
           \/ \E f \in DOMAIN RunKinds[run.tool] : VaryRun(f)
  <2>1. stage = "setup" /\ stage' = "setup" /\ decision' = "none"
    BY <1>1 DEF Vary, VaryRun, SetupInv
  <2> QED
    BY <2>1 DEF HonestInv, AskedInv, ReplayedInv, ActedInv, WrittenInv
<1>2. CASE (\E f \in Edited : Edit(f)) \/ (\E f \in Fields : EditInput(f))
  <2>1. UNCHANGED <<input, at, reasons, decision, run, exec, stage>> /\ edited' # {}
    BY <1>2 DEF Edit, EditInput
  <2> QED
    BY <2>1, LaterHonest
<1>3. CASE Reseal
  <2>1. UNCHANGED <<input, at, reasons, decision, run, exec, stage>> /\ edited' = edited /\ stage = "final" /\ doc.stale # {}
    BY <1>3 DEF Reseal
  <2>2. Built.stale = {}
    BY DEF Built
  <2>3. edited # {}
    BY <2>1, <2>2 DEF HonestInv, WrittenInv
  <2> QED
    BY <2>1, <2>3, LaterHonest
<1>4. CASE UNCHANGED packageVars
  <2>1. UNCHANGED <<input, at, reasons, decision, run, exec, stage, doc, edited>>
    BY <1>4 DEF packageVars
  <2> QED
    BY <2>1, LaterHonest
<1> QED
  BY <1>1, <1>2, <1>3, <1>4, AskHonest, ExamineHonest, ActHonest, WriteHonest DEF PackageNext

LEMMA HonestInvariance == PackageSpec => []HonestInv
BY HonestStart, HonestStep, SetupInvariance, PTL DEF PackageSpec

(* The snapshot of the registry a program adds.                            *)
LEMMA FirstFails ==
  ASSUME NEW i, NEW m \in 1..13, ReplayRefusals(i)[m].fails
  PROVE  \E r \in 1..13 : ReplayRefusals(i)[r].fails /\ \A n \in 1..13 : n < r => ~ReplayRefusals(i)[n].fails
<1> DEFINE F(n) == ReplayRefusals(i)[n].fails
<1>1. F(m) /\ m \in 1..13
  OBVIOUS
<1> HIDE DEF F
<1>2. \E r \in 1..13 : F(r) /\ \A n \in 1..13 : n < r => ~F(n)
  BY <1>1
<1> QED
  BY <1>2 DEF F

LEMMA WithSnapshot ==
  ASSUME NEW i, NEW j, "registry" \in DOMAIN i, j = [i EXCEPT !.registry = "given"], i.registry = "None"
  PROVE  Replay(j) = Replay(i) <=> Replay(i) # [decision |-> "REFUSE", reasons |-> <<"capability_parent_requires_registry">>]
<1>1. /\ j.digest = i.digest /\ j.status = i.status /\ j.capability = i.capability /\ j.authorized = i.authorized
      /\ j.parent = i.parent /\ j.action = i.action /\ j.runtime = i.runtime /\ j.evidence = i.evidence
      /\ j.floor = i.floor /\ j.quality = i.quality /\ j.metaQuality = i.metaQuality /\ j.maxSteps = i.maxSteps
      /\ j.stepCount = i.stepCount /\ j.allowOnly = i.allowOnly /\ j.registry = "given"
  OBVIOUS
<1>2. Listed(j) <=> Listed(i)
  BY <1>1 DEF Listed
<1>3. ReplayDeferrals(j) = ReplayDeferrals(i)
  <2>1. NamesLacking(j, Len(Required)) = NamesLacking(i, Len(Required))
    BY <1>1 DEF NamesLacking, Place, Lacking
  <2>2. ReplayQuality(j) = ReplayQuality(i)
    BY <1>1 DEF ReplayQuality
  <2>3. NotedSteps(j) = NotedSteps(i)
    BY <1>1, <2>1, <2>2 DEF NotedSteps, NotedQuality, NotedNames, NotedRuntime, NotedStatus
  <2> QED
    BY <2>3, ReplayedNotes
<1> DEFINE F(n) == ReplayRefusals(i)[n].fails
           G(n) == ReplayRefusals(j)[n].fails
           Saying(n) == ReplayRefusals(i)[n].why
<1>4. /\ (G(1) <=> F(1)) /\ (G(2) <=> F(2)) /\ (G(3) <=> F(3)) /\ (G(4) <=> F(4)) /\ (G(5) <=> F(5))
      /\ (G(7) <=> F(7)) /\ (G(8) <=> F(8)) /\ (G(9) <=> F(9)) /\ (G(10) <=> F(10)) /\ (G(11) <=> F(11))
      /\ (G(12) <=> F(12)) /\ (G(13) <=> F(13)) /\ ~G(6)
  <2>1. G(1) <=> F(1)
    <3>1. F(1) <=> i.digest = "empty"
      BY FailsOf, Zenon
    <3>2. G(1) <=> j.digest = "empty"
      BY FailsOf, Zenon
    <3> QED
      BY <1>1, <1>2, <3>1, <3>2, Zenon
  <2>2. G(2) <=> F(2)
    <3>1. F(2) <=> i.status = "REFUTED"
      BY FailsOf, Zenon
    <3>2. G(2) <=> j.status = "REFUTED"
      BY FailsOf, Zenon
    <3> QED
      BY <1>1, <1>2, <3>1, <3>2, Zenon
  <2>3. G(3) <=> F(3)
    <3>1. F(3) <=> i.status \notin {"PASS", "INSUFFICIENT_EVIDENCE", "REFUTED"}
      BY FailsOf, Zenon
    <3>2. G(3) <=> j.status \notin {"PASS", "INSUFFICIENT_EVIDENCE", "REFUTED"}
      BY FailsOf, Zenon
    <3> QED
      BY <1>1, <1>2, <3>1, <3>2, Zenon
  <2>4. G(4) <=> F(4)
    <3>1. F(4) <=> i.capability = "None"
      BY FailsOf, Zenon
    <3>2. G(4) <=> j.capability = "None"
      BY FailsOf, Zenon
    <3> QED
      BY <1>1, <1>2, <3>1, <3>2, Zenon
  <2>5. G(5) <=> F(5)
    <3>1. F(5) <=> i.authorized # "True"
      BY FailsOf, Zenon
    <3>2. G(5) <=> j.authorized # "True"
      BY FailsOf, Zenon
    <3> QED
      BY <1>1, <1>2, <3>1, <3>2, Zenon
  <2>6. ~G(6)
    BY <1>1, FailsOf, Zenon
  <2>7. G(7) <=> F(7)
    <3>1. F(7) <=> i.parent = "unregistered"
      BY FailsOf, Zenon
    <3>2. G(7) <=> j.parent = "unregistered"
      BY FailsOf, Zenon
    <3> QED
      BY <1>1, <1>2, <3>1, <3>2, Zenon
  <2>8. G(8) <=> F(8)
    <3>1. F(8) <=> i.parent \notin {"none", "authorized"}
      BY FailsOf, Zenon
    <3>2. G(8) <=> j.parent \notin {"none", "authorized"}
      BY FailsOf, Zenon
    <3> QED
      BY <1>1, <1>2, <3>1, <3>2, Zenon
  <2>9. G(9) <=> F(9)
    <3>1. F(9) <=> i.action = "of another"
      BY FailsOf, Zenon
    <3>2. G(9) <=> j.action = "of another"
      BY FailsOf, Zenon
    <3> QED
      BY <1>1, <1>2, <3>1, <3>2, Zenon
  <2>10. G(10) <=> F(10)
    <3>1. F(10) <=> i.runtime \notin {"healthy", "degraded"}
      BY FailsOf, Zenon
    <3>2. G(10) <=> j.runtime \notin {"healthy", "degraded"}
      BY FailsOf, Zenon
    <3> QED
      BY <1>1, <1>2, <3>1, <3>2, Zenon
  <2>11. G(11) <=> F(11)
    <3>1. F(11) <=> i.maxSteps # "none" /\ i.stepCount = "over"
      BY FailsOf, Zenon
    <3>2. G(11) <=> j.maxSteps # "none" /\ j.stepCount = "over"
      BY FailsOf, Zenon
    <3> QED
      BY <1>1, <1>2, <3>1, <3>2, Zenon
  <2>12. G(12) <=> F(12)
    <3>1. F(12) <=> i.allowOnly \notin {"none", "list with it", "list without it", "list of true"}
      BY FailsOf, Zenon
    <3>2. G(12) <=> j.allowOnly \notin {"none", "list with it", "list without it", "list of true"}
      BY FailsOf, Zenon
    <3> QED
      BY <1>1, <1>2, <3>1, <3>2, Zenon
  <2>13. G(13) <=> F(13)
    <3>1. F(13) <=> i.action \notin {"None", "unnamed"} /\ i.allowOnly # "none" /\ ~Listed(i)
      BY FailsOf, Zenon
    <3>2. G(13) <=> j.action \notin {"None", "unnamed"} /\ j.allowOnly # "none" /\ ~Listed(j)
      BY FailsOf, Zenon
    <3> QED
      BY <1>1, <1>2, <3>1, <3>2, Zenon
  <2> QED
    BY <2>1, <2>2, <2>3, <2>4, <2>5, <2>6, <2>7, <2>8, <2>9, <2>10, <2>11, <2>12, <2>13, Zenon
<1>5. \A n \in 1..13 : /\ ReplayRefusals(j)[n].why = Saying(n)
                       /\ Saying(n) = "capability_parent_requires_registry" <=> n = 6
  BY RulesOf
<1> DEFINE Req == [decision |-> "REFUSE", reasons |-> <<"capability_parent_requires_registry">>]
<1>6. \A n \in 1..13 : [decision |-> "REFUSE", reasons |-> <<Saying(n)>>] = Req <=> n = 6
  BY <1>5
<1>7. ASSUME NEW r \in 1..13, F(r), \A n \in 1..13 : n < r => ~F(n)
      PROVE  Replay(i) = [decision |-> "REFUSE", reasons |-> <<Saying(r)>>]
  BY <1>7, FirstRule, Zenon
<1>8. ASSUME NEW r \in 1..13, G(r), \A n \in 1..13 : n < r => ~G(n)
      PROVE  Replay(j) = [decision |-> "REFUSE", reasons |-> <<Saying(r)>>]
  <2>1. Replay(j) = [decision |-> "REFUSE", reasons |-> <<ReplayRefusals(j)[r].why>>]
    BY <1>8, FirstRule, Zenon
  <2> QED
    BY <1>5, <2>1
<1>9. ASSUME NEW n \in 1..13, F(n) PROVE \E r \in 1..13 : F(r) /\ \A m \in 1..13 : m < r => ~F(m)
  BY <1>9, FirstFails, Zenon
<1>10. ASSUME NEW n \in 1..13, G(n) PROVE \E r \in 1..13 : G(r) /\ \A m \in 1..13 : m < r => ~G(m)
  BY <1>10, FirstFails, Zenon
<1>11. ASSUME \A n \in 1..13 : ~F(n)
       PROVE  Replay(i) = [decision |-> IF ReplayDeferrals(i) = <<>> THEN "ALLOW" ELSE "DEFER", reasons |-> ReplayDeferrals(i)]
  BY <1>11, NoRule, Zenon
<1>12. ASSUME \A n \in 1..13 : ~G(n)
       PROVE  Replay(j) = [decision |-> IF ReplayDeferrals(i) = <<>> THEN "ALLOW" ELSE "DEFER", reasons |-> ReplayDeferrals(i)]
  BY <1>3, <1>12, NoRule, Zenon
<1>13. [decision |-> IF ReplayDeferrals(i) = <<>> THEN "ALLOW" ELSE "DEFER", reasons |-> ReplayDeferrals(i)].decision # "REFUSE"
       /\ Req.decision = "REFUSE"
  OBVIOUS
<1>14. \A n \in 1..13 : [decision |-> "REFUSE", reasons |-> <<Saying(n)>>].decision = "REFUSE"
  OBVIOUS
<1> HIDE DEF F, G, Saying, Req
<1>15. \A n \in 1..13 : n # 6 => (G(n) <=> F(n))
  BY <1>4
<1>16. CASE \A n \in 1..13 : ~F(n)
  <2>1. \A n \in 1..13 : ~G(n)
    BY <1>4, <1>15, <1>16
  <2> QED
    BY <1>11, <1>12, <1>13, <1>16, <2>1 DEF Req
<1>17. CASE \E n \in 1..13 : F(n)
  <2>1. PICK r \in 1..13 : F(r) /\ \A m \in 1..13 : m < r => ~F(m)
    BY <1>9, <1>17
  <2>2. Replay(i) = [decision |-> "REFUSE", reasons |-> <<Saying(r)>>]
    BY <1>7, <2>1
  <2>3. CASE r # 6
    <3>1. G(r) /\ \A m \in 1..13 : m < r => ~G(m)
      BY <1>4, <1>15, <2>1, <2>3
    <3>2. Replay(j) = Replay(i)
      BY <1>8, <2>2, <3>1
    <3> QED
      BY <1>6, <2>2, <2>3, <3>2 DEF Req
  <2>4. CASE r = 6
    <3>1. Replay(i) = Req
      BY <1>6, <2>2, <2>4
    <3>2. CASE \A n \in 1..13 : ~G(n)
      BY <1>12, <1>13, <3>1, <3>2 DEF Req
    <3>3. CASE \E n \in 1..13 : G(n)
      <4>1. PICK q \in 1..13 : G(q) /\ \A m \in 1..13 : m < q => ~G(m)
        BY <1>10, <3>3
      <4>2. Replay(j) = [decision |-> "REFUSE", reasons |-> <<Saying(q)>>] /\ q # 6
        BY <1>4, <1>8, <4>1
      <4>3. Replay(j) # Req
        BY <1>6, <4>2
      <4> QED
        BY <3>1, <4>3 DEF Req
    <3> QED
      BY <3>2, <3>3
  <2> QED
    BY <2>3, <2>4
<1> QED
  BY <1>16, <1>17

(* What the fields of a run may be, tool by tool.                          *)
LEMMA ReadingKinds ==
  ASSUME RunInv
  PROVE  /\ run.tool \in {"library", "chain"} => run.reading = "output"
         /\ run.tool = "model" => run.reading \in {"right", "wrong", "garbage"}
         /\ run.tool = "companion" => run.reading \in CompanionKinds.reading
         /\ run.tool = "vehicle" => run.reading = "snapshot"
<1>1. run["reading"] = GoodRun(run.tool)["reading"]
      \/ ("reading" \in DOMAIN RunKinds[run.tool] /\ run["reading"] \in RunKinds[run.tool]["reading"])
  BY FieldsOfRun
<1>2. /\ "reading" \notin DOMAIN LibraryKinds /\ "reading" \notin DOMAIN ChainKinds /\ "reading" \notin DOMAIN VehicleKinds
      /\ ModelKinds["reading"] = {"right", "wrong", "garbage"}
  BY DEF LibraryKinds, ChainKinds, ModelKinds, VehicleKinds
<1>3. /\ GoodRun("library")["reading"] = "output" /\ GoodRun("chain")["reading"] = "output"
      /\ GoodRun("model")["reading"] = "right" /\ GoodRun("companion")["reading"] = "deterministic"
      /\ GoodRun("vehicle")["reading"] = "snapshot"
  BY DEF GoodRun
<1>4. "deterministic" \in CompanionKinds["reading"]
  BY DEF CompanionKinds
<1> QED
  BY <1>1, <1>2, <1>3, <1>4, KindsOf DEF RunInv, ToolNames

LEMMA GivenKinds ==
  ASSUME RunInv
  PROVE  /\ run.tool = "library" => run.given = "rounds"
         /\ run.tool = "chain" => run.given \in {"rounds", "no rounds", "too many rounds"}
         /\ run.tool = "vehicle" => run.given \in {"flight", "no limits"}
<1>1. run["given"] = GoodRun(run.tool)["given"]
      \/ ("given" \in DOMAIN RunKinds[run.tool] /\ run["given"] \in RunKinds[run.tool]["given"])
  BY FieldsOfRun
<1>2. /\ "given" \notin DOMAIN LibraryKinds /\ VehicleKinds["given"] = {"flight", "no limits"}
      /\ ChainKinds["given"] = {"rounds", "no rounds", "too many rounds"}
  BY DEF LibraryKinds, ChainKinds, VehicleKinds
<1>3. /\ GoodRun("library")["given"] = "rounds" /\ GoodRun("chain")["given"] = "rounds"
      /\ GoodRun("vehicle")["given"] = "flight"
  BY DEF GoodRun
<1> QED
  BY <1>1, <1>2, <1>3, KindsOf DEF RunInv, ToolNames

LEMMA CountsKinds ==
  ASSUME RunInv
  PROVE  /\ run.tool # "library" => run.counts = "passing" /\ run.snapshot = "as decided"
         /\ run.counts \in {"passing", "none", "failed", "no verifier"} /\ run.snapshot \in {"as decided", "given"}
<1>1. /\ run["counts"] = "passing" \/ ("counts" \in DOMAIN RunKinds[run.tool] /\ run["counts"] \in RunKinds[run.tool]["counts"])
      /\ run["snapshot"] = "as decided"
         \/ ("snapshot" \in DOMAIN RunKinds[run.tool] /\ run["snapshot"] \in RunKinds[run.tool]["snapshot"])
  <2>1. GoodRun(run.tool)["counts"] = "passing" /\ GoodRun(run.tool)["snapshot"] = "as decided"
    BY DEF GoodRun
  <2> QED
    BY <2>1, FieldsOfRun
<1>2. /\ "counts" \notin DOMAIN ChainKinds /\ "counts" \notin DOMAIN ModelKinds /\ "counts" \notin DOMAIN CompanionKinds
      /\ "counts" \notin DOMAIN VehicleKinds
      /\ "snapshot" \notin DOMAIN ChainKinds /\ "snapshot" \notin DOMAIN ModelKinds /\ "snapshot" \notin DOMAIN CompanionKinds
      /\ "snapshot" \notin DOMAIN VehicleKinds
      /\ LibraryKinds["counts"] = {"passing", "none", "failed", "no verifier"}
      /\ LibraryKinds["snapshot"] = {"as decided", "given"}
  BY DEF LibraryKinds, ChainKinds, ModelKinds, CompanionKinds, VehicleKinds
<1> QED
  BY <1>1, <1>2, KindsOf DEF RunInv, ToolNames

LEMMA ExtraKinds ==
  ASSUME RunInv
  PROVE  run.extra \in {"nothing", "keys", "not finite"} /\ (run.tool # "library" => run.extra = "nothing")
<1>1. run["extra"] = "nothing" \/ ("extra" \in DOMAIN RunKinds[run.tool] /\ run["extra"] \in RunKinds[run.tool]["extra"])
  <2>1. GoodRun(run.tool)["extra"] = "nothing"
    BY DEF GoodRun
  <2> QED
    BY <2>1, FieldsOfRun
<1>2. /\ "extra" \notin DOMAIN ChainKinds /\ "extra" \notin DOMAIN ModelKinds /\ "extra" \notin DOMAIN CompanionKinds
      /\ "extra" \notin DOMAIN VehicleKinds /\ LibraryKinds["extra"] = {"nothing", "keys", "not finite"}
  BY DEF LibraryKinds, ChainKinds, ModelKinds, CompanionKinds, VehicleKinds
<1> QED
  BY <1>1, <1>2, KindsOf DEF RunInv, ToolNames

Finished == GateInv /\ RunInv /\ HonestInv /\ stage = "final" /\ edited = {}

LEMMA BuiltFacts ==
  /\ Built.form = (IF run.extra = "not finite" THEN "not finite" ELSE "plain") /\ Built.schema = "v1" /\ Built.contract = "trusted" /\ Built.served = run.served
  /\ Built.kind = (IF run.tool = "library" THEN "chain" ELSE run.tool)
  /\ Built.given = run.given /\ Built.reading = run.reading /\ Built.request = run.request
  /\ Built.telemetry = run.telemetry /\ Built.check = CheckOf(run.tool, run) /\ Built.backend = run.backend
  /\ Built.effect = EffectOf /\ Built.act = "as given" /\ Built.exec = exec
  /\ Built.said = Concluded /\ Built.top = Concluded
  /\ Built.input = [Packaged(input) EXCEPT !.registry = IF run.snapshot = "given" THEN "given" ELSE @]
  /\ Built.source = run.source /\ Built.zones = run.zones
  /\ Built.policy = (IF run.source = "measured" THEN "pinned" ELSE "none")
  /\ Built.tag = TagOf /\ Built.line = LineOf(TagOf, run.source)
  /\ Built.counts = run.counts /\ Built.validation = Validated(run.counts, "VALIDATED") /\ Built.fresh = "NOT_PROVEN"
  /\ Built.stale = {}
BY DEF Built, Concluded

LEMMA BuiltSays == (Built.closed <=> run.extra # "keys") /\ ~Built.bound
<1>1. Built.closed <=> run.extra # "keys"
  BY Zenon DEF Built
<1>2. ~Built.bound
  BY Zenon DEF Built
<1> QED
  BY <1>1, <1>2, Zenon

LEMMA BuiltOutcome == Built.outcome <=> run.tool = "vehicle" /\ exec = "SUCCEEDED"
BY Zenon DEF Built

(* What was decided is what the packaged input gives, and what was allowed *)
(* had passed.                                                             *)
LEMMA FinishedRun ==
  ASSUME Finished
  PROVE  /\ doc = Built /\ AsksOf(input) /\ ~NoModel
         /\ Concluded = Replay(Packaged(input))
         /\ exec = IF decision # "ALLOW" THEN "none" ELSE IF run.ends # "raises" THEN "SUCCEEDED"
                   ELSE IF run.keyed THEN "UNKNOWN" ELSE "FAILED"
         /\ run.tool # "library" => exec \in {"none", "SUCCEEDED"}
BY DEF Finished, HonestInv, AskedInv, ReplayedInv, ActedInv, WrittenInv

LEMMA InputFacts ==
  ASSUME Finished
  PROVE  /\ \A f \in Fields \ {"allowOnly"} : Packaged(input)[f] = input[f]
         /\ \A f \in Fields \ {"allowOnly", "registry"} : Built.input[f] = input[f]
         /\ DOMAIN Packaged(input) = Fields
         /\ Built.input.status = input.status /\ Built.input.runtime = input.runtime
<1>1. InputOK
  BY DEF Finished, GateInv, IInv
<1>2. (\A f \in Fields \ {"allowOnly"} : Packaged(input)[f] = input[f]) /\ DOMAIN Packaged(input) = Fields
  BY <1>1, PackagedFacts
<1>3. \A f \in Fields \ {"allowOnly", "registry"} : Built.input[f] = input[f]
  BY <1>2, BuiltFacts
<1>4. "status" \in Fields /\ "runtime" \in Fields
  BY DEF Fields, Kinds
<1> QED
  BY <1>2, <1>3, <1>4

LEMMA AllowedPassed ==
  ASSUME Finished, decision = "ALLOW"
  PROVE  input.status = "PASS" /\ (run.tool # "library" => CheckOf(run.tool, run) = "PASS")
<1>1. Replay(Packaged(input)).decision = "ALLOW"
  BY FinishedRun DEF Concluded
<1>2. Packaged(input).status = "PASS"
  BY <1>1, ReplayAllows
<1>3. "status" \in Fields \ {"allowOnly"}
  BY DEF Fields, Kinds
<1>4. input.status = "PASS"
  BY <1>2, <1>3, InputFacts
<1> QED
  BY <1>4, FinishedRun DEF AsksOf

LEMMA EffectFacts ==
  ASSUME Finished
  PROVE  /\ run.tool \in {"library", "chain"} => EffectOf = "none"
         /\ run.tool \in {"model", "companion"} => EffectOf = IF exec = "SUCCEEDED" THEN "as asked" ELSE "none"
         /\ run.tool = "vehicle" => EffectOf = CommandsSent
BY DEF EffectOf, NoteWritten, AnswerReleased

LEMMA BuiltReadable ==
  Unreadable(Built) <=> run.extra = "not finite" \/ (run.tool = "vehicle" /\ run.request.alt = "nonfinite")
<1>1. NoNonFinite(Built) <=> ~(run.extra = "not finite" \/ (run.tool = "vehicle" /\ run.request.alt = "nonfinite"))
  BY BuiltFacts DEF NoNonFinite
<1>2. MaxDepth(Built)
  BY BuiltFacts DEF MaxDepth
<1>3. NoDuplicateKeys(Built)
  BY BuiltFacts DEF NoDuplicateKeys
<1>4. Built.form # "no object"
  BY BuiltFacts
<1> QED
  BY <1>1, <1>2, <1>3, <1>4, Zenon DEF Unreadable

LEMMA BuiltClosed == ASSUME Finished PROVE SchemaClosed(Built) <=> run.extra # "keys"
<1>1. Built.kind = "chain" => Built.effect = "none"
  <2>1. run.tool \in ToolNames
    BY DEF Finished, RunInv
  <2>2. Built.kind = (IF run.tool = "library" THEN "chain" ELSE run.tool) /\ Built.effect = EffectOf
    BY BuiltFacts
  <2> QED
    BY <2>1, <2>2, EffectFacts DEF ToolNames
<1>2. ASSUME Built.kind \in {"chain", "model", "companion"} PROVE ~Built.outcome
  <2>1. run.tool # "vehicle"
    BY <1>2, BuiltFacts
  <2> QED
    BY <2>1, BuiltOutcome, Zenon
<1>3. Built.schema # "v0"
  BY BuiltFacts
<1> QED
  BY <1>1, <1>2, <1>3, BuiltSays, Zenon DEF SchemaClosed, MeasurementClosed

OutOfBounds ==
  \/ run.tool = "chain" /\ run.given # "rounds"
  \/ run.tool = "companion" /\ run.reading \in {"not a record", "not JSON"}
  \/ run.tool = "vehicle" /\ run.given = "no limits"

LEMMA BuiltRecomputed == ASSUME Finished, NEW only \in BOOLEAN PROVE Recomputed(Built, only) <=> ~OutOfBounds
<1>1. "output" \notin Built.stale
  BY BuiltFacts
<1>2. RunInv
  BY DEF Finished
<1>3. CASE run.tool \in {"library", "chain"}
  <2>1. Built.kind = "chain" /\ Built.given = run.given /\ Built.reading = "output"
    BY <1>2, <1>3, BuiltFacts, ReadingKinds
  <2>2. run.given # "rounds" <=> OutOfBounds
    BY <1>2, <1>3, GivenKinds DEF OutOfBounds
  <2>3. Recomputed(Built, only) <=> Built.given = "rounds" /\ Built.reading = "output"
    BY <2>1, Zenon DEF Recomputed
  <2> QED
    BY <2>1, <2>2, <2>3
<1>4. CASE run.tool = "model"
  <2>1. Built.kind = "model" /\ Built.reading = run.reading /\ Built.check = ModelCheck(run.reading)
    BY <1>4, BuiltFacts DEF CheckOf
  <2>2. run.reading \in ModelKinds.reading
    BY <1>2, <1>4, ReadingKinds DEF ModelKinds
  <2>3. Built.check = ModelRechecked(Built)
    BY <2>1 DEF ModelRechecked, ModelCheck
  <2>4. Recomputed(Built, only)
    BY <1>1, <2>1, <2>2, <2>3, Zenon DEF Recomputed
  <2> QED
    BY <1>4, <2>4 DEF OutOfBounds
<1>5. CASE run.tool = "companion"
  <2>1. Built.kind = "companion" /\ Built.reading = run.reading /\ Built.check = CompanionCheck(run.reading)
    BY <1>5, BuiltFacts DEF CheckOf
  <2>2. CompanionKinds.reading = {"deterministic", "cached", "large model", "conflict", "no strings", "not a record", "not JSON"}
        /\ run.reading \in CompanionKinds.reading
    BY <1>2, <1>5, ReadingKinds DEF CompanionKinds
  <2>3. OutOfBounds <=> run.reading \in {"not a record", "not JSON"}
    BY <1>5 DEF OutOfBounds
  <2>4. Recomputed(Built, only) <=> Built.reading \in CompanionKinds.reading \ {"not a record", "not JSON"} /\ "output" \notin Built.stale
                                    /\ Built.check = CompanionRechecked(Built)
    BY <2>1, Zenon DEF Recomputed
  <2>5. ASSUME run.reading \notin {"not a record", "not JSON"} PROVE Built.check = CompanionRechecked(Built)
    BY <2>1, <2>2, <2>5 DEF CompanionRechecked, CompanionCheck
  <2> QED
    BY <1>1, <2>1, <2>2, <2>3, <2>4, <2>5
<1>6. CASE run.tool = "vehicle"
  <2>1. Built.kind = "vehicle" /\ Built.reading = "snapshot" /\ Built.given = run.given
        /\ Built.check = Verdict(Built.request, Built.telemetry)
    <3>1. CheckOf(run.tool, run) = Verdict(run.request, run.telemetry)
      BY <1>6 DEF CheckOf
    <3> QED
      BY <1>2, <1>6, <3>1, BuiltFacts, ReadingKinds, GivenKinds
  <2>2. Built.check = VehicleRechecked(Built)
    BY <2>1, VehicleChecksAgree DEF VehicleRechecked, Verdict
  <2>3. Recomputed(Built, only) <=> Built.given = "flight"
    BY <1>1, <2>1, <2>2, Zenon DEF Recomputed
  <2>4. run.given \in {"flight", "no limits"}
    BY <1>2, <1>6, GivenKinds
  <2> QED
    BY <1>6, <2>1, <2>3, <2>4 DEF OutOfBounds
<1> QED
  BY <1>2, <1>3, <1>4, <1>5, <1>6 DEF RunInv, ToolNames

LEMMA BuiltProvenance == ASSUME Finished PROVE VerifierProvenance(Built)
<1>1. Built.counts = run.counts /\ Built.validation = Validated(run.counts, "VALIDATED")
  BY BuiltFacts
<1>2. run.counts \in {"passing", "none", "failed", "no verifier"} /\ (run.tool # "library" => run.counts = "passing")
  BY CountsKinds DEF Finished
<1>3. Built.counts # "no verifier" => Built.validation = ValidationStatus(Built)
  BY <1>1, <1>2 DEF ValidationStatus, Validated
<1>4. ASSUME Built.counts # "no verifier", Built.validation # "VALIDATED" PROVE Built.input.status = Built.validation
  <2>1. run.counts \in {"none", "failed"} /\ run.tool = "library"
    BY <1>1, <1>2, <1>4 DEF Validated
  <2>2. AsksOf(input) /\ Built.input.status = input.status
    BY FinishedRun, InputFacts
  <2>3. input.status = Validated(run.counts, "VALIDATED")
    BY <2>1, <2>2 DEF AsksOf, Validated
  <2> QED
    BY <1>1, <2>2, <2>3
<1> QED
  BY <1>3, <1>4 DEF VerifierProvenance

LEMMA BuiltThermal == ASSUME Finished PROVE ThermalStatusDerived(Built) /\ EvidenceStates(Built)
<1>1. /\ Built.source = run.source /\ Built.zones = run.zones /\ Built.tag = TagOf
      /\ Built.policy = IF run.source = "measured" THEN "pinned" ELSE "none"
      /\ Built.input.runtime = input.runtime
  BY BuiltFacts, InputFacts
<1>2. /\ run.tool \in {"library", "companion"} => run.source = "declared"
      /\ run.source \in {"declared", "measured", "absent"} /\ run.tool \in ToolNames
  BY SourceKinds DEF Finished, RunInv, ToolNames
<1>3. run.tool # "library" => input.runtime = (IF run.source = "absent" THEN "unknown" ELSE ThermalOf)
  BY FinishedRun DEF AsksOf
<1>4. Derived(run.zones) = Rederived(run.zones)
  BY ZonesKinds, DerivationsAgree DEF Finished
<1>5. ThermalStatusDerived(Built)
  <2>1. run.source = "measured" => Rederived(run.zones) = input.runtime
    BY <1>2, <1>3, <1>4 DEF ThermalOf
  <2> QED
    BY <1>1, <2>1 DEF ThermalStatusDerived
<1>6. TagOf = IF run.tool = "library" THEN "none" ELSE IF run.source = "measured" THEN "DERIVED"
              ELSE IF run.source = "absent" THEN "ABSENT" ELSE "OPERATOR"
  BY DEF TagOf
<1>7. EvidenceStates(Built)
  BY <1>1, <1>2, <1>3, <1>6 DEF EvidenceStates
<1> QED
  BY <1>5, <1>7

ArmedOnly == run.tool = "vehicle" /\ EffectOf = "arming only"

LEMMA BuiltEffect == ASSUME Finished PROVE EffectBound(Built) <=> ~ArmedOnly
<1>1. /\ Built.effect = EffectOf /\ Built.act = "as given" /\ Built.exec = exec /\ Built.check = CheckOf(run.tool, run)
      /\ Built.top.decision = decision /\ Built.reading = run.reading /\ Built.backend = run.backend
      /\ Built.request = run.request /\ Built.input.status = input.status
  <2>1. Built.top = Concluded /\ Concluded.decision = decision
    BY BuiltFacts DEF Concluded
  <2> QED
    BY <2>1, BuiltFacts, InputFacts
<1>2. /\ exec = "SUCCEEDED" => decision = "ALLOW"
      /\ run.tool # "library" => exec \in {"none", "SUCCEEDED"} /\ input.status = CheckOf(run.tool, run)
  BY FinishedRun DEF AsksOf
<1>3. CASE run.tool \in {"library", "chain"}
  <2>1. Built.kind = "chain"
    BY <1>3, BuiltFacts
  <2>2. EffectBound(Built)
    BY <2>1, Zenon DEF EffectBound
  <2> QED
    BY <1>3, <2>2 DEF ArmedOnly
<1>4. CASE run.tool \in {"model", "companion"}
  <2>1. Built.kind = run.tool
    BY <1>4, BuiltFacts
  <2>2. ASSUME exec = "SUCCEEDED" PROVE run.reading \notin {"garbage", "no strings", "not a record"}
    <3>1. CheckOf(run.tool, run) = "PASS"
      BY <1>2, <1>4, <2>2, AllowedPassed
    <3>2. run.tool = "model" => ModelCheck(run.reading) = "PASS"
      BY <3>1 DEF CheckOf
    <3>3. run.tool = "companion" => CompanionCheck(run.reading) = "PASS"
      BY <3>1 DEF CheckOf
    <3> QED
      BY <1>4, <3>2, <3>3 DEF ModelCheck, CompanionCheck
  <2>3. Built.effect = IF Built.exec = "SUCCEEDED" /\ Built.reading \notin {"garbage", "no strings", "not a record"}
                       THEN "as asked" ELSE "none"
    BY <1>1, <1>4, <2>2, EffectFacts
  <2>4. Built.kind \in {"model", "companion"} /\ Built.input.status = Built.check /\ Built.act = "as given"
    BY <1>1, <1>2, <1>4, <2>1
  <2>5. EffectBound(Built)
    BY <2>3, <2>4, Zenon DEF EffectBound
  <2> QED
    BY <1>4, <2>5 DEF ArmedOnly
<1>5. CASE run.tool = "vehicle"
  <2>1. Built.kind = "vehicle"
    BY <1>5, BuiltFacts
  <2>2. Built.effect = CommandsSent
    BY <1>1, <1>5, EffectFacts
  <2>3. Built.effect \in {"none", "as asked", "arming only"} /\ (Built.effect = "none" <=> exec # "SUCCEEDED")
        /\ (Built.effect = "arming only" => run.backend = "mavlink" /\ run.request.action = "takeoff")
    BY <2>2 DEF CommandsSent
  <2>4. Built.outcome <=> Built.exec = "SUCCEEDED"
    <3>1. Built.outcome <=> exec = "SUCCEEDED"
      BY <1>5, BuiltOutcome, Zenon
    <3> QED
      BY <1>1, <3>1, Zenon
  <2>5. Built.input.status = Built.check /\ Built.act = "as given"
        /\ (Built.effect # "none" => Built.top.decision = "ALLOW" /\ Built.exec \in {"SUCCEEDED", "FAILED"})
    BY <1>1, <1>2, <1>5, <2>3
  <2>6. ArmedOnly <=> Built.effect = "arming only"
    BY <1>1, <1>5 DEF ArmedOnly
  <2>7. CASE Built.effect = "arming only"
    <3>1. ~SentAuthorized(Built)
      BY <1>1, <2>3, <2>7 DEF SentAuthorized, Movement
    <3>2. Built.top.decision = "ALLOW" /\ Built.exec \in {"SUCCEEDED", "FAILED"}
      BY <2>5, <2>7
    <3>3. ~EffectBound(Built)
      BY <2>1, <3>1, <3>2, Zenon DEF EffectBound
    <3> QED
      BY <2>6, <2>7, <3>3
  <2>8. CASE Built.effect # "arming only"
    <3>1. ASSUME Built.exec \in {"SUCCEEDED", "FAILED"} PROVE SentAuthorized(Built)
      <4>1. Built.effect = "as asked"
        BY <1>1, <1>2, <1>5, <2>3, <2>8, <3>1
      <4> QED
        BY <4>1 DEF SentAuthorized
    <3>2. EffectBound(Built)
      BY <2>1, <2>4, <2>5, <3>1, Zenon DEF EffectBound
    <3> QED
      BY <2>6, <2>8, <3>2
  <2> QED
    BY <2>7, <2>8
<1> QED
  BY <1>3, <1>4, <1>5 DEF Finished, RunInv, ToolNames

LEMMA BuiltModelFile == ASSUME Finished PROVE ModelFileNamed(Built)
<1>1. Built.kind = "model" => run.tool = "model"
  BY BuiltFacts
<1> QED
  BY <1>1, BuiltFacts, FinishedRun DEF ModelFileNamed, NoModel

LEMMA BuiltExecution == ASSUME Finished PROVE ExecutionOnlyIfAllowed(Built) <=> ~(run.tool = "library" /\ exec = "UNKNOWN")
<1>1. Built.exec = exec /\ Built.top.decision = decision
  <2>1. Built.top = Concluded /\ Concluded.decision = decision
    BY BuiltFacts DEF Concluded
  <2> QED
    BY <2>1, BuiltFacts
<1>2. /\ exec = IF decision # "ALLOW" THEN "none" ELSE IF run.ends # "raises" THEN "SUCCEEDED"
               ELSE IF run.keyed THEN "UNKNOWN" ELSE "FAILED"
      /\ run.tool # "library" => exec \in {"none", "SUCCEEDED"}
  BY FinishedRun
<1>3. /\ exec # "none" => decision = "ALLOW"
      /\ exec \in {"none", "SUCCEEDED", "FAILED", "UNKNOWN"} /\ (exec = "UNKNOWN" => run.tool = "library")
  BY <1>2
<1> QED
  BY <1>1, <1>3 DEF ExecutionOnlyIfAllowed

LEMMA BuiltClaims == NotOverclaimed(Built)
BY BuiltFacts DEF NotOverclaimed, Statement, LineOf

ParentUnseen ==
  /\ run.tool = "library" /\ run.snapshot = "given" /\ input.registry = "None"
  /\ Concluded = [decision |-> "REFUSE", reasons |-> <<"capability_parent_requires_registry">>]

LEMMA BuiltReplays == ASSUME Finished PROVE Replay(Built.input) = Built.top <=> ~ParentUnseen
<1> DEFINE p == Packaged(input)
<1>1. Built.top = Concluded /\ Concluded = Replay(p)
  BY BuiltFacts, FinishedRun
<1>2. Built.input = [p EXCEPT !.registry = IF run.snapshot = "given" THEN "given" ELSE @]
  BY BuiltFacts
<1>3. "registry" \in Fields \ {"allowOnly"}
  BY DEF Fields, Kinds
<1>4. DOMAIN p = Fields /\ p.registry = input.registry
  BY <1>3, InputFacts
<1>5. input.registry \in {"given", "None"}
  BY Typed DEF Finished, GateInv, IInv
<1>6. run.snapshot = "given" => run.tool = "library"
  BY CountsKinds DEF Finished
<1>7. p = [f \in Fields |-> p[f]]
  BY <1>4 DEF Packaged, Finished, GateInv, IInv, InputOK
<1> HIDE DEF p
<1>8. CASE run.snapshot = "given" /\ input.registry = "None"
  <2>1. Built.input = [p EXCEPT !.registry = "given"] /\ "registry" \in DOMAIN p /\ p.registry = "None"
    BY <1>2, <1>3, <1>4, <1>8
  <2>2. Replay(Built.input) = Replay(p) <=> Replay(p) # [decision |-> "REFUSE", reasons |-> <<"capability_parent_requires_registry">>]
    BY <2>1, WithSnapshot
  <2> QED
    BY <1>1, <1>6, <1>8, <2>2 DEF ParentUnseen
<1>9. CASE ~(run.snapshot = "given" /\ input.registry = "None")
  <2>1. Built.input = p
    BY <1>2, <1>4, <1>5, <1>7, <1>9
  <2> QED
    BY <1>1, <1>9, <2>1 DEF ParentUnseen
<1> QED
  BY <1>8, <1>9

(* The packages of Gap are exactly those a check refuses.                  *)
LEMMA GapIs ==
  ASSUME Finished
  PROVE  Gap <=> \/ OutOfBounds \/ ArmedOnly \/ ParentUnseen \/ run.extra = "keys"
                 \/ run.extra = "not finite" \/ (run.tool = "vehicle" /\ run.request.alt = "nonfinite")
                 \/ (run.tool = "library" /\ exec = "UNKNOWN")
<1>1. Gap <=> \/ OutOfBounds \/ ArmedOnly \/ ParentUnseen
              \/ (run.tool = "vehicle" /\ run.request.alt = "nonfinite")
              \/ (run.tool = "library" /\ exec = "UNKNOWN") \/ (run.tool = "library" /\ run.extra # "nothing")
  BY Zenon DEF Gap, OutOfBounds, ArmedOnly, ParentUnseen
<1>2. run.tool = "library" /\ run.extra # "nothing" <=> run.extra = "keys" \/ run.extra = "not finite"
  BY ExtraKinds DEF Finished
<1> QED
  BY <1>1, <1>2, Zenon

LEMMA BuiltConsistent == ASSUME Finished, NEW legacy \in BOOLEAN, NEW only \in BOOLEAN PROVE Consistent(Built, legacy, only) <=> ~Gap
<1>1. Digests(Built) /\ Built.schema \in {"v0", "v1"} /\ Built.said = Built.top
  BY BuiltFacts DEF Digests
<1>2. ContractBinding(Built, legacy)
  <2>1. Built.schema = "v1" /\ Built.contract = "trusted"
    BY BuiltFacts
  <2> QED
    BY <2>1, Zenon DEF ContractBinding
<1>3. Recomputed(Built, only) <=> ~OutOfBounds
  BY BuiltRecomputed
<1>4. ThermalStatusDerived(Built) /\ EvidenceStates(Built) /\ (SchemaClosed(Built) <=> run.extra # "keys") /\ VerifierProvenance(Built)
      /\ ModelFileNamed(Built) /\ NotOverclaimed(Built) /\ ~Built.bound
  BY BuiltThermal, BuiltClosed, BuiltProvenance, BuiltModelFile, BuiltClaims, BuiltSays, Zenon
<1>5. EffectBound(Built) <=> ~ArmedOnly
  BY BuiltEffect
<1>6. ExecutionOnlyIfAllowed(Built) <=> ~(run.tool = "library" /\ exec = "UNKNOWN")
  BY BuiltExecution
<1>7. Replay(Built.input) = Built.top <=> ~ParentUnseen
  BY BuiltReplays
<1> QED
  BY <1>1, <1>2, <1>3, <1>4, <1>5, <1>6, <1>7, BuiltReadable, GapIs, Zenon DEF Consistent

(* build_package() and verify(): a package as its run wrote it passes      *)
(* every check, whatever the gate decided and however the run ended, if    *)
(* and only if it is none of Gap.                                          *)
THEOREM HonestPackagesVerify == PackageSpec => []HonestVerifies
<1>1. ASSUME Finished, NEW ask \in Asks
      PROVE  /\ ExitCode(doc, ask) = 0 => ~Gap
             /\ ~Gap /\ ask.signature \in {"not asked", "valid"} /\ ask.witness \in {"not asked", "latest"} => ExitCode(doc, ask) = 0
  <2>1. doc = Built
    BY <1>1, FinishedRun
  <2>2. ask.legacy \in BOOLEAN /\ ask.recordedOnly \in BOOLEAN
    BY DEF Asks
  <2>3. Consistent(Built, ask.legacy, ask.recordedOnly) <=> ~Gap
    BY <1>1, <2>2, BuiltConsistent, Zenon
  <2>4. ~Gap => ~Unreadable(Built)
    BY <1>1, BuiltReadable, GapIs, Zenon
  <2> DEFINE C == Consistent(Built, ask.legacy, ask.recordedOnly)
             N == CouldNotLook(Built, ask)
             S == ask.signature = "not asked" \/ Signed(ask)
  <2>5. ExitCode(Built, ask) = IF N THEN 2 ELSE IF S /\ ask.witness \in {"not asked", "latest"} /\ C THEN 0 ELSE 1
    BY Zenon DEF ExitCode
  <2>6. ASSUME ask.signature \in {"not asked", "valid"}, ask.witness \in {"not asked", "latest"} PROVE S
    BY <2>6 DEF Signed
  <2>7. ASSUME ask.signature \in {"not asked", "valid"}, ask.witness \in {"not asked", "latest"}, ~Unreadable(Built) PROVE ~N
    BY <2>7 DEF CouldNotLook
  <2> HIDE DEF C, N, S
  <2>8. C <=> ~Gap
    BY <2>3, Zenon DEF C
  <2>9. CASE N
    <3>1. ExitCode(doc, ask) = 2
      BY <2>1, <2>5, <2>9, Zenon
    <3>2. ExitCode(doc, ask) # 0
      BY <3>1
    <3> QED
      BY <2>4, <2>7, <2>9, <3>2, Zenon
  <2>10. CASE ~N /\ ~(S /\ ask.witness \in {"not asked", "latest"} /\ C)
    <3>1. ExitCode(doc, ask) = 1
      BY <2>1, <2>5, <2>10, Zenon
    <3>2. ExitCode(doc, ask) # 0
      BY <3>1
    <3> QED
      BY <2>6, <2>8, <2>10, <3>2, Zenon
  <2>11. CASE ~N /\ S /\ ask.witness \in {"not asked", "latest"} /\ C
    <3>1. ExitCode(doc, ask) = 0
      BY <2>1, <2>5, <2>11, Zenon
    <3> QED
      BY <2>8, <2>11, <3>1
  <2> QED
    BY <2>9, <2>10, <2>11
<1>2. GateInv /\ RunInv /\ HonestInv => HonestVerifies
  BY <1>1, Zenon DEF Finished, HonestVerifies
<1> QED
  BY <1>2, SetupInvariance, HonestInvariance, PTL
---------------------------------------------------------------------------
(* 6.  The fixes.                                                          *)

(* A request and a snapshot, of a run or of a package.                     *)
RequestOK(q) == q.there \in IF q.action = "goto" THEN {"within", "beyond", "nonfinite"} ELSE {"none"}
Finite(q, s) == q.there # "nonfinite" /\ "nonfinite" \notin {s.fix, s.sats, s.battery, s.here, s.gap}

LEMMA SnapshotFacts ==
  ASSUME NEW s \in Snapshots
  PROVE  /\ s.fix \in {"good", "low", "nonfinite"} /\ s.sats \in {"good", "low", "nonfinite"}
         /\ s.battery \in {"good", "low", "unknown", "nonfinite"} /\ s.here \in {"within", "beyond", "nonfinite"}
         /\ s.gap \in {"absent", "within", "beyond", "nonfinite"}
BY DEF Snapshots

(* Which readings fail, now and before.                                    *)
NavigationFails(q, s) ==
  \/ s.fix # "good" \/ s.sats # "good"
  \/ "uninitialized" \in s.ekf \/ "absolute" \notin s.ekf \/ "glitch" \in s.ekf
  \/ q.cross /\ s.gap # "within"
SpaceFails(q, s) == q.alt # "good" \/ s.here # "within" \/ (q.action = "goto" /\ q.there # "within")

NavigationFailed(q, s) ==
  \/ s.fix \in {"low", "unknown"} \/ s.sats \in {"low", "unknown"}
  \/ "uninitialized" \in s.ekf \/ "absolute" \notin s.ekf \/ "glitch" \in s.ekf
  \/ q.cross /\ s.gap \in {"absent", "beyond"}
SpaceFailed(q, s) == q.alt # "good" \/ s.here = "beyond" \/ (q.action = "goto" /\ q.there = "beyond")

LEMMA NavigationIs == ASSUME NEW q, NEW s PROVE Navigation(q, s) # {} <=> NavigationFails(q, s)
BY DEF Navigation, NavigationFails

LEMMA SpaceIs == ASSUME NEW q, NEW s PROVE Space(q, s) # {} <=> SpaceFails(q, s)
BY DEF Space, SpaceFails

LEMMA VerdictIs ==
  ASSUME NEW q, NEW s
  PROVE  Verdict(q, s) = "FAIL" <=>
           \/ q.action \in Movement /\ (SpaceFails(q, s) \/ NavigationFails(q, s) \/ s.battery # "good")
           \/ q.action = "rtl" /\ NavigationFails(q, s)
<1>1. Verdict(q, s) = "FAIL" <=> Failures(q, s) # {}
  BY DEF Verdict
<1>2. CASE q.action \in Movement
  <2>1. q.action # "rtl"
    BY <1>2 DEF Movement
  <2>2. Failures(q, s) = Space(q, s) \cup Navigation(q, s) \cup (IF s.battery # "good" THEN {"battery"} ELSE {})
    BY <1>2, <2>1 DEF Failures
  <2> QED
    BY <1>1, <1>2, <2>1, <2>2, NavigationIs, SpaceIs
<1>3. CASE q.action = "rtl"
  <2>1. q.action \notin Movement
    BY <1>3 DEF Movement
  <2>2. Failures(q, s) = Navigation(q, s)
    BY <1>3, <2>1 DEF Failures
  <2> QED
    BY <1>1, <1>3, <2>1, <2>2, NavigationIs
<1>4. CASE q.action \notin Movement /\ q.action # "rtl"
  <2>1. Failures(q, s) = {}
    BY <1>4 DEF Failures
  <2> QED
    BY <1>1, <1>4, <2>1
<1> QED
  BY <1>2, <1>3, <1>4

LEMMA VerdictWas ==
  ASSUME NEW q, NEW s
  PROVE  VerdictBefore(q, s) = "FAIL" <=>
           \/ q.action \in Movement /\ (SpaceFailed(q, s) \/ NavigationFailed(q, s) \/ s.battery \in {"low", "unknown"})
           \/ q.action = "rtl" /\ NavigationFailed(q, s)
<1>1. VerdictBefore(q, s) = "FAIL" <=> FailuresBefore(q, s) # {}
  BY DEF VerdictBefore
<1>2. CASE q.action \in Movement
  <2>1. q.action # "rtl"
    BY <1>2 DEF Movement
  <2>2. FailuresBefore(q, s) # {} <=> SpaceFailed(q, s) \/ NavigationFailed(q, s) \/ s.battery \in {"low", "unknown"}
    BY <1>2, <2>1 DEF FailuresBefore, SpaceFailed, NavigationFailed
  <2> QED
    BY <1>1, <1>2, <2>1, <2>2
<1>3. CASE q.action = "rtl"
  <2>1. q.action \notin Movement
    BY <1>3 DEF Movement
  <2>2. FailuresBefore(q, s) # {} <=> NavigationFailed(q, s)
    BY <1>3, <2>1 DEF FailuresBefore, NavigationFailed
  <2> QED
    BY <1>1, <1>3, <2>1, <2>2
<1>4. CASE q.action \notin Movement /\ q.action # "rtl"
  <2>1. FailuresBefore(q, s) = {}
    BY <1>4 DEF FailuresBefore
  <2> QED
    BY <1>1, <1>4, <2>1
<1> QED
  BY <1>2, <1>3, <1>4

LEMMA Verdicts == \A q, s : Verdict(q, s) \in {"PASS", "FAIL"} /\ VerdictBefore(q, s) \in {"PASS", "FAIL"}
BY DEF Verdict, VerdictBefore

(* What failed fails, and of finite numbers nothing else does.             *)
LEMMA ChecksTightened ==
  ASSUME NEW q, RequestOK(q), NEW s \in Snapshots
  PROVE  /\ VerdictBefore(q, s) = "FAIL" => Verdict(q, s) = "FAIL"
         /\ Finite(q, s) => VerdictBefore(q, s) = Verdict(q, s)
<1>1. NavigationFailed(q, s) => NavigationFails(q, s)
  BY DEF NavigationFailed, NavigationFails
<1>2. SpaceFailed(q, s) => SpaceFails(q, s)
  BY DEF SpaceFailed, SpaceFails
<1>3. VerdictBefore(q, s) = "FAIL" => Verdict(q, s) = "FAIL"
  BY <1>1, <1>2, VerdictIs, VerdictWas
<1>4. ASSUME Finite(q, s)
      PROVE  /\ NavigationFails(q, s) => NavigationFailed(q, s)
             /\ SpaceFails(q, s) => SpaceFailed(q, s)
             /\ s.battery # "good" => s.battery \in {"low", "unknown"}
  <2>1. NavigationFails(q, s) => NavigationFailed(q, s)
    BY <1>4, SnapshotFacts DEF NavigationFailed, NavigationFails, Finite
  <2>2. SpaceFails(q, s) => SpaceFailed(q, s)
    BY <1>4, SnapshotFacts DEF SpaceFailed, SpaceFails, Finite, RequestOK
  <2>3. s.battery # "good" => s.battery \in {"low", "unknown"}
    BY <1>4, SnapshotFacts DEF Finite
  <2> QED
    BY <2>1, <2>2, <2>3
<1>5. ASSUME Finite(q, s) PROVE Verdict(q, s) = "FAIL" => VerdictBefore(q, s) = "FAIL"
  BY <1>4, <1>5, VerdictIs, VerdictWas
<1> QED
  BY <1>3, <1>5, Verdicts

(* The request and the readings of a package.                              *)
DocOK(d) ==
  /\ d.telemetry \in Snapshots /\ RequestOK(d.request)
  /\ d.validation \in {"VALIDATED", "INSUFFICIENT_EVIDENCE", "FAIL"}

LEMMA NumbersFinite ==
  ASSUME NEW d, d.kind = "vehicle", ~NonFinite(d)
  PROVE  Finite(d.request, d.telemetry) /\ NoNonFinite(d)
<1>1. d.request.alt # "nonfinite" /\ d.request.there # "nonfinite"
  BY DEF NonFinite
<1>2. \A r \in {"fix", "sats", "battery", "here", "gap"} : d.telemetry[r] # "nonfinite"
  BY DEF NonFinite
<1>3. d.form # "not finite"
  BY DEF NonFinite
<1> QED
  BY <1>1, <1>2, <1>3 DEF Finite, NoNonFinite

LEMMA RecheckIs == ASSUME NEW d PROVE VehicleRechecked(d) = Verdict(d.request, d.telemetry)
BY VehicleChecksAgree DEF VehicleRechecked, Verdict

(* What the fixes refuse.                                                  *)
FixRefuses(d) ==
  \/ NonFinite(d) \/ ~MaxDepth(d) \/ ~NoDuplicateKeys(d) \/ d.counts = "malformed"
  \/ d.kind = "chain" /\ d.given \in {"no rounds", "too many rounds"}
  \/ d.kind = "vehicle" /\ d.top.decision = "ALLOW" /\ ~SentAuthorized(d)

LEMMA WasParts ==
  \A d : \A only \in BOOLEAN : ConsistentBefore(d, only) =>
    /\ Digests(d) /\ d.form # "no object" /\ ClosedBefore(d) /\ ~StopsBefore(d)
    /\ RecomputedBefore(d, only) /\ d.said = d.top /\ ~d.bound /\ ProvenanceBefore(d)
    /\ ThermalBefore(d) /\ StatesBefore(d) /\ EffectBoundBefore(d) /\ ModelFileNamed(d)
    /\ ExecutionOnlyIfAllowed(d) /\ GateBefore(d)
BY Zenon DEF ConsistentBefore

LEMMA IsParts ==
  \A d : \A legacy, only \in BOOLEAN : Consistent(d, legacy, only) =>
    /\ Digests(d) /\ ~Unreadable(d) /\ SchemaClosed(d) /\ Recomputed(d, only) /\ d.said = d.top /\ ~d.bound
    /\ VerifierProvenance(d) /\ ThermalStatusDerived(d) /\ EvidenceStates(d) /\ EffectBound(d)
    /\ ModelFileNamed(d) /\ ExecutionOnlyIfAllowed(d) /\ NotOverclaimed(d) /\ Replay(d.input) = d.top
BY Zenon DEF Consistent

LEMMA RecomputedStill ==
  ASSUME NEW d, NEW only \in BOOLEAN, DocOK(d), ~FixRefuses(d), RecomputedBefore(d, only)
  PROVE  Recomputed(d, only)
<1>1. CASE d.kind = "chain"
  <2>1. d.given \in ChainKinds.given /\ d.reading = "output"
    BY <1>1, Zenon DEF RecomputedBefore
  <2>2. d.given \notin {"no rounds", "too many rounds"}
    BY <1>1, Zenon DEF FixRefuses
  <2>3. d.given = "rounds"
    BY <2>1, <2>2 DEF ChainKinds
  <2> QED
    BY <1>1, <2>1, <2>3, Zenon DEF Recomputed
<1>2. CASE d.kind = "model"
  BY <1>2, Zenon DEF RecomputedBefore, Recomputed, ModelBefore
<1>3. CASE d.kind = "companion"
  <2>1. CompanionBefore(d)
    BY <1>3, Zenon DEF RecomputedBefore
  <2>2. d.reading # "not JSON"
    BY <1>3, Zenon DEF FixRefuses, NonFinite
  <2>3. d.reading \in CompanionKinds.reading \ {"not a record", "not JSON"}
    BY <2>1, <2>2 DEF CompanionBefore
  <2> QED
    BY <1>3, <2>1, <2>3, Zenon DEF CompanionBefore, Recomputed
<1>4. CASE d.kind = "vehicle"
  <2>1. VehicleBefore(d)
    BY <1>4, Zenon DEF RecomputedBefore
  <2>0. d.given = "flight"
    <3>1. d.given # "no limits"
      BY <1>4, Zenon DEF FixRefuses, NonFinite
    <3> QED
      BY <2>1, <3>1 DEF VehicleBefore, VehicleKinds
  <2>2. Finite(d.request, d.telemetry)
    BY <1>4, NumbersFinite DEF FixRefuses
  <2>3. d.check = VehicleRechecked(d)
    BY <2>1, <2>2, ChecksTightened, RecheckIs DEF VehicleBefore, DocOK
  <2> QED
    BY <1>4, <2>0, <2>1, <2>3, Zenon DEF Recomputed, VehicleBefore
<1>5. CASE d.kind \notin {"chain", "model", "companion", "vehicle"}
  <2>1. d.kind # "chain" /\ d.kind # "model" /\ d.kind # "companion" /\ d.kind # "vehicle"
    BY <1>5
  <2> QED
    BY <2>1, Zenon DEF RecomputedBefore, Recomputed
<1> QED
  BY <1>1, <1>2, <1>3, <1>4, <1>5

LEMMA ConsistentStill ==
  ASSUME NEW d, NEW only \in BOOLEAN, DocOK(d), d.schema = "v0", ~FixRefuses(d), ConsistentBefore(d, only)
  PROVE  Consistent(d, TRUE, only) /\ ~Unreadable(d)
<1>1. /\ Digests(d) /\ d.form # "no object" /\ ClosedBefore(d) /\ ~StopsBefore(d)
      /\ RecomputedBefore(d, only) /\ d.said = d.top /\ ~d.bound /\ ProvenanceBefore(d)
      /\ ThermalBefore(d) /\ StatesBefore(d) /\ EffectBoundBefore(d) /\ ModelFileNamed(d)
      /\ ExecutionOnlyIfAllowed(d) /\ GateBefore(d)
  BY WasParts, Zenon
<1>2. ~Unreadable(d)
  <2>1. NoNonFinite(d)
    <3>1. CASE d.kind = "vehicle"
      BY <3>1, NumbersFinite DEF FixRefuses
    <3>2. CASE d.kind # "vehicle"
      <4>1. d.form # "not finite"
        BY Zenon DEF FixRefuses, NonFinite
      <4> QED
        BY <3>2, <4>1 DEF NoNonFinite
    <3> QED
      BY <3>1, <3>2
  <2> QED
    BY <1>1, <2>1, Zenon DEF Unreadable, FixRefuses
<1>3. ContractBinding(d, TRUE)
  <2>1. d.schema # "v1"
    OBVIOUS
  <2> QED
    BY <2>1, Zenon DEF ContractBinding
<1>4. SchemaClosed(d)
  BY <1>1, Zenon DEF ClosedBefore, SchemaClosed
<1>5. Recomputed(d, only)
  BY <1>1, RecomputedStill
<1>6. VerifierProvenance(d)
  BY <1>1, Zenon DEF ProvenanceBefore, FixRefuses
<1>7. EffectBound(d)
  <2>1. CASE d.kind # "vehicle"
    BY <1>1, <2>1, Zenon DEF EffectBoundBefore
  <2>2. CASE d.kind = "vehicle"
    <3>1. /\ d.input.status = d.check /\ d.act = "as given"
          /\ d.effect # "none" => d.top.decision = "ALLOW" /\ d.exec \in {"SUCCEEDED", "FAILED"}
          /\ d.outcome <=> d.exec = "SUCCEEDED"
      BY <1>1, <2>2, Zenon DEF EffectBoundBefore
    <3>2. d.top.decision = "ALLOW" => SentAuthorized(d)
      BY <2>2, Zenon DEF FixRefuses
    <3> QED
      BY <2>2, <3>1, <3>2, Zenon DEF EffectBound
  <2> QED
    BY <2>1, <2>2
<1>8. d.schema \in {"v0", "v1"}
  OBVIOUS
<1>9. ThermalStatusDerived(d) /\ EvidenceStates(d) /\ NotOverclaimed(d) /\ Replay(d.input) = d.top
  BY <1>1, Zenon DEF ThermalBefore, StatesBefore, GateBefore
<1> QED
  BY <1>1, <1>2, <1>3, <1>4, <1>5, <1>6, <1>7, <1>8, <1>9, Zenon DEF Consistent

(* Where a package has become consistent: its check fails now.             *)
LEMMA FailedShowsNothing ==
  ASSUME NEW d, NEW only \in BOOLEAN, Consistent(d, TRUE, only), d.kind = "vehicle", Verdict(d.request, d.telemetry) = "FAIL"
  PROVE  d.check = "FAIL" /\ d.effect = "none" /\ d.exec = "none"
<1>1. /\ Recomputed(d, only) /\ EffectBound(d) /\ ExecutionOnlyIfAllowed(d) /\ Replay(d.input) = d.top
  BY IsParts, Zenon
<1>2. d.check = VehicleRechecked(d)
  BY <1>1, Zenon DEF Recomputed
<1>3. d.check = "FAIL"
  BY <1>2, RecheckIs
<1>4. d.input.status = "FAIL"
  <2>1. d.input.status = d.check
    BY <1>1, Zenon DEF EffectBound
  <2> QED
    BY <1>3, <2>1
<1>5. ReplayRefusals(d.input)[3].fails
  <2>1. d.input.status \notin {"PASS", "INSUFFICIENT_EVIDENCE", "REFUTED"}
    BY <1>4
  <2> QED
    BY <2>1, FailsOf, Zenon
<1>6. d.top.decision = "REFUSE"
  <2>1. 3 \in 1..13
    OBVIOUS
  <2> QED
    BY <1>1, <1>5, <2>1, ReplayRefuses
<1>7. d.effect # "none" => d.top.decision = "ALLOW"
  BY <1>1, Zenon DEF EffectBound
<1>8. d.exec # "none" => d.top.decision = "ALLOW"
  BY <1>1, Zenon DEF ExecutionOnlyIfAllowed
<1> QED
  BY <1>3, <1>6, <1>7, <1>8

LEMMA StopsAtNumbers ==
  ASSUME NEW d, DocOK(d), StopsBefore(d)
  PROVE  d.kind = "vehicle" /\ NonFinite(d) /\ Verdict(d.request, d.telemetry) = "FAIL"
<1> DEFINE q == d.request
           s == d.telemetry
<1>1. d.kind = "vehicle" /\ q.action \in Movement \cup {"rtl"}
  BY DEF StopsBefore
<1>2. CASE q.action # "rtl" /\ "nonfinite" \in {s.here, q.there}
  <2>1. q.action \in Movement
    BY <1>1, <1>2
  <2>2. SpaceFails(q, s)
    BY <1>2 DEF SpaceFails, DocOK, RequestOK
  <2>3. Verdict(q, s) = "FAIL"
    BY <2>1, <2>2, VerdictIs
  <2>4. q.there = "nonfinite" \/ s["here"] = "nonfinite"
    BY <1>2
  <2>5. NonFinite(d)
    BY <1>1, <2>4 DEF NonFinite
  <2> QED
    BY <1>1, <2>3, <2>5
<1>3. CASE q.cross /\ s.gap = "nonfinite"
  <2>1. NavigationFails(q, s)
    <3>1. s.gap # "within"
      BY <1>3
    <3> QED
      BY <1>3, <3>1, Zenon DEF NavigationFails
  <2>2. Verdict(q, s) = "FAIL"
    BY <1>1, <2>1, VerdictIs
  <2>3. s["gap"] = "nonfinite"
    BY <1>3
  <2>4. NonFinite(d)
    BY <1>1, <2>3 DEF NonFinite
  <2> QED
    BY <1>1, <2>2, <2>4
<1> QED
  BY <1>2, <1>3 DEF StopsBefore

LEMMA ConsistentWas ==
  ASSUME NEW d, NEW only \in BOOLEAN, DocOK(d), d.schema = "v0", d.contract = "absent", Consistent(d, TRUE, only), ~StopsBefore(d)
  PROVE  ConsistentBefore(d, only) \/ (d.kind = "vehicle" /\ NonFinite(d) /\ Verdict(d.request, d.telemetry) = "FAIL")
<1>1. /\ Digests(d) /\ ~Unreadable(d) /\ SchemaClosed(d) /\ Recomputed(d, only) /\ d.said = d.top /\ ~d.bound
      /\ VerifierProvenance(d) /\ ThermalStatusDerived(d) /\ EvidenceStates(d) /\ EffectBound(d)
      /\ ModelFileNamed(d) /\ ExecutionOnlyIfAllowed(d) /\ NotOverclaimed(d) /\ Replay(d.input) = d.top
  BY IsParts, Zenon
<1>2. d.form # "no object"
  BY <1>1, Zenon DEF Unreadable
<1>3. ClosedBefore(d)
  BY <1>1, Zenon DEF SchemaClosed, ClosedBefore
<1>4. ProvenanceBefore(d)
  <2>1. d.counts # "malformed"
    <3>1. ASSUME d.counts = "malformed" PROVE FALSE
      <4>1. ValidationStatus(d) = "MALFORMED" /\ d.counts # "no verifier"
        BY <3>1 DEF ValidationStatus
      <4>2. d.validation = "MALFORMED"
        BY <1>1, <4>1, Zenon DEF VerifierProvenance
      <4> QED
        BY <4>2 DEF DocOK
    <3> QED
      BY <3>1
  <2> QED
    BY <1>1, <2>1, Zenon DEF ProvenanceBefore
<1>5. ThermalBefore(d) /\ StatesBefore(d) /\ GateBefore(d)
  BY <1>1, Zenon DEF ThermalBefore, StatesBefore, GateBefore
<1>6. EffectBoundBefore(d)
  <2>1. CASE d.kind # "vehicle"
    BY <1>1, <2>1, Zenon DEF EffectBoundBefore
  <2>2. CASE d.kind = "vehicle"
    <3>1. /\ d.input.status = d.check /\ d.act = "as given"
          /\ d.effect # "none" => d.top.decision = "ALLOW" /\ d.exec \in {"SUCCEEDED", "FAILED"}
          /\ d.outcome <=> d.exec = "SUCCEEDED"
      BY <1>1, <2>2, Zenon DEF EffectBound
    <3> QED
      BY <2>2, <3>1, Zenon DEF EffectBoundBefore
  <2> QED
    BY <2>1, <2>2
<1>7. ASSUME RecomputedBefore(d, only) PROVE ConsistentBefore(d, only)
  BY <1>1, <1>2, <1>3, <1>4, <1>5, <1>6, <1>7, Zenon DEF ConsistentBefore
<1>8. CASE d.kind = "chain"
  <2>1. d.given = "rounds" /\ d.reading = "output"
    BY <1>1, <1>8, Zenon DEF Recomputed
  <2>2. d.given \in ChainKinds.given
    BY <2>1 DEF ChainKinds
  <2>3. RecomputedBefore(d, only)
    BY <1>8, <2>1, <2>2, Zenon DEF RecomputedBefore
  <2> QED
    BY <1>7, <2>3
<1>9. CASE d.kind = "model"
  <2>1. RecomputedBefore(d, only)
    BY <1>1, <1>9, Zenon DEF RecomputedBefore, Recomputed, ModelBefore
  <2> QED
    BY <1>7, <2>1
<1>10. CASE d.kind = "companion"
  <2>1. d.reading \in CompanionKinds.reading \ {"not a record", "not JSON"} /\ "output" \notin d.stale
        /\ d.check = CompanionRechecked(d)
    BY <1>1, <1>10, Zenon DEF Recomputed
  <2>2. CompanionBefore(d)
    BY <2>1 DEF CompanionBefore
  <2>3. RecomputedBefore(d, only)
    BY <1>10, <2>2, Zenon DEF RecomputedBefore
  <2> QED
    BY <1>7, <2>3
<1>11. CASE d.kind = "vehicle"
  <2>1. d.reading = "snapshot" /\ d.given = "flight" /\ "output" \notin d.stale /\ d.check = VehicleRechecked(d)
    BY <1>1, <1>11, Zenon DEF Recomputed
  <2>2. CASE VerdictBefore(d.request, d.telemetry) = Verdict(d.request, d.telemetry)
    <3>1. VehicleBefore(d)
      BY <2>1, <2>2, RecheckIs DEF VehicleBefore, VehicleKinds
    <3>2. RecomputedBefore(d, only)
      BY <1>11, <3>1, Zenon DEF RecomputedBefore
    <3> QED
      BY <1>7, <3>2
  <2>3. CASE VerdictBefore(d.request, d.telemetry) # Verdict(d.request, d.telemetry)
    <3>1. RequestOK(d.request) /\ d.telemetry \in Snapshots
      BY DEF DocOK
    <3>2. ~Finite(d.request, d.telemetry)
      BY <2>3, <3>1, ChecksTightened
    <3>3. Verdict(d.request, d.telemetry) = "FAIL"
      BY <2>3, <3>1, ChecksTightened, Verdicts
    <3>4. NonFinite(d)
      BY <1>11, <3>2, NumbersFinite
    <3> QED
      BY <1>11, <3>3, <3>4
  <2> QED
    BY <2>2, <2>3
<1>12. CASE d.kind \notin {"chain", "model", "companion", "vehicle"}
  <2>1. d.kind # "chain" /\ d.kind # "model" /\ d.kind # "companion" /\ d.kind # "vehicle"
    BY <1>12
  <2>2. RecomputedBefore(d, only)
    BY <1>1, <2>1, Zenon DEF RecomputedBefore, Recomputed
  <2> QED
    BY <1>7, <2>2
<1> QED
  BY <1>8, <1>9, <1>10, <1>11, <1>12

(* The exit codes, then and now, of one document and one question.         *)
Tightened(d, ask) ==
  /\ ExitBefore(d, ask) = 0 /\ ExitCode(d, ask) # 0 => FixRefuses(d) \/ ask.witness = "latest, loosely written"
  /\ ExitCode(d, ask) = 0 /\ ExitBefore(d, ask) # 0 =>
       NonFinite(d) /\ d.check = "FAIL" /\ d.effect = "none" /\ d.exec = "none"

LEMMA NowZero ==
  ASSUME NEW d, NEW ask
  PROVE  ExitCode(d, ask) = 0 <=>
           /\ ask.signature \in {"not asked", "valid"} /\ ask.witness \in {"not asked", "latest"} /\ ~Unreadable(d)
           /\ Consistent(d, ask.legacy, ask.recordedOnly)
<1> DEFINE N == CouldNotLook(d, ask)
           U == Unreadable(d)
           C == Consistent(d, ask.legacy, ask.recordedOnly)
<1>1. ExitCode(d, ask) = IF N THEN 2 ELSE IF /\ ask.signature = "not asked" \/ ask.signature = "valid"
                                             /\ ask.witness \in {"not asked", "latest"} /\ C THEN 0 ELSE 1
  BY Zenon DEF ExitCode, Signed
<1>2. N <=> \/ ask.signature = "half asked" \/ ask.witness = "no log named" \/ U
            \/ ask.signature = "unavailable" \/ ask.witness \in {"unreadable", "latest, loosely written"}
  BY Zenon DEF CouldNotLook
<1> HIDE DEF N, C, U
<1>3. CASE N
  <2>1. ExitCode(d, ask) = 2
    BY <1>1, <1>3, Zenon
  <2>2. ExitCode(d, ask) # 0
    BY <2>1
  <2>3. ~(ask.signature \in {"not asked", "valid"} /\ ask.witness \in {"not asked", "latest"} /\ ~U)
    BY <1>2, <1>3, Zenon
  <2> QED
    BY <2>2, <2>3, Zenon DEF U
<1>4. CASE ~N /\ (ask.signature = "not asked" \/ ask.signature = "valid") /\ ask.witness \in {"not asked", "latest"} /\ C
  <2>1. ExitCode(d, ask) = 0
    BY <1>1, <1>4, Zenon
  <2>2. ~U
    BY <1>2, <1>4, Zenon
  <2> QED
    BY <1>4, <2>1, <2>2, Zenon DEF C, U
<1>5. CASE ~N /\ ~((ask.signature = "not asked" \/ ask.signature = "valid") /\ ask.witness \in {"not asked", "latest"} /\ C)
  <2>1. ExitCode(d, ask) = 1
    BY <1>1, <1>5, Zenon
  <2>2. ExitCode(d, ask) # 0
    BY <2>1
  <2>3. ~(ask.signature \in {"not asked", "valid"} /\ ask.witness \in {"not asked", "latest"} /\ C)
    BY <1>5, Zenon
  <2> QED
    BY <2>2, <2>3, Zenon DEF C
<1> QED
  BY <1>3, <1>4, <1>5, Zenon

LEMMA ThenZero ==
  ASSUME NEW d, NEW ask \in Asks
  PROVE  ExitBefore(d, ask) = 0 <=>
           /\ ask.signature \in {"not asked", "valid"} /\ ask.witness \in {"not asked", "latest", "latest, loosely written"}
           /\ d.form # "no object" /\ ~StopsBefore(d) /\ ConsistentBefore(d, ask.recordedOnly)
<1> DEFINE St == StopsBefore(d)
           C == ConsistentBefore(d, ask.recordedOnly)
           Through ==
             /\ ask.signature = "not asked" \/ ask.signature = "valid"
             /\ ask.witness = "not asked" \/ ask.witness \in {"latest", "latest, loosely written"}
             /\ C
           First == ask.signature = "half asked" \/ ask.witness = "no log named"
           Third == St \/ ask.signature = "unavailable" \/ ask.witness = "unreadable"
<1>1. ExitBefore(d, ask) = IF First THEN 2 ELSE IF d.form = "no object" THEN 1 ELSE IF Third THEN 2 ELSE IF Through THEN 0 ELSE 1
  BY Zenon DEF ExitBefore, SignedBefore, WitnessedBefore
<1>2. Through => ~First /\ (~St => ~Third)
  <2> HIDE DEF St, C
  <2> QED
    OBVIOUS
<1>3. Through <=> ask.signature \in {"not asked", "valid"} /\ ask.witness \in {"not asked", "latest", "latest, loosely written"} /\ C
  <2> HIDE DEF C
  <2> QED
    BY Zenon
<1>4. St => Third
  BY Zenon
<1> HIDE DEF St, C, Through, First, Third
<1>5. ExitBefore(d, ask) = 0 <=> ~First /\ d.form # "no object" /\ ~Third /\ Through
  <2>1. CASE First
    <3>1. ExitBefore(d, ask) = 2
      BY <1>1, <2>1, Zenon
    <3>2. ExitBefore(d, ask) # 0
      BY <3>1
    <3> QED
      BY <2>1, <3>2, Zenon
  <2>2. CASE ~First /\ d.form = "no object"
    <3>1. ExitBefore(d, ask) = 1
      BY <1>1, <2>2, Zenon
    <3>2. ExitBefore(d, ask) # 0
      BY <3>1
    <3> QED
      BY <2>2, <3>2, Zenon
  <2>3. CASE ~First /\ d.form # "no object" /\ Third
    <3>1. ExitBefore(d, ask) = 2
      BY <1>1, <2>3, Zenon
    <3>2. ExitBefore(d, ask) # 0
      BY <3>1
    <3> QED
      BY <2>3, <3>2, Zenon
  <2>4. CASE ~First /\ d.form # "no object" /\ ~Third /\ ~Through
    <3>1. ExitBefore(d, ask) = 1
      BY <1>1, <2>4, Zenon
    <3>2. ExitBefore(d, ask) # 0
      BY <3>1
    <3> QED
      BY <2>4, <3>2, Zenon
  <2>5. CASE ~First /\ d.form # "no object" /\ ~Third /\ Through
    BY <1>1, <2>5, Zenon
  <2> QED
    BY <2>1, <2>2, <2>3, <2>4, <2>5, Zenon
<1>6. ExitBefore(d, ask) = 0 <=> d.form # "no object" /\ ~St /\ Through
  BY <1>2, <1>4, <1>5, Zenon
<1> QED
  BY <1>3, <1>6, Zenon DEF St, C

LEMMA DocTightened ==
  ASSUME NEW d, DocOK(d), d.schema = "v0", d.contract = "absent", NEW ask \in Asks, ask.legacy
  PROVE  Tightened(d, ask)
<1> DEFINE only == ask.recordedOnly
<1>0. only \in BOOLEAN /\ ask.legacy = TRUE
  BY DEF Asks
<1> HIDE DEF only
<1>1. ASSUME ExitBefore(d, ask) = 0, ~FixRefuses(d), ask.witness # "latest, loosely written" PROVE ExitCode(d, ask) = 0
  <2>1. ask.signature \in {"not asked", "valid"} /\ ask.witness \in {"not asked", "latest"} /\ ConsistentBefore(d, only)
    BY <1>1, ThenZero, Zenon DEF only
  <2>2. Consistent(d, TRUE, only) /\ ~Unreadable(d)
    BY <1>0, <1>1, <2>1, ConsistentStill
  <2>3. Consistent(d, ask.legacy, ask.recordedOnly)
    BY <1>0, <2>2, Zenon DEF only
  <2> QED
    BY <2>1, <2>2, <2>3, NowZero, Zenon
<1>2. ASSUME ExitCode(d, ask) = 0, ExitBefore(d, ask) # 0
      PROVE  NonFinite(d) /\ d.check = "FAIL" /\ d.effect = "none" /\ d.exec = "none"
  <2>1. ask.signature \in {"not asked", "valid"} /\ ask.witness \in {"not asked", "latest"} /\ ~Unreadable(d)
        /\ Consistent(d, ask.legacy, ask.recordedOnly)
    BY <1>2, NowZero, Zenon
  <2>2. Consistent(d, TRUE, only)
    BY <1>0, <2>1, Zenon DEF only
  <2>3. d.form # "no object"
    BY <2>1, Zenon DEF Unreadable
  <2>4. StopsBefore(d) \/ ~ConsistentBefore(d, only)
    <3>1. ask.witness \in {"not asked", "latest", "latest, loosely written"}
      BY <2>1
    <3> QED
      BY <1>2, <2>1, <2>3, <3>1, ThenZero, Zenon DEF only
  <2>5. d.kind = "vehicle" /\ NonFinite(d) /\ Verdict(d.request, d.telemetry) = "FAIL"
    BY <1>0, <2>2, <2>4, StopsAtNumbers, ConsistentWas
  <2> QED
    BY <1>0, <2>2, <2>5, FailedShowsNothing
<1> QED
  BY <1>1, <1>2, Zenon DEF Tightened

(* The request and the readings of a run, and of a package whatever is     *)
(* changed in it.                                                          *)
LEMMA FlightKinds ==
  ASSUME RunInv
  PROVE  run.telemetry \in Snapshots /\ RequestOK(run.request) /\ Finite(run.request, run.telemetry)
<1>1. /\ run["request"] = GoodRun(run.tool)["request"] \/ ("request" \in DOMAIN RunKinds[run.tool] /\ run["request"] \in RunKinds[run.tool]["request"])
      /\ run["telemetry"] = GoodRun(run.tool)["telemetry"]
         \/ ("telemetry" \in DOMAIN RunKinds[run.tool] /\ run["telemetry"] \in RunKinds[run.tool]["telemetry"])
  BY FieldsOfRun
<1>2. GoodRun(run.tool)["request"] = Request("goto", "good", "within", TRUE) /\ GoodRun(run.tool)["telemetry"] = Healthy
  BY Zenon DEF GoodRun
<1>3. /\ "request" \notin DOMAIN LibraryKinds /\ "request" \notin DOMAIN ChainKinds /\ "request" \notin DOMAIN ModelKinds
      /\ "request" \notin DOMAIN CompanionKinds
      /\ "telemetry" \notin DOMAIN LibraryKinds /\ "telemetry" \notin DOMAIN ChainKinds /\ "telemetry" \notin DOMAIN ModelKinds
      /\ "telemetry" \notin DOMAIN CompanionKinds
      /\ VehicleKinds["request"] = SomeRequests /\ VehicleKinds["telemetry"] = SomeSnapshots
  BY DEF LibraryKinds, ChainKinds, ModelKinds, CompanionKinds, VehicleKinds
<1> DEFINE G == Request("goto", "good", "within", TRUE)
<1>4. /\ run.request = G \/ run.request \in SomeRequests
      /\ run.telemetry = Healthy \/ run.telemetry \in SomeSnapshots
  <2> HIDE DEF G
  <2>1. GoodRun(run.tool)["request"] = G
    BY <1>2 DEF G
  <2> QED
    BY <1>1, <1>2, <1>3, <2>1, KindsOf DEF RunInv, ToolNames
<1>5. G.action = "goto" /\ G.there = "within"
  BY DEF Request
<1>6. /\ Healthy \in Snapshots
      /\ "nonfinite" \notin {Healthy.fix, Healthy.sats, Healthy.battery, Healthy.here, Healthy.gap}
  BY DEF Healthy, Snapshots
<1> HIDE DEF G
<1>7. run.request.there \in IF run.request.action = "goto" THEN {"within", "beyond"} ELSE {"none"}
  BY <1>4, <1>5, VehicleAssumption
<1>8. run.telemetry \in Snapshots
      /\ "nonfinite" \notin {run.telemetry.fix, run.telemetry.sats, run.telemetry.battery, run.telemetry.here, run.telemetry.gap}
  <2>1. CASE run.telemetry = Healthy
    BY <1>6, <2>1, Zenon
  <2>2. CASE run.telemetry \in SomeSnapshots
    <3>1. run.telemetry \in Snapshots
      BY <2>2, PackageAssumption
    <3> QED
      BY <2>2, <3>1, VehicleAssumption, Zenon
  <2> QED
    BY <1>4, <2>1, <2>2
<1> QED
  BY <1>7, <1>8 DEF RequestOK, Finite

DocFields == {"schema", "contract", "telemetry", "request", "validation"}
DocInv == stage = "final" => DocFields \subseteq DOMAIN doc /\ DocOK(doc)

LEMMA DocKinds ==
  /\ EditKinds["telemetry"] \subseteq Snapshots
  /\ \A q \in EditKinds["request"] : RequestOK(q)
  /\ EditKinds["validation"] \subseteq {"VALIDATED", "INSUFFICIENT_EVIDENCE", "FAIL"}
<1>1. /\ EditKinds["telemetry"] = (IF doc.kind = "vehicle" THEN SomeSnapshots \cup OddSnapshots ELSE {})
      /\ EditKinds["request"] = (IF doc.kind = "vehicle" THEN SomeRequests \cup OddRequests ELSE {})
      /\ EditKinds["validation"] = {"VALIDATED", "INSUFFICIENT_EVIDENCE", "FAIL"}
  BY Zenon DEF EditKinds
<1>2. \A q \in SomeRequests \cup OddRequests : RequestOK(q)
  BY VehicleAssumption DEF RequestOK
<1>3. EditKinds["telemetry"] \subseteq Snapshots
  BY <1>1, PackageAssumption
<1>4. \A q \in EditKinds["request"] : RequestOK(q)
  <2>1. EditKinds["request"] \subseteq SomeRequests \cup OddRequests
    BY <1>1
  <2> QED
    BY <1>2, <2>1
<1>5. EditKinds["validation"] \subseteq {"VALIDATED", "INSUFFICIENT_EVIDENCE", "FAIL"}
  BY <1>1, Zenon
<1> QED
  BY <1>3, <1>4, <1>5

LEMMA DocStep ==
  ASSUME RunInv, DocInv, [PackageNext]_packageVars
  PROVE  DocInv'
<1>1. CASE UNCHANGED doc /\ (stage' # "final" \/ stage' = stage)
  BY <1>1 DEF DocInv
<1>2. CASE Write
  <2>1. CASE doc' = Built
    <3>1. /\ DocFields \subseteq DOMAIN Built /\ Built.telemetry = run.telemetry /\ Built.request = run.request
          /\ Built.validation = Validated(run.counts, "VALIDATED")
      BY DEF Built, DocFields
    <3>2. Validated(run.counts, "VALIDATED") \in {"VALIDATED", "INSUFFICIENT_EVIDENCE", "FAIL"}
      BY DEF Validated
    <3>3. DocFields \subseteq DOMAIN Built /\ DocOK(Built)
      BY <3>1, <3>2, FlightKinds DEF DocOK
    <3> QED
      BY <2>1, <3>3 DEF DocInv
  <2>2. CASE UNCHANGED doc /\ stage' = "no package"
    BY <2>2 DEF DocInv
  <2> QED
    BY <1>2, <2>1, <2>2 DEF Write
<1>3. CASE stage = "final" /\ \E f \in Edited : Edit(f)
  <2>1. PICK f \in Edited : Edit(f)
    BY <1>3
  <2>2. PICK k, s : k \in EditKinds[f] /\ doc' = [doc EXCEPT ![f] = k, !.stale = s]
    BY <2>1 DEF Edit
  <2>3. DocFields \subseteq DOMAIN doc /\ DocOK(doc)
    BY <1>3 DEF DocInv
  <2>4. doc'["telemetry"] = IF f = "telemetry" THEN k ELSE doc["telemetry"]
    BY <2>2, <2>3 DEF DocFields
  <2>5. doc'["request"] = IF f = "request" THEN k ELSE doc["request"]
    BY <2>2, <2>3 DEF DocFields
  <2>6. doc'["validation"] = IF f = "validation" THEN k ELSE doc["validation"]
    BY <2>2, <2>3 DEF DocFields
  <2>7. DocFields \subseteq DOMAIN doc'
    BY <2>2, <2>3
  <2>8. DocOK(doc')
    BY <2>2, <2>3, <2>4, <2>5, <2>6, DocKinds DEF DocOK
  <2> QED
    BY <2>7, <2>8 DEF DocInv
<1>4. CASE stage = "final" /\ \E f \in Fields : EditInput(f)
  <2>1. PICK i, s : doc' = [doc EXCEPT !.input = i, !.stale = s]
    BY <1>4 DEF EditInput
  <2> QED
    BY <1>4, <2>1 DEF DocInv, DocOK
<1>5. CASE Reseal
  <2>1. doc' = [doc EXCEPT !.stale = {}] /\ stage = "final"
    BY <1>5 DEF Reseal
  <2> QED
    BY <2>1 DEF DocInv, DocOK
<1>6. ASSUME \/ \E f \in Fields : Vary(f) /\ stage = "setup" /\ UNCHANGED <<run, stage, exec, doc, edited>>
             \/ \E f \in DOMAIN RunKinds[run.tool] : VaryRun(f)
             \/ Ask
             \/ stage = "deciding" /\ Examine /\ UNCHANGED <<run, stage, exec, doc, edited>>
             \/ Act
             \/ UNCHANGED packageVars
      PROVE  UNCHANGED doc /\ (stage' # "final" \/ stage' = stage)
  BY <1>6 DEF VaryRun, Ask, Act, packageVars
<1> QED
  BY <1>1, <1>2, <1>3, <1>4, <1>5, <1>6 DEF PackageNext

(* What a vehicle's run asked: the check of its snapshot, of a vehicle     *)
(* that answered.                                                          *)
FlightInv == stage \in {"deciding", "ran", "final"} /\ run.tool = "vehicle" => ~NoVehicle /\ input = PreparedVehicle

LEMMA FlightStep ==
  ASSUME GateInv, RunInv, FlightInv, [PackageNext]_packageVars
  PROVE  FlightInv'
<1>1. CASE Ask
  <2>1. ASSUME stage' \in {"deciding", "ran", "final"}, run'.tool = "vehicle" PROVE ~NoVehicle' /\ input' = PreparedVehicle'
    <3>1. UNCHANGED run /\ ~CouldNotRun /\ input' = Prepared
      BY <1>1, <2>1 DEF Ask
    <3>2. input' = PreparedVehicle
      BY <2>1, <3>1 DEF Prepared
    <3>3. ThermalOf' = ThermalOf
      BY <3>1 DEF ThermalOf
    <3>4. ~NoVehicle'
      BY <3>1 DEF CouldNotRun, NoVehicle
    <3> DEFINE v == Verdict(run.request, run.telemetry)
               a == IF run.request.action \in Movement \cup {"land", "rtl"} THEN "listed" ELSE "other"
               t == ThermalOf
    <3>5. PreparedVehicle = [input EXCEPT !.status = v, !.runtime = t, !.action = @,
                                          !.allowOnly = IF a = "listed" THEN "list with it" ELSE "list without it",
                                          !.floor = "none", !.quality = "absent", !.maxSteps = "none", !.stepCount = "absent"]
      BY DEF PreparedVehicle, Asking
    <3>6. PreparedVehicle' = [input' EXCEPT !.status = v, !.runtime = t, !.action = @,
                                            !.allowOnly = IF a = "listed" THEN "list with it" ELSE "list without it",
                                            !.floor = "none", !.quality = "absent", !.maxSteps = "none", !.stepCount = "absent"]
      BY <3>1, <3>3 DEF PreparedVehicle, Asking
    <3> HIDE DEF v, a, t
    <3>7. DOMAIN input = Fields /\ input' = [f \in Fields |-> input'[f]]
      BY <3>2, <3>5 DEF GateInv, IInv, InputOK
    <3>8. PreparedVehicle' = input'
      BY <3>2, <3>5, <3>6, <3>7
    <3> QED
      BY <3>4, <3>8
  <2> QED
    BY <2>1 DEF FlightInv
<1>2. CASE UNCHANGED <<input, run>> /\ (stage' = stage \/ (stage \in {"deciding", "ran"} /\ stage' \in {"ran", "final", "no package"}))
  <2>1. NoVehicle' <=> NoVehicle
    BY <1>2 DEF NoVehicle
  <2>2. PreparedVehicle' = PreparedVehicle
    BY <1>2 DEF PreparedVehicle, Asking, ThermalOf
  <2> QED
    BY <1>2, <2>1, <2>2 DEF FlightInv
<1>3. CASE stage' = "setup"
  BY <1>3 DEF FlightInv
<1>4. CASE stage = "deciding" /\ Examine /\ UNCHANGED <<run, stage, exec, doc, edited>>
  BY <1>2, <1>4, ExamineKeeps
<1>5. ASSUME \/ \E f \in Fields : Vary(f) /\ stage = "setup" /\ UNCHANGED <<run, stage, exec, doc, edited>>
             \/ \E f \in DOMAIN RunKinds[run.tool] : VaryRun(f)
      PROVE  stage' = "setup"
  BY <1>5 DEF VaryRun
<1>6. ASSUME Act \/ Write \/ Reseal \/ (stage = "final" /\ ((\E f \in Edited : Edit(f)) \/ (\E f \in Fields : EditInput(f))))
             \/ UNCHANGED packageVars
      PROVE  UNCHANGED <<input, run>> /\ (stage' = stage \/ (stage \in {"deciding", "ran"} /\ stage' \in {"ran", "final", "no package"}))
  BY <1>6 DEF Act, Write, Reseal, Edit, EditInput, packageVars
<1> QED
  BY <1>1, <1>2, <1>3, <1>4, <1>5, <1>6 DEF PackageNext

(* The tool and its check as they were say what they say now.              *)
LEMMA StandInKinds == ASSUME NEW s \in StandIn PROVE s \in Snapshots /\ "nonfinite" \notin {s.fix, s.sats, s.battery, s.here, s.gap}
<1> DEFINE Plain(x) == /\ x \in Snapshots
                       /\ x.fix # "nonfinite" /\ x.sats # "nonfinite" /\ x.battery # "nonfinite" /\ x.here # "nonfinite"
                       /\ x.gap # "nonfinite"
           air == [Healthy EXCEPT !.gap = "absent"]
           low == [air EXCEPT !.battery = "low"]
           off == [air EXCEPT !.fix = "low", !.sats = "low", !.ekf = {"uninitialized"}]
           out == [air EXCEPT !.here = "beyond"]
<1>1. Plain(air) /\ Plain([air EXCEPT !.gap = "within"]) /\ Plain([air EXCEPT !.gap = "beyond"])
  BY DEF Healthy, Snapshots
<1>2. Plain(low) /\ Plain([low EXCEPT !.gap = "within"])
  BY DEF Healthy, Snapshots
<1>3. Plain(off) /\ Plain([off EXCEPT !.gap = "within"])
  BY DEF Healthy, Snapshots
<1>4. Plain(out) /\ Plain([out EXCEPT !.gap = "within"])
  BY DEF Healthy, Snapshots
<1>5. StandIn = {air, [air EXCEPT !.gap = "within"]} \cup {air, [air EXCEPT !.gap = "beyond"]}
                \cup {low, [low EXCEPT !.gap = "within"]} \cup {off, [off EXCEPT !.gap = "within"]}
                \cup {out, [out EXCEPT !.gap = "within"]}
  BY Zenon DEF StandIn
<1> HIDE DEF air, low, off, out
<1>6. Plain(s)
  <2> HIDE DEF Plain
  <2> QED
    BY <1>1, <1>2, <1>3, <1>4, <1>5
<1> QED
  BY <1>6

LEMMA ToolSaysTheSame == SaysTheSame
<1>1. ASSUME NEW s \in StandIn, NEW q \in SomeRequests PROVE VerdictBefore(q, s) = Verdict(q, s)
  <2>1. RequestOK(q) /\ Finite(q, s) /\ s \in Snapshots
    BY StandInKinds, VehicleAssumption DEF RequestOK, Finite
  <2> QED
    BY <2>1, ChecksTightened
<1>2. ASSUME NEW cross \in BOOLEAN
      PROVE  LET probe == Request("goto", "good", "within", cross) IN
             VerdictBefore(probe, Healthy) = "PASS" /\ VerdictBefore(probe, [Healthy EXCEPT !.fix = "low"]) = "FAIL"
  <2> DEFINE q == Request("goto", "good", "within", cross)
             low == [Healthy EXCEPT !.fix = "low"]
  <2>1. q.action = "goto" /\ q.alt = "good" /\ q.there = "within"
    BY Zenon DEF Request, Movement
  <2>2. /\ Healthy.fix = "good" /\ Healthy.sats = "good" /\ Healthy.ekf = {"absolute"} /\ Healthy.battery = "good"
        /\ Healthy.here = "within" /\ Healthy.gap = "within" /\ low.fix = "low"
    BY DEF Healthy
  <2> HIDE DEF q, low
  <2>3. ~SpaceFailed(q, Healthy) /\ ~NavigationFailed(q, Healthy) /\ Healthy.battery \notin {"low", "unknown"}
    BY <2>1, <2>2 DEF SpaceFailed, NavigationFailed
  <2>4. NavigationFailed(q, low) /\ q.action \in Movement
    BY <2>1, <2>2 DEF NavigationFailed, Movement
  <2>5. VerdictBefore(q, Healthy) # "FAIL" /\ VerdictBefore(q, low) = "FAIL"
    BY <2>1, <2>3, <2>4, VerdictWas
  <2>6. VerdictBefore(q, Healthy) = "PASS"
    BY <2>5, Verdicts
  <2> QED
    BY <2>5, <2>6 DEF q, low
<1> QED
  BY <1>1, <1>2, Zenon DEF SaysTheSame

LEMMA SameValue == ASSUME NEW f, NEW a, NEW v, f = [x \in DOMAIN f |-> f[x]], f[a] = v PROVE [f EXCEPT ![a] = v] = f
OBVIOUS

LEMMA BuiltIsAFunction == Built = [x \in DOMAIN Built |-> Built[x]]
BY ZenonT(300) DEF Built

LEMMA WrittenTheSame ==
  ASSUME Finished, FlightInv, run.tool = "vehicle"
  PROVE  ~NoVehicleBefore /\ doc = WrittenBefore
<1>1. doc = Built /\ Concluded = Replay(Packaged(input))
      /\ exec = IF decision = "ALLOW" THEN "SUCCEEDED" ELSE "none"
  <2>1. exec = (IF decision # "ALLOW" THEN "none" ELSE IF run.ends # "raises" THEN "SUCCEEDED"
                ELSE IF run.keyed THEN "UNKNOWN" ELSE "FAILED")
        /\ exec \in {"none", "SUCCEEDED"}
    BY FinishedRun
  <2>2. exec = IF decision = "ALLOW" THEN "SUCCEEDED" ELSE "none"
    BY <2>1
  <2> QED
    BY <2>2, FinishedRun
<1>2. ~NoVehicle /\ input = PreparedVehicle
  BY DEF Finished, FlightInv
<1>3. VerdictBefore(run.request, run.telemetry) = Verdict(run.request, run.telemetry)
  BY FlightKinds, ChecksTightened DEF Finished
<1>4. PreparedBefore = input
  <2>1. PreparedBefore = PreparedVehicle
    BY <1>3 DEF PreparedBefore, PreparedVehicle, Movement
  <2> QED
    BY <1>2, <2>1
<1> DEFINE asked == Packaged(PreparedBefore)
           gate == Replay(asked)
           ran == gate.decision = "ALLOW"
           state == IF run.source = "measured" THEN "DERIVED" ELSE "OPERATOR"
           check == VerdictBefore(run.request, run.telemetry)
           did == IF gate.decision = "ALLOW" THEN "SUCCEEDED" ELSE "none"
           sent == IF gate.decision = "ALLOW" THEN SentBefore ELSE "none"
<1>5. WrittenBefore = [doc EXCEPT !.input = asked, !.top = gate, !.said = gate, !.check = check, !.exec = did,
                                  !.effect = sent, !.outcome = ran, !.tag = state, !.line = state]
  BY Zenon DEF WrittenBefore
<1>6. gate = Concluded /\ gate.decision = decision
  <2>1. gate = Concluded
    BY <1>1, <1>4, Zenon
  <2> QED
    BY <2>1 DEF Concluded
<1> HIDE DEF gate
<1>7. Built.input = asked
  <2>1. run.snapshot = "as decided"
    BY CountsKinds DEF Finished
  <2>2. asked = Packaged(input) /\ DOMAIN asked = Fields /\ asked = [f \in Fields |-> asked[f]]
    BY <1>4, InputFacts DEF Packaged, Finished, GateInv, IInv, InputOK
  <2>3. Built.input = [Packaged(input) EXCEPT !.registry = @]
    BY <2>1, BuiltFacts
  <2> QED
    BY <2>2, <2>3
<1>8. Built.top = gate /\ Built.said = gate
  BY <1>6, BuiltFacts
<1>9. Built.check = check
  BY <1>3, BuiltFacts DEF CheckOf
<1>10. Built.exec = did
  BY <1>1, <1>6, BuiltFacts
<1>11. Built.effect = sent
  <2>1. Built.effect = CommandsSent
    BY BuiltFacts, EffectFacts
  <2> QED
    BY <1>1, <1>6, <2>1 DEF CommandsSent, SentBefore
<1>12. Built.outcome = ran
  <2>1. Built.outcome = (run.tool = "vehicle" /\ exec = "SUCCEEDED")
    BY Zenon DEF Built
  <2>2. exec = "SUCCEEDED" <=> gate.decision = "ALLOW"
    BY <1>1, <1>6
  <2>3. (run.tool = "vehicle" /\ exec = "SUCCEEDED") = ran
    BY <2>2, Zenon
  <2> QED
    BY <2>1, <2>3, Zenon
<1>13. Built.tag = state /\ Built.line = state
  <2>1. run.source \in {"declared", "measured"}
    BY SourceKinds DEF Finished
  <2>2. TagOf = state
    BY <2>1 DEF TagOf
  <2>3. LineOf(TagOf, run.source) = state
    BY <2>2 DEF LineOf
  <2> QED
    BY <2>2, <2>3, BuiltFacts
<1>14. Built = [x \in DOMAIN Built |-> Built[x]]
  BY BuiltIsAFunction
<1> HIDE DEF asked, gate, ran, state, check, did, sent
<1>15. WrittenBefore = Built
  <2>1. [Built EXCEPT !.input = asked] = Built
    BY <1>7, <1>14, SameValue, Zenon
  <2>2. [Built EXCEPT !.top = gate] = Built
    BY <1>8, <1>14, SameValue
  <2>3. [Built EXCEPT !.said = gate] = Built
    BY <1>8, <1>14, SameValue
  <2>4. [Built EXCEPT !.check = check] = Built
    BY <1>9, <1>14, SameValue, Zenon
  <2>5. [Built EXCEPT !.exec = did] = Built
    BY <1>10, <1>14, SameValue, Zenon
  <2>6. [Built EXCEPT !.effect = sent] = Built
    BY <1>11, <1>14, SameValue, Zenon
  <2>7. [Built EXCEPT !.outcome = ran] = Built
    BY <1>12, <1>14, SameValue, Zenon
  <2>8. [Built EXCEPT !.tag = state] = Built
    BY <1>13, <1>14, SameValue
  <2>9. [Built EXCEPT !.line = state] = Built
    BY <1>13, <1>14, SameValue
  <2> QED
    BY <1>1, <1>5, <2>1, <2>2, <2>3, <2>4, <2>5, <2>6, <2>7, <2>8, <2>9
<1> QED
  BY <1>1, <1>2, <1>15 DEF NoVehicle, NoVehicleBefore

(* verify_package.py against the verifier of issue 5, for every package    *)
(* and every question: what it has come to refuse is what the fixes name,  *)
(* what it has come to accept moved nothing, and the tool writes what it   *)
(* wrote.                                                                  *)
THEOREM FixesOnlyTighten == PackageSpec => []FixOnlyTightens
<1>1. PackageInit => DocInv /\ FlightInv
  BY DEF PackageInit, DocInv, FlightInv
<1>2. PackageSpec => [](DocInv /\ FlightInv)
  <2>1. GateInv /\ RunInv /\ SetupInv /\ (DocInv /\ FlightInv) /\ [PackageNext]_packageVars => (DocInv /\ FlightInv)'
    BY DocStep, FlightStep
  <2> QED
    BY <1>1, <2>1, SetupInvariance, PTL DEF PackageSpec
<1>3. ASSUME GateInv, RunInv, HonestInv, FlightInv PROVE ToolUnchanged
  <2>1. ASSUME stage = "final", run.tool = "vehicle", edited = {} PROVE ~NoVehicleBefore /\ doc = WrittenBefore
    BY <1>3, <2>1, WrittenTheSame DEF Finished
  <2> QED
    BY <2>1, ToolSaysTheSame, Zenon DEF ToolUnchanged
<1>4. ASSUME DocInv, stage = "final", NEW ask \in Asks, ask.legacy
      PROVE  Tightened([doc EXCEPT !.schema = "v0", !.contract = "absent"], ask)
  <2> DEFINE d == [doc EXCEPT !.schema = "v0", !.contract = "absent"]
  <2>1. DocOK(doc) /\ DocFields \subseteq DOMAIN doc
    BY <1>4 DEF DocInv
  <2>2. d.schema = "v0" /\ d.contract = "absent" /\ d.telemetry = doc.telemetry /\ d.request = doc.request
        /\ d.validation = doc.validation
    BY <2>1 DEF DocFields
  <2> HIDE DEF d
  <2>3. DocOK(d)
    BY <2>1, <2>2 DEF DocOK
  <2>4. Tightened(d, ask)
    BY <1>4, <2>2, <2>3, DocTightened, Zenon
  <2> QED
    BY <2>4 DEF d
<1>5. GateInv /\ RunInv /\ HonestInv /\ DocInv /\ FlightInv => FixOnlyTightens
  BY <1>3, <1>4, Zenon DEF FixOnlyTightens, Tightened, FixRefuses
<1> QED
  BY <1>2, <1>5, SetupInvariance, HonestInvariance, PTL

---------------------------------------------------------------------------
(* 7.  The ports.                                                          *)

(* A set of numbers has a least one.                                       *)
LEMMA LeastOf == ASSUME NEW T \in SUBSET Nat, T # {} PROVE \E m \in T : \A k \in T : m <= k
<1>1. PICK m \in T : \A k \in T : ~(<<k, m>> \in OpToRel(<, Nat))
  BY WFMin, NatLessThanWellFounded
<1>2. \A k \in T : ~(k < m)
  BY <1>1 DEF OpToRel
<1> QED
  BY <1>2

(* A sequence that is built as FlattenSeq builds it is what it builds: of  *)
(* two there would be a first place at which they differ.                  *)
LEMMA FlattenIs ==
  ASSUME NEW s, Len(s) \in Nat, Len(s) # 0,
         NEW g, g = [n \in 1..Len(s) |-> IF n = 1 THEN s[n] ELSE g[n - 1] \o s[n]]
  PROVE  FlattenSeq(s) = g[Len(s)]
<1> DEFINE Body(h) == [n \in 1..Len(s) |-> IF n = 1 THEN s[n] ELSE h[n - 1] \o s[n]]
           f == CHOOSE h : h = Body(h)
<1>1. FlattenSeq(s) = f[Len(s)]
  BY Zenon DEF FlattenSeq
<1>2. f = Body(f)
  <2>1. \E h : h = Body(h)
    BY Zenon
  <2> QED
    BY <2>1, Zenon
<1> HIDE DEF f
<1>3. \A n \in 1..Len(s) : f[n] = IF n = 1 THEN s[n] ELSE f[n - 1] \o s[n]
  BY <1>2, Zenon
<1>4. \A n \in 1..Len(s) : g[n] = IF n = 1 THEN s[n] ELSE g[n - 1] \o s[n]
  BY Zenon
<1> DEFINE apart == {n \in 1..Len(s) : f[n] # g[n]}
<1>5. apart = {}
  <2>1. SUFFICES ASSUME apart # {} PROVE FALSE
    OBVIOUS
  <2>2. apart \in SUBSET Nat
    OBVIOUS
  <2>3. PICK m \in apart : \A k \in apart : m <= k
    <3> HIDE DEF apart
    <3> QED
      BY <2>1, <2>2, LeastOf
  <2>4. m \in 1..Len(s) /\ f[m] # g[m]
    OBVIOUS
  <2>5. f[m] = (IF m = 1 THEN s[m] ELSE f[m - 1] \o s[m]) /\ g[m] = (IF m = 1 THEN s[m] ELSE g[m - 1] \o s[m])
    BY <2>4, <1>3, <1>4, Zenon
  <2>6. m # 1
    BY <2>4, <2>5
  <2>7. m - 1 \in 1..Len(s) /\ ~(m <= m - 1)
    BY <2>4, <2>6
  <2>8. f[m - 1] = g[m - 1]
    BY <2>3, <2>7
  <2> QED
    BY <2>4, <2>5, <2>6, <2>8
<1>6. Len(s) \in 1..Len(s)
  OBVIOUS
<1> QED
  BY <1>1, <1>5, <1>6

---------------------------------------------------------------------------
Refuses(i, r) == ReplayRefusals(i)[r].fails
Quiet(i) == \A r \in 1..13 : ~Refuses(i, r)

(* Said is what the replay says when it refuses.                           *)
First(i, said) ==
  \E r \in 1..13 : /\ Refuses(i, r) /\ said = <<ReplayRefusals(i)[r].why>>
                   /\ \A m \in 1..13 : m < r => ~Refuses(i, m)

(* The rules before the required evidence, and those after it, as far as   *)
(* the ports have them in common.                                          *)
IsTuple(s, n) == s = [k \in 1..n |-> s[k]]

FrontAlike(i, A) ==
  /\ IsTuple(A, 12)
  /\ A[1].stops <=> Refuses(i, 1)
  /\ A[2].stops <=> Refuses(i, 3)
  /\ A[3].stops <=> Refuses(i, 2)
  /\ ~A[4].stops
  /\ A[5].stops <=> Refuses(i, 4)
  /\ A[6].stops <=> Refuses(i, 5)
  /\ A[7].stops <=> Refuses(i, 6)
  /\ A[8].stops <=> Refuses(i, 7)
  /\ A[9].stops => Refuses(i, 8)
  /\ Refuses(i, 8) => A[8].stops \/ A[9].stops
  /\ A[10].stops <=> Refuses(i, 9)
  /\ A[11].stops <=> Refuses(i, 10)
  /\ ~A[12].stops
  /\ A[1].says = When(A[1].stops, "missing_input_digest")
  /\ A[2].says = When(A[2].stops, "verification_not_passed")
  /\ A[3].says = When(A[3].stops, "verification_refuted")
  /\ A[4].says = NotedStatus(i)
  /\ A[5].says = When(A[5].stops, "capability_missing")
  /\ A[6].says = When(A[6].stops, "capability_not_authorized")
  /\ A[7].says = When(A[7].stops, "capability_parent_requires_registry")
  /\ A[8].says = When(A[8].stops, "capability_parent_missing")
  /\ A[9].says = When(A[9].stops, "capability_parent_not_authorized")
  /\ A[10].says = When(A[10].stops, "action_capability_mismatch")
  /\ A[11].says = When(A[11].stops, "runtime_state_unavailable")
  /\ ~Refuses(i, 10) => A[12].says = When(i.runtime # "healthy", "runtime_not_healthy")

SaysInvalid(i) == When(i.floor = "set" /\ ReplayQuality(i) = "not in range", "evidence_quality_invalid")
SaysBelow(i)   == When(i.floor = "set" /\ ReplayQuality(i) = "low", "evidence_quality_below_threshold")
SaysSteps(i)   == When(i.maxSteps # "none" /\ i.stepCount \in {"bool", "fraction", "below 1"}, "invalid_step_count_metadata")

(* One port asks whether there are too many steps before it asks whether   *)
(* their number is one.                                                    *)
BackAlike(i, B, p) ==
  /\ IsTuple(B, 6) /\ p \in {3, 4}
  /\ ~B[1].stops /\ ~B[2].stops /\ ~B[p].stops
  /\ B[7 - p].stops <=> Refuses(i, 11)
  /\ B[5].stops <=> Refuses(i, 12)
  /\ ~Refuses(i, 12) => (B[6].stops <=> Refuses(i, 13))
  /\ B[1].says = SaysInvalid(i)
  /\ B[2].says = SaysBelow(i)
  /\ B[p].says = SaysSteps(i)
  /\ B[7 - p].says = When(B[7 - p].stops, "capability_max_steps_exceeded")
  /\ B[5].says = When(B[5].stops, "policy_invalid")
  /\ B[6].says = When(B[6].stops, "action_not_permitted_by_policy")

StopsAt(A, n) == A[n].stops /\ \A m \in DOMAIN A : m < n => ~A[m].stops

LEMMA FrontDecides ==
  ASSUME NEW i, NEW A, FrontAlike(i, A)
  PROVE  /\ \A n \in 1..12 : StopsAt(A, n) => First(i, A[n].says)
         /\ (\A n \in 1..12 : ~A[n].stops) => \A r \in 1..10 : ~Refuses(i, r)
<1>1. DOMAIN A = 1..12
  BY DEF FrontAlike, IsTuple
<1>2. ASSUME NEW n \in 1..12, StopsAt(A, n) PROVE First(i, A[n].says)
  <2>1. A[n].stops /\ \A m \in 1..12 : m < n => ~A[m].stops
    BY <1>1, <1>2 DEF StopsAt
  <2>3. Refuses(i, 3) => ~Refuses(i, 2)
    BY FailsOf DEF Refuses
  <2>4. n \in {1, 2, 3, 5, 6, 7, 8, 9, 10, 11}
    BY <2>1 DEF FrontAlike
  <2>5. CASE n = 1
    <3>1. Refuses(i, 1) /\ A[1].says = <<ReplayRefusals(i)[1].why>>
      BY <2>1, <2>5, RulesOf DEF FrontAlike, When
    <3> QED
      BY <2>5, <3>1 DEF First
  <2>6. CASE n = 2
    <3>1. Refuses(i, 3) /\ A[2].says = <<ReplayRefusals(i)[3].why>> /\ ~Refuses(i, 1)
      BY <2>1, <2>6, RulesOf DEF FrontAlike, When
    <3> QED
      BY <2>3, <2>6, <3>1 DEF First
  <2>7. CASE n = 3
    <3>1. Refuses(i, 2) /\ A[3].says = <<ReplayRefusals(i)[2].why>> /\ ~Refuses(i, 1)
      BY <2>1, <2>7, RulesOf DEF FrontAlike, When
    <3> QED
      BY <2>7, <3>1 DEF First
  <2>8. CASE n = 5
    <3>1. Refuses(i, 4) /\ A[5].says = <<ReplayRefusals(i)[4].why>>
      BY <2>1, <2>8, RulesOf DEF FrontAlike, When
    <3>2. \A m \in 1..3 : ~Refuses(i, m)
      BY <2>1, <2>8 DEF FrontAlike
    <3> QED
      BY <2>8, <3>1, <3>2 DEF First
  <2>9. CASE n = 6
    <3>1. Refuses(i, 5) /\ A[6].says = <<ReplayRefusals(i)[5].why>>
      BY <2>1, <2>9, RulesOf DEF FrontAlike, When
    <3>2. \A m \in 1..4 : ~Refuses(i, m)
      BY <2>1, <2>9 DEF FrontAlike
    <3> QED
      BY <2>9, <3>1, <3>2 DEF First
  <2>10. CASE n = 7
    <3>1. Refuses(i, 6) /\ A[7].says = <<ReplayRefusals(i)[6].why>>
      BY <2>1, <2>10, RulesOf DEF FrontAlike, When
    <3>2. \A m \in 1..5 : ~Refuses(i, m)
      BY <2>1, <2>10 DEF FrontAlike
    <3> QED
      BY <2>10, <3>1, <3>2 DEF First
  <2>11. CASE n = 8
    <3>1. Refuses(i, 7) /\ A[8].says = <<ReplayRefusals(i)[7].why>>
      BY <2>1, <2>11, RulesOf DEF FrontAlike, When
    <3>2. \A m \in 1..6 : ~Refuses(i, m)
      BY <2>1, <2>11 DEF FrontAlike
    <3> QED
      BY <2>11, <3>1, <3>2 DEF First
  <2>12. CASE n = 9
    <3>1. Refuses(i, 8) /\ A[9].says = <<ReplayRefusals(i)[8].why>>
      BY <2>1, <2>12, RulesOf DEF FrontAlike, When
    <3>2. \A m \in 1..7 : ~Refuses(i, m)
      BY <2>1, <2>12 DEF FrontAlike
    <3> QED
      BY <2>12, <3>1, <3>2 DEF First
  <2>13. CASE n = 10
    <3>1. Refuses(i, 9) /\ A[10].says = <<ReplayRefusals(i)[9].why>>
      BY <2>1, <2>13, RulesOf DEF FrontAlike, When
    <3>2. \A m \in 1..8 : ~Refuses(i, m)
      BY <2>1, <2>13 DEF FrontAlike
    <3> QED
      BY <2>13, <3>1, <3>2 DEF First
  <2>14. CASE n = 11
    <3>1. Refuses(i, 10) /\ A[11].says = <<ReplayRefusals(i)[10].why>>
      BY <2>1, <2>14, RulesOf DEF FrontAlike, When
    <3>2. \A m \in 1..9 : ~Refuses(i, m)
      BY <2>1, <2>14 DEF FrontAlike
    <3> QED
      BY <2>14, <3>1, <3>2 DEF First
  <2> QED
    BY <2>4, <2>5, <2>6, <2>7, <2>8, <2>9, <2>10, <2>11, <2>12, <2>13, <2>14
<1>3. (\A n \in 1..12 : ~A[n].stops) => \A r \in 1..10 : ~Refuses(i, r)
  BY DEF FrontAlike
<1> QED
  BY <1>2, <1>3

LEMMA BackDecides ==
  ASSUME NEW i, NEW B, NEW p, BackAlike(i, B, p), \A r \in 1..10 : ~Refuses(i, r)
  PROVE  /\ \A n \in 1..6 : StopsAt(B, n) => First(i, B[n].says)
         /\ (\A n \in 1..6 : ~B[n].stops) => Quiet(i)
<1>1. DOMAIN B = 1..6 /\ p \in {3, 4} /\ 7 - p \in {3, 4} /\ 7 - p # p
  BY DEF BackAlike, IsTuple
<1>2. ASSUME NEW n \in 1..6, StopsAt(B, n) PROVE First(i, B[n].says)
  <2>1. B[n].stops /\ \A m \in 1..6 : m < n => ~B[m].stops
    BY <1>1, <1>2 DEF StopsAt
  <2>2. n = 7 - p \/ n = 5 \/ n = 6
    BY <1>1, <2>1 DEF BackAlike
  <2>3. n # 7 - p => ~Refuses(i, 11)
    BY <1>1, <2>1, <2>2 DEF BackAlike
  <2>4. CASE n = 7 - p
    <3>1. Refuses(i, 11) /\ B[n].says = <<ReplayRefusals(i)[11].why>>
      BY <2>1, <2>4, RulesOf DEF BackAlike, When
    <3> QED
      BY <3>1 DEF First
  <2>5. CASE n = 5
    <3>1. Refuses(i, 12) /\ B[n].says = <<ReplayRefusals(i)[12].why>>
      BY <2>1, <2>5, RulesOf DEF BackAlike, When
    <3> QED
      BY <1>1, <2>3, <2>5, <3>1 DEF First
  <2>6. CASE n = 6
    <3>1. ~Refuses(i, 12)
      BY <2>1, <2>6 DEF BackAlike
    <3>2. Refuses(i, 13) /\ B[n].says = <<ReplayRefusals(i)[13].why>>
      BY <2>1, <2>6, <3>1, RulesOf DEF BackAlike, When
    <3> QED
      BY <1>1, <2>3, <2>6, <3>1, <3>2 DEF First
  <2> QED
    BY <2>2, <2>4, <2>5, <2>6
<1>3. (\A n \in 1..6 : ~B[n].stops) => Quiet(i)
  <2>1. B[7 - p].stops <=> Refuses(i, 11)
    BY DEF BackAlike
  <2>2. (\A n \in 1..6 : ~B[n].stops) => ~Refuses(i, 11) /\ ~Refuses(i, 12) /\ ~Refuses(i, 13)
    BY <1>1, <2>1 DEF BackAlike
  <2> QED
    BY <2>2 DEF Quiet
<1> QED
  BY <1>2, <1>3

---------------------------------------------------------------------------
LEMMA WhenIsWhy == \A c, why : Why(c, why) = When(c, why)
BY DEF Why, When

LEMMA MissingFacts ==
  ASSUME NEW i
  PROVE  /\ DOMAIN Missing(i) = 1..Len(Required)
         /\ \A m \in 1..Len(Required) :
              /\ ~Missing(i)[m].stops
              /\ Missing(i)[m].says = When(i.evidence[Required[m]] # "True", Required[m])
<1>1. DOMAIN Required = 1..Len(Required)
  BY LenFacts
<1> QED
  BY <1>1, WhenIsWhy DEF Missing, Note

(* Where the rules of a port are.                                          *)
Placed(i, A, B, R) ==
  /\ Len(R) = 18 + Len(Required) /\ DOMAIN R = 1..(18 + Len(Required))
  /\ \A n \in 1..12 : R[n] = A[n]
  /\ \A m \in 1..Len(Required) : R[12 + m] = Missing(i)[m]
  /\ \A n \in 1..6 : R[12 + Len(Required) + n] = B[n]

LEMMA RulesAt ==
  ASSUME NEW i, NEW A, NEW B, IsTuple(A, 12), IsTuple(B, 6)
  PROVE  Placed(i, A, B, A \o Missing(i) \o B)
<1>0. PICK R : R = A \o Missing(i) \o B
  OBVIOUS
<1> DEFINE L == Len(Required)
           M == Missing(i)
           S == {A[n] : n \in 1..12} \cup {M[m] : m \in 1..L} \cup {B[n] : n \in 1..6}
<1>1. L \in Nat
  BY LenFacts
<1>2. DOMAIN M = 1..L /\ M = [m \in 1..L |-> M[m]]
  BY LenFacts, MissingFacts DEF Missing
<1>3. A \in [1..12 -> S] /\ M \in [1..L -> S] /\ B \in [1..6 -> S]
  BY <1>2 DEF IsTuple
<1> HIDE DEF L, M, S
<1>4. A \in Seq(S) /\ M \in Seq(S) /\ B \in Seq(S) /\ Len(A) = 12 /\ Len(M) = L /\ Len(B) = 6
  <2>1. \A n \in Nat : \A f \in [1..n -> S] : f \in Seq(S) /\ Len(f) = n
    OBVIOUS
  <2>2. 12 \in Nat /\ 6 \in Nat
    OBVIOUS
  <2> QED
    BY <1>1, <1>3, <2>1, <2>2, Zenon
<1> DEFINE P == A \o M
<1>5. P \in Seq(S) /\ Len(P) = 12 + L
      /\ \A n \in 1..(12 + L) : P[n] = IF n <= 12 THEN A[n] ELSE M[n - 12]
  <2>1. /\ A \o M \in Seq(S) /\ Len(A \o M) = Len(A) + Len(M)
        /\ \A n \in 1..(Len(A) + Len(M)) : (A \o M)[n] = IF n <= Len(A) THEN A[n] ELSE M[n - Len(A)]
    BY <1>4, ConcatProperties
  <2> QED
    BY <1>4, <2>1, Zenon
<1>6. R = P \o B
  BY <1>0 DEF M
<1> HIDE DEF P
<1>7. R \in Seq(S) /\ Len(R) = 18 + L
      /\ \A n \in 1..(18 + L) : R[n] = IF n <= 12 + L THEN P[n] ELSE B[n - (12 + L)]
  <2>1. /\ P \o B \in Seq(S) /\ Len(P \o B) = Len(P) + Len(B)
        /\ \A n \in 1..(Len(P) + Len(B)) : (P \o B)[n] = IF n <= Len(P) THEN P[n] ELSE B[n - Len(P)]
    BY <1>4, <1>5, ConcatProperties
  <2>2. Len(P) + Len(B) = 18 + L
    BY <1>1, <1>4, <1>5
  <2> QED
    BY <1>5, <1>6, <2>1, <2>2
<1>8. \A n \in 1..12 : R[n] = A[n]
  BY <1>1, <1>5, <1>7
<1>9. \A m \in 1..L : R[12 + m] = M[m]
  <2> TAKE m \in 1..L
  <2>1. 12 + m \in 1..(12 + L) /\ 12 + m \in 1..(18 + L) /\ 12 + m <= 12 + L /\ ~(12 + m <= 12) /\ (12 + m) - 12 = m
    BY <1>1
  <2> QED
    BY <2>1, <1>5, <1>7
<1>10. \A n \in 1..6 : R[12 + L + n] = B[n]
  <2> TAKE n \in 1..6
  <2>1. 12 + L + n \in 1..(18 + L) /\ ~(12 + L + n <= 12 + L) /\ (12 + L + n) - (12 + L) = n
    BY <1>1
  <2> QED
    BY <2>1, <1>7
<1>11. DOMAIN R = 1..(18 + L)
  BY <1>7
<1>12. Placed(i, A, B, R)
  BY <1>7, <1>8, <1>9, <1>10, <1>11 DEF L, M, Placed
<1> QED
  BY <1>0, <1>12

LEMMA OutcomeStops ==
  ASSUME NEW R, DOMAIN R \subseteq Nat, NEW n \in DOMAIN R, StopsAt(R, n)
  PROVE  Outcome(R) = [decision |-> "REFUSE", reasons |-> R[n].says]
<1> DEFINE stopping == {k \in DOMAIN R : R[k].stops}
           first == CHOOSE k \in stopping : \A m \in stopping : k <= m
<1>1. n \in stopping /\ stopping \subseteq Nat /\ \A m \in stopping : ~(m < n)
  BY DEF StopsAt
<1>2. \A m \in stopping : n <= m
  BY <1>1
<1>3. first \in stopping /\ \A m \in stopping : first <= m
  BY <1>1, <1>2
<1>4. first = n
  BY <1>1, <1>2, <1>3
<1>5. stopping # {}
  BY <1>1
<1>6. Outcome(R) = IF stopping # {} THEN [decision |-> "REFUSE", reasons |-> R[first].says]
                   ELSE [decision |-> IF FlattenSeq([k \in DOMAIN R |-> R[k].says]) = <<>> THEN "ALLOW" ELSE "DEFER",
                         reasons |-> FlattenSeq([k \in DOMAIN R |-> R[k].says])]
  BY Zenon DEF Outcome
<1> QED
  BY <1>4, <1>5, <1>6

LEMMA OutcomeGoes ==
  ASSUME NEW R, \A n \in DOMAIN R : ~R[n].stops,
         NEW noted, FlattenSeq([k \in DOMAIN R |-> R[k].says]) = noted
  PROVE  Outcome(R) = [decision |-> IF noted = <<>> THEN "ALLOW" ELSE "DEFER", reasons |-> noted]
<1>1. {k \in DOMAIN R : R[k].stops} = {}
  OBVIOUS
<1> QED
  BY <1>1, Zenon DEF Outcome

---------------------------------------------------------------------------
(* What the port has noted after its n-th rule.                            *)
NotesAfter(i, p, n) ==
  IF n <= 3 THEN <<>> ELSE IF n <= 11 THEN NotedStatus(i)
  ELSE IF n <= 12 + Len(Required) THEN NotedNames(i, n - 12)
  ELSE IF n = 13 + Len(Required) THEN NotedNames(i, Len(Required)) \o SaysInvalid(i)
  ELSE IF n < 12 + Len(Required) + p THEN NotedQuality(i) ELSE NotedSteps(i)

(* What is noted is a sequence: adding nothing to it changes nothing.      *)
LEMMA NotedIsSequence ==
  ASSUME NEW i
  PROVE  /\ NotedStatus(i) \o <<>> = NotedStatus(i)
         /\ NotedQuality(i) \o <<>> = NotedQuality(i) /\ NotedSteps(i) \o <<>> = NotedSteps(i)
<1> DEFINE L == Len(Required)
<1>1. PICK S : NamesLacking(i, L) \in Seq(S)
  <2>1. L \in 0..L
    BY LenFacts
  <2> QED
    BY <2>1, NamesAreASequence
<1> DEFINE T == S \cup {"verification_insufficient_evidence", "runtime_not_healthy", "evidence_quality_invalid",
                        "evidence_quality_below_threshold", "invalid_step_count_metadata"}
<1>2. NamesLacking(i, L) \in Seq(T)
  BY <1>1, SeqMonotonic
<1>3. /\ "verification_insufficient_evidence" \in T /\ "runtime_not_healthy" \in T /\ "evidence_quality_invalid" \in T
      /\ "evidence_quality_below_threshold" \in T /\ "invalid_step_count_metadata" \in T
  OBVIOUS
<1> HIDE DEF T
<1>4. NotedStatus(i) \in Seq(T)
  BY <1>3, WhenFacts DEF NotedStatus
<1>5. NotedRuntime(i) \in Seq(T)
  <2>1. When(i.runtime # "healthy", "runtime_not_healthy") \in Seq(T)
    BY <1>3, WhenFacts
  <2> QED
    BY <1>4, <2>1, ConcatProperties DEF NotedRuntime
<1>6. NotedNames(i, L) \in Seq(T)
  BY <1>2, <1>5, ConcatProperties DEF NotedNames
<1>7. NotedQuality(i) \in Seq(T)
  <2>1. /\ When(i.floor = "set" /\ ReplayQuality(i) = "not in range", "evidence_quality_invalid") \in Seq(T)
        /\ When(i.floor = "set" /\ ReplayQuality(i) = "low", "evidence_quality_below_threshold") \in Seq(T)
    BY <1>3, WhenFacts
  <2> QED
    BY <1>6, <2>1, ConcatProperties DEF NotedQuality
<1>8. NotedSteps(i) \in Seq(T)
  <2>1. When(i.maxSteps # "none" /\ i.stepCount \in {"bool", "fraction", "below 1"}, "invalid_step_count_metadata") \in Seq(T)
    BY <1>3, WhenFacts
  <2> QED
    BY <1>7, <2>1, ConcatProperties DEF NotedSteps
<1> QED
  BY <1>4, <1>7, <1>8, ConcatEmptySeq

LEMMA NotesAfterIs ==
  ASSUME NEW i, NEW p \in {3, 4}, NEW L \in Nat, L = Len(Required), NEW n \in Int
  PROVE  /\ n <= 3 => NotesAfter(i, p, n) = <<>>
         /\ 3 < n /\ n <= 11 => NotesAfter(i, p, n) = NotedStatus(i)
         /\ 11 < n /\ n <= 12 + L => NotesAfter(i, p, n) = NotedNames(i, n - 12)
         /\ n = 13 + L => NotesAfter(i, p, n) = NotedNames(i, L) \o SaysInvalid(i)
         /\ 13 + L < n /\ n < 12 + L + p => NotesAfter(i, p, n) = NotedQuality(i)
         /\ 12 + L + p <= n => NotesAfter(i, p, n) = NotedSteps(i)
BY DEF NotesAfter

(* What a port notes, rule by rule, when nothing stops it: s is what its   *)
(* rules say.                                                              *)
SaysAlike(i, p, L, s) ==
  /\ \A n \in {1, 2, 3, 5, 6, 7, 8, 9, 10, 11} : s[n] = <<>>
  /\ s[4] = NotedStatus(i) /\ s[12] = When(i.runtime # "healthy", "runtime_not_healthy")
  /\ \A m \in 1..L : s[12 + m] = When(i.evidence[Required[m]] # "True", Required[m])
  /\ s[13 + L] = SaysInvalid(i) /\ s[14 + L] = SaysBelow(i) /\ s[12 + L + p] = SaysSteps(i)
  /\ s[12 + L + (7 - p)] = <<>> /\ s[17 + L] = <<>> /\ s[18 + L] = <<>>

Grown(i, p, s, n) == NotesAfter(i, p, n) = IF n = 1 THEN s[n] ELSE NotesAfter(i, p, n - 1) \o s[n]

LEMMA NotesAfterGrow ==
  ASSUME NEW i, NEW p \in {3, 4}, NEW L \in Nat, NEW s, NEW n \in 1..(18 + L), L = Len(Required), SaysAlike(i, p, L, s)
  PROVE  Grown(i, p, s, n)
<1> DEFINE G(k) == NotesAfter(i, p, k)
<1>1. n \in Int /\ n - 1 \in Int /\ 1 <= n /\ n <= 18 + L
  OBVIOUS
<1>2. \A k \in Int :
         /\ k <= 3 => G(k) = <<>>
         /\ 3 < k /\ k <= 11 => G(k) = NotedStatus(i)
         /\ 11 < k /\ k <= 12 + L => G(k) = NotedNames(i, k - 12)
         /\ k = 13 + L => G(k) = NotedNames(i, L) \o SaysInvalid(i)
         /\ 13 + L < k /\ k < 12 + L + p => G(k) = NotedQuality(i)
         /\ 12 + L + p <= k => G(k) = NotedSteps(i)
  BY NotesAfterIs
<1> HIDE DEF G
<1>3. <<>> \o <<>> = <<>> /\ <<>> \o NotedStatus(i) = NotedStatus(i)
  BY DEF NotedStatus, When
<1>4. SUFFICES G(n) = IF n = 1 THEN s[n] ELSE G(n - 1) \o s[n]
  BY DEF G, Grown
<1>5. CASE n <= 3
  <2>1. G(n) = <<>> /\ G(n - 1) = <<>>
    BY <1>1, <1>2, <1>5
  <2>2. s[n] = <<>>
    <3>1. n = 1 \/ n = 2 \/ n = 3
      BY <1>1, <1>5
    <3> QED
      BY <3>1 DEF SaysAlike
  <2> QED
    BY <2>1, <2>2, <1>3
<1>6. CASE n = 4
  <2>1. G(4) = NotedStatus(i) /\ G(3) = <<>> /\ s[4] = NotedStatus(i)
    BY <1>2 DEF SaysAlike
  <2>2. n - 1 = 3 /\ n # 1
    BY <1>6
  <2> QED
    BY <1>3, <1>6, <2>1, <2>2
<1>7. CASE 4 < n /\ n <= 11
  <2>1. G(n) = NotedStatus(i) /\ G(n - 1) = NotedStatus(i) /\ n # 1
    BY <1>1, <1>2, <1>7
  <2>2. s[n] = <<>>
    <3>1. n \in {5, 6, 7, 8, 9, 10, 11}
      BY <1>1, <1>7
    <3> QED
      BY <3>1 DEF SaysAlike
  <2> QED
    BY <2>1, <2>2, NotedIsSequence
<1>8. CASE n = 12
  <2>1. G(12) = NotedNames(i, 0) /\ G(11) = NotedStatus(i) /\ s[12] = When(i.runtime # "healthy", "runtime_not_healthy")
    BY <1>2 DEF SaysAlike
  <2>2. n - 1 = 11 /\ n # 1
    BY <1>8
  <2> QED
    BY <1>8, <2>1, <2>2, NotedFirstNames DEF NotedRuntime
<1>9. CASE 12 < n /\ n <= 12 + L
  <2>1. PICK m \in 1..L : n = 12 + m
    <3>1. n - 12 \in 1..L /\ n = 12 + (n - 12)
      BY <1>1, <1>9
    <3> QED
      BY <3>1
  <2>2. n - 12 = m /\ (n - 1) - 12 = m - 1 /\ n # 1 /\ 11 < n - 1 /\ n - 1 <= 12 + L
    BY <1>1, <1>9, <2>1
  <2>3. G(n) = NotedNames(i, m) /\ G(n - 1) = NotedNames(i, m - 1)
    BY <1>1, <1>2, <1>9, <2>2
  <2>4. s[n] = When(i.evidence[Required[m]] # "True", Required[m])
    BY <2>1 DEF SaysAlike
  <2>5. NotedNames(i, m) = NotedNames(i, m - 1) \o When(i.evidence[Required[m]] # "True", Required[m])
    BY <2>1, NotedNamesGrow
  <2> QED
    BY <2>2, <2>3, <2>4, <2>5
<1>10. CASE n = 13 + L
  <2>1. n - 1 = 12 + L /\ (n - 1) - 12 = L /\ 11 < n - 1 /\ n # 1
    BY <1>10
  <2>2. G(n) = NotedNames(i, L) \o SaysInvalid(i) /\ G(n - 1) = NotedNames(i, L)
    BY <1>1, <1>2, <1>10, <2>1
  <2>3. s[n] = SaysInvalid(i)
    BY <1>10 DEF SaysAlike
  <2> QED
    BY <2>1, <2>2, <2>3
<1>11. CASE n = 14 + L
  <2>1. n - 1 = 13 + L /\ n # 1 /\ 13 + L < n /\ n < 12 + L + p
    BY <1>11
  <2>2. G(n) = NotedQuality(i) /\ G(n - 1) = NotedNames(i, L) \o SaysInvalid(i)
    BY <1>1, <1>2, <2>1
  <2>3. s[n] = SaysBelow(i)
    BY <1>11 DEF SaysAlike
  <2> QED
    BY <2>1, <2>2, <2>3 DEF NotedQuality, SaysInvalid, SaysBelow
<1>12. CASE n = 12 + L + p
  <2>1. n # 1 /\ 13 + L < n - 1 /\ n - 1 < 12 + L + p
    BY <1>12
  <2>2. G(n) = NotedSteps(i) /\ G(n - 1) = NotedQuality(i)
    BY <1>1, <1>2, <1>12, <2>1
  <2>3. s[n] = SaysSteps(i)
    BY <1>12 DEF SaysAlike
  <2> QED
    BY <2>1, <2>2, <2>3 DEF NotedSteps, SaysSteps
<1>13. CASE n # 12 + L + p /\ 14 + L < n
  <2>1. n = 12 + L + (7 - p) \/ n = 17 + L \/ n = 18 + L
    BY <1>1, <1>13
  <2>2. s[n] = <<>>
    BY <2>1 DEF SaysAlike
  <2>3. CASE n < 12 + L + p
    <3>1. n # 1 /\ 13 + L < n - 1 /\ n - 1 < 12 + L + p /\ 13 + L < n
      BY <1>1, <1>13, <2>3
    <3>2. G(n) = NotedQuality(i) /\ G(n - 1) = NotedQuality(i)
      BY <1>1, <1>2, <2>3, <3>1
    <3> QED
      BY <2>2, <3>1, <3>2, NotedIsSequence
  <2>4. CASE 12 + L + p < n
    <3>1. n # 1 /\ 12 + L + p <= n - 1 /\ 12 + L + p <= n
      BY <1>1, <2>4
    <3>2. G(n) = NotedSteps(i) /\ G(n - 1) = NotedSteps(i)
      BY <1>1, <1>2, <3>1
    <3> QED
      BY <2>2, <3>1, <3>2, NotedIsSequence
  <2>5. n < 12 + L + p \/ 12 + L + p < n
    BY <1>1, <1>13
  <2> QED
    BY <2>3, <2>4, <2>5
<1>14. n <= 3 \/ n = 4 \/ (4 < n /\ n <= 11) \/ n = 12 \/ (12 < n /\ n <= 12 + L) \/ n = 13 + L \/ n = 14 + L \/ 14 + L < n
  BY <1>1
<1> QED
  BY <1>5, <1>6, <1>7, <1>8, <1>9, <1>10, <1>11, <1>12, <1>13, <1>14

LEMMA PortNotes ==
  ASSUME NEW i, NEW p \in {3, 4}, NEW L \in Nat, L = Len(Required), NEW s, IsTuple(s, 18 + L), SaysAlike(i, p, L, s)
  PROVE  FlattenSeq(s) = NotedSteps(i)
<1> DEFINE g == [n \in 1..(18 + L) |-> NotesAfter(i, p, n)]
<1>1. 18 + L \in Nat /\ 18 + L # 0 /\ 18 + L \in 1..(18 + L)
  OBVIOUS
<1>2. Len(s) = 18 + L
  BY <1>1 DEF IsTuple
<1>3. \A n \in 1..(18 + L) : g[n] = NotesAfter(i, p, n)
  OBVIOUS
<1>4. \A n \in 1..(18 + L) : n # 1 => n - 1 \in 1..(18 + L)
  OBVIOUS
<1>5. \A n \in 1..(18 + L) : NotesAfter(i, p, n) = IF n = 1 THEN s[n] ELSE NotesAfter(i, p, n - 1) \o s[n]
  <2>1. ASSUME NEW n \in 1..(18 + L) PROVE Grown(i, p, s, n)
    BY NotesAfterGrow
  <2> QED
    BY <2>1 DEF Grown
<1>6. g = [n \in 1..(18 + L) |-> IF n = 1 THEN s[n] ELSE g[n - 1] \o s[n]]
  <2>1. g = [n \in 1..(18 + L) |-> g[n]]
    OBVIOUS
  <2> HIDE DEF g
  <2>2. \A n \in 1..(18 + L) : g[n] = IF n = 1 THEN s[n] ELSE g[n - 1] \o s[n]
    BY <1>3, <1>4, <1>5
  <2> QED
    BY <2>1, <2>2
<1>7. NotesAfter(i, p, 18 + L) = NotedSteps(i)
  <2>1. 18 + L \in Int /\ 12 + L + p <= 18 + L
    OBVIOUS
  <2> QED
    BY <2>1, NotesAfterIs
<1> HIDE DEF g
<1>8. FlattenSeq(s) = g[Len(s)]
  BY <1>1, <1>2, <1>6, FlattenIs
<1> QED
  BY <1>1, <1>2, <1>3, <1>7, <1>8

(* A list of rules that is alike concludes as the verifier does.           *)
LEMMA PortReplays ==
  ASSUME NEW i, NEW A, NEW B, NEW p, FrontAlike(i, A), BackAlike(i, B, p)
  PROVE  Outcome(A \o Missing(i) \o B) = Replay(i)
<1>1. PICK L \in Nat : L = Len(Required)
  BY LenFacts
<1>2. PICK R : R = A \o Missing(i) \o B
  OBVIOUS
<1>3. DOMAIN A = 1..12 /\ DOMAIN B = 1..6
  BY DEF FrontAlike, BackAlike, IsTuple
<1>4. /\ DOMAIN R = 1..(18 + L)
      /\ \A n \in 1..12 : R[n] = A[n]
      /\ \A m \in 1..L : R[12 + m] = Missing(i)[m]
      /\ \A n \in 1..6 : R[12 + L + n] = B[n]
  <2>1. IsTuple(A, 12) /\ IsTuple(B, 6)
    BY DEF FrontAlike, BackAlike
  <2>2. Placed(i, A, B, R)
    BY <1>2, <2>1, RulesAt
  <2> QED
    BY <1>1, <2>2 DEF Placed
<1>5. \A m \in 1..L : ~R[12 + m].stops /\ R[12 + m].says = When(i.evidence[Required[m]] # "True", Required[m])
  <2> TAKE m \in 1..L
  <2>1. R[12 + m] = Missing(i)[m]
    BY <1>4
  <2>2. ~Missing(i)[m].stops /\ Missing(i)[m].says = When(i.evidence[Required[m]] # "True", Required[m])
    BY <1>1, MissingFacts
  <2> QED
    BY <2>1, <2>2, Zenon
<1>6. \A n \in 1..(18 + L) : n \in 1..12 \/ (\E m \in 1..L : n = 12 + m) \/ (\E m \in 1..6 : n = 12 + L + m)
  <2> TAKE n \in 1..(18 + L)
  <2>1. CASE n <= 12
    BY <2>1
  <2>2. CASE 12 < n /\ n <= 12 + L
    <3>1. n - 12 \in 1..L /\ n = 12 + (n - 12)
      BY <2>2
    <3> QED
      BY <3>1
  <2>3. CASE 12 + L < n
    <3>1. PICK m : m = n - (12 + L)
      OBVIOUS
    <3>2. m \in 1..6 /\ n = 12 + L + m
      BY <2>3, <3>1
    <3> QED
      BY <3>2, Zenon
  <2> QED
    BY <2>1, <2>2, <2>3
<1>7. ASSUME NEW n \in DOMAIN R, StopsAt(R, n), First(i, R[n].says) PROVE Outcome(R) = Replay(i)
  <2>1. PICK r \in 1..13 : /\ Refuses(i, r) /\ R[n].says = <<ReplayRefusals(i)[r].why>>
                           /\ \A m \in 1..13 : m < r => ~Refuses(i, m)
    BY <1>7 DEF First
  <2>2. Replay(i) = [decision |-> "REFUSE", reasons |-> <<ReplayRefusals(i)[r].why>>]
    BY <2>1, FirstRule, Zenon DEF Refuses
  <2>3. DOMAIN R \subseteq Nat
    BY <1>4
  <2>4. Outcome(R) = [decision |-> "REFUSE", reasons |-> R[n].says]
    BY <1>7, <2>3, OutcomeStops, Zenon
  <2> QED
    BY <2>1, <2>2, <2>4
<1>8. CASE \E n \in 1..12 : A[n].stops
  <2>1. PICK n \in 1..12 : A[n].stops /\ \A k \in 1..12 : k < n => ~A[k].stops
    <3> DEFINE T == {k \in 1..12 : A[k].stops}
    <3>1. T \in SUBSET Nat /\ T # {}
      BY <1>8
    <3>2. PICK n \in T : \A k \in T : n <= k
      <4> HIDE DEF T
      <4> QED
        BY <3>1, LeastOf
    <3>3. n \in 1..12 /\ A[n].stops /\ \A k \in 1..12 : k < n => ~A[k].stops
      BY <3>2
    <3> QED
      BY <3>3
  <2>2. First(i, A[n].says)
    BY <1>3, <2>1, FrontDecides DEF StopsAt
  <2>3. n \in DOMAIN R /\ R[n] = A[n]
    BY <1>4
  <2>4. StopsAt(R, n)
    <3>1. ASSUME NEW m \in DOMAIN R, m < n PROVE ~R[m].stops
      <4>1. m \in 1..12
        BY <1>4, <3>1
      <4> QED
        BY <1>4, <2>1, <3>1, <4>1
    <3> QED
      BY <2>1, <2>3, <3>1 DEF StopsAt
  <2>5. Outcome(R) = Replay(i)
    BY <1>7, <2>2, <2>3, <2>4
  <2> QED
    BY <1>2, <2>5
<1>9. CASE (\A n \in 1..12 : ~A[n].stops) /\ \E n \in 1..6 : B[n].stops
  <2>1. PICK n \in 1..6 : B[n].stops /\ \A k \in 1..6 : k < n => ~B[k].stops
    <3> DEFINE T == {k \in 1..6 : B[k].stops}
    <3>1. T \in SUBSET Nat /\ T # {}
      BY <1>9
    <3>2. PICK n \in T : \A k \in T : n <= k
      <4> HIDE DEF T
      <4> QED
        BY <3>1, LeastOf
    <3>3. n \in 1..6 /\ B[n].stops /\ \A k \in 1..6 : k < n => ~B[k].stops
      BY <3>2
    <3> QED
      BY <3>3
  <2>2. \A r \in 1..10 : ~Refuses(i, r)
    BY <1>9, FrontDecides
  <2>3. First(i, B[n].says)
    BY <1>3, <2>1, <2>2, BackDecides DEF StopsAt
  <2>4. PICK q : q = 12 + L + n
    OBVIOUS
  <2>5. q \in DOMAIN R /\ R[q] = B[n]
    <3>1. q \in 1..(18 + L)
      BY <2>4
    <3> QED
      BY <1>4, <2>4, <3>1
  <2>6. StopsAt(R, q)
    <3>1. ASSUME NEW m \in DOMAIN R, m < q PROVE ~R[m].stops
      <4>1. m \in 1..(18 + L)
        BY <1>4, <3>1
      <4>2. CASE m \in 1..12
        BY <1>4, <1>9, <4>2
      <4>3. CASE \E k \in 1..L : m = 12 + k
        BY <1>5, <4>3
      <4>4. ASSUME NEW k \in 1..6, m = 12 + L + k PROVE ~R[m].stops
        <5>1. k < n
          BY <2>4, <3>1, <4>4
        <5> QED
          BY <1>4, <2>1, <4>4, <5>1
      <4> QED
        BY <1>6, <4>1, <4>2, <4>3, <4>4
    <3> QED
      BY <2>1, <2>5, <3>1 DEF StopsAt
  <2>7. Outcome(R) = Replay(i)
    BY <1>7, <2>3, <2>5, <2>6
  <2> QED
    BY <1>2, <2>7
<1>10. CASE (\A n \in 1..12 : ~A[n].stops) /\ \A n \in 1..6 : ~B[n].stops
  <2>1. Quiet(i)
    BY <1>10, FrontDecides, BackDecides
  <2>2. Replay(i) = [decision |-> IF ReplayDeferrals(i) = <<>> THEN "ALLOW" ELSE "DEFER", reasons |-> ReplayDeferrals(i)]
    BY <2>1, NoRule, Zenon DEF Quiet, Refuses
  <2>3. ReplayDeferrals(i) = NotedSteps(i)
    BY DEF ReplayDeferrals, NotedSteps, NotedQuality, NotedNames, NotedRuntime, NotedStatus, When
  <2>4. PICK s : s = [n \in DOMAIN R |-> R[n].says]
    OBVIOUS
  <2>5. IsTuple(s, 18 + L) /\ \A n \in 1..(18 + L) : s[n] = R[n].says
    BY <1>4, <2>4 DEF IsTuple
  <2>6. p \in {3, 4} /\ 7 - p \in {3, 4}
    BY DEF BackAlike
  <2>7. SaysAlike(i, p, L, s)
    <3>1. \A n \in 1..12 : s[n] = A[n].says
      <4> TAKE n \in 1..12
      <4>1. n \in 1..(18 + L)
        OBVIOUS
      <4> QED
        BY <1>4, <2>5, <4>1
    <3>2. \A n \in {1, 2, 3, 5, 6, 7, 8, 9, 10, 11} : s[n] = <<>>
      BY <1>10, <3>1 DEF FrontAlike, When
    <3>3. s[4] = NotedStatus(i) /\ s[12] = When(i.runtime # "healthy", "runtime_not_healthy")
      BY <1>10, <3>1 DEF FrontAlike
    <3>4. \A m \in 1..L : s[12 + m] = When(i.evidence[Required[m]] # "True", Required[m])
      <4> TAKE m \in 1..L
      <4>1. 12 + m \in 1..(18 + L)
        OBVIOUS
      <4> QED
        BY <1>5, <2>5, <4>1
    <3>5. \A n \in 1..6 : s[12 + L + n] = B[n].says
      <4> TAKE n \in 1..6
      <4>1. 12 + L + n \in 1..(18 + L)
        OBVIOUS
      <4> QED
        BY <1>4, <2>5, <4>1
    <3>6. B[p].says = SaysSteps(i) /\ B[7 - p].says = <<>> /\ B[5].says = <<>> /\ B[6].says = <<>>
          /\ B[1].says = SaysInvalid(i) /\ B[2].says = SaysBelow(i)
      BY <1>10, <2>6 DEF BackAlike, When
    <3>7. 13 + L = 12 + L + 1 /\ 14 + L = 12 + L + 2 /\ 17 + L = 12 + L + 5 /\ 18 + L = 12 + L + 6
      OBVIOUS
    <3>8. /\ s[13 + L] = B[1].says /\ s[14 + L] = B[2].says /\ s[17 + L] = B[5].says /\ s[18 + L] = B[6].says
          /\ s[12 + L + p] = B[p].says /\ s[12 + L + (7 - p)] = B[7 - p].says
      BY <2>6, <3>5, <3>7
    <3> QED
      BY <3>2, <3>3, <3>4, <3>6, <3>8 DEF SaysAlike
  <2>8. FlattenSeq(s) = NotedSteps(i)
    BY <1>1, <2>5, <2>6, <2>7, PortNotes
  <2>9. \A n \in DOMAIN R : ~R[n].stops
    <3> TAKE m \in DOMAIN R
    <3>1. m \in 1..(18 + L)
      BY <1>4
    <3>2. CASE m \in 1..12
      BY <1>4, <1>10, <3>2
    <3>3. CASE \E k \in 1..L : m = 12 + k
      BY <1>5, <3>3
    <3>4. CASE \E k \in 1..6 : m = 12 + L + k
      BY <1>4, <1>10, <3>4
    <3> QED
      BY <1>6, <3>1, <3>2, <3>3, <3>4
  <2>10. Outcome(R) = [decision |-> IF NotedSteps(i) = <<>> THEN "ALLOW" ELSE "DEFER", reasons |-> NotedSteps(i)]
    BY <2>4, <2>8, <2>9, OutcomeGoes, Zenon
  <2> QED
    BY <1>2, <2>2, <2>3, <2>10
<1> QED
  BY <1>8, <1>9, <1>10

---------------------------------------------------------------------------
(* What every port makes of the request and of what the policy lists.      *)
LEMMA DigitOne == Digits(1) = <<1>>
<1>1. 4 ^ 0 = 1 /\ 4 ^ 1 = 4 /\ 4 ^ 2 = 16 /\ 4 ^ 3 = 64 /\ 4 ^ 4 = 256 /\ 4 ^ 5 = 1024
  OBVIOUS
<1> DEFINE P(d) == 1 < 4 ^ d /\ (d = 1 \/ 4 ^ (d - 1) <= 1)
           most == CHOOSE d \in 1..6 : P(d)
<1>2. P(1)
  BY <1>1
<1>3. \A d \in 1..6 : P(d) => d = 1
  <2> SUFFICES ASSUME NEW d \in 1..6, P(d), d # 1 PROVE FALSE
    OBVIOUS
  <2>1. PICK e : e = d - 1
    OBVIOUS
  <2>2. 4 ^ e <= 1
    BY <2>1
  <2>3. e = 1 \/ e = 2 \/ e = 3 \/ e = 4 \/ e = 5
    BY <2>1
  <2>4. CASE e = 1
    BY <1>1, <2>2, <2>4
  <2>5. CASE e = 2
    BY <1>1, <2>2, <2>5
  <2>6. CASE e = 3
    BY <1>1, <2>2, <2>6
  <2>7. CASE e = 4
    BY <1>1, <2>2, <2>7
  <2>8. CASE e = 5
    BY <1>1, <2>2, <2>8
  <2> QED
    BY <2>3, <2>4, <2>5, <2>6, <2>7, <2>8
<1> HIDE DEF P
<1>4. most = 1
  BY <1>2, <1>3
<1>5. Digits(1) = [q \in 1..most |-> (1 \div 4 ^ (most - q)) % 4]
  BY Zenon DEF Digits, P
<1>6. Digits(1) = [q \in 1..1 |-> (1 \div 4 ^ (1 - q)) % 4]
  BY <1>4, <1>5
<1>7. \A q \in 1..1 : (1 \div 4 ^ (1 - q)) % 4 = 1
  BY <1>1
<1>8. [q \in 1..1 |-> (1 \div 4 ^ (1 - q)) % 4] = <<1>>
  BY <1>7
<1> QED
  BY <1>6, <1>8

LEMMA OneFacts ==
  /\ Whole(1).is = "num" /\ Whole(1).neg = FALSE /\ Whole(1).size = 4 /\ Whole(1).whole = TRUE
  /\ Bool(TRUE).is = "bool" /\ Bool(TRUE).b = TRUE /\ ~IsIntLiteral(Bool(TRUE))
  /\ \A s : Str(s).is = "str" /\ Str(s).s = s
  /\ Null.is = "null"
<1>1. (1 < 0) = FALSE /\ 4 * 1 = 4
  OBVIOUS
<1>2. Whole(1) = [is |-> "num", neg |-> FALSE, size |-> 4, whole |-> TRUE]
  BY <1>1, Zenon DEF Whole
<1>3. Bool(TRUE) = [is |-> "bool", b |-> TRUE]
  BY Zenon DEF Bool
<1>4. \A w, x, y, z, v : v = [is |-> w, neg |-> x, size |-> y, whole |-> z] => v.neg = x /\ v.whole = z
  OBVIOUS
<1>5. \A w, x : [is |-> w, b |-> x].is = w /\ [is |-> w, b |-> x].b = x
  OBVIOUS
<1>6. Whole(1).is = "num" /\ Whole(1).neg = FALSE /\ Whole(1).size = 4 /\ Whole(1).whole = TRUE
  <2>1. Whole(1).is = "num" /\ Whole(1).size = 4
    BY <1>2
  <2>2. \A v : v = [is |-> "num", neg |-> FALSE, size |-> 4, whole |-> TRUE] => v.neg = FALSE /\ v.whole = TRUE
    BY <1>4
  <2>3. Whole(1).neg = FALSE /\ Whole(1).whole = TRUE
    BY <1>2, <2>2, Zenon
  <2> QED
    BY <2>1, <2>3, Zenon
<1>7. Bool(TRUE).is = "bool" /\ Bool(TRUE).b = TRUE
  BY <1>3, <1>5, Zenon
<1>8. (\A s : Str(s).is = "str" /\ Str(s).s = s) /\ Null.is = "null"
  BY DEF Str, Null
<1>9. ~IsIntLiteral(Bool(TRUE))
  BY <1>7 DEF IsIntLiteral, IsNum
<1> QED
  BY <1>6, <1>7, <1>8, <1>9, Zenon

Same(i) == i.allowOnly \in {"list with it", "list without it", "list of true"}

(* A request is made, ...                                                  *)
LEMMA AlikePresent ==
  ASSUME NEW i
  PROVE  /\ GoPresent(Requested(i)) <=> i.action \notin {"None", "unnamed"}
         /\ RustPresent(Requested(i)) <=> i.action \notin {"None", "unnamed"}
         /\ Truthy(Requested(i)) <=> i.action \notin {"None", "unnamed"}
<1>1. CASE i.action = "None"
  <2>1. Requested(i) = Null
    BY <1>1 DEF Requested
  <2>2. ~GoPresent(Null) /\ ~RustPresent(Null) /\ ~Truthy(Null)
    BY OneFacts DEF GoPresent, RustPresent, Truthy, IsIntLiteral, IsNum
  <2> QED
    BY <1>1, <2>1, <2>2
<1>2. CASE i.action = "unnamed"
  <2>1. Requested(i) = Str("")
    BY <1>2 DEF Requested
  <2>2. ~GoPresent(Str("")) /\ ~RustPresent(Str("")) /\ ~Truthy(Str(""))
    BY OneFacts DEF GoPresent, RustPresent, Truthy, IsIntLiteral, IsNum
  <2> QED
    BY <1>2, <2>1, <2>2
<1>3. CASE i.action = "one"
  <2>1. Requested(i) = Whole(1)
    BY <1>3 DEF Requested
  <2>2. GoPresent(Whole(1))
    <3>1. WithSign(Whole(1).neg, Whole(1).size) = 4
      BY OneFacts, Zenon DEF WithSign
    <3>2. 4 # 0
      OBVIOUS
    <3> QED
      BY <3>1, <3>2, OneFacts, Zenon DEF GoPresent, IsIntLiteral, IsNum
  <2>3. RustPresent(Whole(1))
    <3>1. IntParts(Whole(1)).digits = <<1>>
      BY OneFacts, DigitOne DEF IntParts
    <3>2. <<1>> # <<0>>
      OBVIOUS
    <3> QED
      BY <3>1, <3>2, OneFacts DEF RustPresent, IsIntLiteral, IsNum
  <2>4. Truthy(Whole(1))
    <3>1. 4 # 0
      OBVIOUS
    <3> QED
      BY <3>1, OneFacts, Zenon DEF Truthy
  <2> QED
    BY <1>3, <2>1, <2>2, <2>3, <2>4
<1>4. CASE i.action \notin {"None", "unnamed", "one"}
  <2>1. Requested(i) = Str("it")
    BY <1>4 DEF Requested
  <2>2. GoPresent(Str("it")) /\ RustPresent(Str("it")) /\ Truthy(Str("it"))
    BY OneFacts DEF GoPresent, RustPresent, Truthy, IsIntLiteral, IsNum
  <2> QED
    BY <1>4, <2>1, <2>2
<1> QED
  BY <1>1, <1>2, <1>3, <1>4

LEMMA AlikeStrings ==
  ASSUME NEW a, NEW b
  PROVE  /\ PyEq(Str(a), Str(b)) <=> a = b
         /\ RustEq(Str(a), Str(b)) <=> a = b
         /\ PyEqual(Str(a), Str(b)) <=> a = b
<1>1. Str(a) = Str(b) <=> a = b
  BY OneFacts
<1> QED
  BY <1>1, OneFacts DEF PyEq, RustEq, PyEqual, GoEqAtom, RustEqAtom, SameAtom, Numeric

LEMMA AlikeMixed ==
  ASSUME NEW a, NEW b
  PROVE  /\ ~PyEq(Str(a), Bool(TRUE)) /\ ~RustEq(Str(a), Bool(TRUE)) /\ ~PyEqual(Str(a), Bool(TRUE))
         /\ ~PyEq(Whole(1), Str(b)) /\ ~RustEq(Whole(1), Str(b)) /\ ~PyEqual(Whole(1), Str(b))
<1>1. Str(a) # Bool(TRUE) /\ Whole(1) # Str(b)
  BY OneFacts
<1> QED
  BY <1>1, OneFacts DEF PyEq, RustEq, PyEqual, GoEqAtom, RustEqAtom, SameAtom, Numeric

(* One is true: the number in a list of the Boolean.                       *)
LEMMA AlikeOne == PyEq(Whole(1), Bool(TRUE)) /\ RustEq(Whole(1), Bool(TRUE)) /\ PyEqual(Whole(1), Bool(TRUE))
<1>1. Numeric(Whole(1)) /\ Numeric(Bool(TRUE)) /\ IsIntLiteral(Whole(1))
  BY OneFacts DEF Numeric, IsIntLiteral, IsNum
<1>2. PyEq(Whole(1), Bool(TRUE))
  <2>1. AsPNum(Whole(1)) = [rat |-> <<4>>, inf |-> 0]
    BY <1>1, OneFacts DEF AsPNum, WithSign
  <2>2. AsPNum(Bool(TRUE)) = [rat |-> <<4>>, inf |-> 0]
    <3>1. (IF Bool(TRUE).b THEN 4 ELSE 0) = 4
      BY OneFacts, Zenon
    <3>2. AsPNum(Bool(TRUE)) = [rat |-> <<IF Bool(TRUE).b THEN 4 ELSE 0>>, inf |-> 0]
      BY OneFacts, Zenon DEF AsPNum
    <3> QED
      BY <3>1, <3>2, Zenon
  <2>3. GoEqAtom(Whole(1), Bool(TRUE))
    BY <1>1, <2>1, <2>2 DEF GoEqAtom
  <2> QED
    BY <2>3, OneFacts DEF PyEq
<1>3. RustEq(Whole(1), Bool(TRUE))
  <2>1. IntParts(Whole(1)) = [neg |-> FALSE, digits |-> <<1>>]
    <3>1. 4 # 0 /\ 4 \div 4 = 1
      OBVIOUS
    <3> QED
      BY <3>1, OneFacts, DigitOne, Zenon DEF IntParts
  <2>2. NumV(Whole(1)) = [int |-> TRUE, parts |-> [neg |-> FALSE, digits |-> <<1>>]]
    BY <1>1, <2>1, OneFacts DEF NumV
  <2>3. NumV(Bool(TRUE)) = [int |-> TRUE, parts |-> [neg |-> FALSE, digits |-> <<1>>]]
    <3>1. (IF Bool(TRUE).b THEN 1 ELSE 0) = 1
      BY OneFacts, Zenon
    <3>2. NumV(Bool(TRUE)) = [int |-> TRUE, parts |-> [neg |-> FALSE, digits |-> <<IF Bool(TRUE).b THEN 1 ELSE 0>>]]
      BY OneFacts, Zenon DEF NumV
    <3> QED
      BY <3>1, <3>2, Zenon
  <2>4. NumEq(NumV(Whole(1)), NumV(Bool(TRUE)))
    BY <2>2, <2>3 DEF NumEq
  <2> QED
    BY <1>1, <2>4 DEF RustEq, RustEqAtom
<1>4. PyEqual(Whole(1), Bool(TRUE))
  <2>1. Value(Whole(1)) = [inf |-> FALSE, quarters |-> 4]
    BY <1>1, OneFacts DEF Value, WithSign
  <2>2. Value(Bool(TRUE)) = [inf |-> FALSE, quarters |-> 4]
    <3>1. (IF Bool(TRUE).b THEN 4 ELSE 0) = 4
      BY OneFacts, Zenon
    <3>2. Value(Bool(TRUE)) = [inf |-> FALSE, quarters |-> IF Bool(TRUE).b THEN 4 ELSE 0]
      BY OneFacts, Zenon DEF Value
    <3> QED
      BY <3>1, <3>2, Zenon
  <2> QED
    BY <1>1, <2>1, <2>2, OneFacts DEF PyEqual, SameAtom
<1> QED
  BY <1>2, <1>3, <1>4

(* ... and it is in the policy's list or not.                              *)
LEMMA AlikeListed ==
  ASSUME NEW i, Same(i), i.action \notin {"None", "unnamed"}
  PROVE  /\ (\E m \in Permitted(i) : PyEq(Requested(i), m)) <=> Listed(i)
         /\ (\E m \in Permitted(i) : RustEq(Requested(i), m)) <=> Listed(i)
         /\ (\E m \in Permitted(i) : PyEqual(Requested(i), m)) <=> Listed(i)
<1>1. i.action = "one" => Requested(i) = Whole(1)
  BY DEF Requested
<1>2. i.action # "one" => Requested(i) = Str("it")
  BY DEF Requested
<1>3. /\ i.allowOnly = "list with it" => Permitted(i) = {Str("it")}
      /\ i.allowOnly = "list of true" => Permitted(i) = {Bool(TRUE)}
      /\ i.allowOnly = "list without it" => Permitted(i) = {Str("other")}
  BY DEF Permitted
<1>4. /\ PyEq(Str("it"), Str("it")) /\ RustEq(Str("it"), Str("it")) /\ PyEqual(Str("it"), Str("it"))
      /\ ~PyEq(Str("it"), Str("other")) /\ ~RustEq(Str("it"), Str("other")) /\ ~PyEqual(Str("it"), Str("other"))
  <2>1. "it" # "other"
    OBVIOUS
  <2> QED
    BY <2>1, AlikeStrings
<1>5. CASE i.action = "one"
  <2>1. Listed(i) <=> i.allowOnly = "list of true"
    BY <1>5 DEF Listed
  <2>2. CASE i.allowOnly = "list of true"
    <3>1. Requested(i) = Whole(1) /\ Permitted(i) = {Bool(TRUE)}
      BY <1>1, <1>3, <1>5, <2>2
    <3> QED
      BY <2>1, <2>2, <3>1, AlikeOne, Zenon
  <2>3. CASE i.allowOnly # "list of true"
    <3>1. Requested(i) = Whole(1) /\ (Permitted(i) = {Str("it")} \/ Permitted(i) = {Str("other")})
      BY <1>1, <1>3, <1>5, <2>3 DEF Same
    <3> QED
      BY <2>1, <2>3, <3>1, AlikeMixed, Zenon
  <2> QED
    BY <2>2, <2>3
<1>6. CASE i.action # "one"
  <2>1. Listed(i) <=> i.allowOnly = "list with it"
    BY <1>6 DEF Listed, Same
  <2>2. CASE i.allowOnly = "list with it"
    <3>1. Requested(i) = Str("it") /\ Permitted(i) = {Str("it")}
      BY <1>2, <1>3, <1>6, <2>2
    <3> QED
      BY <1>4, <2>1, <2>2, <3>1, Zenon
  <2>3. CASE i.allowOnly = "list of true"
    <3>1. Requested(i) = Str("it") /\ Permitted(i) = {Bool(TRUE)} /\ i.allowOnly # "list with it"
      BY <1>2, <1>3, <1>6, <2>3
    <3> QED
      BY <2>1, <3>1, AlikeMixed, Zenon
  <2>4. CASE i.allowOnly = "list without it"
    <3>1. Requested(i) = Str("it") /\ Permitted(i) = {Str("other")} /\ i.allowOnly # "list with it"
      BY <1>2, <1>3, <1>6, <2>4
    <3> QED
      BY <1>4, <2>1, <3>1, Zenon
  <2> QED
    BY <2>2, <2>3, <2>4 DEF Same
<1> QED
  BY <1>5, <1>6

---------------------------------------------------------------------------
(* What a port is given: the kinds of each field, as JSON has them.        *)
PortInput(i) ==
  /\ i.status \in {"PASS", "INSUFFICIENT_EVIDENCE", "FAIL", "REFUTED", "absent", "misspelt"}
  /\ i.parent \in {"none", "unregistered", "unauthorized", "truthy", "authorized"}
  /\ i.runtime \in {"healthy", "degraded", "unknown"}
  /\ i.floor \in {"none", "set"}
  /\ i.quality \in {"absent", "text", "not in range", "low", "high"}
  /\ i.metaQuality \in {"absent", "text", "not in range", "low", "high"}
  /\ i.stepCount \in {"absent", "within", "over", "bool", "fraction", "below 1"}
  /\ i.allowOnly \in {"none", "list with it", "list without it", "list of true", "text"}

LEMMA StopIs ==
  ASSUME NEW c, NEW why
  PROVE  (Stop(c, why).stops <=> c) /\ Stop(c, why).says = When(Stop(c, why).stops, why)
<1>1. \A x, y : [stops |-> x, says |-> y].stops = x /\ [stops |-> x, says |-> y].says = y
  OBVIOUS
<1>2. Stop(c, why).stops = c /\ Stop(c, why).says = When(c, why)
  BY <1>1, WhenIsWhy, Zenon DEF Stop
<1> QED
  BY <1>2, Zenon

LEMMA NoteIs ==
  ASSUME NEW c, NEW why
  PROVE  ~Note(c, why).stops /\ Note(c, why).says = When(c, why)
<1>1. \A y : [stops |-> FALSE, says |-> y].stops = FALSE /\ [stops |-> FALSE, says |-> y].says = y
  OBVIOUS
<1> QED
  BY <1>1, WhenIsWhy, Zenon DEF Note

(* What stops or is noted says it, and what does not says nothing.         *)
LEMMA WhenSame == ASSUME NEW c, NEW d, NEW why, c <=> d PROVE When(c, why) = When(d, why)
BY Zenon DEF When

(* The rules of a port before the required evidence, of which it writes    *)
(* four in its own way, and those after it.                                *)
FrontRules(i, c, d, e, f) ==
  <<Stop(i.digest = "empty", "missing_input_digest"),
    Stop(c, "verification_not_passed"),
    Stop(StatusOf(i) = "REFUTED", "verification_refuted"),
    Note(StatusOf(i) = "INSUFFICIENT_EVIDENCE", "verification_insufficient_evidence"),
    Stop(i.capability = "None", "capability_missing"),
    Stop(i.authorized # "True", "capability_not_authorized"),
    Stop(i.parent # "none" /\ i.registry = "None", "capability_parent_requires_registry"),
    Stop(i.parent = "unregistered", "capability_parent_missing"),
    Stop(d, "capability_parent_not_authorized"),
    Stop(i.action = "of another", "action_capability_mismatch"),
    Stop(e, "runtime_state_unavailable"),
    Note(f, "runtime_not_healthy")>>

LEMMA FrontBuilt ==
  ASSUME NEW i, PortInput(i), NEW c, NEW d, NEW e, NEW f,
         c <=> i.status \notin {"PASS", "INSUFFICIENT_EVIDENCE", "REFUTED"},
         d => i.parent \notin {"none", "authorized"},
         i.parent \notin {"none", "authorized", "unregistered"} => d,
         e <=> i.runtime = "unknown",
         i.runtime # "unknown" => (f <=> i.runtime # "healthy")
  PROVE  FrontAlike(i, FrontRules(i, c, d, e, f))
<1> DEFINE a1 == Stop(i.digest = "empty", "missing_input_digest")
           a2 == Stop(c, "verification_not_passed")
           a3 == Stop(StatusOf(i) = "REFUTED", "verification_refuted")
           a4 == Note(StatusOf(i) = "INSUFFICIENT_EVIDENCE", "verification_insufficient_evidence")
           a5 == Stop(i.capability = "None", "capability_missing")
           a6 == Stop(i.authorized # "True", "capability_not_authorized")
           a7 == Stop(i.parent # "none" /\ i.registry = "None", "capability_parent_requires_registry")
           a8 == Stop(i.parent = "unregistered", "capability_parent_missing")
           a9 == Stop(d, "capability_parent_not_authorized")
           a10 == Stop(i.action = "of another", "action_capability_mismatch")
           a11 == Stop(e, "runtime_state_unavailable")
           a12 == Note(f, "runtime_not_healthy")
<1>0. FrontRules(i, c, d, e, f) = <<a1, a2, a3, a4, a5, a6, a7, a8, a9, a10, a11, a12>>
  BY Zenon DEF FrontRules
<1>2. (a1.stops <=> i.digest = "empty") /\ a1.says = When(a1.stops, "missing_input_digest")
  BY StopIs, Zenon
<1>3. (a2.stops <=> c) /\ a2.says = When(a2.stops, "verification_not_passed")
  BY StopIs, Zenon
<1>4. (a3.stops <=> StatusOf(i) = "REFUTED") /\ a3.says = When(a3.stops, "verification_refuted")
  BY StopIs, Zenon
<1>5. ~a4.stops /\ a4.says = When(StatusOf(i) = "INSUFFICIENT_EVIDENCE", "verification_insufficient_evidence")
  BY NoteIs, Zenon
<1>6. (a5.stops <=> i.capability = "None") /\ a5.says = When(a5.stops, "capability_missing")
  BY StopIs, Zenon
<1>7. (a6.stops <=> i.authorized # "True") /\ a6.says = When(a6.stops, "capability_not_authorized")
  BY StopIs, Zenon
<1>8. (a7.stops <=> (i.parent # "none" /\ i.registry = "None")) /\ a7.says = When(a7.stops, "capability_parent_requires_registry")
  BY StopIs, Zenon
<1>9. (a8.stops <=> i.parent = "unregistered") /\ a8.says = When(a8.stops, "capability_parent_missing")
  BY StopIs, Zenon
<1>10. (a9.stops <=> d) /\ a9.says = When(a9.stops, "capability_parent_not_authorized")
  BY StopIs, Zenon
<1>11. (a10.stops <=> i.action = "of another") /\ a10.says = When(a10.stops, "action_capability_mismatch")
  BY StopIs, Zenon
<1>12. (a11.stops <=> e) /\ a11.says = When(a11.stops, "runtime_state_unavailable")
  BY StopIs, Zenon
<1>13. ~a12.stops /\ a12.says = When(f, "runtime_not_healthy")
  BY NoteIs, Zenon
<1> HIDE DEF a1, a2, a3, a4, a5, a6, a7, a8, a9, a10, a11, a12
<1> DEFINE A == <<a1, a2, a3, a4, a5, a6, a7, a8, a9, a10, a11, a12>>
<1>1. /\ IsTuple(A, 12)
      /\ A[1] = a1 /\ A[2] = a2 /\ A[3] = a3 /\ A[4] = a4
      /\ A[5] = a5 /\ A[6] = a6 /\ A[7] = a7 /\ A[8] = a8
      /\ A[9] = a9 /\ A[10] = a10 /\ A[11] = a11 /\ A[12] = a12
  BY DEF IsTuple
<1> HIDE DEF A
<1>14. StatusOf(i) = "REFUTED" <=> i.status = "REFUTED"
  BY DEF StatusOf, PortInput
<1>15. StatusOf(i) = "INSUFFICIENT_EVIDENCE" <=> i.status = "INSUFFICIENT_EVIDENCE"
  BY DEF StatusOf, PortInput
<1>16. a4.says = NotedStatus(i)
  BY <1>5, <1>15, WhenSame, Zenon DEF NotedStatus
<1>17. i.runtime # "unknown" => a12.says = When(i.runtime # "healthy", "runtime_not_healthy")
  BY <1>13, WhenSame, Zenon
<1>18. /\ Refuses(i, 1) <=> i.digest = "empty"
       /\ Refuses(i, 2) <=> i.status = "REFUTED"
       /\ Refuses(i, 3) <=> i.status \notin {"PASS", "INSUFFICIENT_EVIDENCE", "REFUTED"}
       /\ Refuses(i, 4) <=> i.capability = "None"
       /\ Refuses(i, 5) <=> i.authorized # "True"
       /\ Refuses(i, 6) <=> i.parent # "none" /\ i.registry = "None"
       /\ Refuses(i, 7) <=> i.parent = "unregistered"
       /\ Refuses(i, 8) <=> i.parent \notin {"none", "authorized"}
       /\ Refuses(i, 9) <=> i.action = "of another"
       /\ Refuses(i, 10) <=> i.runtime \notin {"healthy", "degraded"}
  BY FailsOf, Zenon DEF Refuses
<1>19. i.runtime \notin {"healthy", "degraded"} <=> i.runtime = "unknown"
  BY DEF PortInput
<1>20. FrontAlike(i, A)
  <2>1. /\ a1.stops <=> Refuses(i, 1)
        /\ a2.stops <=> Refuses(i, 3)
        /\ a3.stops <=> Refuses(i, 2)
    BY <1>2, <1>3, <1>4, <1>14, <1>18, Zenon
  <2>2. /\ a5.stops <=> Refuses(i, 4)
        /\ a6.stops <=> Refuses(i, 5)
        /\ a7.stops <=> Refuses(i, 6)
        /\ a8.stops <=> Refuses(i, 7)
    BY <1>6, <1>7, <1>8, <1>9, <1>18, Zenon
  <2>3. /\ a9.stops => Refuses(i, 8)
        /\ Refuses(i, 8) => a8.stops \/ a9.stops
    <3>1. d => Refuses(i, 8)
      BY <1>18
    <3>2. Refuses(i, 8) => i.parent = "unregistered" \/ d
      BY <1>18
    <3> QED
      BY <3>1, <3>2, <1>9, <1>10, Zenon
  <2>4. /\ a10.stops <=> Refuses(i, 9)
        /\ a11.stops <=> Refuses(i, 10)
    BY <1>11, <1>12, <1>18, <1>19, Zenon
  <2>5. ~Refuses(i, 10) => a12.says = When(i.runtime # "healthy", "runtime_not_healthy")
    BY <1>17, <1>18, <1>19, Zenon
  <2>6. /\ A[1].stops <=> Refuses(i, 1)
        /\ A[2].stops <=> Refuses(i, 3)
        /\ A[3].stops <=> Refuses(i, 2)
        /\ ~A[4].stops
        /\ A[5].stops <=> Refuses(i, 4)
        /\ A[6].stops <=> Refuses(i, 5)
        /\ A[7].stops <=> Refuses(i, 6)
        /\ A[8].stops <=> Refuses(i, 7)
        /\ A[9].stops => Refuses(i, 8)
        /\ Refuses(i, 8) => A[8].stops \/ A[9].stops
        /\ A[10].stops <=> Refuses(i, 9)
        /\ A[11].stops <=> Refuses(i, 10)
        /\ ~A[12].stops
    BY <1>1, <1>5, <1>13, <2>1, <2>2, <2>3, <2>4, Zenon
  <2>7. /\ A[1].says = When(A[1].stops, "missing_input_digest")
        /\ A[2].says = When(A[2].stops, "verification_not_passed")
        /\ A[3].says = When(A[3].stops, "verification_refuted")
        /\ A[4].says = NotedStatus(i)
        /\ A[5].says = When(A[5].stops, "capability_missing")
        /\ A[6].says = When(A[6].stops, "capability_not_authorized")
    BY <1>1, <1>2, <1>3, <1>4, <1>6, <1>7, <1>16, Zenon
  <2>8. /\ A[7].says = When(A[7].stops, "capability_parent_requires_registry")
        /\ A[8].says = When(A[8].stops, "capability_parent_missing")
        /\ A[9].says = When(A[9].stops, "capability_parent_not_authorized")
        /\ A[10].says = When(A[10].stops, "action_capability_mismatch")
        /\ A[11].says = When(A[11].stops, "runtime_state_unavailable")
        /\ ~Refuses(i, 10) => A[12].says = When(i.runtime # "healthy", "runtime_not_healthy")
    BY <1>1, <1>8, <1>9, <1>10, <1>11, <1>12, <2>5, Zenon
  <2> QED
    BY <1>1, <2>6, <2>7, <2>8, Zenon DEF FrontAlike
<1> QED
  BY <1>0, <1>20 DEF A

BackRules(i, c, d, e, f, g) ==
  <<Note(c, "evidence_quality_invalid"),
    Note(d, "evidence_quality_below_threshold"),
    Note(e, "invalid_step_count_metadata"),
    Stop(f, "capability_max_steps_exceeded"),
    Stop(i.allowOnly = "text", "policy_invalid"),
    Stop(g, "action_not_permitted_by_policy")>>

BackRulesTurned(i, c, d, e, f, g) ==
  <<Note(c, "evidence_quality_invalid"),
    Note(d, "evidence_quality_below_threshold"),
    Stop(f, "capability_max_steps_exceeded"),
    Note(e, "invalid_step_count_metadata"),
    Stop(i.allowOnly = "text", "policy_invalid"),
    Stop(g, "action_not_permitted_by_policy")>>

OwnBack(i, c, d, e, f, g) ==
  /\ c <=> i.floor = "set" /\ ReplayQuality(i) = "not in range"
  /\ d <=> i.floor = "set" /\ ReplayQuality(i) = "low"
  /\ e <=> i.maxSteps # "none" /\ i.stepCount \in {"bool", "fraction", "below 1"}
  /\ f <=> i.maxSteps # "none" /\ i.stepCount = "over"
  /\ i.allowOnly # "text" => (g <=> i.action \notin {"None", "unnamed"} /\ i.allowOnly # "none" /\ ~Listed(i))

LEMMA BackBuilt ==
  ASSUME NEW i, PortInput(i), NEW c, NEW d, NEW e, NEW f, NEW g, OwnBack(i, c, d, e, f, g), NEW p \in {3, 4}, NEW B,
         IsTuple(B, 6),
         B[1] = Note(c, "evidence_quality_invalid"),
         B[2] = Note(d, "evidence_quality_below_threshold"),
         B[p] = Note(e, "invalid_step_count_metadata"),
         B[7 - p] = Stop(f, "capability_max_steps_exceeded"),
         B[5] = Stop(i.allowOnly = "text", "policy_invalid"),
         B[6] = Stop(g, "action_not_permitted_by_policy")
  PROVE  BackAlike(i, B, p)
<1>1. ~B[1].stops /\ B[1].says = When(c, "evidence_quality_invalid")
  BY NoteIs, Zenon
<1>2. ~B[2].stops /\ B[2].says = When(d, "evidence_quality_below_threshold")
  BY NoteIs, Zenon
<1>3. ~B[p].stops /\ B[p].says = When(e, "invalid_step_count_metadata")
  BY NoteIs, Zenon
<1>4. (B[7 - p].stops <=> f) /\ B[7 - p].says = When(B[7 - p].stops, "capability_max_steps_exceeded")
  <2>1. LET x == Stop(f, "capability_max_steps_exceeded") IN (x.stops <=> f) /\ x.says = When(x.stops, "capability_max_steps_exceeded")
    BY StopIs, Zenon
  <2> QED
    BY <2>1, Zenon
<1>5. (B[5].stops <=> i.allowOnly = "text") /\ B[5].says = When(B[5].stops, "policy_invalid")
  BY StopIs, Zenon
<1>6. (B[6].stops <=> g) /\ B[6].says = When(B[6].stops, "action_not_permitted_by_policy")
  <2>1. LET x == Stop(g, "action_not_permitted_by_policy") IN (x.stops <=> g) /\ x.says = When(x.stops, "action_not_permitted_by_policy")
    BY StopIs, Zenon
  <2> QED
    BY <2>1, Zenon
<1>7. B[1].says = SaysInvalid(i) /\ B[2].says = SaysBelow(i) /\ B[p].says = SaysSteps(i)
  <2>0. /\ c <=> i.floor = "set" /\ ReplayQuality(i) = "not in range"
        /\ d <=> i.floor = "set" /\ ReplayQuality(i) = "low"
        /\ e <=> i.maxSteps # "none" /\ i.stepCount \in {"bool", "fraction", "below 1"}
    BY Zenon DEF OwnBack
  <2>1. When(c, "evidence_quality_invalid") = SaysInvalid(i)
    BY <2>0, Zenon DEF SaysInvalid, When
  <2>2. When(d, "evidence_quality_below_threshold") = SaysBelow(i)
    BY <2>0, Zenon DEF SaysBelow, When
  <2>3. When(e, "invalid_step_count_metadata") = SaysSteps(i)
    BY <2>0, Zenon DEF SaysSteps, When
  <2> QED
    BY <1>1, <1>2, <1>3, <2>1, <2>2, <2>3, Zenon
<1>8. Refuses(i, 12) <=> i.allowOnly = "text"
  <2>1. Refuses(i, 12) <=> i.allowOnly \notin {"none", "list with it", "list without it", "list of true"}
    BY FailsOf, Zenon DEF Refuses
  <2> QED
    BY <2>1 DEF PortInput
<1>9. /\ Refuses(i, 11) <=> i.maxSteps # "none" /\ i.stepCount = "over"
      /\ Refuses(i, 13) <=> i.action \notin {"None", "unnamed"} /\ i.allowOnly # "none" /\ ~Listed(i)
  BY FailsOf, Zenon DEF Refuses
<1>10. B[7 - p].stops <=> Refuses(i, 11)
  BY <1>4, <1>9, Zenon DEF OwnBack
<1>11. B[5].stops <=> Refuses(i, 12)
  BY <1>5, <1>8, Zenon
<1>12. ~Refuses(i, 12) => (B[6].stops <=> Refuses(i, 13))
  BY <1>6, <1>8, <1>9, Zenon DEF OwnBack
<1> QED
  BY <1>1, <1>2, <1>3, <1>4, <1>5, <1>6, <1>7, <1>10, <1>11, <1>12, Zenon DEF BackAlike

LEMMA GoReplays == ASSUME NEW i, PortInput(i) PROVE GoGate(i) = Replay(i)
<1> DEFINE s == StatusOf(i)
           q == GoQuality(i)
           c == s \in {"FAIL", "NOT_VERIFIED", "UNKNOWN"}
           d == i.parent \in {"unauthorized", "truthy"}
           e == i.runtime = "unknown"
           f == i.runtime = "degraded"
           cc == i.floor # "none" /\ q = "not in range"
           dd == i.floor # "none" /\ q = "low"
           ee == i.maxSteps # "none" /\ i.stepCount \in {"bool", "fraction", "below 1"}
           ff == i.maxSteps # "none" /\ i.stepCount = "over"
           gg == GoPresent(Requested(i)) /\ i.allowOnly # "none" /\ ~\E m \in Permitted(i) : PyEq(Requested(i), m)
<1>1. GoGate(i) = Outcome(FrontRules(i, c, d, e, f) \o Missing(i) \o BackRules(i, cc, dd, ee, ff, gg))
  BY Zenon DEF GoGate, FrontRules, BackRules
<1>2. FrontAlike(i, FrontRules(i, c, d, e, f))
  <2>1. c <=> i.status \notin {"PASS", "INSUFFICIENT_EVIDENCE", "REFUTED"}
    BY DEF PortInput, StatusOf
  <2>2. (d => i.parent \notin {"none", "authorized"}) /\ (i.parent \notin {"none", "authorized", "unregistered"} => d)
    BY DEF PortInput
  <2>3. (e <=> i.runtime = "unknown") /\ (i.runtime # "unknown" => (f <=> i.runtime # "healthy"))
    BY DEF PortInput
  <2> HIDE DEF c, d, e, f
  <2> QED
    BY <2>1, <2>2, <2>3, FrontBuilt
<1>3. BackAlike(i, BackRules(i, cc, dd, ee, ff, gg), 3)
  <2>1. (cc <=> i.floor = "set" /\ ReplayQuality(i) = "not in range") /\ (dd <=> i.floor = "set" /\ ReplayQuality(i) = "low")
    BY DEF PortInput, ReplayQuality, GoQuality
  <2>2. ee <=> i.maxSteps # "none" /\ i.stepCount \in {"bool", "fraction", "below 1"}
    BY DEF PortInput, RustInteger
  <2>3. ff <=> i.maxSteps # "none" /\ i.stepCount = "over"
    BY DEF PortInput
  <2>4. i.allowOnly # "text" => (gg <=> i.action \notin {"None", "unnamed"} /\ i.allowOnly # "none" /\ ~Listed(i))
    <3>1. i.allowOnly \notin {"none", "text"} => Same(i)
      BY DEF PortInput, Same
    <3> QED
      BY <3>1, AlikePresent, AlikeListed, Zenon
  <2> HIDE DEF cc, dd, ee, ff, gg
  <2>5. OwnBack(i, cc, dd, ee, ff, gg)
    BY <2>1, <2>2, <2>3, <2>4 DEF OwnBack
  <2> DEFINE n1 == Note(cc, "evidence_quality_invalid")
             n2 == Note(dd, "evidence_quality_below_threshold")
             n3 == Note(ee, "invalid_step_count_metadata")
             n4 == Stop(ff, "capability_max_steps_exceeded")
             n5 == Stop(i.allowOnly = "text", "policy_invalid")
             n6 == Stop(gg, "action_not_permitted_by_policy")
             B  == <<n1, n2, n3, n4, n5, n6>>
  <2>6. BackRules(i, cc, dd, ee, ff, gg) = B
    BY Zenon DEF BackRules
  <2>7. IsTuple(B, 6) /\ B[1] = n1 /\ B[2] = n2 /\ B[3] = n3 /\ B[4] = n4 /\ B[5] = n5 /\ B[6] = n6
    <3> HIDE DEF n1, n2, n3, n4, n5, n6
    <3> QED
      BY DEF IsTuple
  <2> HIDE DEF B
  <2>8. 3 \in {3, 4} /\ 7 - 3 = 4
    OBVIOUS
  <2>9. BackAlike(i, B, 3)
    BY <2>5, <2>7, <2>8, BackBuilt
  <2> QED
    BY <2>6, <2>9, Zenon
<1> HIDE DEF c, d, e, f, cc, dd, ee, ff, gg
<1>4. Outcome(FrontRules(i, c, d, e, f) \o Missing(i) \o BackRules(i, cc, dd, ee, ff, gg)) = Replay(i)
  BY <1>2, <1>3, PortReplays
<1> QED
  BY <1>1, <1>4, Zenon

LEMMA RustReplays == ASSUME NEW i, PortInput(i) PROVE RustGate(i) = Replay(i)
<1> DEFINE s      == StatusOf(i)
           number(x) == IF x \in {"absent", "text"} THEN "low" ELSE x
           q      == IF i.quality # "absent" THEN number(i.quality) ELSE number(i.metaQuality)
           counts == i.maxSteps # "none" /\ i.stepCount # "absent"
           list   == i.allowOnly \notin {"none", "text"}
           c == s \notin {"PASS", "INSUFFICIENT_EVIDENCE", "REFUTED"}
           d == i.parent \notin {"none", "authorized"}
           e == i.runtime \notin {"healthy", "degraded"}
           f == i.runtime = "degraded"
           cc == i.floor # "none" /\ q = "not in range"
           dd == i.floor # "none" /\ q = "low"
           ee == counts /\ (~RustInteger(i.stepCount) \/ i.stepCount = "below 1")
           ff == counts /\ i.stepCount = "over"
           gg == RustPresent(Requested(i)) /\ list /\ ~\E m \in Permitted(i) : RustEq(Requested(i), m)
<1>1. RustGate(i) = Outcome(FrontRules(i, c, d, e, f) \o Missing(i) \o BackRulesTurned(i, cc, dd, ee, ff, gg))
  BY Zenon DEF RustGate, FrontRules, BackRulesTurned
<1>2. FrontAlike(i, FrontRules(i, c, d, e, f))
  <2>1. c <=> i.status \notin {"PASS", "INSUFFICIENT_EVIDENCE", "REFUTED"}
    BY DEF PortInput, StatusOf
  <2>2. (d => i.parent \notin {"none", "authorized"}) /\ (i.parent \notin {"none", "authorized", "unregistered"} => d)
    BY DEF PortInput
  <2>3. (e <=> i.runtime = "unknown") /\ (i.runtime # "unknown" => (f <=> i.runtime # "healthy"))
    BY DEF PortInput
  <2> HIDE DEF c, d, e, f
  <2> QED
    BY <2>1, <2>2, <2>3, FrontBuilt
<1>3. BackAlike(i, BackRulesTurned(i, cc, dd, ee, ff, gg), 4)
  <2>1. (cc <=> i.floor = "set" /\ ReplayQuality(i) = "not in range") /\ (dd <=> i.floor = "set" /\ ReplayQuality(i) = "low")
    BY DEF PortInput, ReplayQuality, GoQuality
  <2>2. ee <=> i.maxSteps # "none" /\ i.stepCount \in {"bool", "fraction", "below 1"}
    BY DEF PortInput, RustInteger
  <2>3. ff <=> i.maxSteps # "none" /\ i.stepCount = "over"
    BY DEF PortInput
  <2>4. i.allowOnly # "text" => (gg <=> i.action \notin {"None", "unnamed"} /\ i.allowOnly # "none" /\ ~Listed(i))
    <3>1. i.allowOnly \notin {"none", "text"} => Same(i)
      BY DEF PortInput, Same
    <3> QED
      BY <3>1, AlikePresent, AlikeListed, Zenon
  <2> HIDE DEF cc, dd, ee, ff, gg
  <2>5. OwnBack(i, cc, dd, ee, ff, gg)
    BY <2>1, <2>2, <2>3, <2>4 DEF OwnBack
  <2> DEFINE n1 == Note(cc, "evidence_quality_invalid")
             n2 == Note(dd, "evidence_quality_below_threshold")
             n3 == Stop(ff, "capability_max_steps_exceeded")
             n4 == Note(ee, "invalid_step_count_metadata")
             n5 == Stop(i.allowOnly = "text", "policy_invalid")
             n6 == Stop(gg, "action_not_permitted_by_policy")
             B  == <<n1, n2, n3, n4, n5, n6>>
  <2>6. BackRulesTurned(i, cc, dd, ee, ff, gg) = B
    BY Zenon DEF BackRulesTurned
  <2>7. IsTuple(B, 6) /\ B[1] = n1 /\ B[2] = n2 /\ B[3] = n3 /\ B[4] = n4 /\ B[5] = n5 /\ B[6] = n6
    <3> HIDE DEF n1, n2, n3, n4, n5, n6
    <3> QED
      BY DEF IsTuple
  <2> HIDE DEF B
  <2>8. 4 \in {3, 4} /\ 7 - 4 = 3
    OBVIOUS
  <2>9. BackAlike(i, B, 4)
    BY <2>5, <2>7, <2>8, BackBuilt
  <2> QED
    BY <2>6, <2>9, Zenon
<1> HIDE DEF c, d, e, f, cc, dd, ee, ff, gg
<1>4. Outcome(FrontRules(i, c, d, e, f) \o Missing(i) \o BackRulesTurned(i, cc, dd, ee, ff, gg)) = Replay(i)
  BY <1>2, <1>3, PortReplays
<1> QED
  BY <1>1, <1>4, Zenon

LEMMA PythonReplays == ASSUME NEW i, PortInput(i) PROVE PythonGate(i) = Replay(i)
<1> DEFINE s       == StatusOf(i)
           top     == i.quality # "absent"
           q       == IF top THEN i.quality ELSE i.metaQuality
           integer == i.stepCount \notin {"bool", "fraction"}
           counted == i.maxSteps # "none" /\ i.stepCount # "absent"
           c == s \in {"FAIL", "NOT_VERIFIED", "UNKNOWN"}
           d == i.parent \in {"unauthorized", "truthy"}
           e == i.runtime = "unknown"
           f == i.runtime # "healthy"
           cc == i.floor # "none" /\ q = "not in range"
           dd == i.floor # "none" /\ q \in {"absent", "text", "low"}
           ee == counted /\ (~integer \/ i.stepCount = "below 1")
           ff == counted /\ i.stepCount = "over"
           gg == Truthy(Requested(i)) /\ i.allowOnly # "none" /\ ~\E m \in Permitted(i) : PyEqual(Requested(i), m)
<1>1. PythonGate(i) = Outcome(FrontRules(i, c, d, e, f) \o Missing(i) \o BackRules(i, cc, dd, ee, ff, gg))
  BY Zenon DEF PythonGate, FrontRules, BackRules
<1>2. FrontAlike(i, FrontRules(i, c, d, e, f))
  <2>1. c <=> i.status \notin {"PASS", "INSUFFICIENT_EVIDENCE", "REFUTED"}
    BY DEF PortInput, StatusOf
  <2>2. (d => i.parent \notin {"none", "authorized"}) /\ (i.parent \notin {"none", "authorized", "unregistered"} => d)
    BY DEF PortInput
  <2>3. (e <=> i.runtime = "unknown") /\ (i.runtime # "unknown" => (f <=> i.runtime # "healthy"))
    BY DEF PortInput
  <2> HIDE DEF c, d, e, f
  <2> QED
    BY <2>1, <2>2, <2>3, FrontBuilt
<1>3. BackAlike(i, BackRules(i, cc, dd, ee, ff, gg), 3)
  <2>1. (cc <=> i.floor = "set" /\ ReplayQuality(i) = "not in range") /\ (dd <=> i.floor = "set" /\ ReplayQuality(i) = "low")
    BY DEF PortInput, ReplayQuality, GoQuality
  <2>2. ee <=> i.maxSteps # "none" /\ i.stepCount \in {"bool", "fraction", "below 1"}
    BY DEF PortInput, RustInteger
  <2>3. ff <=> i.maxSteps # "none" /\ i.stepCount = "over"
    BY DEF PortInput
  <2>4. i.allowOnly # "text" => (gg <=> i.action \notin {"None", "unnamed"} /\ i.allowOnly # "none" /\ ~Listed(i))
    <3>1. i.allowOnly \notin {"none", "text"} => Same(i)
      BY DEF PortInput, Same
    <3> QED
      BY <3>1, AlikePresent, AlikeListed, Zenon
  <2> HIDE DEF cc, dd, ee, ff, gg
  <2>5. OwnBack(i, cc, dd, ee, ff, gg)
    BY <2>1, <2>2, <2>3, <2>4 DEF OwnBack
  <2> DEFINE n1 == Note(cc, "evidence_quality_invalid")
             n2 == Note(dd, "evidence_quality_below_threshold")
             n3 == Note(ee, "invalid_step_count_metadata")
             n4 == Stop(ff, "capability_max_steps_exceeded")
             n5 == Stop(i.allowOnly = "text", "policy_invalid")
             n6 == Stop(gg, "action_not_permitted_by_policy")
             B  == <<n1, n2, n3, n4, n5, n6>>
  <2>6. BackRules(i, cc, dd, ee, ff, gg) = B
    BY Zenon DEF BackRules
  <2>7. IsTuple(B, 6) /\ B[1] = n1 /\ B[2] = n2 /\ B[3] = n3 /\ B[4] = n4 /\ B[5] = n5 /\ B[6] = n6
    <3> HIDE DEF n1, n2, n3, n4, n5, n6
    <3> QED
      BY DEF IsTuple
  <2> HIDE DEF B
  <2>8. 3 \in {3, 4} /\ 7 - 3 = 4
    OBVIOUS
  <2>9. BackAlike(i, B, 3)
    BY <2>5, <2>7, <2>8, BackBuilt
  <2> QED
    BY <2>6, <2>9, Zenon
<1> HIDE DEF c, d, e, f, cc, dd, ee, ff, gg
<1>4. Outcome(FrontRules(i, c, d, e, f) \o Missing(i) \o BackRules(i, cc, dd, ee, ff, gg)) = Replay(i)
  BY <1>2, <1>3, PortReplays
<1> QED
  BY <1>1, <1>4, Zenon

---------------------------------------------------------------------------
(* What the kernel is given is what a port is, once it is packaged.        *)
GivenKind(i) == DOMAIN i = Fields /\ (\A f \in Needed : i[f] \in Kinds[f]) /\ i.allowOnly \in Kinds["allowOnly"] \cup {"list with it"}

LEMMA PackagedInput == ASSUME NEW i, GivenKind(i) PROVE PortInput(Packaged(i))
<1>1. DOMAIN i = Fields /\ "allowOnly" \in Fields
  BY DEF GivenKind, Fields, Kinds
<1>2. \A f \in Fields \ {"allowOnly"} : Packaged(i)[f] = i[f]
  BY <1>1 DEF Packaged
<1>3. Packaged(i).allowOnly = IF i.allowOnly = "tuple with it" THEN "list with it" ELSE i.allowOnly
  BY <1>1 DEF Packaged
<1>4. \A f \in {"status", "parent", "runtime", "floor", "quality", "metaQuality", "stepCount"} : Packaged(i)[f] \in Kinds[f]
  <2>1. \A f \in {"status", "parent", "runtime", "floor", "quality", "metaQuality", "stepCount"} : f \in Needed /\ f # "allowOnly"
    BY DEF Needed
  <2>2. \A f \in Needed : i[f] \in Kinds[f]
    BY DEF GivenKind
  <2> QED
    BY <1>2, <2>1, <2>2, KindFacts
<1>5. i.allowOnly \in {"none", "tuple with it", "list without it", "list of true", "text", "list with it"}
  BY DEF GivenKind, Kinds
<1>6. Packaged(i).allowOnly \in {"none", "list with it", "list without it", "list of true", "text"}
  BY <1>3, <1>5
<1> HIDE DEF Packaged
<1> QED
  BY <1>4, <1>6, KindFacts DEF PortInput

LEMMA PortsReplay ==
  ASSUME NEW i, GivenKind(i)
  PROVE  GoGate(Case(i)) = Replay(Packaged(i)) /\ RustGate(Case(i)) = Replay(Packaged(i)) /\ PythonGate(Case(i)) = Replay(Packaged(i))
<1>1. PortInput(Packaged(i))
  BY PackagedInput
<1> QED
  BY <1>1, GoReplays, RustReplays, PythonReplays, Zenon DEF Case

LEMMA PortsStep == ASSUME IInv, NotesInv, Examine, decision' # decision
                   PROVE  \A port \in {GoGate(Case(input)), RustGate(Case(input)), PythonGate(Case(input))} : Concluded' = port
<1>1. GivenKind(input)
  BY DEF IInv, InputOK, NotesInv, GivenKind
<1>2. Concluded' = Replay(Packaged(input))
  BY ReplayDecides
<1> QED
  BY <1>1, <1>2, PortsReplay, Zenon

(* Of any input and any list of required evidence, the ports in Go, Rust   *)
(* and Python come to the kernel's decision with its reasons in their      *)
(* order.                                                                  *)
THEOREM EveryPortDecides == Spec => PortsDecide
<1>1. IInv /\ NotesInv /\ [Next]_vars
        => [decision' # decision => \A port \in {GoGate(Case(input)), RustGate(Case(input)), PythonGate(Case(input))} : Concluded' = port]_vars
  <2> SUFFICES ASSUME IInv, NotesInv, Next, decision' # decision
               PROVE  \A port \in {GoGate(Case(input)), RustGate(Case(input)), PythonGate(Case(input))} : Concluded' = port
    BY DEF vars
  <2>1. Examine
    BY DEF Next, Vary, Evaluate
  <2> QED
    BY <2>1, PortsStep
<1> QED
  BY <1>1, InvGate, NotesInvariance, PTL DEF Spec, PortsDecide

(* And of whatever the tools put before the gate.                          *)
THEOREM EveryPortDecidesRuns == PackageSpec => PortsDecide
<1>1. GateInv /\ SetupInv /\ [PackageNext]_packageVars
        => [decision' # decision => \A port \in {GoGate(Case(input)), RustGate(Case(input)), PythonGate(Case(input))} : Concluded' = port]_vars
  <2> SUFFICES ASSUME GateInv, SetupInv, [PackageNext]_packageVars, decision' # decision
               PROVE  \A port \in {GoGate(Case(input)), RustGate(Case(input)), PythonGate(Case(input))} : Concluded' = port
    BY DEF vars
  <2>1. Examine
    BY DecidesByExamining
  <2> QED
    BY <2>1, PortsStep DEF GateInv
<1> QED
  BY <1>1, SetupInvariance, PTL DEF PackageSpec, PortsDecide

LEMMA BaseIsGiven == GivenKind(Base)
<1>1. DOMAIN Good = Fields /\ \A f \in Needed : Good[f] \in Kinds[f]
  BY GoodFacts
<1>2. DOMAIN Base = Fields
  BY <1>1 DEF Base
<1>3. {"registry", "quality", "metaQuality", "allowOnly"} \subseteq Fields
  BY DEF Fields, Kinds
<1>4. /\ Base["registry"] = "given" /\ Base["quality"] = "absent" /\ Base["metaQuality"] = "high"
      /\ \A f \in Fields \ {"registry", "quality", "metaQuality"} : Base[f] = Good[f]
  BY <1>1, <1>3 DEF Base
<1>5. \A f \in Needed : Base[f] \in Kinds[f]
  <2> TAKE f \in Needed
  <2>1. f \in Fields
    BY KindFacts
  <2>2. CASE f \in {"registry", "quality", "metaQuality"}
    BY <1>4, <2>2, KindFacts
  <2>3. CASE f \notin {"registry", "quality", "metaQuality"}
    BY <1>1, <1>4, <2>1, <2>3
  <2> QED
    BY <2>2, <2>3
<1>6. Base["allowOnly"] \in Kinds["allowOnly"]
  <2>1. Good["allowOnly"] \in Kinds["allowOnly"]
    BY DEF Good, Kinds
  <2> QED
    BY <1>3, <1>4, <2>1
<1> QED
  BY <1>2, <1>5, <1>6 DEF GivenKind

LEMMA VariedIsGiven == ASSUME NEW i, GivenKind(i), NEW f \in Fields, NEW k \in Kinds[f] PROVE GivenKind([i EXCEPT ![f] = k])
<1> DEFINE v == [i EXCEPT ![f] = k]
<1>1. DOMAIN i = Fields
  BY DEF GivenKind
<1>2. DOMAIN v = Fields /\ v[f] = k /\ \A g \in Fields \ {f} : v[g] = i[g]
  BY <1>1
<1>3. "allowOnly" \in Fields
  BY DEF Fields, Kinds
<1> HIDE DEF v
<1>4. GivenKind(v)
  BY <1>1, <1>2, <1>3, KindFacts DEF GivenKind
<1> QED
  BY <1>4 DEF v

LEMMA LatticeIsGiven == \A i \in Lattice : GivenKind(i)
<1> TAKE i \in Lattice
<1>1. DOMAIN i = Fields
  BY DEF Lattice, Fields, Kinds
<1>2. /\ i["status"] \in {"PASS", "INSUFFICIENT_EVIDENCE", "FAIL"} /\ i["authorized"] \in {"True", "False"}
      /\ i["parent"] \in {"none", "unauthorized"} /\ i["registry"] \in {"given"}
      /\ i["runtime"] \in {"healthy", "degraded", "unknown"} /\ i["floor"] \in {"set"} /\ i["quality"] \in {"absent"}
      /\ i["metaQuality"] \in {"high", "low"} /\ i["maxSteps"] \in {"set"} /\ i["stepCount"] \in {"within", "over"}
      /\ i["allowOnly"] \in {"tuple with it", "list without it"}
  BY DEF Lattice
<1>3. \A f \in Needed : i[f] \in Kinds[f]
  <2>1. /\ i["status"] \in Kinds["status"] /\ i["authorized"] \in Kinds["authorized"]
        /\ i["parent"] \in Kinds["parent"] /\ i["registry"] \in Kinds["registry"]
        /\ i["runtime"] \in Kinds["runtime"] /\ i["floor"] \in Kinds["floor"] /\ i["quality"] \in Kinds["quality"]
        /\ i["metaQuality"] \in Kinds["metaQuality"] /\ i["maxSteps"] \in Kinds["maxSteps"]
        /\ i["stepCount"] \in Kinds["stepCount"]
    BY <1>2, KindFacts
  <2> QED
    BY <2>1, Zenon DEF Needed
<1>4. i.allowOnly \in Kinds["allowOnly"]
  BY <1>2 DEF Kinds
<1> QED
  BY <1>1, <1>3, <1>4 DEF GivenKind

LEMMA SinglesAreGiven == \A i \in Singles : GivenKind(i)
<1>1. ASSUME NEW f \in Fields, NEW k \in Kinds[f] PROVE GivenKind([Base EXCEPT ![f] = k])
  BY BaseIsGiven, VariedIsGiven
<1>2. GivenKind([Base EXCEPT !.parent = "authorized", !.registry = "None"])
  <2>1. "parent" \in Fields /\ "registry" \in Fields
    BY DEF Fields, Kinds
  <2>2. "authorized" \in Kinds["parent"] /\ "None" \in Kinds["registry"]
    BY KindFacts
  <2>3. PICK b : b = [Base EXCEPT !["parent"] = "authorized"]
    OBVIOUS
  <2>4. GivenKind(b)
    BY <1>1, <2>1, <2>2, <2>3
  <2>5. GivenKind([b EXCEPT !["registry"] = "None"])
    BY <2>1, <2>2, <2>4, VariedIsGiven
  <2> QED
    BY <2>3, <2>5
<1>3. GivenKind([Base EXCEPT !.action = "one", !.allowOnly = "list of true"])
  <2>1. "action" \in Fields /\ "allowOnly" \in Fields
    BY DEF Fields, Kinds
  <2>2. "one" \in Kinds["action"] /\ "list of true" \in Kinds["allowOnly"]
    BY DEF Kinds
  <2>3. PICK b : b = [Base EXCEPT !["action"] = "one"]
    OBVIOUS
  <2>4. GivenKind(b)
    BY <1>1, <2>1, <2>2, <2>3
  <2>5. GivenKind([b EXCEPT !["allowOnly"] = "list of true"])
    BY <2>1, <2>2, <2>4, VariedIsGiven
  <2> QED
    BY <2>3, <2>5
<1> DEFINE one == UNION {{[Base EXCEPT ![f] = k] : k \in Kinds[f]} : f \in Fields}
           two == {[Base EXCEPT !.parent = "authorized", !.registry = "None"], [Base EXCEPT !.action = "one", !.allowOnly = "list of true"]}
<1>4. \A i \in one : GivenKind(i)
  <2> TAKE i \in one
  <2>1. PICK f \in Fields : i \in {[Base EXCEPT ![f] = k] : k \in Kinds[f]}
    BY Zenon
  <2>2. PICK k \in Kinds[f] : i = [Base EXCEPT ![f] = k]
    BY <2>1, Zenon
  <2>3. GivenKind([Base EXCEPT ![f] = k])
    BY <1>1
  <2> QED
    BY <2>2, <2>3, Zenon
<1>5. \A i \in two : GivenKind(i)
  BY <1>2, <1>3, Zenon
<1>6. Singles = one \cup two
  BY DEF Singles
<1> HIDE DEF one, two
<1> QED
  BY <1>4, <1>5, <1>6

(* Whatever evidence is required, the ports conform: they decide every     *)
(* vector as its recorded decision.                                        *)
THEOREM EveryPortConforms == PortsConform
<1>1. ASSUME NEW v \in Vectors PROVE GoGate(v) = Replay(v) /\ RustGate(v) = Replay(v) /\ PythonGate(v) = Replay(v)
  <2>1. PICK i \in Lattice \cup Singles : v = Case(i)
    BY Zenon DEF Vectors
  <2>2. GivenKind(i)
    BY LatticeIsGiven, SinglesAreGiven
  <2> QED
    BY <2>1, <2>2, PortsReplay, Zenon DEF Case
<1> QED
  BY <1>1, Zenon DEF PortsConform, Conforms

(* Every port knows the words of a runtime state as the kernel does,       *)
(* whatever is said of each: a word of no vocabulary too.                  *)
THEOREM PortsSpeakAlike ==
  ASSUME NEW said
  PROVE  \A port \in {GoState(said), RustState(said), PythonState(said), VerifierState(said)} : port = KernelState(said)
<1>1. KernelState(said) = GoState(said)
  BY DEF KernelState, GoState, Vocab, Words, Reported
<1>2. KernelState(said) = RustState(said)
  BY DEF KernelState, RustState, Words, Reported
<1>3. KernelState(said) = PythonState(said)
  BY DEF KernelState, PythonState, RuntimeValues, Words, Reported
<1>4. KernelState(said) = VerifierState(said)
  BY DEF KernelState, VerifierState, Words, Reported
<1> QED
  BY <1>1, <1>2, <1>3, <1>4

COROLLARY SpokenAlikeHolds == SpokenAlike
BY PortsSpeakAlike, Zenon DEF SpokenAlike
================================================================================
