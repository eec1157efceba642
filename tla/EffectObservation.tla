--------------------------- MODULE EffectObservation ---------------------------
(***************************************************************************)
(* effect_observation.py on top of the workflow: an observer that does not *)
(* go through the executor reads the target before a run and after it, and *)
(* the decision record is compared with what it saw.  The target, the      *)
(* executors and the workflow without its gate are those of                *)
(* tools/eo2_probe.py.  The observer reads the target itself, never a view *)
(* of it the executor can write.                                           *)
(***************************************************************************)
EXTENDS Workflow

VARIABLES watching,   \* FALSE: the behaviours of module Workflow alone
          gateless,   \* the workflow mutant, which executes what was not allowed
          kind,       \* what each run's executor does to the target
          target,     \* the state of the valves
          before,     \* the observer's two readings for each run
          after,
          touched     \* history: the runs that called an executor in a run's window

obsVars == <<watching, gateless, kind, target, before, after, touched>>

Kinds     == {"honest", "noop", "wrong", "side"}
Unseen    == [V1 |-> "unread", V2 |-> "unread"]
Valves    == {"V1", "V2"}
NoPair    == "MISSING"
Targets   == {[V1 |-> v1, V2 |-> v2] : v1 \in {"open", "closed"}, v2 \in {"open", NoPair}}

(* The effect specification: authorized actions open V1, others close it.  *)
Expected(a) == IF a \in Authorized THEN "open" ELSE "closed"

Applied(a) == [V1 |-> Expected(a), V2 |-> NoPair]

(* An honest executor writes the whole state of its action; "wrong" closes *)
(* the valve, "side" opens another one, "noop" returns without an effect.  *)
AfterExecutor(r, a) ==
  CASE kind[r] = "honest" -> Applied(a)
    [] kind[r] = "wrong"  -> [V1 |-> "closed", V2 |-> NoPair]
    [] kind[r] = "side"   -> [target EXCEPT !.V2 = "open"]
    [] kind[r] = "noop"   -> target

InWindow(r) == before[r] # Unseen /\ after[r] = Unseen

Touch(r, a) ==
  /\ target' = AfterExecutor(r, a)
  /\ touched' = [q \in Run |-> IF InWindow(q) THEN touched[q] \cup {r} ELSE touched[q]]
---------------------------------------------------------------------------
ObservedInit ==
  /\ Init
  /\ watching \in BOOLEAN
  /\ gateless \in IF watching THEN BOOLEAN ELSE {FALSE}
  /\ kind \in IF watching THEN [Run -> Kinds] ELSE {[r \in Run |-> "honest"]}
  /\ target \in {t \in Targets : t.V2 = NoPair /\ (watching \/ t.V1 = "closed")}
  /\ before = [r \in Run |-> Unseen]
  /\ after = [r \in Run |-> Unseen]
  /\ touched = [r \in Run |-> {}]
  /\ watching => /\ \A r \in Run : ~keyed[r] /\ proposal[r] \in Authorized
                 /\ validation = "VALIDATED"

Look(r) ==
  /\ watching /\ pc[r] = "start" /\ before[r] = Unseen
  /\ before' = [before EXCEPT ![r] = target]
  /\ UNCHANGED <<vars, watching, gateless, kind, target, after, touched>>

(* Only a run that returned has a second reading.                          *)
LookAgain(r) ==
  /\ watching /\ pc[r] = "done" /\ InWindow(r)
  /\ after' = [after EXCEPT ![r] = target]
  /\ UNCHANGED <<vars, watching, gateless, kind, target, before, touched>>

(* The mutant calls the executor right after a decision that is not ALLOW. *)
ObservedDecide(r) ==
  /\ Decide(r)
  /\ IF gateless /\ decision'[r] # "ALLOW" /\ proposal[r] # NoAction
       THEN Touch(r, proposal[r])
       ELSE UNCHANGED <<target, touched>>
  /\ UNCHANGED <<watching, gateless, kind, before, after>>

ObservedExecute(r) ==
  /\ Execute(r)
  /\ Touch(r, frozen[r])
  /\ UNCHANGED <<watching, gateless, kind, before, after>>

ObservedStep(r) ==
  \/ Look(r) \/ LookAgain(r)
  \/ /\ before[r] # Unseen
     /\ \/ ObservedDecide(r) \/ ObservedExecute(r)
        \/ /\ \/ CheckRecord(r) \/ Verify(r) \/ ReserveKey(r)
              \/ ExecutorRaises(r) \/ ExecutorReturns(r)
              \/ ReportUnknown(r) \/ Complete(r) \/ RecordEvidence(r)
           /\ UNCHANGED obsVars

ObservedNext ==
  \/ watching /\ \E r \in Run : ObservedStep(r)
  \/ ~watching /\ Next /\ UNCHANGED obsVars

ObservedSpec == ObservedInit /\ [][ObservedNext]_<<vars, obsVars>>
---------------------------------------------------------------------------
(* The observation and the check.                                          *)
Observation(r) == [id |-> rid[r], action |-> frozen[r], before |-> before[r], after |-> after[r]]

ChangedKeys(o) == {k \in Valves : o.before[k] # o.after[k]}

Bound(rec, o) == o.id = rec.id /\ o.action = rec.action

(* Not bound, the observation of one run passes for that of another; not   *)
(* strict, as first registered, a change beside the order is not seen when *)
(* the expected state was there already.                                   *)
Checked(rec, o, bind, strict) ==
  LET changed  == ChangedKeys(o)
      expected == Expected(rec.action)
  IN IF bind /\ ~Bound(rec, o) THEN "BINDING_MISMATCH"
     ELSE IF rec.decision # "ALLOW" THEN IF changed = {} THEN "OK" ELSE "UNAUTHORIZED_EFFECT"
     ELSE IF rec.status # "SUCCEEDED" THEN IF changed = {} THEN "OK" ELSE "EFFECT_DESPITE_FAILURE"
     ELSE IF o.before.V1 = expected THEN IF strict /\ changed # {} THEN "WRONG_EFFECT" ELSE "UNOBSERVABLE"
     ELSE IF changed = {} THEN "NO_EFFECT"
     ELSE IF o.after.V1 = expected /\ changed = {"V1"} THEN "OK" ELSE "WRONG_EFFECT"

CheckedLoosely(rec, o)      == Checked(rec, o, TRUE, FALSE)
CheckObservedEffect(rec, o) == Checked(rec, o, TRUE, TRUE)
---------------------------------------------------------------------------
(* The trials of the probe (CASES): the repository or its mutant, what the *)
(* gate decides, the executor and the state of the valve that is to be     *)
(* opened.  A forger writes a view of its own instead of the target.       *)
Trial(repo, decides, executor, v1) == [repo |-> repo, decides |-> decides, executor |-> executor, v1 |-> v1]
Trials ==
  [C1 |-> Trial("clean", "ALLOW", "honest", "closed"),   C2 |-> Trial("clean", "REFUSE", "honest", "closed"),
   C3 |-> Trial("clean", "DEFER", "honest", "closed"),   C4 |-> Trial("clean", "ALLOW", "honest", "open"),
   A1 |-> Trial("mutant", "REFUSE", "honest", "closed"), A2 |-> Trial("mutant", "DEFER", "honest", "closed"),
   A3 |-> Trial("clean", "ALLOW", "noop", "closed"),     A4 |-> Trial("clean", "ALLOW", "wrong", "open"),
   A5 |-> Trial("clean", "ALLOW", "forge", "closed"),    A8 |-> Trial("clean", "ALLOW", "side", "open")]

Start(c) == [V1 |-> Trials[c].v1, V2 |-> NoPair]
Real(c) ==
  LET t == Trials[c]
  IN  IF t.decides # "ALLOW" /\ t.repo = "clean" THEN Start(c)
      ELSE CASE t.executor = "honest" -> [V1 |-> "open", V2 |-> NoPair]
             [] t.executor = "wrong"  -> [V1 |-> "closed", V2 |-> NoPair]
             [] t.executor = "side"   -> [Start(c) EXCEPT !.V2 = "open"]
             [] t.executor \in {"noop", "forge"} -> Start(c)
View(c) == IF Trials[c].executor = "forge" THEN [V1 |-> "open", V2 |-> NoPair] ELSE Start(c)

(* A6 shows the forger's record the observation of another run, and A7 the *)
(* view that the forger has written.                                       *)
RunOf(c)  == IF c \in {"A6", "A7"} THEN "A5" ELSE c
TrialRecord(c, a) ==
  LET t == Trials[RunOf(c)]
  IN  [id |-> RunOf(c), action |-> a, decision |-> t.decides, status |-> IF t.decides = "ALLOW" THEN "SUCCEEDED" ELSE "NONE"]
Sighting(c, a, blind) ==
  LET seen == IF c = "A6" THEN "C1" ELSE RunOf(c)
  IN  [id |-> seen, action |-> a, before |-> Start(seen),
       after |-> IF blind THEN Start(seen) ELSE IF c = "A7" THEN View(seen) ELSE Real(seen)]

(* The checkers: the record alone, the executor's receipt, the observer.   *)
Shown == DOMAIN Trials \cup {"A6", "A7"}
R0(a) ==
  LET says(rec) == IF rec.status = "NONE" \/ (rec.status \in {"SUCCEEDED", "FAILED"} /\ rec.decision = "ALLOW") THEN "OK" ELSE "RECORD_FAIL"
  IN  [c \in Shown |-> says(TrialRecord(c, a))]
R1(a) ==
  LET fits(t) == t.executor \in {"honest", "forge"} \/ (t.executor = "side" /\ t.v1 = "open")
      says(t) == IF t.decides = "ALLOW" => fits(t) THEN "OK" ELSE "RECEIPT_FAIL"
  IN  [c \in Shown |-> says(Trials[RunOf(c)])]
R2(a)  == [c \in Shown |-> Checked(TrialRecord(c, a), Sighting(c, a, FALSE), TRUE, FALSE)]
R2u(a) == [c \in Shown |-> Checked(TrialRecord(c, a), Sighting(c, a, FALSE), FALSE, FALSE)]
R2s(a) == [c \in Shown |-> CheckObservedEffect(TrialRecord(c, a), Sighting(c, a, FALSE))]
Blind(c, a, strict) == Checked(TrialRecord(c, a), Sighting(c, a, TRUE), TRUE, strict)

Attacks == {"A1", "A2", "A3", "A4", "A5", "A6", "A7"}
Found(says) == {c \in Attacks : says[c] \notin {"OK", "UNOBSERVABLE"}}
Quiet(says) == \A c \in {"C1", "C2", "C3"} : says[c] = "OK"

(* What was registered of them (P1 to P8, Q1 to Q4; P7 is of a checker     *)
(* that flags everything); the two that did not hold are about A4, which   *)
(* the strict rule was made for.                                           *)
Registrations(a) ==
  [P1 |-> Found(R0(a)) = {} /\ Quiet(R0(a)) /\ R0(a)["C4"] = "OK",
   P2 |-> Found(R1(a)) = {"A3", "A4"} /\ Quiet(R1(a)) /\ R1(a)["C4"] = "OK",
   P3 |-> /\ Quiet(R2(a)) /\ \A c \in {"A1", "A2"} : R2(a)[c] = "UNAUTHORIZED_EFFECT"
          /\ \A c \in {"A3", "A5"} : R2(a)[c] = "NO_EFFECT"
          /\ R2(a)["A4"] = "WRONG_EFFECT" /\ R2(a)["A6"] = "BINDING_MISMATCH",
   P4 |-> Found(R2u(a)) = {"A1", "A2", "A3", "A4", "A5"} /\ Quiet(R2u(a)),
   P5 |-> R2(a)["A7"] = "OK",
   P6 |-> R2(a)["C4"] = "UNOBSERVABLE" /\ R2u(a)["C4"] = "UNOBSERVABLE",
   P8 |-> /\ Blind("A1", a, FALSE) = "OK" /\ Blind("A2", a, FALSE) = "OK" /\ Blind("C1", a, FALSE) = "NO_EFFECT"
          /\ Blind("A4", a, FALSE) \in {"OK", "UNOBSERVABLE"},
   Q1 |-> R2(a)["A8"] = "UNOBSERVABLE" /\ R2s(a)["A8"] = "WRONG_EFFECT",
   Q2 |-> Quiet(R2s(a)) /\ R2s(a)["C4"] = "UNOBSERVABLE",
   Q3 |-> Found(R2s(a)) = Attacks \ {"A7"} /\ R2s(a)["A4"] = "WRONG_EFFECT",
   Q4 |-> Blind("C1", a, TRUE) = "NO_EFFECT"]
AsRecorded == \A a \in Authorized : {p \in DOMAIN Registrations(a) : ~Registrations(a)[p]} = {"P3", "P4"}
---------------------------------------------------------------------------
(* EO-2: of a run whose window no other run acted in, the check says OK or *)
(* UNOBSERVABLE exactly when the target went through what the record tells:*)
(* nothing on a refusal, a deferral or a failure, the recorded action on a *)
(* success.  So an executor that lies, acts beside its order, acts and     *)
(* then raises, or a workflow that acts without an ALLOW is found, and an  *)
(* honest run is never accused.  (An effect equal to the state the target  *)
(* was in cannot be told from none.)  And of the trials it finds those it  *)
(* was recorded to find.                                                   *)
ToldTruly(r, rec) ==
  LET did == IF r \notin touched[r] \/ kind[r] = "noop" THEN "nothing" ELSE kind[r]
  IN IF rec.status = "SUCCEEDED" /\ rec.decision = "ALLOW"
       THEN \/ did = "honest" /\ before[r].V2 = NoPair
            \/ did # "honest" /\ after[r] = before[r] /\ before[r].V1 = Expected(rec.action)
       ELSE did = "nothing" \/ after[r] = before[r]

ToldOfRun(r, rec) ==
  rec.run = r /\ after[r] # Unseen /\ touched[r] \subseteq {r} =>
    (CheckObservedEffect(rec, Observation(r)) \in {"OK", "UNOBSERVABLE"} <=> ToldTruly(r, rec))

ObserverTellsRight ==
  /\ \A r \in Run : \A rec \in ledger : ToldOfRun(r, rec)
  /\ AsRecorded
===============================================================================
