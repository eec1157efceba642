------------------------------- MODULE Workflow -------------------------------
(***************************************************************************)
(* EvidenceWorkflow.run (workflow.py): several runs, in threads or in      *)
(* processes, that share an evidence sink, one idempotency key and its     *)
(* reservation store, and act on the same outside world.  A run may die    *)
(* between any two of its steps; the caller may change the action object   *)
(* it passed in; a person may release the key; a verifier may be           *)
(* revalidated or fail while runs are under way.                           *)
(*                                                                         *)
(* The store is the contract of MemoryReservations, which FileReservations *)
(* implements, failed reads of the disk included.  The gate is reduced to  *)
(* what it lets through: an action of its capability after a PASS (module  *)
(* Gate has the rules).                                                    *)
(***************************************************************************)
EXTENDS Naturals, FiniteSets

CONSTANTS Run,          \* the calls of run()
          RecordId,     \* record ids callers use; retries repeat one
          Action,       \* actions a caller may propose
          Authorized,   \* the actions the capability covers
          NoAction,     \* action=None
          NoToken,      \* an entry that is nobody's reservation
          ReadErrors    \* the store is on disk, and a read of it may fail

ASSUME WorkflowAssumption ==
  /\ Authorized \subseteq Action
  /\ NoAction \notin Action
  /\ NoToken \notin Run
  /\ ReadErrors \in BOOLEAN

VARIABLES entry, archive, late, use,   \* the reservation store
          rid, keyed,                  \* arguments of each run
          proposal,                    \* the caller's mutable action object
          validation,                  \* the verifier's status in the registry
          verdict, frozen, decision,   \* what each run has established so far
          status,                      \* execution_status, as it will be recorded
          ledger,                      \* the records in the sink
          effects,                     \* what happened outside
          pc

Store == INSTANCE MemoryReservations WITH Attempt <- Run

storeVars == <<entry, archive, late, use>>
argVars   == <<rid, keyed>>
runVars   == <<verdict, frozen, decision, status>>
vars == <<storeVars, argVars, proposal, validation, runVars, ledger, effects, pc>>

Validations == {"UNVALIDATED", "VALIDATED", "FAILED"}
Verdicts    == {"PASS", "FAIL", "INSUFFICIENT_EVIDENCE"}
Decisions   == {"ALLOW", "REFUSE", "DEFER"}
Statuses    == {"NONE", "SUCCEEDED", "FAILED", "UNKNOWN"}
Ended       == {"refused", "raised", "done", "unrecorded", "crashed"}
PCs == {"start", "verify", "decide", "decided", "execute", "landed", "raising", "completing", "record"} \cup Ended

Goto(r, l) == pc' = [pc EXCEPT ![r] = l]
Recorded(id) == \E rec \in ledger : rec.id = id
Entered(r)   == pc[r] \notin {"start"} \cup Ended
---------------------------------------------------------------------------
Init ==
  /\ Store!Init
  /\ rid \in [Run -> RecordId]
  /\ keyed \in [Run -> BOOLEAN]
  /\ proposal \in [Run -> Action \cup {NoAction}]
  /\ validation \in Validations
  /\ verdict = [r \in Run |-> "INSUFFICIENT_EVIDENCE"]
  /\ frozen = [r \in Run |-> NoAction]
  /\ decision = [r \in Run |-> "REFUSE"]
  /\ status = [r \in Run |-> "NONE"]
  /\ ledger = {}
  /\ effects = {}
  /\ pc = [r \in Run |-> "start"]

(* A record id the sink is seen to hold is refused before anything runs.   *)
(* The sink may hold it and not show it: a sink object in another process, *)
(* or one that is being reloaded (AnchoredLedger), answers from memory.    *)
CheckRecord(r) ==
  /\ pc[r] = "start"
  /\ \/ Recorded(rid[r]) /\ Goto(r, "refused")
     \/ Goto(r, "verify")
  /\ UNCHANGED <<storeVars, argVars, proposal, validation, runVars, ledger, effects>>

(* Sensor, predictor, adversary and verifier.  A verifier the registry     *)
(* does not hold as VALIDATED is never asked; a non-finite uncertainty or  *)
(* an adversary the verifier cannot answer ends the run.                   *)
Verify(r) ==
  /\ pc[r] = "verify"
  /\ \/ /\ Goto(r, "raised")
        /\ UNCHANGED verdict
     \/ /\ \E v \in Verdicts :
             /\ validation = "FAILED" => v = "FAIL"
             /\ validation = "UNVALIDATED" => v = "INSUFFICIENT_EVIDENCE"
             /\ verdict' = [verdict EXCEPT ![r] = v]
        /\ Goto(r, "decide")
  /\ UNCHANGED <<storeVars, argVars, proposal, validation, frozen, decision, status, ledger, effects>>

(* The evidence record takes a deep copy of the action and the gate        *)
(* decides on that copy.  Other rules of the gate may still say no.        *)
Decide(r) ==
  /\ pc[r] = "decide"
  /\ frozen' = [frozen EXCEPT ![r] = proposal[r]]
  /\ \E d \in Decisions :
       /\ d = "ALLOW" => verdict[r] = "PASS" /\ proposal[r] \in Authorized \cup {NoAction}
       /\ decision' = [decision EXCEPT ![r] = d]
       /\ Goto(r, IF d = "ALLOW" THEN "decided" ELSE "record")
  /\ UNCHANGED <<storeVars, argVars, proposal, validation, verdict, status, ledger, effects>>

(* ALLOW without an action is an error that leaves no record.              *)
AllowWithoutAction(r) ==
  /\ pc[r] = "decided"
  /\ frozen[r] = NoAction
  /\ Goto(r, "raised")
  /\ UNCHANGED <<storeVars, argVars, proposal, validation, runVars, ledger, effects>>

(* The key is claimed before the effect; a key that exists in any state    *)
(* ends the run with no record and no effect.                              *)
ReserveKey(r) ==
  /\ pc[r] = "decided"
  /\ frozen[r] # NoAction
  /\ \/ ~keyed[r] /\ Goto(r, "execute") /\ UNCHANGED storeVars
     \/ keyed[r] /\ Store!Reserve(r) /\ Goto(r, "execute")
     \/ keyed[r] /\ Store!ReserveRefused(r) /\ Goto(r, "raised")
     \/ keyed[r] /\ Store!Poison(r) /\ Goto(r, "crashed")
  /\ UNCHANGED <<argVars, proposal, validation, runVars, ledger, effects>>

(* Mutant: the executor is handed the caller's object, not the frozen one. *)
ExecuteProposal(r) ==
  /\ pc[r] = "execute"
  /\ effects' = effects \cup {[run |-> r, action |-> proposal[r]]}
  /\ Goto(r, "landed")
  /\ UNCHANGED <<storeVars, argVars, proposal, validation, runVars, ledger>>

Execute(r) ==
  /\ pc[r] = "execute"
  /\ effects' = effects \cup {[run |-> r, action |-> frozen[r]]}
  /\ Goto(r, "landed")
  /\ UNCHANGED <<storeVars, argVars, proposal, validation, runVars, ledger>>

(* The executor raises, before its effect or after it.                     *)
ExecutorRaises(r) ==
  /\ pc[r] \in {"execute", "landed"}
  /\ Goto(r, "raising")
  /\ UNCHANGED <<storeVars, argVars, proposal, validation, runVars, ledger, effects>>

ExecutorReturns(r) ==
  /\ pc[r] = "landed"
  /\ Goto(r, "completing")
  /\ UNCHANGED <<storeVars, argVars, proposal, validation, runVars, ledger, effects>>

(* Mutant: an executor that raised is taken not to have acted, and the key *)
(* is freed for a retry.                                                   *)
FreeKeyOnRaise(r) ==
  /\ pc[r] = "raising"
  /\ status' = [status EXCEPT ![r] = IF keyed[r] THEN "UNKNOWN" ELSE "FAILED"]
  /\ \/ ~keyed[r] /\ UNCHANGED storeVars
     \/ keyed[r] /\ entry' = Store!NoEntry /\ use' = [use EXCEPT ![r] = "reported"] /\ UNCHANGED <<archive, late>>
  /\ Goto(r, "record")
  /\ UNCHANGED <<argVars, proposal, validation, verdict, frozen, decision, ledger, effects>>

(* The outcome is not known: a keyed run says so, to the store (an error   *)
(* of the store is swallowed) and in its record.                           *)
ReportUnknown(r) ==
  /\ pc[r] = "raising"
  /\ status' = [status EXCEPT ![r] = IF keyed[r] THEN "UNKNOWN" ELSE "FAILED"]
  /\ \/ ~keyed[r] /\ UNCHANGED storeVars
     \/ keyed[r] /\ (Store!Move(r, "UNKNOWN") \/ Store!Abandon(r))
  /\ Goto(r, "record")
  /\ UNCHANGED <<argVars, proposal, validation, verdict, frozen, decision, ledger, effects>>

(* Mutant: success is recorded without telling the store first.            *)
SkipComplete(r) ==
  /\ pc[r] = "completing"
  /\ status' = [status EXCEPT ![r] = "SUCCEEDED"] /\ Goto(r, "record") /\ UNCHANGED storeVars
  /\ UNCHANGED <<argVars, proposal, validation, verdict, frozen, decision, ledger, effects>>

(* The key is completed before the record is written; if the store fails   *)
(* here, before it has moved the key or after, the run ends without a      *)
(* record.                                                                 *)
Complete(r) ==
  /\ pc[r] = "completing"
  /\ \/ /\ IF keyed[r] THEN Store!Move(r, "COMPLETED") ELSE UNCHANGED storeVars
        /\ status' = [status EXCEPT ![r] = "SUCCEEDED"]
        /\ Goto(r, "record")
     \/ /\ keyed[r] /\ (Store!Abandon(r) \/ Store!Move(r, "COMPLETED"))
        /\ Goto(r, "unrecorded")
        /\ UNCHANGED status
  /\ UNCHANGED <<argVars, proposal, validation, verdict, frozen, decision, ledger, effects>>

(* The sink checks the record id again.  The write may fail, and it may    *)
(* fail, or the process die, once the record is in the ledger (an fsync or *)
(* an anchor that fails): the caller cannot tell.                          *)
RecordEvidence(r) ==
  /\ pc[r] = "record"
  /\ \/ /\ ~Recorded(rid[r])
        /\ ledger' = ledger \cup {[id |-> rid[r], run |-> r, decision |-> decision[r],
                                   action |-> frozen[r], status |-> status[r]]}
        /\ \E l \in {"done", "unrecorded", "crashed"} : Goto(r, l)
     \/ /\ Goto(r, "unrecorded")
        /\ UNCHANGED ledger
  /\ UNCHANGED <<storeVars, argVars, proposal, validation, runVars, effects>>

Crash(r) ==
  /\ Entered(r)
  /\ Goto(r, "crashed")
  /\ IF use[r] = "holding" THEN Store!Abandon(r) ELSE UNCHANGED storeVars
  /\ UNCHANGED <<argVars, proposal, validation, runVars, ledger, effects>>
---------------------------------------------------------------------------
(* The world around the runs.                                              *)
CallerMutates(r) ==
  /\ Entered(r)
  /\ \E a \in Action : proposal' = [proposal EXCEPT ![r] = a]
  /\ UNCHANGED <<storeVars, argVars, validation, runVars, ledger, effects, pc>>

Revalidate ==
  /\ \E v \in Validations : validation' = v
  /\ UNCHANGED <<storeVars, argVars, proposal, runVars, ledger, effects, pc>>

PersonReleases ==
  /\ Store!Release \/ Store!Forget
  /\ UNCHANGED <<argVars, proposal, validation, runVars, ledger, effects, pc>>

LeaseMoves ==
  /\ Store!ClockMoves
  /\ UNCHANGED <<argVars, proposal, validation, runVars, ledger, effects, pc>>

RunStep(r) ==
  \/ CheckRecord(r) \/ Verify(r) \/ Decide(r) \/ AllowWithoutAction(r) \/ ReserveKey(r)
  \/ Execute(r) \/ ExecutorRaises(r) \/ ExecutorReturns(r)
  \/ ReportUnknown(r) \/ Complete(r) \/ RecordEvidence(r)

Next ==
  \/ \E r \in Run : RunStep(r) \/ Crash(r) \/ CallerMutates(r)
  \/ Revalidate \/ PersonReleases \/ LeaseMoves

Spec == Init /\ [][Next]_vars
---------------------------------------------------------------------------
Acted(r) == \E e \in effects : e.run = r
KeyedActors == {r \in Run : keyed[r] /\ Acted(r)}

(* docs/RK2_PREREG.md: release() is the only way to run a key again.  A    *)
(* run that acted under the key holds it, or a person has released just    *)
(* that reservation: neither a failed record write, a crash, an exception  *)
(* after acting nor a lease that is over frees the key (workflow.py:291).  *)
(* So effects never outnumber one plus the releases, also when a late      *)
(* holder acts after its release (RK-3).                                   *)
EffectHoldsKey == \A r \in KeyedActors : entry.holder = r \/ Store!RetiredOf(r) # {}

(* SV-FIX-001: what happens outside is exactly what the gate allowed on a  *)
(* PASS, whatever the caller does to its object in the meantime, and what  *)
(* a record of that run says was decided.                                  *)
EffectAsDecided ==
  \A e \in effects :
    /\ decision[e.run] = "ALLOW" /\ verdict[e.run] = "PASS"
    /\ e.action \in Authorized
    /\ \A rec \in ledger : rec.run = e.run => rec.action = e.action /\ rec.decision = "ALLOW"

(* What fault_injection.py counts of a run: the effects, the records, how  *)
(* run() ended, and what was recorded; and the outcomes it registers for a *)
(* fault at any of the seams, the process dying after the effect (E4), the *)
(* sink failing (E3) and the executor raising (E1, E2) among them.         *)
RecordsOf(r) == {rec \in ledger : rec.run = r}
Outcome(r) ==
  CASE pc[r] = "crashed" -> "crash"
    [] pc[r] = "done" /\ status[r] \notin {"FAILED", "UNKNOWN"} -> "ok"
    [] OTHER -> "raised"
Observed(r) ==
  <<Cardinality({e \in effects : e.run = r}), Cardinality(RecordsOf(r)), Outcome(r),
    {<<rec.decision, rec.status>> : rec \in RecordsOf(r)}>>
Registered ==
  {<<1, 1, "ok", {<<"ALLOW", "SUCCEEDED">>}>>, <<0, 1, "ok", {<<"REFUSE", "NONE">>}>>, <<0, 1, "ok", {<<"DEFER", "NONE">>}>>,
   <<0, 0, "raised", {}>>, <<0, 1, "raised", {<<"ALLOW", "FAILED">>}>>, <<1, 1, "raised", {<<"ALLOW", "FAILED">>}>>,
   <<1, 0, "raised", {}>>, <<1, 0, "crash", {}>>}
Unstarted == <<0, 0, "crash", {}>>

(* A record never claims what did not happen nor denies what may have:     *)
(* SUCCEEDED follows the effect and the store's COMPLETED (or its late     *)
(* event); a keyed run whose executor raised is UNKNOWN, never FAILED      *)
(* (RK-1); a run recorded with no execution never acts.  Without a key     *)
(* every run ends in one of the registered ways, or dies before its        *)
(* effect; or it has left the effects and the record of a registered way   *)
(* and differs in how it ended, because the sink raised or the process     *)
(* died after the record was written.                                      *)
SinkEnded(r) ==
  /\ RecordsOf(r) # {} /\ pc[r] \in {"unrecorded", "crashed"}
  /\ \E outcome \in {"ok", "raised"} : [Observed(r) EXCEPT ![3] = outcome] \in Registered
RecordIsHonest ==
  /\ \A rec \in ledger :
       /\ rec.status = "SUCCEEDED" =>
            /\ Acted(rec.run)
            /\ keyed[rec.run] => \/ entry.holder = rec.run /\ entry.state = "COMPLETED"
                                 \/ [token |-> rec.run, to |-> "COMPLETED"] \in late
       /\ rec.status = "FAILED" => ~keyed[rec.run]
       /\ rec.status = "NONE" => ~Acted(rec.run)
  /\ \A r \in Run : pc[r] \in Ended /\ ~keyed[r] =>
       Observed(r) \in Registered \cup {Unstarted} \/ SinkEnded(r)
===========================================================================
