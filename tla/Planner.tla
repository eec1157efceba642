-------------------------------- MODULE Planner --------------------------------
(***************************************************************************)
(* BoundedMultiStepPlanner (planner.py): one run of a plan, a sequence of  *)
(* steps each under a capability, through EvidenceWorkflow.run, while the  *)
(* governor authorizes and revokes capabilities and other code registers   *)
(* new definitions (Governance).                                           *)
(*                                                                         *)
(* A run of the workflow is reduced to what the planner sees of it (module *)
(* Workflow has the rest): the gate allows only on an authorized           *)
(* capability within its limit, and the executor may act and return        *)
(* something, return nothing, or raise before or after it acted.           *)
(***************************************************************************)
EXTENDS Governance

CONSTANT Plans   \* the plans callers submit: sequences of [id, name, ok]

ASSUME PlannerAssumption ==
  \A p \in Plans : Len(p) \in Nat /\ DOMAIN p = 1..Len(p) /\ \A i \in DOMAIN p : p[i].name \in Name

VARIABLES plan,       \* the plan submitted
          phase,      \* where run() is
          at,         \* the step it is at, from 1
          snap,       \* the capability object of that step
          fresh,      \* the capability as the registry had it when the step began (history)
          acted,      \* the steps whose action happened outside, in order
          results,    \* step_results: what each workflow run returned
          reason      \* stopped_reason

planVars == <<plan, phase, at, snap, fresh, acted, results, reason>>
vars == <<govVars, planVars>>

Stop(why) == phase' = "stopped" /\ reason' = why

Init ==
  /\ GovInit
  /\ plan \in Plans
  /\ phase = "submitted" /\ at = 1
  /\ snap = NoCap /\ fresh = NoCap
  /\ acted = <<>> /\ results = <<>> /\ reason = "none"

(* A step is sound when it has an id and a digest and its action names the *)
(* step's capability.                                                      *)
PlanOK ==
  /\ plan # <<>>
  /\ \A i, j \in DOMAIN plan : plan[i].id = plan[j].id => i = j
  /\ \A i \in DOMAIN plan :
       /\ plan[i].ok
       /\ caps[plan[i].name] # NoCap
       /\ Len(plan) <= caps[plan[i].name].limit

(* preflight(): the capabilities are checked, not kept.                    *)
Preflight ==
  /\ phase = "submitted"
  /\ phase' = IF PlanOK THEN "between" ELSE "rejected"
  /\ UNCHANGED <<plan, at, snap, fresh, acted, results, reason>>

(* Mutant: a step without a capability change keeps the object of the last. *)
BeginStepCached ==
  /\ phase = "between"
  /\ fresh' = caps[plan[at].name]
  /\ snap' = IF at > 1 /\ plan[at].name = plan[at - 1].name THEN snap ELSE caps[plan[at].name]
  /\ phase' = "deciding"
  /\ UNCHANGED <<plan, at, acted, results, reason>>

BeginStep ==
  /\ phase = "between"
  /\ snap' = caps[plan[at].name]
  /\ fresh' = caps[plan[at].name]
  /\ phase' = "deciding"
  /\ UNCHANGED <<plan, at, acted, results, reason>>

(* The gate, on the step's capability object and step_count.  Other rules  *)
(* may refuse or defer; what run() raises stops the plan.                  *)
Decide ==
  /\ phase = "deciding"
  /\ \/ \E d \in {"ALLOW", "REFUSE", "DEFER"} :
          /\ d = "ALLOW" => snap.authorized /\ at <= snap.limit
          /\ IF d = "ALLOW" THEN phase' = "acting" /\ UNCHANGED <<results, reason>>
             ELSE /\ results' = Append(results, [decision |-> d, executed |-> FALSE])
                  /\ Stop("gate")
     \/ Stop("exception") /\ UNCHANGED results
  /\ UNCHANGED <<plan, at, snap, fresh, acted>>

Act ==
  /\ phase = "acting"
  /\ acted' = Append(acted, at)
  /\ phase' = "landed"
  /\ UNCHANGED <<plan, at, snap, fresh, results, reason>>

(* Mutant: the plan goes on after an executor that raised.                 *)
RaiseSwallowed ==
  /\ phase \in {"acting", "landed"}
  /\ IF at < Len(plan) THEN phase' = "between" /\ at' = at + 1 ELSE phase' = "completed" /\ UNCHANGED at
  /\ UNCHANGED <<plan, snap, fresh, acted, results, reason>>

(* Mutant: a step whose executor raised is tried again.                     *)
RaiseRetried ==
  /\ phase \in {"acting", "landed"}
  /\ phase' = "between"
  /\ UNCHANGED <<plan, at, snap, fresh, acted, results, reason>>

ExecutorRaises ==
  /\ phase \in {"acting", "landed"}
  /\ Stop("exception")
  /\ UNCHANGED <<plan, at, snap, fresh, acted, results>>

(* executed is "the executor returned something": an executor that returns *)
(* None stops the plan.                                                    *)
EndStep ==
  /\ phase = "landed"
  /\ \E returned \in BOOLEAN :
       /\ results' = Append(results, [decision |-> "ALLOW", executed |-> returned])
       /\ IF ~returned THEN Stop("allow_without_execution") /\ UNCHANGED at
          ELSE IF at < Len(plan) THEN phase' = "between" /\ at' = at + 1 /\ UNCHANGED reason
          ELSE phase' = "completed" /\ UNCHANGED <<at, reason>>
  /\ UNCHANGED <<plan, snap, fresh, acted>>

PlanStep == Preflight \/ BeginStep \/ Decide \/ Act \/ ExecutorRaises \/ EndStep

Next == (GovNext /\ UNCHANGED planVars) \/ (PlanStep /\ UNCHANGED govVars)

Spec == Init /\ [][Next]_vars

(* run() is a loop with nothing to wait for.                               *)
FairSpec == Spec /\ WF_vars(PlanStep /\ UNCHANGED govVars)
---------------------------------------------------------------------------
(* What happened outside is a beginning of the plan, in its order, each     *)
(* step at most once: nothing runs after a step that was refused, deferred  *)
(* or raised, and completed means every step ran and was allowed.           *)
ActedIsAPrefix ==
  /\ acted = [i \in 1..Len(acted) |-> i]
  /\ Len(acted) <= at
  /\ phase = "completed" => /\ Len(acted) = Len(plan)
                            /\ results = [i \in DOMAIN plan |-> [decision |-> "ALLOW", executed |-> TRUE]]

(* A revocation that was complete when a step began stops that step, also   *)
(* when earlier steps ran under the same capability: no step is decided on  *)
(* an object older than its beginning, and none runs beyond the limit that  *)
(* a new definition has set since preflight.                                *)
DecidedOnFreshCapability ==
  phase \in {"acting", "landed"} => fresh # NoCap /\ fresh.authorized /\ at <= fresh.limit

(* steps_executed counts the steps that ran, but for a step whose executor  *)
(* raised.                                                                  *)
Executed == {i \in DOMAIN results : results[i].executed}
CountIsHonest ==
  phase \in {"stopped", "completed"} /\ reason # "exception" => \A i \in DOMAIN plan : i \in Executed <=> \E j \in DOMAIN acted : acted[j] = i

(* A plan that is submitted ends.                                           *)
PlanEnds == <>(phase \in {"rejected", "stopped", "completed"})
===============================================================================
