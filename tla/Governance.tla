------------------------------ MODULE Governance ------------------------------
(***************************************************************************)
(* CapabilityRegistry (capability.py) and CapabilityGovernor               *)
(* (governance.py): threads that authorize and revoke capabilities through *)
(* the governor, which records each decision before it applies it, while   *)
(* other code registers capability definitions.                            *)
(*                                                                         *)
(* A definition is reduced to its max_steps limit: the one field besides   *)
(* authorized that changes while the rest of the system looks on.  The     *)
(* registry has no lock: an entry is fetched, copied and stored back.      *)
(***************************************************************************)
EXTENDS Naturals, Sequences

CONSTANTS Call,     \* the calls of authorize() and revoke()
          Name,     \* capability names
          Limit,    \* values of max_steps
          NoCap     \* a name that is not registered

ASSUME GovernanceAssumption ==
  /\ Limit \subseteq Nat /\ Limit # {}
  /\ NoCap \notin Call \cup Limit \cup [authorized : BOOLEAN, limit : Limit]

VARIABLES caps,         \* the registry
          ledger,       \* the governor's records, in order
          op, target,   \* the arguments of each call
          gpc, held,    \* each call's place, and the entry it has fetched
          defined,      \* the limit last registered under each name (history)
          writer,       \* who wrote each entry last (history)
          met           \* what each call met on its name: other calls, or NoCap
                        \* for a registration, while it was under way (history)

history == <<defined, writer, met>>
govVars == <<caps, ledger, op, target, gpc, held, defined, writer, met>>

Ops  == {"authorize", "revoke"}
Decisions == {"ALLOW", "REFUSE"}
Decision(c) == IF op[c] = "authorize" THEN "ALLOW" ELSE "REFUSE"
RecordOf(c, d) == [call |-> c, name |-> target[c], decision |-> d]

(* A call that may change the registry, once it has looked at it.          *)
Under(c) == gpc[c] \in {"looked", "recorded", "fetched"}
Busy(n)  == {c \in Call : Under(c) /\ target[c] = n}
---------------------------------------------------------------------------
GovInit ==
  /\ caps = [n \in Name |-> NoCap]
  /\ ledger = <<>>
  /\ op \in [Call -> Ops] /\ target \in [Call -> Name]
  /\ gpc = [c \in Call |-> "idle"]
  /\ held = [c \in Call |-> NoCap]
  /\ defined = [n \in Name |-> NoCap]
  /\ writer = [n \in Name |-> NoCap]
  /\ met = [c \in Call |-> {}]

(* register() takes any definition, authorized or not, new or again.       *)
Register(n) ==
  /\ \E a \in BOOLEAN, l \in Limit :
       /\ caps' = [caps EXCEPT ![n] = [authorized |-> a, limit |-> l]]
       /\ defined' = [defined EXCEPT ![n] = l]
  /\ writer' = [writer EXCEPT ![n] = NoCap]
  /\ met' = [c \in Call |-> IF c \in Busy(n) THEN met[c] \cup {NoCap} ELSE met[c]]
  /\ UNCHANGED <<ledger, op, target, gpc, held>>

(* What the registry holds before the call decides whether authorize()     *)
(* goes on or will refuse.                                                 *)
Look(c) ==
  /\ gpc[c] = "idle"
  /\ IF op[c] = "authorize" /\ caps[target[c]] = NoCap
     THEN gpc' = [gpc EXCEPT ![c] = "refusing"] /\ UNCHANGED met
     ELSE /\ gpc' = [gpc EXCEPT ![c] = "looked"]
          /\ met' = [d \in Call |-> IF d = c THEN met[c] \cup Busy(target[c])
                                    ELSE IF d \in Busy(target[c]) THEN met[d] \cup {c} ELSE met[d]]
  /\ UNCHANGED <<caps, ledger, op, target, held, defined, writer>>

(* The sink appends the record, and the call goes on; or it raises and the *)
(* call ends, with the record in the ledger (an fsync or an anchor that    *)
(* failed after the write) or without it.                                  *)
SinkRecords(c, rec, goesOn) ==
  \/ gpc' = [gpc EXCEPT ![c] = goesOn] /\ ledger' = Append(ledger, rec)
  \/ gpc' = [gpc EXCEPT ![c] = "failed"] /\ ledger' \in {ledger, Append(ledger, rec)}

(* authorize() of a name that was not registered when it looked.           *)
RecordRefusal(c) ==
  /\ gpc[c] = "refusing"
  /\ SinkRecords(c, RecordOf(c, "REFUSE"), "refused")
  /\ UNCHANGED <<caps, op, target, held, history>>

(* Mutant: a record that cannot be written does not stop the change.       *)
RecordBestEffort(c) ==
  /\ gpc[c] = "looked"
  /\ gpc' = [gpc EXCEPT ![c] = "recorded"]
  /\ ledger' \in {ledger, Append(ledger, RecordOf(c, Decision(c)))}
  /\ UNCHANGED <<caps, op, target, held, history>>

(* The decision is recorded before it is applied.                          *)
Record(c) ==
  /\ gpc[c] = "looked"
  /\ SinkRecords(c, RecordOf(c, Decision(c)), "recorded")
  /\ UNCHANGED <<caps, op, target, held, history>>

Fetch(c) ==
  /\ gpc[c] = "recorded"
  /\ held' = [held EXCEPT ![c] = caps[target[c]]]
  /\ gpc' = [gpc EXCEPT ![c] = "fetched"]
  /\ UNCHANGED <<caps, ledger, op, target, history>>

(* Mutant: revoke() returns the copy it made and does not store it.        *)
RevokeNotStored(c) ==
  /\ gpc[c] = "fetched"
  /\ IF held[c] = NoCap \/ op[c] = "revoke" THEN UNCHANGED <<caps, writer>>
     ELSE /\ caps' = [caps EXCEPT ![target[c]] = [held[c] EXCEPT !.authorized = TRUE]]
          /\ writer' = [writer EXCEPT ![target[c]] = c]
  /\ gpc' = [gpc EXCEPT ![c] = "applied"]
  /\ UNCHANGED <<ledger, op, target, held, defined, met>>

(* A revocation of an unregistered name changes nothing.                   *)
Store(c) ==
  /\ gpc[c] = "fetched"
  /\ IF held[c] = NoCap THEN UNCHANGED <<caps, writer>>
     ELSE /\ caps' = [caps EXCEPT ![target[c]] = [held[c] EXCEPT !.authorized = (op[c] = "authorize")]]
          /\ writer' = [writer EXCEPT ![target[c]] = c]
  /\ gpc' = [gpc EXCEPT ![c] = "applied"]
  /\ UNCHANGED <<ledger, op, target, held, defined, met>>

GovStep(c) == Look(c) \/ RecordRefusal(c) \/ Record(c) \/ Fetch(c) \/ Store(c)
GovNext == (\E n \in Name : Register(n)) \/ (\E c \in Call : GovStep(c))
GovSpec == GovInit /\ [][GovNext]_govVars
---------------------------------------------------------------------------
RecordsOf(n) == {i \in DOMAIN ledger : ledger[i].name = n}

(* "Authorize or revoke capabilities only after recording evidence": the    *)
(* authorization in an entry the governor wrote is the decision of a record *)
(* of that very call, also when the sink fails or calls overlap.            *)
ChangeIsRecorded ==
  \A n \in Name : \A c \in Call : writer[n] = c =>
    \E i \in RecordsOf(n) : ledger[i].call = c /\ (ledger[i].decision = "ALLOW") = caps[n].authorized

(* The entry follows the ledger: the record of the call that wrote it last *)
(* is the last one of a call that returned having applied its change, but  *)
(* for calls the two were under way together with, of which any may win    *)
(* (the registry has no lock).  A record that stands after it may also be  *)
(* that of a call that raised: its change did not happen.  And a change    *)
(* leaves the rest of a definition as it was registered, unless a          *)
(* registration came while a call on the name was under way.               *)
RegistryMatchesLedger ==
  \A n \in Name :
    /\ writer[n] # NoCap =>
         \E i \in RecordsOf(n) :
           /\ ledger[i].call = writer[n] /\ (ledger[i].decision = "ALLOW") = caps[n].authorized
           /\ \A j \in RecordsOf(n) :
                j > i /\ gpc[ledger[j].call] = "applied" => writer[n] \in met[ledger[j].call]
    /\ caps[n] # NoCap =>
         caps[n].limit = defined[n] \/ \E c \in Call : target[c] = n /\ NoCap \in met[c]
===============================================================================
