---------------------------- MODULE WorkflowProofs ----------------------------
(* What EvidenceWorkflow.run guarantees for any numbers of runs, record    *)
(* ids and actions.                                                        *)
EXTENDS EffectObservation, FiniteSetTheorems, TLAPS

USE WorkflowAssumption

Early  == {"start", "verify", "decide"}
Going  == {"decided", "execute", "landed", "raising", "completing"}
Late   == {"record", "done", "unrecorded", "crashed"}
Users  == {"holding", "reported", "gone"}
Uses   == Users \cup {"fresh", "refused", "failed"}

StoreType ==
  /\ use \in [Run -> Uses]
  /\ entry \in Store!Entries \cup {Store!NoEntry}
  /\ archive \subseteq Store!Entries /\ late \subseteq Store!Late

TypeInv ==
  /\ rid \in [Run -> RecordId] /\ keyed \in [Run -> BOOLEAN]
  /\ proposal \in [Run -> Action \cup {NoAction}] /\ frozen \in [Run -> Action \cup {NoAction}]
  /\ validation \in Validations
  /\ verdict \in [Run -> Verdicts] /\ decision \in [Run -> Decisions] /\ status \in [Run -> Statuses]
  /\ pc \in [Run -> PCs] /\ StoreType
  /\ effects \subseteq [run : Run, action : Action]
  /\ ledger \subseteq [id : RecordId, run : Run, decision : Decisions, action : Action \cup {NoAction}, status : Statuses]

(* A run goes on only after a PASS and an ALLOW of what it has frozen, ... *)
DecidedInv ==
  \A r \in Run :
    /\ pc[r] \in Going => decision[r] = "ALLOW" /\ verdict[r] = "PASS" /\ frozen[r] \in Authorized \cup {NoAction}
    /\ pc[r] \in Going \ {"decided"} => frozen[r] # NoAction /\ (keyed[r] => use[r] = "holding")
    /\ pc[r] \in Early \cup Going => status[r] = "NONE"
    /\ pc[r] \in Early \cup {"decided"} => use[r] = "fresh"

(* ... acts once, on that, and never after its record, ...                 *)
EffectInv ==
  /\ \A e \in effects :
       /\ pc[e.run] \in {"landed", "raising", "completing"} \cup Late
       /\ e.action = frozen[e.run] /\ frozen[e.run] \in Authorized
       /\ decision[e.run] = "ALLOW" /\ verdict[e.run] = "PASS"
       /\ keyed[e.run] => use[e.run] \in Users
  /\ \A r \in Run : pc[r] \in {"landed", "completing"} => Acted(r)

(* ... and records what it has decided and how it ended.                   *)
RecordOf(r) == [id |-> rid[r], run |-> r, decision |-> decision[r], action |-> frozen[r], status |-> status[r]]
Told(r) ==
  \/ entry.holder = r /\ entry.state = "COMPLETED"
  \/ [token |-> r, to |-> "COMPLETED"] \in late
Written(r) == \E rec \in ledger : rec.run = r
LedgerInv ==
  /\ \A rec \in ledger : pc[rec.run] \in {"done", "unrecorded", "crashed"} /\ rec = RecordOf(rec.run)
  /\ \A r \in Run : pc[r] = "done" => RecordOf(r) \in ledger
StatusInv ==
  \A r \in Run : pc[r] = "record" \/ Written(r) =>
    /\ status[r] = "NONE" <=> decision[r] # "ALLOW"
    /\ status[r] = "NONE" => ~Acted(r)
    /\ status[r] = "SUCCEEDED" => Acted(r) /\ (keyed[r] => use[r] = "reported" /\ Told(r))
    /\ status[r] = "FAILED" => ~keyed[r]
    /\ status[r] = "UNKNOWN" => keyed[r]

(* Whoever holds the key or has held it is the holder of the entry or of   *)
(* an archived one, and an entry that says whose it is says so rightly.    *)
KeyInv ==
  /\ \A r \in Run : use[r] \in Users => entry.holder = r \/ Store!RetiredOf(r) # {}
  /\ entry.token \in {NoToken, entry.holder}

IInv == TypeInv /\ DecidedInv /\ EffectInv /\ LedgerInv /\ StatusInv /\ KeyInv

LEMMA EntryFacts ==
  /\ Store!NoEntry.holder = NoToken /\ Store!NoEntry.state = "NONE" /\ Store!NoEntry.lease = "never"
  /\ Store!NoEntry.token = NoToken
  /\ \A e \in Store!Entries : e.state # "NONE"
  /\ \A t \in Run \cup {NoToken}, l \in {"running", "over", "never"} :
       LET e == Store!InFlight(t, l) IN e \in Store!Entries /\ e.holder = t /\ e.token = t /\ e.state = "IN_FLIGHT"
  /\ \A e \in Store!Entries \cup {Store!NoEntry} :
       /\ Store!Unread(e) \in Store!Entries /\ Store!Unread(e).holder = e.holder
       /\ Store!Unread(e).state = "IN_FLIGHT" /\ Store!Unread(e).token = NoToken
BY DEF Store!NoEntry, Store!Entries, Store!States, Store!Leases, Store!InFlight, Store!Unread

(* What a run can do to its use of the key.                                *)
LEMMA UseFacts ==
  ASSUME NEW t \in Run
  PROVE  /\ Store!Reserve(t) => use[t] = "fresh" /\ use' = [use EXCEPT ![t] = "holding"]
         /\ Store!ReserveRefused(t) => use[t] = "fresh" /\ use' = [use EXCEPT ![t] = "refused"]
         /\ Store!Poison(t) => use[t] = "fresh" /\ use' = [use EXCEPT ![t] = "failed"]
         /\ Store!Abandon(t) => use[t] = "holding" /\ use' = [use EXCEPT ![t] = "gone"]
         /\ \A to : Store!Move(t, to) => use[t] = "holding" /\ use' = [use EXCEPT ![t] = "reported"]
         /\ Store!Release \/ Store!Forget \/ Store!ClockMoves => use' = use
BY DEF Store!Reserve, Store!ReserveRefused, Store!Poison, Store!Abandon, Store!Move, Store!Release, Store!Forget, Store!ClockMoves, Store!storeVars

StoreStep ==
  \/ \E t \in Run : \/ Store!Reserve(t) \/ Store!ReserveRefused(t) \/ Store!Poison(t) \/ Store!Abandon(t)
                    \/ Store!Move(t, "COMPLETED") \/ Store!Move(t, "UNKNOWN")
  \/ Store!Release \/ Store!Forget \/ Store!ClockMoves \/ UNCHANGED storeVars

(* Nothing the store does loses a holder or the report of one.             *)
StoreKept ==
  /\ StoreType' /\ KeyInv'
  /\ \A r \in Run : use[r] = "reported" => use'[r] = "reported" /\ (Told(r) => Told(r)')

LEMMA StoreKeeps == ASSUME StoreType, KeyInv, StoreStep PROVE StoreKept
<1> USE DEF StoreType, StoreKept, KeyInv, Told, Users, Uses, Store!RetiredOf
<1>1. ASSUME NEW t \in Run, Store!Reserve(t) PROVE StoreKept
  <2>1. /\ entry = Store!NoEntry /\ entry' \in Store!Entries /\ entry'.holder = t /\ entry'.token = t
        /\ use[t] = "fresh" /\ use' = [use EXCEPT ![t] = "holding"] /\ archive' = archive /\ late' = late
    BY <1>1, EntryFacts DEF Store!Reserve
  <2> QED
    BY <2>1, EntryFacts
<1>2. ASSUME NEW t \in Run, Store!ReserveRefused(t) PROVE StoreKept
  BY <1>2 DEF Store!ReserveRefused, Store!storeVars
<1>3. ASSUME NEW t \in Run, Store!Poison(t) PROVE StoreKept
  <2>1. /\ entry = Store!NoEntry /\ entry' \in Store!Entries /\ entry'.token = NoToken
        /\ use[t] = "fresh" /\ use' = [use EXCEPT ![t] = "failed"] /\ archive' = archive /\ late' = late
    BY <1>3, EntryFacts DEF Store!Poison
  <2> QED
    BY <2>1, EntryFacts
<1>4. ASSUME NEW t \in Run, Store!Abandon(t) PROVE StoreKept
  BY <1>4 DEF Store!Abandon, Store!storeVars
<1>5. ASSUME NEW t \in Run, NEW to \in {"COMPLETED", "UNKNOWN"}, Store!Move(t, to) PROVE StoreKept
  <2>1. use[t] = "holding" /\ use' = [use EXCEPT ![t] = "reported"] /\ archive' = archive
    BY <1>5 DEF Store!Move
  <2>2. CASE entry.token = t /\ late' = late /\ \E e \in Store!Readings(entry) : entry' = [e EXCEPT !.state = to]
    <3>1. entry \in Store!Entries /\ entry.holder = t
      BY <2>2, EntryFacts
    <3>2. PICK e \in Store!Readings(entry) : entry' = [e EXCEPT !.state = to]
      BY <2>2
    <3>3. e \in Store!Entries /\ e.holder = t /\ e.token \in {NoToken, t}
      BY <2>2, <3>1, EntryFacts DEF Store!Readings
    <3>4. entry' \in Store!Entries /\ entry'.holder = t /\ entry'.token \in {NoToken, t}
      BY <3>2, <3>3 DEF Store!Entries, Store!States
    <3> QED
      BY <2>1, <2>2, <3>1, <3>4
  <2>3. CASE entry' = entry /\ late' = late \cup {[token |-> t, to |-> to]}
    BY <2>1, <2>3 DEF Store!Late, Store!Reports
  <2> QED
    BY <1>5, <2>2, <2>3 DEF Store!Move
<1>6. CASE Store!Release
  <2>1. /\ entry \in Store!Entries /\ entry.state # "COMPLETED" /\ archive' = archive \cup {entry}
        /\ entry' = Store!NoEntry /\ late' = late /\ use' = use
    BY <1>6, EntryFacts DEF Store!Release, Store!Effective
  <2> QED
    BY <2>1, EntryFacts
<1>7. CASE Store!ClockMoves
  <2>1. entry \in Store!Entries
    BY <1>7, EntryFacts DEF Store!ClockMoves
  <2>2. entry' \in Store!Entries /\ entry'.holder = entry.holder /\ entry'.state = entry.state
        /\ entry'.token = entry.token
    BY <1>7, <2>1 DEF Store!ClockMoves, Store!Entries, Store!Leases
  <2> QED
    BY <1>7, <2>2 DEF Store!ClockMoves
<1>8. CASE Store!Forget
  <2>1. entry \in Store!Entries /\ entry.state # "COMPLETED" /\ archive' = archive /\ late' = late /\ use' = use
    BY <1>8, EntryFacts DEF Store!Forget, Store!Effective
  <2>2. PICK l \in {"over", "never"} : entry' = [Store!Unread(entry) EXCEPT !.lease = l]
    BY <1>8 DEF Store!Forget
  <2>3. entry' \in Store!Entries /\ entry'.holder = entry.holder /\ entry'.token = NoToken
    BY <2>1, <2>2, EntryFacts DEF Store!Entries, Store!Leases
  <2> QED
    BY <2>1, <2>3
<1>9. CASE UNCHANGED storeVars
  BY <1>9 DEF storeVars
<1> QED
  BY <1>1, <1>2, <1>3, <1>4, <1>5, <1>6, <1>7, <1>8, <1>9 DEF StoreStep

LEMMA MoveTells ==
  ASSUME StoreType, KeyInv, NEW t \in Run, Store!Move(t, "COMPLETED")
  PROVE  use'[t] = "reported" /\ Told(t)'
<1>1. use'[t] = "reported"
  BY DEF Store!Move, StoreType
<1>2. CASE entry.token = t /\ \E e \in Store!Readings(entry) : entry' = [e EXCEPT !.state = "COMPLETED"]
  <2>1. entry \in Store!Entries /\ entry.holder = t
    BY <1>2, EntryFacts DEF KeyInv, StoreType
  <2>2. PICK e \in Store!Readings(entry) : entry' = [e EXCEPT !.state = "COMPLETED"]
    BY <1>2
  <2>3. e \in Store!Entries /\ e.holder = t
    BY <2>1, EntryFacts DEF Store!Readings
  <2>4. entry'.holder = t /\ entry'.state = "COMPLETED"
    BY <2>2, <2>3 DEF Store!Entries
  <2> QED
    BY <1>1, <2>4 DEF Told
<1>3. CASE late' = late \cup {[token |-> t, to |-> "COMPLETED"]}
  BY <1>1, <1>3 DEF Told
<1> QED
  BY <1>2, <1>3 DEF Store!Move

LEMMA InitIInv == Init => IInv
BY EntryFacts DEF Init, Store!Init, IInv, TypeInv, StoreType, DecidedInv, EffectInv, LedgerInv, StatusInv, KeyInv,
  Going, Early, Users, Uses, Late, Store!RetiredOf, Statuses, Decisions, Verdicts, PCs, Ended, Acted

(* One lemma per action, and in it one step per part of the invariant.     *)
LEMMA CheckRecordStep == ASSUME IInv, NEW r \in Run, CheckRecord(r) PROVE IInv'
<1> USE DEF IInv, CheckRecord, storeVars, argVars, runVars
<1>1. TypeInv'
  BY DEF TypeInv, StoreType, Goto, PCs, Ended
<1>2. DecidedInv'
  BY DEF TypeInv, DecidedInv, Goto, Early, Going
<1>3. EffectInv'
  BY DEF TypeInv, EffectInv, Goto, Late, Acted
<1>4. LedgerInv'
  BY DEF TypeInv, LedgerInv, Goto, RecordOf
<1>5. StatusInv'
  BY DEF TypeInv, StatusInv, Goto, Acted, Told, LedgerInv, Written
<1>6. KeyInv'
  BY DEF KeyInv, Store!RetiredOf
<1> QED
  BY <1>1, <1>2, <1>3, <1>4, <1>5, <1>6

LEMMA VerifyStep == ASSUME IInv, NEW r \in Run, Verify(r) PROVE IInv'
<1> USE DEF IInv, Verify, storeVars, argVars
<1>1. TypeInv'
  BY DEF TypeInv, StoreType, Goto, PCs, Ended
<1>2. DecidedInv'
  BY DEF TypeInv, DecidedInv, Goto, Early, Going
<1>3. EffectInv'
  BY DEF TypeInv, EffectInv, Goto, Late, Acted
<1>4. LedgerInv'
  BY DEF TypeInv, LedgerInv, Goto, RecordOf
<1>5. StatusInv'
  BY DEF TypeInv, StatusInv, Goto, Acted, Told, LedgerInv, Written
<1>6. KeyInv'
  BY DEF KeyInv, Store!RetiredOf
<1> QED
  BY <1>1, <1>2, <1>3, <1>4, <1>5, <1>6

LEMMA DecideStep == ASSUME IInv, NEW r \in Run, Decide(r) PROVE IInv'
<1> USE DEF IInv, Decide, storeVars, argVars
<1>1. TypeInv'
  BY DEF TypeInv, StoreType, Goto, PCs, Ended
<1>2. DecidedInv'
  BY DEF TypeInv, DecidedInv, Goto, Early, Going
<1>3. EffectInv'
  BY DEF TypeInv, EffectInv, Goto, Late, Acted
<1>4. LedgerInv'
  BY DEF TypeInv, LedgerInv, Goto, RecordOf
<1>5. StatusInv'
  BY DEF TypeInv, DecidedInv, EffectInv, StatusInv, Goto, Acted, Told, Early, Late, LedgerInv, Written
<1>6. KeyInv'
  BY DEF KeyInv, Store!RetiredOf
<1> QED
  BY <1>1, <1>2, <1>3, <1>4, <1>5, <1>6
LEMMA AllowWithoutActionStep == ASSUME IInv, NEW r \in Run, AllowWithoutAction(r) PROVE IInv'
<1> USE DEF IInv, AllowWithoutAction, storeVars, argVars, runVars
<1>1. TypeInv'
  BY DEF TypeInv, StoreType, Goto, PCs, Ended
<1>2. DecidedInv'
  BY DEF TypeInv, DecidedInv, Goto, Early, Going
<1>3. EffectInv'
  BY DEF TypeInv, EffectInv, Goto, Late, Acted
<1>4. LedgerInv'
  BY DEF TypeInv, LedgerInv, Goto, RecordOf
<1>5. StatusInv'
  BY DEF TypeInv, StatusInv, Goto, Acted, Told, LedgerInv, Written
<1>6. KeyInv'
  BY DEF KeyInv, Store!RetiredOf
<1> QED
  BY <1>1, <1>2, <1>3, <1>4, <1>5, <1>6

LEMMA ExecuteStep == ASSUME IInv, NEW r \in Run, Execute(r) PROVE IInv'
<1> USE DEF IInv, Execute, storeVars, argVars, runVars
<1>1. TypeInv'
  BY DEF TypeInv, StoreType, Goto, PCs, Ended, DecidedInv, Going
<1>2. DecidedInv'
  BY DEF TypeInv, DecidedInv, Goto, Early, Going
<1>3. EffectInv'
  <2>1. /\ decision[r] = "ALLOW" /\ verdict[r] = "PASS" /\ frozen[r] \in Authorized
        /\ keyed[r] => use[r] \in Users
    BY DEF DecidedInv, Going, Users
  <2>2. pc' = [pc EXCEPT ![r] = "landed"] /\ pc \in [Run -> PCs] /\ effects \subseteq [run : Run, action : Action]
    BY DEF TypeInv, Goto
  <2>3. \A e \in effects : e \in effects' /\ e.run # r /\ pc'[e.run] = pc[e.run]
    BY <2>2 DEF EffectInv, Late
  <2>4. [run |-> r, action |-> frozen[r]] \in effects'
    OBVIOUS
  <2>5. \A q \in Run : q = r \/ Acted(q) => Acted(q)'
    BY <2>3, <2>4, Zenon DEF Acted
  <2>6. \A q \in Run : pc'[q] \in {"landed", "completing"} => Acted(q)'
    BY <2>2, <2>4, <2>5 DEF EffectInv, Acted
  <2>7. \A e \in effects' : e \in effects \/ (e.run = r /\ e.action = frozen[r])
    OBVIOUS
  <2> QED
    BY <2>1, <2>2, <2>3, <2>6, <2>7 DEF EffectInv, Late
<1>4. LedgerInv'
  BY DEF TypeInv, LedgerInv, Goto, RecordOf
<1>5. StatusInv'
  BY DEF TypeInv, StatusInv, Goto, Acted, Told, LedgerInv, Written
<1>6. KeyInv'
  BY DEF KeyInv, Store!RetiredOf
<1> QED
  BY <1>1, <1>2, <1>3, <1>4, <1>5, <1>6

LEMMA ExecutorRaisesStep == ASSUME IInv, NEW r \in Run, ExecutorRaises(r) PROVE IInv'
<1> USE DEF IInv, ExecutorRaises, storeVars, argVars, runVars
<1>1. TypeInv'
  BY DEF TypeInv, StoreType, Goto, PCs, Ended
<1>2. DecidedInv'
  BY DEF TypeInv, DecidedInv, Goto, Early, Going
<1>3. EffectInv'
  BY DEF TypeInv, EffectInv, Goto, Late, Acted
<1>4. LedgerInv'
  BY DEF TypeInv, LedgerInv, Goto, RecordOf
<1>5. StatusInv'
  BY DEF TypeInv, StatusInv, Goto, Acted, Told, LedgerInv, Written
<1>6. KeyInv'
  BY DEF KeyInv, Store!RetiredOf
<1> QED
  BY <1>1, <1>2, <1>3, <1>4, <1>5, <1>6

LEMMA ExecutorReturnsStep == ASSUME IInv, NEW r \in Run, ExecutorReturns(r) PROVE IInv'
<1> USE DEF IInv, ExecutorReturns, storeVars, argVars, runVars
<1>1. TypeInv'
  BY DEF TypeInv, StoreType, Goto, PCs, Ended
<1>2. DecidedInv'
  BY DEF TypeInv, DecidedInv, Goto, Early, Going
<1>3. EffectInv'
  BY DEF TypeInv, EffectInv, Goto, Late, Acted
<1>4. LedgerInv'
  BY DEF TypeInv, LedgerInv, Goto, RecordOf
<1>5. StatusInv'
  BY DEF TypeInv, StatusInv, Goto, Acted, Told, LedgerInv, Written
<1>6. KeyInv'
  BY DEF KeyInv, Store!RetiredOf
<1> QED
  BY <1>1, <1>2, <1>3, <1>4, <1>5, <1>6

LEMMA RecordEvidenceStep == ASSUME IInv, NEW r \in Run, RecordEvidence(r) PROVE IInv'
<1> USE DEF IInv, RecordEvidence, storeVars, argVars, runVars
<1>1. TypeInv'
  BY DEF TypeInv, StoreType, Goto, PCs, Ended
<1>2. DecidedInv'
  BY DEF TypeInv, DecidedInv, Goto, Early, Going
<1>3. EffectInv'
  BY DEF TypeInv, EffectInv, Goto, Late, Acted
<1>4. LedgerInv'
  BY DEF TypeInv, LedgerInv, Goto, RecordOf, StatusInv
<1>5. StatusInv'
  BY DEF TypeInv, StatusInv, Goto, Acted, Told, LedgerInv, Written
<1>6. KeyInv'
  BY DEF KeyInv, Store!RetiredOf
<1> QED
  BY <1>1, <1>2, <1>3, <1>4, <1>5, <1>6

LEMMA CallerMutatesStep == ASSUME IInv, NEW r \in Run, CallerMutates(r) PROVE IInv'
<1> USE DEF IInv, CallerMutates, storeVars, argVars, runVars
<1>1. TypeInv'
  BY DEF TypeInv, StoreType, Goto, PCs, Ended, Entered
<1>2. DecidedInv'
  BY DEF TypeInv, DecidedInv, Goto, Early, Going
<1>3. EffectInv'
  BY DEF TypeInv, EffectInv, Goto, Late, Acted
<1>4. LedgerInv'
  BY DEF TypeInv, LedgerInv, Goto, RecordOf
<1>5. StatusInv'
  BY DEF TypeInv, StatusInv, Goto, Acted, Told, LedgerInv, Written
<1>6. KeyInv'
  BY DEF KeyInv, Store!RetiredOf
<1> QED
  BY <1>1, <1>2, <1>3, <1>4, <1>5, <1>6

LEMMA RevalidateStep == ASSUME IInv, Revalidate PROVE IInv'
<1> USE DEF IInv, Revalidate, storeVars, argVars, runVars
<1>1. TypeInv'
  BY DEF TypeInv, StoreType, Goto, PCs, Ended
<1>2. DecidedInv'
  BY DEF TypeInv, DecidedInv, Goto, Early, Going
<1>3. EffectInv'
  BY DEF TypeInv, EffectInv, Goto, Late, Acted
<1>4. LedgerInv'
  BY DEF TypeInv, LedgerInv, Goto, RecordOf
<1>5. StatusInv'
  BY DEF TypeInv, StatusInv, Goto, Acted, Told, LedgerInv, Written
<1>6. KeyInv'
  BY DEF KeyInv, Store!RetiredOf
<1> QED
  BY <1>1, <1>2, <1>3, <1>4, <1>5, <1>6

LEMMA ReserveKeyStep == ASSUME IInv, NEW r \in Run, ReserveKey(r) PROVE IInv'
<1> USE DEF IInv, ReserveKey, argVars, runVars
<1>0. StoreKept
  <2>1. StoreStep
    BY DEF StoreStep, storeVars
  <2> QED
    BY <2>1, StoreKeeps DEF TypeInv
<1>1. TypeInv'
  BY <1>0 DEF TypeInv, StoreKept, Goto, PCs, Ended
<1>2. DecidedInv'
  BY UseFacts DEF TypeInv, StoreType, DecidedInv, Goto, Early, Going, storeVars
<1>3. EffectInv'
  BY UseFacts DEF TypeInv, StoreType, EffectInv, Goto, Late, Users, Acted, storeVars
<1>4. LedgerInv'
  BY DEF TypeInv, LedgerInv, Goto, RecordOf
<1>5. StatusInv'
  BY <1>0 DEF TypeInv, StatusInv, StoreKept, Goto, Acted, LedgerInv, Written
<1> QED
  BY <1>0, <1>1, <1>2, <1>3, <1>4, <1>5 DEF StoreKept

LEMMA ReportUnknownStep == ASSUME IInv, NEW r \in Run, ReportUnknown(r) PROVE IInv'
<1> USE DEF IInv, ReportUnknown, argVars, runVars
<1>0. StoreKept
  <2>1. StoreStep
    BY DEF StoreStep, storeVars
  <2> QED
    BY <2>1, StoreKeeps DEF TypeInv
<1>1. TypeInv'
  BY <1>0 DEF TypeInv, StoreKept, Goto, PCs, Ended, Statuses
<1>2. DecidedInv'
  BY UseFacts DEF TypeInv, StoreType, DecidedInv, Goto, Early, Going, storeVars
<1>3. EffectInv'
  BY UseFacts DEF TypeInv, StoreType, EffectInv, Goto, Late, Users, Acted, storeVars
<1>4. LedgerInv'
  BY DEF TypeInv, LedgerInv, Goto, RecordOf
<1>5. StatusInv'
  BY <1>0 DEF TypeInv, StatusInv, StoreKept, Goto, Acted, DecidedInv, Going, LedgerInv, Written
<1> QED
  BY <1>0, <1>1, <1>2, <1>3, <1>4, <1>5 DEF StoreKept

LEMMA CompleteStep == ASSUME IInv, NEW r \in Run, Complete(r) PROVE IInv'
<1> USE DEF IInv, Complete, argVars, runVars
<1>0. StoreKept
  <2>1. StoreStep
    BY DEF StoreStep, storeVars
  <2> QED
    BY <2>1, StoreKeeps DEF TypeInv
<1>1. TypeInv'
  BY <1>0 DEF TypeInv, StoreKept, Goto, PCs, Ended, Statuses
<1>2. DecidedInv'
  BY UseFacts DEF TypeInv, StoreType, DecidedInv, Goto, Early, Going, storeVars
<1>3. EffectInv'
  BY UseFacts DEF TypeInv, StoreType, EffectInv, Goto, Late, Users, Acted, storeVars
<1>4. LedgerInv'
  BY DEF TypeInv, LedgerInv, Goto, RecordOf
<1>5. StatusInv'
  <2>1. pc \in [Run -> PCs] /\ status \in [Run -> Statuses] /\ use \in [Run -> Uses] /\ pc[r] = "completing"
    BY DEF TypeInv, StoreType
  <2>2. \A q \in Run \ {r} : pc'[q] = pc[q] /\ status'[q] = status[q]
    BY <2>1 DEF Goto
  <2>3. \A q \in Run : Acted(q)' = Acted(q)
    BY DEF Acted
  <2>4. CASE pc'[r] = "record"
    <3>1. status'[r] = "SUCCEEDED" /\ (keyed[r] => Store!Move(r, "COMPLETED"))
      BY <2>1, <2>4 DEF Goto
    <3>2. ASSUME keyed[r] PROVE use'[r] = "reported" /\ Told(r)'
      BY <2>1, <3>1, <3>2, MoveTells DEF TypeInv
    <3>3. Acted(r) /\ decision[r] = "ALLOW"
      BY <2>1 DEF EffectInv, DecidedInv, Going
    <3> QED
      BY <1>0, <2>1, <2>2, <2>3, <3>1, <3>2, <3>3 DEF StatusInv, StoreKept, LedgerInv, Written
  <2>5. CASE pc'[r] # "record"
    <3>1. pc'[r] = "unrecorded"
      BY <2>1, <2>5 DEF Goto
    <3> QED
      BY <1>0, <2>1, <2>2, <2>3, <3>1 DEF StatusInv, StoreKept, LedgerInv, Written
  <2> QED
    BY <2>4, <2>5
<1> QED
  BY <1>0, <1>1, <1>2, <1>3, <1>4, <1>5 DEF StoreKept

LEMMA CrashStep == ASSUME IInv, NEW r \in Run, Crash(r) PROVE IInv'
<1> USE DEF IInv, Crash, argVars, runVars, Entered
<1>0. StoreKept
  <2>1. StoreStep
    BY DEF StoreStep, storeVars
  <2> QED
    BY <2>1, StoreKeeps DEF TypeInv
<1>1. TypeInv'
  BY <1>0 DEF TypeInv, StoreKept, Goto, PCs, Ended
<1>2. DecidedInv'
  BY UseFacts DEF TypeInv, StoreType, DecidedInv, Goto, Early, Going, storeVars
<1>3. EffectInv'
  BY UseFacts DEF TypeInv, StoreType, EffectInv, Goto, Late, Users, Acted, storeVars
<1>4. LedgerInv'
  BY DEF TypeInv, LedgerInv, Goto, RecordOf, Ended
<1>5. StatusInv'
  BY <1>0 DEF TypeInv, StatusInv, StoreKept, Goto, Acted, LedgerInv, Written
<1> QED
  BY <1>0, <1>1, <1>2, <1>3, <1>4, <1>5 DEF StoreKept

LEMMA PersonReleasesStep == ASSUME IInv, PersonReleases PROVE IInv'
<1> USE DEF IInv, PersonReleases, argVars, runVars
<1>0. StoreKept
  <2>1. StoreStep
    BY DEF StoreStep, storeVars
  <2> QED
    BY <2>1, StoreKeeps DEF TypeInv
<1>1. TypeInv'
  BY <1>0 DEF TypeInv, StoreKept, Goto, PCs, Ended
<1>2. DecidedInv'
  BY UseFacts DEF TypeInv, StoreType, DecidedInv, Goto, Early, Going, storeVars
<1>3. EffectInv'
  BY UseFacts DEF TypeInv, StoreType, EffectInv, Goto, Late, Users, Acted, storeVars
<1>4. LedgerInv'
  BY DEF TypeInv, LedgerInv, Goto, RecordOf
<1>5. StatusInv'
  BY <1>0 DEF TypeInv, StatusInv, StoreKept, Goto, Acted, LedgerInv, Written
<1> QED
  BY <1>0, <1>1, <1>2, <1>3, <1>4, <1>5 DEF StoreKept

LEMMA LeaseMovesStep == ASSUME IInv, LeaseMoves PROVE IInv'
<1> USE DEF IInv, LeaseMoves, argVars, runVars
<1>0. StoreKept
  <2>1. StoreStep
    BY DEF StoreStep, storeVars
  <2> QED
    BY <2>1, StoreKeeps DEF TypeInv
<1>1. TypeInv'
  BY <1>0 DEF TypeInv, StoreKept, Goto, PCs, Ended
<1>2. DecidedInv'
  BY UseFacts DEF TypeInv, StoreType, DecidedInv, Goto, Early, Going, storeVars
<1>3. EffectInv'
  BY UseFacts DEF TypeInv, StoreType, EffectInv, Goto, Late, Users, Acted, storeVars
<1>4. LedgerInv'
  BY DEF TypeInv, LedgerInv, Goto, RecordOf
<1>5. StatusInv'
  BY <1>0 DEF TypeInv, StatusInv, StoreKept, Goto, Acted, LedgerInv, Written
<1> QED
  BY <1>0, <1>1, <1>2, <1>3, <1>4, <1>5 DEF StoreKept

LEMMA NextStep == IInv /\ [Next]_vars => IInv'
<1> SUFFICES ASSUME IInv, [Next]_vars PROVE IInv'
  OBVIOUS
<1>1. ASSUME NEW r \in Run, RunStep(r) PROVE IInv'
  BY <1>1, CheckRecordStep, VerifyStep, DecideStep, AllowWithoutActionStep, ReserveKeyStep, ExecuteStep, ExecutorRaisesStep,
     ExecutorReturnsStep, ReportUnknownStep, CompleteStep, RecordEvidenceStep DEF RunStep
<1>2. CASE UNCHANGED vars
  BY <1>2 DEF vars, storeVars, argVars, runVars, IInv, TypeInv, StoreType, DecidedInv, EffectInv, LedgerInv, StatusInv, KeyInv,
     Acted, Told, Written, RecordOf, Store!RetiredOf
<1> QED
  BY <1>1, <1>2, CrashStep, CallerMutatesStep, RevalidateStep, PersonReleasesStep, LeaseMovesStep DEF Next

LEMMA Invariance == Spec => []IInv
BY InitIInv, NextStep, PTL DEF Spec

(* SV-FIX-001 for any numbers of runs and actions: what happens outside is *)
(* what the gate allowed on a PASS and what the record says (workflow.py   *)
(* 255), however the caller changes its object.                            *)
THEOREM EffectsAsDecided == Spec => []EffectAsDecided
<1>1. IInv => EffectAsDecided
  BY DEF IInv, TypeInv, EffectInv, LedgerInv, RecordOf, EffectAsDecided
<1> QED
  BY <1>1, Invariance, PTL

(* A run that acted under the key holds it, or a person has released its   *)
(* reservation: nothing else frees a key after an effect.                  *)
THEOREM EffectsHoldKey == Spec => []EffectHoldsKey
<1>1. IInv => EffectHoldsKey
  BY DEF IInv, EffectInv, KeyInv, Acted, KeyedActors, EffectHoldsKey
<1> QED
  BY <1>1, Invariance, PTL

(* How a run ends without a key: the effects and the records it leaves.    *)
LEMMA EffectsOfOne ==
  ASSUME IInv, NEW r \in Run
  PROVE  LET n == Cardinality({e \in effects : e.run = r}) IN n = IF Acted(r) THEN 1 ELSE 0
<1>1. CASE Acted(r)
  <2>1. {e \in effects : e.run = r} = {[run |-> r, action |-> frozen[r]]}
    BY <1>1 DEF IInv, TypeInv, EffectInv, Acted
  <2> QED
    BY <1>1, <2>1, FS_Singleton
<1>2. CASE ~Acted(r)
  <2>1. {e \in effects : e.run = r} = {}
    BY <1>2 DEF Acted
  <2> QED
    BY <1>2, <2>1, FS_EmptySet
<1> QED
  BY <1>1, <1>2

LEMMA RecordsOfOne ==
  ASSUME IInv, NEW r \in Run
  PROVE  IF Written(r) THEN RecordsOf(r) = {RecordOf(r)} /\ Cardinality(RecordsOf(r)) = 1
                       ELSE RecordsOf(r) = {} /\ Cardinality(RecordsOf(r)) = 0
<1>1. CASE Written(r)
  <2>1. RecordsOf(r) = {RecordOf(r)}
    BY <1>1 DEF IInv, LedgerInv, RecordsOf, RecordOf, Written
  <2> QED
    BY <1>1, <2>1, FS_Singleton
<1>2. CASE ~Written(r)
  <2>1. RecordsOf(r) = {}
    BY <1>2 DEF RecordsOf, Written
  <2> QED
    BY <1>2, <2>1, FS_EmptySet
<1> QED
  BY <1>1, <1>2

LEMMA EndsAsRegistered ==
  ASSUME IInv, NEW r \in Run, pc[r] \in Ended, ~keyed[r]
  PROVE  Observed(r) \in Registered \cup {Unstarted} \/ SinkEnded(r)
<1> DEFINE n == Cardinality({e \in effects : e.run = r})
           k == Cardinality(RecordsOf(r))
           shown == {<<rec.decision, rec.status>> : rec \in RecordsOf(r)}
<1>1. n = IF Acted(r) THEN 1 ELSE 0
  BY EffectsOfOne
<1>2. Observed(r) = <<n, k, Outcome(r), shown>>
  BY DEF Observed
<1>3. CASE Written(r)
  <2>1. k = 1 /\ shown = {<<decision[r], status[r]>>} /\ RecordsOf(r) # {}
    <3>1. RecordsOf(r) = {RecordOf(r)} /\ k = 1
      BY <1>3, RecordsOfOne
    <3>2. RecordOf(r).decision = decision[r] /\ RecordOf(r).status = status[r]
      BY DEF RecordOf
    <3> QED
      BY <3>1, <3>2
  <2>2. decision[r] \in Decisions /\ status[r] \in Statuses
    BY DEF IInv, TypeInv
  <2>3. pc[r] \in {"done", "unrecorded", "crashed"}
    BY <1>3 DEF IInv, LedgerInv, Written
  <2>4. \/ status[r] = "NONE" /\ decision[r] \in {"REFUSE", "DEFER"} /\ n = 0
        \/ status[r] = "SUCCEEDED" /\ decision[r] = "ALLOW" /\ n = 1
        \/ status[r] = "FAILED" /\ decision[r] = "ALLOW"
    BY <1>1, <1>3, <2>2 DEF IInv, StatusInv, Decisions, Statuses
  <2> DEFINE o == IF status[r] \in {"FAILED", "UNKNOWN"} THEN "raised" ELSE "ok"
  <2>5. o \in {"ok", "raised"} /\ (pc[r] = "done" => Outcome(r) = o)
    BY DEF Outcome
  <2>6. <<n, k, o, shown>> \in Registered
    <3> HIDE DEF n, k, shown
    <3> QED
      BY <1>1, <2>1, <2>4 DEF Registered
  <2>7. [Observed(r) EXCEPT ![3] = o] = <<n, k, o, shown>>
    <3> HIDE DEF n, k, shown, o
    <3> QED
      BY <1>2
  <2> QED
    BY <1>2, <2>1, <2>3, <2>5, <2>6, <2>7 DEF SinkEnded
<1>4. CASE ~Written(r)
  <2>1. k = 0 /\ shown = {}
    BY <1>4, RecordsOfOne
  <2>2. pc[r] # "done" /\ Outcome(r) = IF pc[r] = "crashed" THEN "crash" ELSE "raised"
    BY <1>4 DEF IInv, LedgerInv, Written, RecordOf, Outcome
  <2>3. pc[r] \in {"refused", "raised"} => ~Acted(r)
    BY DEF IInv, EffectInv, Acted, Late
  <2> HIDE DEF n, k, shown
  <2> QED
    BY <1>1, <1>2, <2>1, <2>2 DEF Registered, Unstarted
<1> QED
  BY <1>3, <1>4

(* RK-1 and the registered outcomes of fault injection: no record claims   *)
(* what did not happen or denies what may have, and a run without a key    *)
(* leaves the effects and the record of a registered way to end, or dies   *)
(* before its effect: also when the sink fails, or the process dies, once  *)
(* the record is written.                                                  *)
THEOREM RecordsAreHonest == Spec => []RecordIsHonest
<1>1. IInv => RecordIsHonest
  <2> SUFFICES ASSUME IInv PROVE RecordIsHonest
    OBVIOUS
  <2>1. ASSUME NEW rec \in ledger
        PROVE  /\ rec.status = "SUCCEEDED" =>
                    /\ Acted(rec.run)
                    /\ keyed[rec.run] => \/ entry.holder = rec.run /\ entry.state = "COMPLETED"
                                         \/ [token |-> rec.run, to |-> "COMPLETED"] \in late
               /\ rec.status = "FAILED" => ~keyed[rec.run]
               /\ rec.status = "NONE" => ~Acted(rec.run)
    <3>1. rec.run \in Run /\ Written(rec.run) /\ rec.status = status[rec.run]
      BY DEF IInv, TypeInv, LedgerInv, RecordOf, Written
    <3> QED
      BY <3>1 DEF IInv, StatusInv, Told
  <2> QED
    BY <2>1, EndsAsRegistered DEF RecordIsHonest
<1> QED
  BY <1>1, Invariance, PTL

(* Watching a run changes nothing of it, so all of this holds of the       *)
(* watched runs of module EffectObservation too.                           *)
THEOREM ObserverIsPassive == ObservedSpec => Spec
<1>1. ObservedInit => Init
  BY DEF ObservedInit
<1>2. [ObservedNext]_<<vars, obsVars>> => [Next]_vars
  <2> SUFFICES ASSUME ObservedNext PROVE [Next]_vars
    OBVIOUS
  <2>1. ASSUME NEW r \in Run, ObservedStep(r) PROVE [Next]_vars
    <3>1. RunStep(r) \/ UNCHANGED vars
      BY <2>1, Zenon DEF ObservedStep, Look, LookAgain, ObservedDecide, ObservedExecute, RunStep
    <3> QED
      BY <3>1 DEF Next
  <2> QED
    BY <2>1 DEF ObservedNext
<1> QED
  BY <1>1, <1>2, PTL DEF ObservedSpec, Spec
(* What the observer's history says: a run is in its window from its first *)
(* step until it is done, and acts in it at most once; nobody moves the    *)
(* target in a window without being counted; so the target is where the    *)
(* one run that acted has put it.                                          *)
ObsType ==
  /\ watching \in BOOLEAN /\ gateless \in BOOLEAN
  /\ kind \in [Run -> Kinds] /\ target \in Targets
  /\ before \in [Run -> Targets \cup {Unseen}] /\ after \in [Run -> Targets \cup {Unseen}]
  /\ touched \in [Run -> SUBSET Run]

WindowInv ==
  \A r \in Run :
    /\ before[r] = Unseen => after[r] = Unseen /\ touched[r] = {}
    /\ before[r] # Unseen => watching
    /\ watching /\ before[r] = Unseen => pc[r] = "start"
    /\ after[r] # Unseen => pc[r] = "done"

OrderInv ==
  watching => \A r \in Run :
    /\ proposal[r] \in Authorized
    /\ pc[r] \in Going \cup {"record", "done"} => frozen[r] \in Authorized

ActInv ==
  \A r \in Run :
    /\ pc[r] \in Early \cup {"decided", "execute"} => r \notin touched[r]
    /\ before[r] # Unseen /\ (pc[r] \in {"landed", "completing"} \/ status[r] = "SUCCEEDED") => r \in touched[r]

Now(r) == IF after[r] = Unseen THEN target ELSE after[r]
Effect(r) ==
  CASE kind[r] = "honest" -> [V1 |-> "open", V2 |-> NoPair]
    [] kind[r] = "wrong"  -> [V1 |-> "closed", V2 |-> NoPair]
    [] kind[r] = "side"   -> [before[r] EXCEPT !.V2 = "open"]
    [] kind[r] = "noop"   -> before[r]
SeenInv ==
  \A r \in Run : before[r] # Unseen /\ touched[r] \subseteq {r} =>
    Now(r) = IF r \in touched[r] THEN Effect(r) ELSE before[r]

ObsInv == ObsType /\ WindowInv /\ OrderInv /\ ActInv /\ SeenInv

LEMMA TargetFacts == Unseen \notin Targets /\ \A a : Applied(a) \in Targets
BY DEF Unseen, Targets, Applied, Expected, NoPair

LEMMA InitObsInv == ObservedInit => ObsInv
<1> SUFFICES ASSUME ObservedInit PROVE ObsInv
  OBVIOUS
<1>1. ObsType
  <2>1. kind \in [Run -> Kinds] /\ watching \in BOOLEAN /\ gateless \in BOOLEAN /\ target \in Targets
    BY DEF ObservedInit, Kinds
  <2> QED
    BY <2>1 DEF ObservedInit, ObsType
<1>2. WindowInv /\ OrderInv /\ ActInv /\ SeenInv
  BY DEF ObservedInit, Init, WindowInv, OrderInv, ActInv, SeenInv, Going
<1> QED
  BY <1>1, <1>2 DEF ObsInv

(* An executor of a run in its window is counted in every open window.     *)
LEMMA TouchSeen ==
  ASSUME ObsType, WindowInv, SeenInv, NEW r \in Run, NEW a \in Authorized, InWindow(r), r \notin touched[r],
         Touch(r, a), UNCHANGED <<kind, before, after>>
  PROVE  /\ target' \in Targets /\ touched' \in [Run -> SUBSET Run] /\ SeenInv'
         /\ r \in touched'[r] /\ \A q \in Run : touched'[q] \subseteq touched[q] \cup {r}
         /\ \A q \in Run : before[q] = Unseen => touched'[q] = touched[q]
         /\ \A q \in Run : touched[q] \subseteq touched'[q]
<1>1. touched' = [q \in Run |-> IF InWindow(q) THEN touched[q] \cup {r} ELSE touched[q]] /\ target' = AfterExecutor(r, a)
  BY DEF Touch
<1>2. target \in Targets /\ kind[r] \in Kinds /\ touched \in [Run -> SUBSET Run]
  BY DEF ObsType
<1>3. target' \in Targets
  <2>1. \A t \in Targets : [t EXCEPT !.V2 = "open"] \in Targets
    BY DEF Targets
  <2>2. Applied(a) \in Targets /\ [V1 |-> "closed", V2 |-> NoPair] \in Targets
    BY TargetFacts DEF Targets
  <2> QED
    BY <1>1, <1>2, <2>1, <2>2 DEF AfterExecutor, Kinds
<1>4. SeenInv'
  <2> SUFFICES ASSUME NEW q \in Run, before'[q] # Unseen, touched'[q] \subseteq {q}
               PROVE  Now(q)' = IF q \in touched'[q] THEN Effect(q)' ELSE before'[q]
    BY DEF SeenInv
  <2>1. CASE q = r
    <3>1. touched[r] = {} /\ r \in touched'[r]
      BY <1>1, <1>2, <2>1
    <3>2. target = before[r]
      BY <2>1, <3>1 DEF SeenInv, Now, InWindow
    <3>3. AfterExecutor(r, a) = Effect(r)
      BY <1>2, <3>2 DEF AfterExecutor, Effect, Applied, Expected, Kinds
    <3>4. Now(r)' = target' /\ Effect(r)' = Effect(r)
      BY DEF Now, Effect, InWindow
    <3> QED
      BY <1>1, <2>1, <3>1, <3>3, <3>4
  <2>2. CASE q # r
    <3>1. ~InWindow(q) /\ touched'[q] = touched[q]
      BY <1>1, <2>2
    <3>2. Now(q)' = Now(q) /\ Effect(q)' = Effect(q)
      BY <3>1 DEF Now, Effect, InWindow
    <3> QED
      BY <3>1, <3>2 DEF SeenInv
  <2> QED
    BY <2>1, <2>2
<1> QED
  BY <1>1, <1>2, <1>3, <1>4 DEF InWindow

LEMMA LookStep == ASSUME IInv, ObsInv, NEW r \in Run, Look(r) PROVE ObsInv'
<1>1. /\ before' = [before EXCEPT ![r] = target] /\ before[r] = Unseen /\ watching /\ pc[r] = "start" /\ target # Unseen
      /\ after[r] = Unseen /\ touched[r] = {} /\ after' = after /\ touched' = touched /\ target' = target
  BY TargetFacts DEF Look, ObsInv, ObsType, WindowInv
<1>2. proposal' = proposal /\ frozen' = frozen /\ pc' = pc /\ status' = status /\ kind' = kind /\ watching' = watching
  BY DEF Look, vars, runVars
<1>3. before \in [Run -> Targets \cup {Unseen}] /\ before'[r] = target /\ \A q \in Run \ {r} : before'[q] = before[q]
  BY <1>1 DEF ObsInv, ObsType
<1>4. ObsType'
  BY <1>1, <1>2 DEF Look, ObsInv, ObsType
<1>5. WindowInv' /\ OrderInv'
  BY <1>1, <1>2, <1>3 DEF ObsInv, WindowInv, OrderInv
<1>6. ActInv'
  BY <1>1, <1>2, <1>3 DEF ObsInv, ActInv, IInv, DecidedInv, Early, Going
<1>7. SeenInv'
  <2>1. Now(r)' = target /\ ~(r \in touched'[r])
    BY <1>1 DEF Now
  <2>2. \A q \in Run \ {r} : Now(q)' = Now(q) /\ Effect(q)' = Effect(q)
    BY <1>1, <1>2, <1>3 DEF Now, Effect
  <2> QED
    BY <1>1, <1>3, <2>1, <2>2 DEF ObsInv, SeenInv
<1> QED
  BY <1>4, <1>5, <1>6, <1>7 DEF ObsInv

LEMMA LookAgainStep == ASSUME ObsInv, NEW r \in Run, LookAgain(r) PROVE ObsInv'
<1>1. /\ after' = [after EXCEPT ![r] = target] /\ before[r] # Unseen /\ after[r] = Unseen /\ watching /\ pc[r] = "done"
      /\ target # Unseen /\ before' = before /\ touched' = touched /\ target' = target
  BY TargetFacts DEF LookAgain, InWindow, ObsInv, ObsType
<1>2. proposal' = proposal /\ frozen' = frozen /\ pc' = pc /\ status' = status /\ kind' = kind /\ watching' = watching
  BY DEF LookAgain, vars, runVars
<1>3. after'[r] = target /\ \A q \in Run \ {r} : after'[q] = after[q]
  BY <1>1 DEF ObsInv, ObsType
<1>4. ObsType'
  BY <1>1, <1>2 DEF LookAgain, ObsInv, ObsType
<1>5. WindowInv' /\ OrderInv' /\ ActInv'
  BY <1>1, <1>2, <1>3 DEF ObsInv, WindowInv, OrderInv, ActInv
<1>6. SeenInv'
  <2>1. \A q \in Run : Now(q)' = Now(q) /\ Effect(q)' = Effect(q)
    BY <1>1, <1>2, <1>3 DEF Now, Effect
  <2> QED
    BY <1>1, <2>1 DEF ObsInv, SeenInv
<1> QED
  BY <1>4, <1>5, <1>6 DEF ObsInv

(* A decision freezes the order as proposed; only the mutant acts on one   *)
(* that is not ALLOW.                                                      *)
LEMMA ObservedDecideStep == ASSUME IInv, ObsInv, NEW r \in Run, watching, before[r] # Unseen, ObservedDecide(r) PROVE ObsInv'
<1>1. /\ pc[r] = "decide" /\ frozen' = [frozen EXCEPT ![r] = proposal[r]] /\ proposal' = proposal /\ status' = status
      /\ pc' = [pc EXCEPT ![r] = IF decision'[r] = "ALLOW" THEN "decided" ELSE "record"]
      /\ UNCHANGED <<watching, gateless, kind, before, after>>
  BY DEF ObservedDecide, Decide, Goto, IInv, TypeInv
<1>2. /\ proposal[r] \in Authorized /\ r \notin touched[r] /\ InWindow(r) /\ status[r] = "NONE"
  BY <1>1 DEF ObsInv, OrderInv, ActInv, WindowInv, InWindow, Early, IInv, DecidedInv
<1>3. /\ pc'[r] \in {"decided", "record"} /\ frozen'[r] = proposal[r]
      /\ \A q \in Run \ {r} : pc'[q] = pc[q] /\ frozen'[q] = frozen[q]
  BY <1>1 DEF IInv, TypeInv
<1>4. \/ Touch(r, proposal[r]) /\ pc'[r] = "record"
      \/ target' = target /\ touched' = touched
  BY <1>1 DEF ObservedDecide, IInv, TypeInv
<1>5. /\ target' \in Targets /\ touched' \in [Run -> SUBSET Run] /\ SeenInv'
      /\ \A q \in Run : touched'[q] \subseteq touched[q] \cup {r} /\ touched[q] \subseteq touched'[q]
      /\ \A q \in Run : before[q] = Unseen => touched'[q] = touched[q]
  <2>1. CASE Touch(r, proposal[r])
    BY <1>1, <1>2, <2>1, TouchSeen DEF ObsInv
  <2>2. CASE target' = target /\ touched' = touched
    BY <1>1, <2>2 DEF ObsInv, ObsType, SeenInv, Now, Effect
  <2> QED
    BY <1>4, <2>1, <2>2
<1>6. ObsType'
  BY <1>1, <1>5 DEF ObsInv, ObsType
<1>7. WindowInv' /\ OrderInv'
  BY <1>1, <1>2, <1>3, <1>5 DEF ObsInv, WindowInv, OrderInv, InWindow, Going
<1>8. ActInv'
  <2>1. pc'[r] = "decided" => r \notin touched'[r]
    BY <1>2, <1>4
  <2> QED
    BY <1>1, <1>2, <1>3, <1>5, <2>1 DEF ObsInv, ActInv, Early
<1> QED
  BY <1>5, <1>6, <1>7, <1>8 DEF ObsInv

LEMMA ObservedExecuteStep == ASSUME IInv, ObsInv, NEW r \in Run, watching, before[r] # Unseen, ObservedExecute(r) PROVE ObsInv'
<1>1. /\ pc[r] = "execute" /\ frozen' = frozen /\ proposal' = proposal /\ status' = status
      /\ pc' = [pc EXCEPT ![r] = "landed"] /\ Touch(r, frozen[r])
      /\ UNCHANGED <<watching, gateless, kind, before, after>>
  BY DEF ObservedExecute, Execute, Goto, runVars
<1>2. frozen[r] \in Authorized /\ r \notin touched[r] /\ InWindow(r)
  BY <1>1 DEF ObsInv, OrderInv, ActInv, WindowInv, InWindow, Going
<1>3. pc'[r] = "landed" /\ \A q \in Run \ {r} : pc'[q] = pc[q]
  BY <1>1 DEF IInv, TypeInv
<1>4. /\ target' \in Targets /\ touched' \in [Run -> SUBSET Run] /\ SeenInv' /\ r \in touched'[r]
      /\ \A q \in Run : touched'[q] \subseteq touched[q] \cup {r} /\ touched[q] \subseteq touched'[q]
      /\ \A q \in Run : before[q] = Unseen => touched'[q] = touched[q]
  BY <1>1, <1>2, TouchSeen DEF ObsInv
<1>5. ObsType'
  BY <1>1, <1>4 DEF ObsInv, ObsType
<1>6. WindowInv' /\ OrderInv'
  BY <1>1, <1>2, <1>3, <1>4 DEF ObsInv, WindowInv, OrderInv, InWindow
<1>7. ActInv'
  BY <1>1, <1>3, <1>4 DEF ObsInv, ActInv, Early
<1> QED
  BY <1>4, <1>5, <1>6, <1>7 DEF ObsInv

(* The other steps of a run leave the target alone.                        *)
QuietStep(r) ==
  \/ CheckRecord(r) \/ Verify(r) \/ ReserveKey(r) \/ ExecutorRaises(r) \/ ExecutorReturns(r)
  \/ ReportUnknown(r) \/ Complete(r) \/ RecordEvidence(r)

LEMMA QuietSteps ==
  ASSUME IInv, ObsInv, NEW r \in Run, watching, before[r] # Unseen, QuietStep(r), UNCHANGED obsVars
  PROVE  ObsInv'
<1>1. UNCHANGED <<watching, gateless, kind, target, before, after, touched>>
  BY DEF obsVars
<1> USE DEF Goto, runVars
<1>2. /\ proposal' = proposal /\ frozen' = frozen
      /\ \E l \in PCs, s \in Statuses : pc' = [pc EXCEPT ![r] = l] /\ status' = [status EXCEPT ![r] = s]
  <2>1. \A s : status' = status => status' = [status EXCEPT ![r] = status[r]] /\ status[r] \in Statuses
    BY DEF IInv, TypeInv
  <2> DEFINE Changed(l, s) == pc' = [pc EXCEPT ![r] = l] /\ status' = [status EXCEPT ![r] = s]
  <2>2. CASE CheckRecord(r) \/ Verify(r) \/ ReserveKey(r) \/ ExecutorRaises(r) \/ ExecutorReturns(r) \/ RecordEvidence(r)
    <3>1. proposal' = proposal /\ frozen' = frozen /\ status' = status /\ \E l \in PCs : pc' = [pc EXCEPT ![r] = l]
      BY <2>2, Zenon DEF CheckRecord, Verify, ReserveKey, ExecutorRaises, ExecutorReturns, RecordEvidence, PCs, Ended
    <3> QED
      BY <2>1, <3>1
  <2>3. CASE ReportUnknown(r) \/ Complete(r)
    <3>1. proposal' = proposal /\ frozen' = frozen /\ \E l \in {"record", "unrecorded"} : pc' = [pc EXCEPT ![r] = l]
      BY <2>3, Zenon DEF ReportUnknown, Complete
    <3>2. status' = status \/ \E s \in Statuses : status' = [status EXCEPT ![r] = s]
      BY <2>3 DEF ReportUnknown, Complete, Statuses
    <3> QED
      BY <2>1, <3>1, <3>2 DEF PCs, Ended
  <2> QED
    BY <2>2, <2>3 DEF QuietStep
<1>3. /\ pc'[r] \in Early \cup {"decided", "execute"} => pc[r] \in Early \cup {"decided", "execute"}
      /\ pc'[r] \in {"landed", "completing"} => pc[r] \in {"landed", "completing"}
      /\ pc'[r] \in Going \cup {"record", "done"} => pc[r] \in Going \cup {"record", "done"}
      /\ status'[r] = "SUCCEEDED" => status[r] = "SUCCEEDED" \/ pc[r] = "completing"
      /\ pc[r] # "done"
  <2>1. pc \in [Run -> PCs] /\ status \in [Run -> Statuses]
    BY DEF IInv, TypeInv
  <2> USE DEF Early, Going
  <2>2. CASE CheckRecord(r) \/ Verify(r)
    BY <2>1, <2>2 DEF CheckRecord, Verify
  <2>3. CASE ReserveKey(r)
    BY <2>1, <2>3 DEF ReserveKey
  <2>4. CASE ExecutorRaises(r) \/ ExecutorReturns(r) \/ RecordEvidence(r)
    BY <2>1, <2>4 DEF ExecutorRaises, ExecutorReturns, RecordEvidence
  <2>5. CASE ReportUnknown(r) \/ Complete(r)
    BY <2>1, <2>5 DEF ReportUnknown, Complete
  <2> QED
    BY <2>2, <2>3, <2>4, <2>5 DEF QuietStep
<1>4. ObsType' /\ SeenInv'
  BY <1>1 DEF ObsInv, ObsType, SeenInv, Now, Effect
<1>5. WindowInv' /\ OrderInv' /\ ActInv'
  BY <1>1, <1>2, <1>3 DEF ObsInv, WindowInv, OrderInv, ActInv
<1> QED
  BY <1>4, <1>5 DEF ObsInv

LEMMA ObsNextStep == IInv /\ ObsInv /\ [ObservedNext]_<<vars, obsVars>> => ObsInv'
<1> SUFFICES ASSUME IInv, ObsInv, [ObservedNext]_<<vars, obsVars>> PROVE ObsInv'
  OBVIOUS
<1>1. ASSUME NEW r \in Run, watching, ObservedStep(r) PROVE ObsInv'
  <2>1. CASE Look(r) \/ LookAgain(r)
    BY <2>1, LookStep, LookAgainStep
  <2>2. CASE before[r] # Unseen /\ ObservedDecide(r)
    BY <1>1, <2>2, ObservedDecideStep
  <2>3. CASE before[r] # Unseen /\ ObservedExecute(r)
    BY <1>1, <2>3, ObservedExecuteStep
  <2>4. CASE before[r] # Unseen /\ QuietStep(r) /\ UNCHANGED obsVars
    BY <1>1, <2>4, QuietSteps
  <2> QED
    BY <1>1, <2>1, <2>2, <2>3, <2>4, Zenon DEF ObservedStep, QuietStep
<1>2. CASE ~watching /\ Next /\ UNCHANGED obsVars
  <2>1. /\ UNCHANGED <<watching, gateless, kind, target, before, after, touched>>
        /\ \A q \in Run : before[q] = Unseen /\ after[q] = Unseen /\ touched[q] = {}
    BY <1>2 DEF obsVars, ObsInv, WindowInv
  <2> QED
    BY <1>2, <2>1 DEF ObsInv, ObsType, WindowInv, OrderInv, ActInv, SeenInv
<1>3. CASE UNCHANGED <<vars, obsVars>>
  BY <1>3 DEF vars, runVars, obsVars, ObsInv, ObsType, WindowInv, OrderInv, ActInv, SeenInv, Now, Effect
<1> QED
  BY <1>1, <1>2, <1>3 DEF ObservedNext

LEMMA ObsInvariance == ObservedSpec => [](IInv /\ ObsInv)
<1>1. ObservedSpec => []IInv
  BY ObserverIsPassive, Invariance, PTL
<1> QED
  BY <1>1, InitObsInv, ObsNextStep, PTL DEF ObservedSpec

(* The readings of a run alone in its window, and what the check says.     *)
LEMMA CheckTells ==
  ASSUME IInv, ObsInv, NEW r \in Run, pc[r] = "done", after[r] # Unseen, touched[r] \subseteq {r}
  PROVE  CheckObservedEffect(RecordOf(r), Observation(r)) \in {"OK", "UNOBSERVABLE"} <=> ToldTruly(r, RecordOf(r))
<1> DEFINE rec == RecordOf(r)
           o   == Observation(r)
           b   == before[r]
           f   == after[r]
<1>1. b \in Targets /\ f \in Targets /\ kind[r] \in Kinds /\ b # Unseen
  BY DEF ObsInv, ObsType, WindowInv
<1>2. /\ rec.decision = decision[r] /\ rec.status = status[r] /\ rec.action = frozen[r]
      /\ o.before = b /\ o.after = f /\ Bound(rec, o)
  BY DEF RecordOf, Observation, Bound
<1>3. Expected(frozen[r]) = "open"
  BY <1>1 DEF ObsInv, WindowInv, OrderInv, Expected
<1>4. f = IF r \in touched[r] THEN Effect(r) ELSE b
  BY <1>1 DEF ObsInv, SeenInv, Now
<1>5. status[r] = "SUCCEEDED" => r \in touched[r]
  BY <1>1 DEF ObsInv, ActInv
<1>6. ChangedKeys(o) = {k \in Valves : b[k] # f[k]}
  BY <1>2 DEF ChangedKeys
<1>7. /\ ChangedKeys(o) = {} <=> f = b
      /\ ChangedKeys(o) = {"V1"} <=> f.V1 # b.V1 /\ f.V2 = b.V2
  BY <1>1, <1>6 DEF Valves, Targets
<1> DEFINE says == CheckObservedEffect(rec, o)
<1>8. CASE decision[r] = "ALLOW" /\ status[r] = "SUCCEEDED"
  <2>1. says = IF b.V1 = "open" THEN IF ChangedKeys(o) # {} THEN "WRONG_EFFECT" ELSE "UNOBSERVABLE"
               ELSE IF ChangedKeys(o) = {} THEN "NO_EFFECT"
               ELSE IF f.V1 = "open" /\ ChangedKeys(o) = {"V1"} THEN "OK" ELSE "WRONG_EFFECT"
    BY <1>2, <1>3, <1>8 DEF CheckObservedEffect, Checked
  <2>2. says \in {"OK", "UNOBSERVABLE"} <=> IF b.V1 = "open" THEN f = b ELSE f.V1 = "open" /\ f.V2 = b.V2
    BY <1>1, <1>7, <2>1 DEF Targets
  <2>3. f = Effect(r)
    BY <1>4, <1>5, <1>8
  <2>4. ToldTruly(r, rec) <=> \/ kind[r] = "honest" /\ b.V2 = NoPair
                              \/ kind[r] # "honest" /\ f = b /\ b.V1 = "open"
    BY <1>2, <1>3, <1>5, <1>8 DEF ToldTruly
  <2>5. /\ kind[r] = "honest" => f = [V1 |-> "open", V2 |-> NoPair]
        /\ kind[r] = "wrong" => f = [V1 |-> "closed", V2 |-> NoPair]
        /\ kind[r] = "side" => f = [b EXCEPT !.V2 = "open"]
        /\ kind[r] = "noop" => f = b
    BY <2>3 DEF Effect
  <2> DEFINE good == IF b.V1 = "open" THEN f = b ELSE f.V1 = "open" /\ f.V2 = b.V2
             did  == \/ kind[r] = "honest" /\ b.V2 = NoPair
                     \/ kind[r] # "honest" /\ f = b /\ b.V1 = "open"
  <2>6. good <=> did
    BY <1>1, <2>5 DEF Kinds, Targets, NoPair
  <2> QED
    BY <2>2, <2>4, <2>6
<1>9. CASE ~(decision[r] = "ALLOW" /\ status[r] = "SUCCEEDED")
  <2>1. says \in {"OK", "UNOBSERVABLE"} <=> ChangedKeys(o) = {}
    BY <1>2, <1>9 DEF CheckObservedEffect, Checked
  <2>2. ToldTruly(r, rec) <=> f = b
    BY <1>1, <1>2, <1>4, <1>9 DEF ToldTruly, Effect, Kinds
  <2> QED
    BY <1>7, <2>1, <2>2
<1> QED
  BY <1>8, <1>9

(* The trials as they were played: what the record of each says and what   *)
(* the observer saw.                                                       *)
LEMMA ChangedIs ==
  ASSUME NEW o, o.before \in Targets, o.after \in Targets
  PROVE  /\ ChangedKeys(o) = {} <=> o.after = o.before
         /\ ChangedKeys(o) = {"V1"} <=> o.after.V1 # o.before.V1 /\ o.after.V2 = o.before.V2
BY DEF ChangedKeys, Valves, Targets

State(v1, v2) == [V1 |-> v1, V2 |-> v2]
Played(c, b, f) == Start(c) = b /\ Real(c) = f

LEMMA TrialsPlayed ==
  /\ Played("C1", State("closed", NoPair), State("open", NoPair))
  /\ Played("C2", State("closed", NoPair), State("closed", NoPair))
  /\ Played("C3", State("closed", NoPair), State("closed", NoPair))
  /\ Played("C4", State("open", NoPair), State("open", NoPair))
  /\ Played("A1", State("closed", NoPair), State("open", NoPair))
  /\ Played("A2", State("closed", NoPair), State("open", NoPair))
  /\ Played("A3", State("closed", NoPair), State("closed", NoPair))
  /\ Played("A4", State("open", NoPair), State("closed", NoPair))
  /\ Played("A5", State("closed", NoPair), State("closed", NoPair))
  /\ Played("A8", State("open", NoPair), State("open", "open"))
  /\ View("A5") = State("open", NoPair)
<1> USE DEF Played, Start, Real, Trials, Trial, State, View
<1>1. Played("C1", State("closed", NoPair), State("open", NoPair))
  OBVIOUS
<1>2. Played("C2", State("closed", NoPair), State("closed", NoPair)) /\ Played("C3", State("closed", NoPair), State("closed", NoPair))
  OBVIOUS
<1>3. Played("C4", State("open", NoPair), State("open", NoPair))
  OBVIOUS
<1>4. Played("A1", State("closed", NoPair), State("open", NoPair)) /\ Played("A2", State("closed", NoPair), State("open", NoPair))
  OBVIOUS
<1>5. Played("A3", State("closed", NoPair), State("closed", NoPair)) /\ Played("A5", State("closed", NoPair), State("closed", NoPair))
  OBVIOUS
<1>6. Played("A4", State("open", NoPair), State("closed", NoPair)) /\ Played("A8", State("open", NoPair), State("open", "open"))
  OBVIOUS
<1>7. View("A5") = State("open", NoPair)
  OBVIOUS
<1> QED
  BY <1>1, <1>2, <1>3, <1>4, <1>5, <1>6, <1>7

LEMMA RecordsOfTrials ==
  ASSUME NEW a
  PROVE  /\ \A c \in {"C1", "C4", "A3", "A4", "A5", "A8"} :
              TrialRecord(c, a) = [id |-> c, action |-> a, decision |-> "ALLOW", status |-> "SUCCEEDED"]
         /\ \A c \in {"A6", "A7"} :
              TrialRecord(c, a) = [id |-> "A5", action |-> a, decision |-> "ALLOW", status |-> "SUCCEEDED"]
         /\ \A c \in {"C2", "A1"} : TrialRecord(c, a) = [id |-> c, action |-> a, decision |-> "REFUSE", status |-> "NONE"]
         /\ \A c \in {"C3", "A2"} : TrialRecord(c, a) = [id |-> c, action |-> a, decision |-> "DEFER", status |-> "NONE"]
BY DEF TrialRecord, RunOf, Trials, Trial

(* What the check says of an order that was taken, and of one that was     *)
(* not; an observation of another run is not looked at if it is bound.     *)
LEMMA CheckOfTaken ==
  ASSUME NEW a \in Authorized, NEW rec, NEW o, o.before \in Targets, o.after \in Targets, NEW bind \in BOOLEAN, NEW strict \in BOOLEAN,
         rec.action = a, rec.decision = "ALLOW", rec.status = "SUCCEEDED", bind => Bound(rec, o)
  PROVE  Checked(rec, o, bind, strict)
           = IF o.before.V1 = "open" THEN IF strict /\ o.after # o.before THEN "WRONG_EFFECT" ELSE "UNOBSERVABLE"
             ELSE IF o.after = o.before THEN "NO_EFFECT"
             ELSE IF o.after.V1 = "open" /\ o.after.V2 = o.before.V2 THEN "OK" ELSE "WRONG_EFFECT"
<1>1. Expected(rec.action) = "open"
  BY DEF Expected
<1>2. /\ ChangedKeys(o) = {} <=> o.after = o.before
      /\ ChangedKeys(o) = {"V1"} <=> o.after.V1 # o.before.V1 /\ o.after.V2 = o.before.V2
  BY ChangedIs
<1> QED
  BY <1>1, <1>2 DEF Checked

LEMMA CheckOfUntaken ==
  ASSUME NEW rec, NEW o, o.before \in Targets, o.after \in Targets, NEW bind \in BOOLEAN, NEW strict \in BOOLEAN,
         rec.decision # "ALLOW", bind => Bound(rec, o)
  PROVE  Checked(rec, o, bind, strict) = IF o.after = o.before THEN "OK" ELSE "UNAUTHORIZED_EFFECT"
BY ChangedIs DEF Checked

LEMMA SightingsOfTrials ==
  ASSUME NEW a
  PROVE  /\ \A c \in {"C1", "C2", "C3", "C4", "A1", "A2", "A3", "A4", "A5", "A8"} :
              /\ Sighting(c, a, FALSE) = [id |-> c, action |-> a, before |-> Start(c), after |-> Real(c)]
              /\ Sighting(c, a, TRUE) = [id |-> c, action |-> a, before |-> Start(c), after |-> Start(c)]
         /\ Sighting("A6", a, FALSE) = [id |-> "C1", action |-> a, before |-> Start("C1"), after |-> Real("C1")]
         /\ Sighting("A7", a, FALSE) = [id |-> "A5", action |-> a, before |-> Start("A5"), after |-> View("A5")]
BY DEF Sighting, RunOf

LEMMA StatesAreTargets == \A v1 \in {"open", "closed"}, v2 \in {"open", NoPair} : State(v1, v2) \in Targets
BY DEF State, Targets

(* The verdicts of the observer on the trials.                             *)
Says(c, a, bind, strict) == Checked(TrialRecord(c, a), Sighting(c, a, FALSE), bind, strict)
Table(a, bind, strict) ==
  /\ Says("C1", a, bind, strict) = "OK" /\ Says("C2", a, bind, strict) = "OK" /\ Says("C3", a, bind, strict) = "OK"
  /\ Says("C4", a, bind, strict) = "UNOBSERVABLE"
  /\ Says("A1", a, bind, strict) = "UNAUTHORIZED_EFFECT" /\ Says("A2", a, bind, strict) = "UNAUTHORIZED_EFFECT"
  /\ Says("A3", a, bind, strict) = "NO_EFFECT" /\ Says("A5", a, bind, strict) = "NO_EFFECT"
  /\ Says("A4", a, bind, strict) = IF strict THEN "WRONG_EFFECT" ELSE "UNOBSERVABLE"
  /\ Says("A6", a, bind, strict) = IF bind THEN "BINDING_MISMATCH" ELSE "OK"
  /\ Says("A7", a, bind, strict) = "OK"
  /\ Says("A8", a, bind, strict) = IF strict THEN "WRONG_EFFECT" ELSE "UNOBSERVABLE"

LEMMA VerdictsOnTrials == ASSUME NEW a \in Authorized, NEW bind \in BOOLEAN, NEW strict \in BOOLEAN PROVE Table(a, bind, strict)
<1> DEFINE recs(c) == TrialRecord(c, a)
           seen(c) == Sighting(c, a, FALSE)
<1>1. /\ \A c \in {"C1", "C2", "C3", "C4", "A1", "A2", "A3", "A4", "A5", "A8"} :
           seen(c) = [id |-> c, action |-> a, before |-> Start(c), after |-> Real(c)]
      /\ seen("A6") = [id |-> "C1", action |-> a, before |-> Start("C1"), after |-> Real("C1")]
      /\ seen("A7") = [id |-> "A5", action |-> a, before |-> Start("A5"), after |-> View("A5")]
  BY SightingsOfTrials, Zenon
<1>2. /\ \A c \in {"C1", "C2", "C3", "C4", "A1", "A2", "A3", "A4", "A5", "A8"} : recs(c).id = c /\ recs(c).action = a
       /\ recs("A6").id = "A5" /\ recs("A7").id = "A5" /\ recs("A7").action = a
  BY RecordsOfTrials
<1>3. \A c \in {"C1", "C4", "A3", "A4", "A5", "A6", "A7", "A8"} :
        recs(c).action = a /\ recs(c).decision = "ALLOW" /\ recs(c).status = "SUCCEEDED"
  BY RecordsOfTrials
<1>4. \A c \in {"C2", "C3", "A1", "A2"} : recs(c).decision # "ALLOW"
  BY RecordsOfTrials
<1> HIDE DEF recs, seen
<1>5. \A c \in {"C1", "C2", "C3", "C4", "A1", "A2", "A3", "A4", "A5", "A8"} :
        /\ Bound(recs(c), seen(c)) /\ recs(c).action = a /\ seen(c).before = Start(c) /\ seen(c).after = Real(c)
  BY <1>1, <1>2 DEF Bound
<1>6. /\ seen("A6").before = Start("C1") /\ seen("A6").after = Real("C1") /\ ~Bound(recs("A6"), seen("A6"))
      /\ seen("A7").before = Start("A5") /\ seen("A7").after = View("A5") /\ Bound(recs("A7"), seen("A7"))
  BY <1>1, <1>2 DEF Bound
<1>7. \A c \in {"C1", "C4", "A3", "A4", "A5", "A6", "A7", "A8"} :
        (bind => Bound(recs(c), seen(c))) /\ seen(c).before \in Targets /\ seen(c).after \in Targets =>
        Checked(recs(c), seen(c), bind, strict)
           = IF seen(c).before.V1 = "open" THEN IF strict /\ seen(c).after # seen(c).before THEN "WRONG_EFFECT" ELSE "UNOBSERVABLE"
             ELSE IF seen(c).after = seen(c).before THEN "NO_EFFECT"
             ELSE IF seen(c).after.V1 = "open" /\ seen(c).after.V2 = seen(c).before.V2 THEN "OK" ELSE "WRONG_EFFECT"
  BY <1>3, CheckOfTaken
<1>8. \A c \in {"C2", "C3", "A1", "A2"} :
        Bound(recs(c), seen(c)) /\ seen(c).before \in Targets /\ seen(c).after \in Targets =>
        Checked(recs(c), seen(c), bind, strict) = IF seen(c).after = seen(c).before THEN "OK" ELSE "UNAUTHORIZED_EFFECT"
  BY <1>4, CheckOfUntaken
<1> DEFINE says(c) == Checked(recs(c), seen(c), bind, strict)
<1>9. says("C2") = "OK" /\ says("C3") = "OK" /\ says("A1") = "UNAUTHORIZED_EFFECT" /\ says("A2") = "UNAUTHORIZED_EFFECT"
  BY <1>5, <1>8, TrialsPlayed, StatesAreTargets DEF Played, State, NoPair
<1>10. says("C1") = "OK" /\ says("C4") = "UNOBSERVABLE" /\ says("A3") = "NO_EFFECT" /\ says("A5") = "NO_EFFECT"
  BY <1>5, <1>7, TrialsPlayed, StatesAreTargets DEF Played, State, NoPair
<1>11. /\ says("A4") = IF strict THEN "WRONG_EFFECT" ELSE "UNOBSERVABLE"
      /\ says("A8") = IF strict THEN "WRONG_EFFECT" ELSE "UNOBSERVABLE"
  BY <1>5, <1>7, TrialsPlayed, StatesAreTargets DEF Played, State, NoPair
<1>12. says("A7") = "OK"
  BY <1>6, <1>7, TrialsPlayed, StatesAreTargets DEF Played, State, NoPair
<1>13. says("A6") = IF bind THEN "BINDING_MISMATCH" ELSE "OK"
  <2>1. CASE bind
    BY <1>6, <2>1 DEF Checked
  <2>2. CASE ~bind
    BY <1>6, <1>7, <2>2, TrialsPlayed, StatesAreTargets DEF Played, State, NoPair
  <2> QED
    BY <2>1, <2>2
<1> QED
  BY <1>9, <1>10, <1>11, <1>12, <1>13 DEF Table, Says, recs, seen

(* The checkers of the record and of the receipt, and the blind observer.  *)
LEMMA ShownAre ==
  Shown = {"C1", "C2", "C3", "C4", "A1", "A2", "A3", "A4", "A5", "A6", "A7", "A8"}
BY DEF Shown, Trials, Trial

LEMMA OtherVerdicts ==
  ASSUME NEW a \in Authorized
  PROVE  /\ \A c \in Attacks \cup {"C1", "C2", "C3", "C4"} : R0(a)[c] = "OK"
         /\ \A c \in Attacks \cup {"C1", "C2", "C3", "C4"} : R1(a)[c] = IF c \in {"A3", "A4"} THEN "RECEIPT_FAIL" ELSE "OK"
         /\ \A c \in {"A1", "A2"} : Blind(c, a, FALSE) = "OK"
         /\ Blind("C1", a, FALSE) = "NO_EFFECT" /\ Blind("C1", a, TRUE) = "NO_EFFECT"
         /\ Blind("A4", a, FALSE) = "UNOBSERVABLE"
<1>1. \A c \in Attacks \cup {"C1", "C2", "C3", "C4"} : R0(a)[c] = "OK"
  BY RecordsOfTrials, ShownAre DEF R0, Attacks
<1>2. \A c \in Attacks \cup {"C1", "C2", "C3", "C4"} : R1(a)[c] = IF c \in {"A3", "A4"} THEN "RECEIPT_FAIL" ELSE "OK"
  BY ShownAre DEF R1, RunOf, Trials, Trial, Attacks
<1> DEFINE seen(c) == Sighting(c, a, TRUE)
           recs(c) == TrialRecord(c, a)
<1>3. \A c \in {"A1", "A2", "A4", "C1"} : seen(c) = [id |-> c, action |-> a, before |-> Start(c), after |-> Start(c)]
  BY SightingsOfTrials, Zenon
<1>4. /\ \A c \in {"A1", "A2"} : recs(c).id = c /\ recs(c).action = a /\ recs(c).decision # "ALLOW"
      /\ \A c \in {"A4", "C1"} : recs(c).id = c /\ recs(c).action = a /\ recs(c).decision = "ALLOW" /\ recs(c).status = "SUCCEEDED"
  BY RecordsOfTrials
<1>5. \A c, strict : Blind(c, a, strict) = Checked(recs(c), seen(c), TRUE, strict)
  BY DEF Blind
<1> HIDE DEF recs, seen
<1>6. \A c \in {"A1", "A2", "A4", "C1"} : /\ Bound(recs(c), seen(c)) /\ seen(c).before = Start(c) /\ seen(c).after = Start(c)
                                          /\ Start(c) \in Targets
  BY <1>3, <1>4, TrialsPlayed, StatesAreTargets DEF Bound, Played
<1>7. \A c \in {"A1", "A2"}, bind \in BOOLEAN, strict \in BOOLEAN : Checked(recs(c), seen(c), bind, strict) = "OK"
  BY <1>4, <1>6, CheckOfUntaken
<1>8. \A bind \in BOOLEAN, strict \in BOOLEAN : /\ Checked(recs("C1"), seen("C1"), bind, strict) = "NO_EFFECT"
                                               /\ Checked(recs("A4"), seen("A4"), bind, strict) = "UNOBSERVABLE"
  BY <1>4, <1>6, CheckOfTaken, TrialsPlayed DEF Played, State
<1>9. \A c \in {"A1", "A2"} : Blind(c, a, FALSE) = "OK"
  BY <1>5, <1>7, Zenon
<1>10. Blind("C1", a, FALSE) = "NO_EFFECT" /\ Blind("C1", a, TRUE) = "NO_EFFECT" /\ Blind("A4", a, FALSE) = "UNOBSERVABLE"
  <2>1. \A strict \in BOOLEAN : Checked(recs("C1"), seen("C1"), TRUE, strict) = "NO_EFFECT"
    BY <1>8, Zenon
  <2>2. \A strict \in BOOLEAN : Checked(recs("A4"), seen("A4"), TRUE, strict) = "UNOBSERVABLE"
    BY <1>8, Zenon
  <2>3. \A strict \in BOOLEAN : Blind("C1", a, strict) = "NO_EFFECT"
    BY <1>5, <2>1, Zenon
  <2>4. \A strict \in BOOLEAN : Blind("A4", a, strict) = "UNOBSERVABLE"
    BY <1>5, <2>2, Zenon
  <2> QED
    BY <2>3, <2>4, Zenon
<1> QED
  BY <1>1, <1>2, <1>9, <1>10

LEMMA AllAsRecorded == AsRecorded
<1> SUFFICES ASSUME NEW a \in Authorized PROVE {p \in DOMAIN Registrations(a) : ~Registrations(a)[p]} = {"P3", "P4"}
  BY DEF AsRecorded
<1>1. Found(R0(a)) = {} /\ Quiet(R0(a)) /\ R0(a)["C4"] = "OK"
  BY OtherVerdicts DEF Found, Quiet
<1>2. Found(R1(a)) = {"A3", "A4"} /\ Quiet(R1(a)) /\ R1(a)["C4"] = "OK"
  BY OtherVerdicts DEF Found, Quiet, Attacks
<1>3. \A bind \in BOOLEAN, strict \in BOOLEAN : Table(a, bind, strict)
  BY VerdictsOnTrials
<1>4. /\ R2(a)["C1"] = "OK" /\ R2(a)["C2"] = "OK" /\ R2(a)["C3"] = "OK" /\ R2(a)["C4"] = "UNOBSERVABLE"
      /\ R2(a)["A4"] = "UNOBSERVABLE" /\ R2(a)["A7"] = "OK" /\ R2(a)["A8"] = "UNOBSERVABLE"
  BY <1>3, ShownAre, Zenon DEF Table, Says, R2
<1>5. /\ \A c \in {"A1", "A2"} : R2u(a)[c] = "UNAUTHORIZED_EFFECT"
      /\ \A c \in {"A3", "A5"} : R2u(a)[c] = "NO_EFFECT"
      /\ R2u(a)["A4"] = "UNOBSERVABLE" /\ R2u(a)["C4"] = "UNOBSERVABLE" /\ R2u(a)["A6"] = "OK" /\ R2u(a)["A7"] = "OK"
  BY <1>3, ShownAre, Zenon DEF Table, Says, R2u
<1>6. /\ R2s(a)["C1"] = "OK" /\ R2s(a)["C2"] = "OK" /\ R2s(a)["C3"] = "OK" /\ R2s(a)["C4"] = "UNOBSERVABLE"
      /\ \A c \in {"A1", "A2"} : R2s(a)[c] = "UNAUTHORIZED_EFFECT"
      /\ \A c \in {"A3", "A5"} : R2s(a)[c] = "NO_EFFECT"
      /\ R2s(a)["A4"] = "WRONG_EFFECT" /\ R2s(a)["A6"] = "BINDING_MISMATCH" /\ R2s(a)["A7"] = "OK" /\ R2s(a)["A8"] = "WRONG_EFFECT"
  <2>1. Table(a, TRUE, TRUE)
    BY <1>3, Zenon
  <2>2. \A c \in Shown : R2s(a)[c] = Says(c, a, TRUE, TRUE)
    BY Zenon DEF Says, R2s, CheckObservedEffect
  <2>3. /\ R2s(a)["C1"] = "OK" /\ R2s(a)["C2"] = "OK" /\ R2s(a)["C3"] = "OK" /\ R2s(a)["C4"] = "UNOBSERVABLE"
        /\ R2s(a)["A1"] = "UNAUTHORIZED_EFFECT" /\ R2s(a)["A2"] = "UNAUTHORIZED_EFFECT"
    BY <2>1, <2>2, ShownAre, Zenon DEF Table
  <2>4. /\ R2s(a)["A3"] = "NO_EFFECT" /\ R2s(a)["A5"] = "NO_EFFECT" /\ R2s(a)["A4"] = "WRONG_EFFECT"
        /\ R2s(a)["A6"] = "BINDING_MISMATCH" /\ R2s(a)["A7"] = "OK" /\ R2s(a)["A8"] = "WRONG_EFFECT"
    BY <2>1, <2>2, ShownAre, Zenon DEF Table
  <2> QED
    BY <2>3, <2>4
<1>7. Quiet(R2(a))
  BY <1>4 DEF Quiet
<1>8. Found(R2u(a)) = {"A1", "A2", "A3", "A5"}
  BY <1>5 DEF Found, Attacks
<1>9. Found(R2s(a)) = Attacks \ {"A7"} /\ Quiet(R2s(a))
  BY <1>6 DEF Found, Quiet, Attacks
<1> DEFINE G == Registrations(a)
<1>10. DOMAIN G = {"P1", "P2", "P3", "P4", "P5", "P6", "P8", "Q1", "Q2", "Q3", "Q4"}
  BY DEF Registrations
<1>11. ~G.P3 /\ ~G.P4
  <2>1. G.P3 => R2(a)["A4"] = "WRONG_EFFECT"
    BY DEF Registrations
  <2>2. G.P4 => Found(R2u(a)) = {"A1", "A2", "A3", "A4", "A5"}
    BY DEF Registrations
  <2> QED
    BY <1>4, <1>8, <2>1, <2>2
<1>12. G.P1 /\ G.P2 /\ G.P5 /\ G.P6
  BY <1>1, <1>2, <1>4, <1>5 DEF Registrations
<1>13. G.P8 /\ G.Q1 /\ G.Q2 /\ G.Q3 /\ G.Q4
  BY <1>4, <1>6, <1>9, OtherVerdicts DEF Registrations
<1> HIDE DEF G
<1>14. {p \in DOMAIN G : ~G[p]} = {"P3", "P4"}
  BY <1>10, <1>11, <1>12, <1>13
<1> QED
  BY <1>14 DEF G

(* EO-2 for any numbers of runs and actions: of a run whose window no      *)
(* other run acted in, the check accuses exactly when the target did not   *)
(* go through what the record tells, and it finds in the probe's trials    *)
(* what it was recorded to find.                                           *)
THEOREM ObserverIsRight == ObservedSpec => []ObserverTellsRight
<1>1. IInv /\ ObsInv => ObserverTellsRight
  <2> SUFFICES ASSUME IInv, ObsInv, NEW r \in Run, NEW rec \in ledger PROVE ToldOfRun(r, rec)
    BY AllAsRecorded DEF ObserverTellsRight
  <2> SUFFICES ASSUME rec.run = r, after[r] # Unseen, touched[r] \subseteq {r}
               PROVE  CheckObservedEffect(rec, Observation(r)) \in {"OK", "UNOBSERVABLE"} <=> ToldTruly(r, rec)
    BY DEF ToldOfRun
  <2>1. rec = RecordOf(r) /\ pc[r] = "done"
    BY DEF IInv, LedgerInv, ObsInv, WindowInv
  <2> QED
    BY <2>1, CheckTells
<1> QED
  BY <1>1, ObsInvariance, PTL
===============================================================================
