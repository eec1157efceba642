----------------------------- MODULE PlannerProofs -----------------------------
(* What the capability governor and the bounded planner guarantee for any  *)
(* numbers of calls, names and limits and for plans of any length.         *)
EXTENDS Planner, TLAPS

USE GovernanceAssumption, PlannerAssumption

Caps    == [authorized : BOOLEAN, limit : Limit]
Records == [call : Call, name : Name, decision : Decisions]

GovType ==
  /\ caps \in [Name -> Caps \cup {NoCap}] /\ held \in [Call -> Caps \cup {NoCap}]
  /\ ledger \in Seq(Records)
  /\ op \in [Call -> Ops] /\ target \in [Call -> Name]
  /\ gpc \in [Call -> {"idle", "refusing", "refused", "failed", "looked", "recorded", "fetched", "applied"}]
  /\ defined \in [Name -> Limit \cup {NoCap}] /\ writer \in [Name -> Call \cup {NoCap}]
  /\ met \in [Call -> SUBSET (Call \cup {NoCap})]

(* The record precedes the change, and an entry is as its writer left it.  *)
HasRecord(c) ==
  \E i \in DOMAIN ledger : /\ ledger[i].call = c /\ ledger[i].name = target[c]
                           /\ (ledger[i].decision = "ALLOW") = (op[c] = "authorize")
RecordedInv == \A c \in Call : gpc[c] \in {"recorded", "fetched", "applied"} => HasRecord(c)
WriterInv ==
  \A n \in Name : writer[n] # NoCap =>
    /\ gpc[writer[n]] = "applied" /\ target[writer[n]] = n
    /\ caps[n] # NoCap /\ caps[n].authorized = (op[writer[n]] = "authorize")

(* A call has one record, and two that are under way on a name have met.   *)
SoleInv ==
  /\ \A i \in DOMAIN ledger : /\ ledger[i].name = target[ledger[i].call]
                              /\ gpc[ledger[i].call] \in {"refused", "failed", "recorded", "fetched", "applied"}
  /\ \A i, j \in DOMAIN ledger : ledger[i].call = ledger[j].call => i = j
MetInv == \A c, d \in Call : Under(c) /\ Under(d) /\ target[c] = target[d] /\ c # d => d \in met[c]

(* A call that records after one that is still under way has met it, ...   *)
AfterInv ==
  \A i, j \in DOMAIN ledger :
    i < j /\ ledger[i].name = ledger[j].name /\ Under(ledger[i].call)
          /\ gpc[ledger[j].call] \in {"recorded", "fetched", "applied"} =>
      ledger[i].call \in met[ledger[j].call]

(* ... so every change that was applied and recorded after the record of   *)
(* an entry's writer has met the writer, ...                               *)
LastInv ==
  \A i, j \in DOMAIN ledger :
    i < j /\ ledger[i].call = writer[ledger[j].name] /\ gpc[ledger[j].call] = "applied" =>
      ledger[i].call \in met[ledger[j].call]

(* ... and so will a revocation that found no entry.                       *)
AbsentInv ==
  \A c \in Call : gpc[c] = "fetched" /\ held[c] = NoCap /\ writer[target[c]] # NoCap => writer[target[c]] \in met[c]

(* A definition is as registered, or a registration has met a call.        *)
Crossed(n) == \E c \in Call : target[c] = n /\ NoCap \in met[c]
LimitInv ==
  /\ \A n \in Name : caps[n] # NoCap => caps[n].limit = defined[n] \/ Crossed(n)
  /\ \A c \in Call : gpc[c] = "fetched" /\ held[c] # NoCap =>
       held[c].limit = defined[target[c]] \/ Crossed(target[c])

GovInv == GovType /\ RecordedInv /\ WriterInv /\ SoleInv /\ MetInv /\ AfterInv /\ LastInv /\ AbsentInv /\ LimitInv

(* The plan: how far it is, and what has been done.                        *)
Running == {"between", "deciding", "acting", "landed"}
Phases  == Running \cup {"submitted", "rejected", "stopped", "completed"}
AllowedResult == [decision |-> "ALLOW", executed |-> TRUE]

PlanType ==
  /\ plan \in Plans /\ phase \in Phases
  /\ at \in Nat /\ at >= 1
  /\ acted \in Seq(Nat) /\ results \in Seq([decision : {"ALLOW", "REFUSE", "DEFER"}, executed : BOOLEAN])
ActedInv ==
  /\ \A i \in 1..Len(acted) : acted[i] = i
  /\ Len(acted) <= at
  /\ phase \in {"submitted", "rejected"} => Len(acted) = 0 /\ Len(results) = 0 /\ at = 1
  /\ phase \in {"between", "deciding", "acting"} => Len(acted) = at - 1
  /\ phase = "landed" => Len(acted) = at
  /\ phase \in Running => at <= Len(plan) /\ Len(results) = at - 1 /\ \A i \in 1..Len(results) : results[i] = AllowedResult
  /\ phase = "completed" => /\ Len(acted) = Len(plan) /\ Len(results) = Len(plan)
                            /\ \A i \in 1..Len(results) : results[i] = AllowedResult
FreshInv ==
  /\ phase \in Running => \A i \in DOMAIN plan : caps[plan[i].name] # NoCap
  /\ phase \in Running \ {"between"} => fresh \in Caps /\ snap = fresh
  /\ phase \in {"acting", "landed"} => fresh.authorized /\ at <= fresh.limit

IInv == GovInv /\ PlanType /\ ActedInv /\ FreshInv

LEMMA Appending ==
  ASSUME GovType, NEW rec \in Records, ledger' = Append(ledger, rec)
  PROVE  /\ ledger' \in Seq(Records)
         /\ \A i \in DOMAIN ledger : i \in DOMAIN ledger' /\ ledger'[i] = ledger[i]
         /\ \A i \in DOMAIN ledger' : i \in DOMAIN ledger \/ (i = Len(ledger) + 1 /\ ledger'[i] = rec)
         /\ Len(ledger) + 1 \in DOMAIN ledger' /\ ledger'[Len(ledger) + 1] = rec
         /\ \A i \in DOMAIN ledger : i \in Nat /\ i <= Len(ledger)
BY DEF GovType

LEMMA InitGov == GovInit => GovInv
BY DEF GovInit, GovInv, GovType, RecordedInv, WriterInv, SoleInv, MetInv, AfterInv, LastInv, AbsentInv, LimitInv, Under

LEMMA LedgerFacts ==
  ASSUME GovType
  PROVE  \A i \in DOMAIN ledger : /\ ledger[i] \in Records /\ i \in Nat /\ ledger[i].call \in Call
                                   /\ ledger[i].name \in Name /\ ledger[i].call # NoCap
<1>1. NoCap \notin Call
  OBVIOUS
<1>2. ASSUME NEW l \in Seq(Records), NEW i \in DOMAIN l PROVE l[i] \in Records /\ i \in Nat
  OBVIOUS
<1>3. \A rec \in Records : rec.call \in Call /\ rec.name \in Name
  BY DEF Records
<1> QED
  BY <1>1, <1>2, <1>3 DEF GovType

LEMMA MetGrows ==
  ASSUME GovType, target' = target, \A c \in Call : met[c] \subseteq met'[c], NEW n \in Name, Crossed(n)
  PROVE  Crossed(n)'
BY DEF Crossed

(* A step that writes no record keeps the order of the changes.            *)
LEMMA OrderKept ==
  ASSUME GovType, AfterInv, UNCHANGED <<ledger, target>>, \A c \in Call : met[c] \subseteq met'[c],
         \A i \in DOMAIN ledger : LET c == ledger[i].call IN
           /\ Under(c)' => Under(c)
           /\ gpc'[c] \in {"recorded", "fetched", "applied"} => gpc[c] \in {"recorded", "fetched", "applied"}
  PROVE  AfterInv'
<1> SUFFICES ASSUME NEW i \in DOMAIN ledger, NEW j \in DOMAIN ledger, i < j, ledger[i].name = ledger[j].name,
                    Under(ledger[i].call)', gpc'[ledger[j].call] \in {"recorded", "fetched", "applied"}
             PROVE  ledger[i].call \in met'[ledger[j].call]
  BY DEF AfterInv
<1>1. ledger[i].call \in met[ledger[j].call]
  BY DEF AfterInv
<1> QED
  BY <1>1, LedgerFacts

LEMMA LastKept ==
  ASSUME GovType, LastInv, UNCHANGED ledger, \A c \in Call : met[c] \subseteq met'[c],
         \A i \in DOMAIN ledger : gpc'[ledger[i].call] = "applied" => gpc[ledger[i].call] = "applied",
         \A n \in Name : writer'[n] \in {writer[n], NoCap}
  PROVE  LastInv'
<1> SUFFICES ASSUME NEW i \in DOMAIN ledger, NEW j \in DOMAIN ledger, i < j,
                    ledger[i].call = writer'[ledger[j].name], gpc'[ledger[j].call] = "applied"
             PROVE  ledger[i].call \in met'[ledger[j].call]
  BY DEF LastInv
<1>1. ledger[i].call = writer[ledger[j].name]
  BY LedgerFacts
<1>2. ledger[i].call \in met[ledger[j].call]
  BY <1>1 DEF LastInv
<1> QED
  BY <1>2, LedgerFacts

LEMMA RegisterStep == ASSUME GovInv, NEW n \in Name, Register(n) PROVE GovInv'
<1> USE DEF GovInv, Register
<1>0. \A c \in Call : met[c] \subseteq met'[c]
  OBVIOUS
<1>1. GovType'
  BY DEF GovType, Caps, Busy
<1>2. RecordedInv'
  BY DEF RecordedInv, HasRecord
<1>3. WriterInv'
  BY DEF GovType, WriterInv
<1>4. SoleInv' /\ MetInv'
  BY <1>0 DEF GovType, SoleInv, MetInv, Under
<1>5. AfterInv' /\ LastInv'
  <2>1. \A m \in Name : writer'[m] \in {writer[m], NoCap}
    BY DEF GovType
  <2> QED
    BY <1>0, <2>1, OrderKept, LastKept DEF Under
<1>6. AbsentInv'
  BY <1>0 DEF GovType, AbsentInv
<1>7. LimitInv'
  <2>1. \A m \in Name : Crossed(m) => Crossed(m)'
    BY <1>0, MetGrows
  <2>2. \A c \in Call : gpc[c] = "fetched" /\ target[c] = n => Crossed(n)'
    BY DEF Crossed, Busy, Under
  <2>3. caps'[n].limit = defined'[n]
    BY DEF GovType
  <2> QED
    BY <2>1, <2>2, <2>3 DEF GovType, LimitInv
<1> QED
  BY <1>1, <1>2, <1>3, <1>4, <1>5, <1>6, <1>7

LEMMA LookStep == ASSUME GovInv, NEW c \in Call, Look(c) PROVE GovInv'
<1> USE DEF GovInv
<1>0. /\ gpc[c] = "idle" /\ UNCHANGED <<caps, ledger, op, target, held, defined, writer>>
      /\ gpc' \in {[gpc EXCEPT ![c] = "refusing"], [gpc EXCEPT ![c] = "looked"]}
      /\ \A d \in Call : met[d] \subseteq met'[d]
      /\ met' \in [Call -> SUBSET (Call \cup {NoCap})]
  <2>1. Busy(target[c]) \subseteq Call
    BY DEF Busy
  <2>2. met \in [Call -> SUBSET (Call \cup {NoCap})]
    BY DEF GovType
  <2> QED
    BY <2>1, <2>2 DEF Look
<1>a. gpc'[c] = "looked" => Busy(target[c]) \subseteq met'[c] /\ \A d \in Busy(target[c]) : d # c => c \in met'[d]
  BY <1>0 DEF Look, GovType, Busy
<1>b. \A d \in Call : d # c => gpc'[d] = gpc[d]
  BY <1>0 DEF GovType
<1>c. gpc'[c] \in {"refusing", "looked"}
  BY <1>0 DEF GovType
<1>d. \A i \in DOMAIN ledger : ledger[i].call \in Call /\ ledger[i].call # c
  BY <1>0, LedgerFacts DEF SoleInv
<1>1. GovType'
  BY <1>0 DEF GovType
<1>2. RecordedInv'
  BY <1>0 DEF GovType, RecordedInv, HasRecord
<1>3. WriterInv'
  BY <1>0 DEF GovType, WriterInv
<1>4. SoleInv'
  BY <1>0, <1>b, <1>d DEF SoleInv
<1>5. MetInv'
  BY <1>0, <1>a, <1>b, <1>c DEF MetInv, Under, Busy
<1>6. AfterInv'
  BY <1>0, <1>b, <1>d, OrderKept DEF Under
<1>7. LastInv'
  BY <1>0, <1>b, <1>d, LastKept
<1>8. AbsentInv'
  BY <1>0 DEF GovType, AbsentInv
<1>9. LimitInv'
  <2>1. \A m \in Name : Crossed(m) => Crossed(m)'
    BY <1>0, MetGrows
  <2> QED
    BY <1>0, <2>1 DEF GovType, LimitInv
<1> QED
  BY <1>1, <1>2, <1>3, <1>4, <1>5, <1>6, <1>7, <1>8, <1>9

LEMMA FetchStep == ASSUME GovInv, NEW c \in Call, Fetch(c) PROVE GovInv'
<1> USE DEF GovInv, Fetch, history
<1>1. GovType'
  BY DEF GovType
<1>2. RecordedInv'
  BY DEF GovType, RecordedInv, HasRecord
<1>3. WriterInv'
  BY DEF GovType, WriterInv
<1>4. SoleInv' /\ MetInv'
  BY DEF GovType, SoleInv, MetInv, Under
<1>5. AfterInv' /\ LastInv'
  <2>1. /\ \A d \in Call : Under(d)' => Under(d)
        /\ \A d \in Call : gpc'[d] \in {"recorded", "fetched", "applied"} => gpc[d] \in {"recorded", "fetched", "applied"}
        /\ \A d \in Call : gpc'[d] = "applied" => gpc[d] = "applied"
    BY DEF GovType, Under
  <2> QED
    BY <2>1, LedgerFacts, OrderKept, LastKept
<1>6. AbsentInv'
  BY DEF GovType, AbsentInv, WriterInv
<1>7. LimitInv'
  BY DEF GovType, LimitInv, Crossed
<1> QED
  BY <1>1, <1>2, <1>3, <1>4, <1>5, <1>6, <1>7

LEMMA StoreStep == ASSUME GovInv, NEW c \in Call, Store(c) PROVE GovInv'
<1> DEFINE n == target[c]
           cap == [held[c] EXCEPT !.authorized = (op[c] = "authorize")]
<1> USE DEF GovInv
<1>0. /\ gpc[c] = "fetched" /\ gpc' = [gpc EXCEPT ![c] = "applied"]
      /\ UNCHANGED <<ledger, op, target, held, defined, met>>
      /\ n \in Name /\ held[c] \in Caps \cup {NoCap}
  BY DEF Store, GovType
<1>1. \/ held[c] = NoCap /\ caps' = caps /\ writer' = writer
      \/ held[c] # NoCap /\ caps' = [caps EXCEPT ![n] = cap] /\ writer' = [writer EXCEPT ![n] = c]
  BY DEF Store
<1>2. held[c] # NoCap => cap \in Caps /\ cap # NoCap /\ cap.authorized = (op[c] = "authorize") /\ cap.limit = held[c].limit
  BY <1>0 DEF Caps
<1> HIDE DEF cap
<1>3. GovType'
  <2>1. caps' \in [Name -> Caps \cup {NoCap}]
    BY <1>0, <1>1, <1>2 DEF GovType
  <2>2. writer' \in [Name -> Call \cup {NoCap}]
    BY <1>0, <1>1 DEF GovType
  <2> QED
    BY <1>0, <2>1, <2>2 DEF GovType
<1>4. RecordedInv'
  BY <1>0 DEF GovType, RecordedInv, HasRecord
<1>5. WriterInv'
  BY <1>0, <1>1, <1>2 DEF GovType, WriterInv
<1>6. SoleInv' /\ MetInv'
  BY <1>0 DEF GovType, SoleInv, MetInv, Under
<1>7. AfterInv'
  <2>1. /\ \A d \in Call : Under(d)' => Under(d)
        /\ \A d \in Call : gpc'[d] \in {"recorded", "fetched", "applied"} => gpc[d] \in {"recorded", "fetched", "applied"}
    BY <1>0 DEF GovType, Under
  <2> QED
    BY <1>0, <2>1, LedgerFacts, OrderKept
<1>8. LastInv'
  <2> SUFFICES ASSUME NEW i \in DOMAIN ledger, NEW j \in DOMAIN ledger, i < j,
                      ledger[i].call = writer'[ledger[j].name], gpc'[ledger[j].call] = "applied"
               PROVE  ledger[i].call \in met[ledger[j].call]
    BY <1>0 DEF LastInv
  <2>1. /\ ledger[i] \in Records /\ ledger[j] \in Records /\ i # j
        /\ ledger[i].name = target[ledger[i].call] /\ ledger[j].name = target[ledger[j].call]
        /\ ledger[i].call # ledger[j].call
    BY DEF GovType, SoleInv
  <2>2. CASE ledger[j].name = n /\ held[c] # NoCap
    <3>1. ledger[i].call = c /\ ledger[i].name = n /\ Under(c) /\ gpc[ledger[j].call] = "applied"
      BY <1>0, <1>1, <2>1, <2>2 DEF GovType, Under, Records
    <3> QED
      BY <2>2, <3>1 DEF AfterInv
  <2>3. CASE ~(ledger[j].name = n /\ held[c] # NoCap)
    <3>1. writer'[ledger[j].name] = writer[ledger[j].name]
      BY <1>0, <1>1, <2>1, <2>3 DEF GovType, Records
    <3>2. CASE gpc[ledger[j].call] = "applied"
      BY <3>1, <3>2 DEF LastInv
    <3>3. CASE ledger[j].call = c
      BY <1>0, <2>1, <2>3, <3>1, <3>3 DEF AbsentInv, GovType, Records
    <3> QED
      BY <1>0, <2>1, <3>2, <3>3 DEF GovType, Records
  <2> QED
    BY <2>2, <2>3
<1>9. AbsentInv'
  <2> SUFFICES ASSUME NEW d \in Call, gpc'[d] = "fetched", held[d] = NoCap, writer'[target[d]] # NoCap
               PROVE  writer'[target[d]] \in met[d]
    BY <1>0 DEF AbsentInv
  <2>1. d # c /\ gpc[d] = "fetched"
    BY <1>0 DEF GovType
  <2>2. CASE target[d] = n /\ held[c] # NoCap
    BY <1>0, <1>1, <2>1, <2>2 DEF GovType, MetInv, Under
  <2>3. CASE ~(target[d] = n /\ held[c] # NoCap)
    BY <1>0, <1>1, <2>1, <2>3 DEF GovType, AbsentInv
  <2> QED
    BY <2>2, <2>3
<1>10. LimitInv'
  <2>1. \A m \in Name : Crossed(m)' <=> Crossed(m)
    BY <1>0 DEF Crossed
  <2> QED
    BY <1>0, <1>1, <1>2, <2>1 DEF GovType, LimitInv
<1> QED
  BY <1>3, <1>4, <1>5, <1>6, <1>7, <1>8, <1>9, <1>10

(* The record of a call that had none: the call goes on, or it has failed. *)
LEMMA SinkStep ==
  ASSUME GovInv, NEW c \in Call, NEW d \in Decisions, NEW goesOn,
         \/ gpc[c] = "refusing" /\ goesOn = "refused"
         \/ gpc[c] = "looked" /\ goesOn = "recorded" /\ d = Decision(c),
         SinkRecords(c, RecordOf(c, d), goesOn), UNCHANGED <<caps, op, target, held, history>>
  PROVE  GovInv'
<1> DEFINE rec == RecordOf(c, d)
<1> USE DEF GovInv, history
<1>1. rec \in Records /\ rec.call = c /\ rec.name = target[c] /\ rec.decision = d
  BY DEF GovType, Records, RecordOf
<1>2. /\ gpc[c] \in {"refusing", "looked"} /\ gpc' \in {[gpc EXCEPT ![c] = goesOn], [gpc EXCEPT ![c] = "failed"]}
      /\ ledger' = ledger \/ ledger' = Append(ledger, rec)
      /\ gpc'[c] \in {"recorded", "refused"} => ledger' = Append(ledger, rec)
  BY DEF SinkRecords, GovType
<1> HIDE DEF rec
<1>3. /\ ledger' \in Seq(Records)
      /\ \A i \in DOMAIN ledger : i \in DOMAIN ledger' /\ ledger'[i] = ledger[i]
      /\ \A i \in DOMAIN ledger' : i \in DOMAIN ledger \/ (i = Len(ledger) + 1 /\ ledger'[i] = rec)
      /\ \A i \in DOMAIN ledger : i \in Nat /\ i <= Len(ledger)
      /\ ledger' = Append(ledger, rec) => Len(ledger) + 1 \in DOMAIN ledger' /\ ledger'[Len(ledger) + 1] = rec
  <2>1. CASE ledger' = ledger
    <3>1. ledger # Append(ledger, rec)
      BY DEF GovType
    <3> QED
      BY <2>1, <3>1 DEF GovType
  <2>2. CASE ledger' = Append(ledger, rec)
    BY <1>1, <2>2, Appending
  <2> QED
    BY <1>2, <2>1, <2>2
<1>4. \A i \in DOMAIN ledger : ledger[i] \in Records /\ ledger[i].call # c
  BY <1>2, LedgerFacts DEF SoleInv
<1>5. \A e \in Call : e # c => gpc'[e] = gpc[e]
  BY <1>2 DEF GovType
<1>6. gpc'[c] \in {"recorded", "refused", "failed"}
  BY <1>2 DEF GovType
<1>e. gpc'[c] = "recorded" => Under(c)
  BY <1>2 DEF GovType, Under
<1>7. GovType'
  BY <1>2, <1>3 DEF GovType
<1>8. RecordedInv'
  <2>1. \A e \in Call : HasRecord(e) => HasRecord(e)'
    BY <1>3 DEF HasRecord
  <2>2. gpc'[c] = "recorded" => HasRecord(c)'
    <3>1. gpc'[c] = "recorded" => d = Decision(c)
      BY <1>2 DEF GovType
    <3>2. d = Decision(c) => (d = "ALLOW") = (op[c] = "authorize")
      BY DEF Decision
    <3>3. gpc'[c] = "recorded" => Len(ledger) + 1 \in DOMAIN ledger' /\ ledger'[Len(ledger) + 1] = rec
      BY <1>2, <1>3
    <3> QED
      BY <1>1, <3>1, <3>2, <3>3 DEF HasRecord
  <2> QED
    BY <1>5, <1>6, <2>1, <2>2 DEF RecordedInv
<1>9. WriterInv'
  BY <1>2, <1>5 DEF GovType, WriterInv
<1>10. SoleInv'
  <2>1. ASSUME NEW i \in DOMAIN ledger'
        PROVE  /\ ledger'[i].name = target[ledger'[i].call]
               /\ gpc'[ledger'[i].call] \in {"refused", "failed", "recorded", "fetched", "applied"}
    <3>1. CASE i \in DOMAIN ledger
      BY <1>3, <1>4, <1>5, <3>1, LedgerFacts DEF SoleInv
    <3>2. CASE ledger'[i] = rec
      BY <1>1, <1>6, <3>2
    <3> QED
      BY <1>3, <3>1, <3>2
  <2>2. ASSUME NEW i \in DOMAIN ledger', NEW j \in DOMAIN ledger', ledger'[i].call = ledger'[j].call
        PROVE  i = j
    <3>1. CASE i \in DOMAIN ledger /\ j \in DOMAIN ledger
      BY <1>3, <2>2, <3>1 DEF SoleInv
    <3>2. CASE i \notin DOMAIN ledger /\ j \notin DOMAIN ledger
      BY <1>3, <3>2
    <3>3. CASE i \in DOMAIN ledger /\ j \notin DOMAIN ledger
      BY <1>1, <1>3, <1>4, <2>2, <3>3
    <3>4. CASE i \notin DOMAIN ledger /\ j \in DOMAIN ledger
      BY <1>1, <1>3, <1>4, <2>2, <3>4
    <3> QED
      BY <3>1, <3>2, <3>3, <3>4
  <2> QED
    BY <2>1, <2>2 DEF SoleInv
<1>11. MetInv'
  BY <1>5, <1>6, <1>e DEF MetInv, Under
<1>12. AfterInv'
  <2> SUFFICES ASSUME NEW i \in DOMAIN ledger', NEW j \in DOMAIN ledger', i < j,
                      ledger'[i].name = ledger'[j].name, gpc'[ledger'[i].call] \in {"looked", "recorded", "fetched"},
                      gpc'[ledger'[j].call] \in {"recorded", "fetched", "applied"}
               PROVE  ledger'[i].call \in met[ledger'[j].call]
    BY DEF AfterInv, Under
  <2>1. i \in DOMAIN ledger /\ ledger'[i] = ledger[i] /\ ledger[i] \in Records /\ ledger[i].call # c
    <3>1. i \in Nat /\ j \in Nat /\ j <= Len(ledger) + 1 /\ Len(ledger) \in Nat
      BY <1>3 DEF GovType
    <3> QED
      BY <1>3, <1>4, <3>1
  <2>2. Under(ledger[i].call) /\ ledger[i].name = target[ledger[i].call]
    BY <1>5, <2>1, LedgerFacts DEF Under, SoleInv
  <2>3. CASE j \in DOMAIN ledger
    BY <1>3, <1>4, <1>5, <2>1, <2>2, <2>3 DEF AfterInv, Records
  <2>4. CASE ledger'[j] = rec
    <3>1. Under(c)
      BY <1>1, <1>6, <1>e, <2>4
    <3> QED
      BY <1>1, <2>1, <2>2, <2>4, <3>1 DEF MetInv, Records
  <2> QED
    BY <1>3, <2>3, <2>4
<1>13. LastInv'
  <2> SUFFICES ASSUME NEW i \in DOMAIN ledger', NEW j \in DOMAIN ledger', i < j,
                      ledger'[i].call = writer[ledger'[j].name], gpc'[ledger'[j].call] = "applied"
               PROVE  ledger'[i].call \in met[ledger'[j].call]
    BY DEF LastInv
  <2>1. ledger'[j] # rec
    BY <1>1, <1>6
  <2>2. i \in DOMAIN ledger /\ j \in DOMAIN ledger /\ ledger'[i] = ledger[i] /\ ledger'[j] = ledger[j]
    BY <1>3, <2>1 DEF GovType
  <2> QED
    BY <1>4, <1>5, <2>2 DEF LastInv, Records
<1>14. AbsentInv'
  BY <1>5, <1>6 DEF AbsentInv
<1>15. LimitInv'
  BY <1>5, <1>6 DEF LimitInv, Crossed
<1> QED
  BY <1>7, <1>8, <1>9, <1>10, <1>11, <1>12, <1>13, <1>14, <1>15

LEMMA RecordStep == ASSUME GovInv, NEW c \in Call, Record(c) \/ RecordRefusal(c) PROVE GovInv'
<1>1. "REFUSE" \in Decisions /\ Decision(c) \in Decisions
  BY DEF Decisions, Decision
<1> QED
  BY <1>1, SinkStep DEF Record, RecordRefusal

LEMMA GovNextStep == GovInv /\ GovNext => GovInv'
BY RegisterStep, LookStep, RecordStep, FetchStep, StoreStep DEF GovNext, GovStep

(* No step takes a name out of the registry.                               *)
LEMMA StaysRegistered == ASSUME GovInv, GovNext, NEW n \in Name, caps[n] # NoCap PROVE caps'[n] # NoCap
<1>1. ASSUME NEW m \in Name, Register(m) PROVE caps'[n] # NoCap
  BY <1>1 DEF GovInv, GovType, Register
<1>2. ASSUME NEW c \in Call, Store(c) PROVE caps'[n] # NoCap
  <2>1. held[c] \in Caps \cup {NoCap}
    BY DEF GovInv, GovType
  <2>2. held[c] # NoCap => [held[c] EXCEPT !.authorized = (op[c] = "authorize")] # NoCap
    BY <2>1 DEF Caps
  <2> QED
    BY <1>2, <2>2 DEF GovInv, GovType, Store
<1>3. ASSUME NEW c \in Call, Look(c) \/ Record(c) \/ RecordRefusal(c) \/ Fetch(c) PROVE caps'[n] # NoCap
  BY <1>3 DEF Look, Record, RecordRefusal, Fetch
<1> QED
  BY <1>1, <1>2, <1>3 DEF GovNext, GovStep

LEMMA InitIInv == Init => IInv
<1> SUFFICES ASSUME Init PROVE IInv
  OBVIOUS
<1>1. GovInv
  BY InitGov DEF Init
<1>2. PlanType /\ ActedInv /\ FreshInv
  BY DEF Init, PlanType, ActedInv, FreshInv, Phases, Running
<1> QED
  BY <1>1, <1>2 DEF IInv

LEMMA GovernanceStep == ASSUME IInv, GovNext, UNCHANGED planVars PROVE IInv'
<1>1. GovInv'
  BY GovNextStep DEF IInv
<1>2. PlanType' /\ ActedInv'
  BY DEF IInv, PlanType, ActedInv, planVars
<1>3. FreshInv'
  <2>1. \A i \in DOMAIN plan : plan[i].name \in Name
    BY DEF IInv, PlanType
  <2> QED
    BY <2>1, StaysRegistered DEF IInv, FreshInv, planVars
<1> QED
  BY <1>1, <1>2, <1>3 DEF IInv

(* The governor's part is untouched by a step of the plan.                 *)
LEMMA GovUntouched == ASSUME GovInv, UNCHANGED govVars PROVE GovInv'
BY DEF GovInv, GovType, RecordedInv, WriterInv, SoleInv, MetInv, AfterInv, LastInv, AbsentInv, LimitInv, Crossed, HasRecord, Under, govVars

LEMMA PlanFacts ==
  ASSUME PlanType
  PROVE  Len(plan) \in Nat /\ DOMAIN plan = 1..Len(plan) /\ \A i \in DOMAIN plan : plan[i].name \in Name
BY DEF PlanType

LEMMA PreflightStep == ASSUME IInv, Preflight, UNCHANGED govVars PROVE IInv'
<1> USE DEF IInv, Preflight, Running, Phases, govVars
<1>1. PlanType'
  BY DEF PlanType
<1>2. ActedInv'
  <2>1. phase' = "between" => Len(plan) >= 1
    BY PlanFacts DEF PlanOK, PlanType
  <2> QED
    BY <2>1, PlanFacts DEF PlanType, ActedInv
<1>3. FreshInv'
  BY DEF FreshInv, PlanOK
<1> QED
  BY <1>1, <1>2, <1>3, GovUntouched

LEMMA BeginStepStep == ASSUME IInv, BeginStep, UNCHANGED govVars PROVE IInv'
<1> USE DEF IInv, BeginStep, Running, Phases, govVars
<1>1. PlanType'
  BY DEF PlanType
<1>2. ActedInv'
  BY DEF PlanType, ActedInv
<1>3. FreshInv'
  <2>1. at \in DOMAIN plan /\ plan[at].name \in Name
    BY PlanFacts DEF PlanType, ActedInv
  <2> QED
    BY <2>1 DEF FreshInv, GovInv, GovType
<1> QED
  BY <1>1, <1>2, <1>3, GovUntouched

LEMMA DecideStep == ASSUME IInv, Decide, UNCHANGED govVars PROVE IInv'
<1> USE DEF IInv, Decide, Stop, Running, Phases, govVars
<1>1. PlanType'
  <2>1. \A d \in {"ALLOW", "REFUSE", "DEFER"} :
          Append(results, [decision |-> d, executed |-> FALSE]) \in Seq([decision : {"ALLOW", "REFUSE", "DEFER"}, executed : BOOLEAN])
    BY DEF PlanType
  <2>2. phase' \in {"acting", "stopped"}
    OBVIOUS
  <2>3. results' = results \/ \E d \in {"ALLOW", "REFUSE", "DEFER"} : results' = Append(results, [decision |-> d, executed |-> FALSE])
    OBVIOUS
  <2> QED
    BY <2>1, <2>2, <2>3 DEF PlanType
<1>2. ActedInv'
  BY DEF PlanType, ActedInv
<1>3. FreshInv'
  BY DEF FreshInv
<1> QED
  BY <1>1, <1>2, <1>3, GovUntouched

LEMMA ActStep == ASSUME IInv, Act, UNCHANGED govVars PROVE IInv'
<1> USE DEF IInv, Act, Running, Phases, govVars
<1>1. PlanType'
  BY DEF PlanType
<1>2. ActedInv'
  BY DEF PlanType, ActedInv
<1>3. FreshInv'
  BY DEF FreshInv
<1> QED
  BY <1>1, <1>2, <1>3, GovUntouched

LEMMA ExecutorRaisesStep == ASSUME IInv, ExecutorRaises, UNCHANGED govVars PROVE IInv'
<1> USE DEF IInv, ExecutorRaises, Stop, Running, Phases, govVars
<1>1. PlanType'
  BY DEF PlanType
<1>2. ActedInv'
  BY DEF PlanType, ActedInv
<1>3. FreshInv'
  BY DEF FreshInv
<1> QED
  BY <1>1, <1>2, <1>3, GovUntouched

LEMMA EndStepStep == ASSUME IInv, EndStep, UNCHANGED govVars PROVE IInv'
<1> USE DEF IInv, EndStep, Stop, Running, Phases, govVars
<1>1. PlanType'
  BY DEF PlanType
<1>2. ActedInv'
  <2>1. PICK returned \in BOOLEAN :
          /\ results' = Append(results, [decision |-> "ALLOW", executed |-> returned])
          /\ IF ~returned THEN Stop("allow_without_execution") /\ UNCHANGED at
             ELSE IF at < Len(plan) THEN phase' = "between" /\ at' = at + 1 /\ UNCHANGED reason
             ELSE phase' = "completed" /\ UNCHANGED <<at, reason>>
    OBVIOUS
  <2>2. CASE ~returned
    BY <2>1, <2>2 DEF PlanType, ActedInv
  <2>3. CASE returned
    <3>1. results' = Append(results, AllowedResult)
      BY <2>1, <2>3 DEF AllowedResult
    <3>2. Len(results') = at /\ \A i \in 1..Len(results') : results'[i] = AllowedResult
      BY <3>1 DEF PlanType, ActedInv
    <3>3. Len(acted) = at /\ at <= Len(plan) /\ acted' = acted /\ plan' = plan
      BY DEF ActedInv
    <3>4. at \in Nat /\ Len(plan) \in Nat /\ \A i \in 1..Len(acted) : acted[i] = i
      BY PlanFacts DEF PlanType, ActedInv
    <3>5. CASE at < Len(plan)
      BY <2>1, <2>3, <3>2, <3>3, <3>4, <3>5 DEF ActedInv
    <3>6. CASE at = Len(plan)
      BY <2>1, <2>3, <3>2, <3>3, <3>4, <3>6 DEF ActedInv
    <3> QED
      BY <3>3, <3>4, <3>5, <3>6
  <2> QED
    BY <2>2, <2>3
<1>3. FreshInv'
  BY DEF FreshInv
<1> QED
  BY <1>1, <1>2, <1>3, GovUntouched

LEMMA NextStep == IInv /\ [Next]_vars => IInv'
<1> SUFFICES ASSUME IInv, [Next]_vars PROVE IInv'
  OBVIOUS
<1>1. CASE GovNext /\ UNCHANGED planVars
  BY <1>1, GovernanceStep
<1>2. CASE PlanStep /\ UNCHANGED govVars
  BY <1>2, PreflightStep, BeginStepStep, DecideStep, ActStep, ExecutorRaisesStep, EndStepStep DEF PlanStep
<1>3. CASE UNCHANGED vars
  <2>1. UNCHANGED govVars /\ UNCHANGED planVars
    BY <1>3 DEF vars
  <2>2. PlanType' /\ ActedInv' /\ FreshInv'
    BY <2>1 DEF IInv, PlanType, ActedInv, FreshInv, planVars, govVars
  <2> QED
    BY <2>1, <2>2, GovUntouched DEF IInv
<1> QED
  BY <1>1, <1>2, <1>3 DEF Next

LEMMA Invariance == Spec => []IInv
BY InitIInv, NextStep, PTL DEF Spec

(* For plans of any length: what happened outside is a beginning of the    *)
(* plan, in order and once each, and a plan completes only when all of it  *)
(* was allowed and ran (planner.py 105-182).                               *)
THEOREM ActedInOrder == Spec => []ActedIsAPrefix
<1>1. IInv => ActedIsAPrefix
  <2> SUFFICES ASSUME IInv PROVE ActedIsAPrefix
    OBVIOUS
  <2>1. acted \in Seq(Nat) /\ \A i \in 1..Len(acted) : acted[i] = i
    BY DEF IInv, PlanType, ActedInv
  <2>2. acted = [i \in 1..Len(acted) |-> i]
    BY <2>1
  <2>3. ASSUME phase = "completed"
        PROVE  Len(acted) = Len(plan) /\ results = [i \in DOMAIN plan |-> [decision |-> "ALLOW", executed |-> TRUE]]
    <3>1. /\ Len(acted) = Len(plan) /\ Len(results) = Len(plan)
          /\ \A i \in 1..Len(results) : results[i] = AllowedResult
      BY <2>3 DEF IInv, ActedInv
    <3>2. DOMAIN results = 1..Len(results) /\ results = [i \in DOMAIN results |-> results[i]]
      BY DEF IInv, PlanType
    <3>3. DOMAIN results = DOMAIN plan
      BY <3>1, <3>2, PlanFacts DEF IInv
    <3> QED
      BY <3>1, <3>2, <3>3 DEF AllowedResult
  <2> QED
    BY <2>2, <2>3 DEF IInv, ActedInv, ActedIsAPrefix
<1> QED
  BY <1>1, Invariance, PTL

(* A step acts only on a capability that was authorized and within its     *)
(* limit when the step began (planner.py 124), however the governor and    *)
(* other code change the registry meanwhile.                               *)
THEOREM DecidedFresh == Spec => []DecidedOnFreshCapability
<1>1. IInv => DecidedOnFreshCapability
  BY DEF IInv, FreshInv, DecidedOnFreshCapability, Running, Caps
<1> QED
  BY <1>1, Invariance, PTL

(* For any numbers of overlapping calls, an authorization the governor     *)
(* wrote is the decision of a record of that call (governance.py 125).     *)
THEOREM ChangesAreRecorded == Spec => []ChangeIsRecorded
<1>1. IInv => ChangeIsRecorded
  <2> SUFFICES ASSUME IInv, NEW n \in Name, NEW c \in Call, writer[n] = c
               PROVE  \E i \in RecordsOf(n) : ledger[i].call = c /\ (ledger[i].decision = "ALLOW") = caps[n].authorized
    BY DEF ChangeIsRecorded
  <2>1. gpc[c] = "applied" /\ target[c] = n /\ caps[n].authorized = (op[c] = "authorize")
    BY DEF IInv, GovInv, WriterInv
  <2>2. HasRecord(c)
    BY <2>1 DEF IInv, GovInv, RecordedInv
  <2> QED
    BY <2>1, <2>2 DEF HasRecord, RecordsOf
<1> QED
  BY <1>1, Invariance, PTL

(* The entry of a name is what the record of its writer decided, and every *)
(* later record of a call that returned is of one that was under way       *)
(* together with the writer, for any numbers of calls that overlap and     *)
(* wherever the sink fails; and the rest of a definition is as registered  *)
(* unless a registration came while a call was under way.                  *)
THEOREM RegistryAsRecorded == Spec => []RegistryMatchesLedger
<1>1. IInv => RegistryMatchesLedger
  <2> SUFFICES ASSUME IInv, NEW n \in Name
               PROVE  /\ writer[n] # NoCap =>
                           \E i \in RecordsOf(n) :
                             /\ ledger[i].call = writer[n] /\ (ledger[i].decision = "ALLOW") = caps[n].authorized
                             /\ \A j \in RecordsOf(n) :
                                  j > i /\ gpc[ledger[j].call] = "applied" => writer[n] \in met[ledger[j].call]
                      /\ caps[n] # NoCap =>
                           caps[n].limit = defined[n] \/ \E c \in Call : target[c] = n /\ NoCap \in met[c]
    BY DEF RegistryMatchesLedger
  <2>1. caps[n] # NoCap => caps[n].limit = defined[n] \/ \E c \in Call : target[c] = n /\ NoCap \in met[c]
    BY DEF IInv, GovInv, LimitInv, Crossed
  <2>2. ASSUME writer[n] # NoCap
        PROVE  \E i \in RecordsOf(n) :
                 /\ ledger[i].call = writer[n] /\ (ledger[i].decision = "ALLOW") = caps[n].authorized
                 /\ \A j \in RecordsOf(n) :
                      j > i /\ gpc[ledger[j].call] = "applied" => writer[n] \in met[ledger[j].call]
    <3>1. /\ writer[n] \in Call /\ target[writer[n]] = n /\ gpc[writer[n]] = "applied"
          /\ caps[n].authorized = (op[writer[n]] = "authorize")
      BY <2>2 DEF IInv, GovInv, GovType, WriterInv
    <3>5. HasRecord(writer[n])
      BY <3>1 DEF IInv, GovInv, RecordedInv
    <3>2. PICK i \in DOMAIN ledger : /\ ledger[i].call = writer[n] /\ ledger[i].name = n
                                     /\ (ledger[i].decision = "ALLOW") = (op[writer[n]] = "authorize")
      BY <3>1, <3>5, Zenon DEF HasRecord
    <3>3. (ledger[i].decision = "ALLOW") = caps[n].authorized
      BY <3>1, <3>2, Zenon
    <3>4. \A j \in RecordsOf(n) : j > i /\ gpc[ledger[j].call] = "applied" => writer[n] \in met[ledger[j].call]
      BY <3>2 DEF IInv, GovInv, GovType, LastInv, RecordsOf
    <3> QED
      BY <3>2, <3>3, <3>4, Zenon DEF RecordsOf
  <2> QED
    BY <2>1, <2>2
<1> QED
  BY <1>1, Invariance, PTL
===============================================================================
