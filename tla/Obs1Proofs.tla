------------------------------ MODULE Obs1Proofs ------------------------------
(* What OBS-1 guarantees for any number of attempts at one intent.         *)
EXTENDS Obs1Compare, FiniteSetTheorems, SequenceTheorems, TLAPS

USE Obs1Assumption

Places == {"waiting", "begun", "fencing", "releasing", "gate", "reserving", "writing", "lost", "written",
           "rejected", "retracting", "reported", "raised", "crashed"}
Events ==
  [kind : {"write", "rejected", "fence", "read"}, by : Attempt, target : Attempt,
   note : {"-", "fenced", "fault", "ok", "unavailable"}, version : Nat]

TypeInv ==
  /\ entry \in Reservations!Entries \cup {Reservations!NoEntry}
  /\ log \in Seq(Events) /\ version \in Nat
  /\ fence \in [Attempt -> BOOLEAN] /\ readable \in [Attempt -> BOOLEAN]
  /\ journal \subseteq Attempt /\ toFence \in [Attempt -> SUBSET Attempt]
  /\ resolved \in [Attempt -> BOOLEAN] /\ already \in [Attempt -> BOOLEAN]
  /\ at \in [Attempt -> Places] /\ status \in [Attempt -> Statuses]

(* Attempts follow one another, are journalled as they begin, and report   *)
(* once, at their end.                                                     *)
OrderInv == \A j, k \in Attempt : j < k /\ at[k] # "waiting" => Over(j)
JournalInv == \A k \in Attempt : (k \in journal <=> at[k] # "waiting") /\ (status[k] # "none" => at[k] = "reported")
EntryInv == \A k \in Attempt : at[k] \in {"writing", "lost", "written"} => entry # Reservations!NoEntry

SeqInv == TypeInv /\ OrderInv /\ JournalInv /\ EntryInv

LEMMA Attempts1 == 1 \in Attempt /\ Attempt \subseteq Nat /\ \A k \in Attempt : k = 1 \/ 1 < k
BY DEF Attempt

(* At most one attempt runs.                                               *)
LEMMA Alone ==
  ASSUME SeqInv, NEW j \in Attempt, NEW k \in Attempt, j # k, at[k] # "waiting", ~Over(k)
  PROVE  at[j] = "waiting" \/ Over(j)
BY Attempts1 DEF SeqInv, OrderInv

(* What one more event does to the log.                                    *)
LEMMA LogFacts ==
  ASSUME NEW l \in Seq(Events), NEW e \in Events
  PROVE  /\ Append(l, e) \in Seq(Events) /\ Len(Append(l, e)) = Len(l) + 1 /\ Len(l) \in Nat
         /\ DOMAIN l = 1..Len(l) /\ DOMAIN Append(l, e) = 1..(Len(l) + 1)
         /\ Append(l, e)[Len(l) + 1] = e /\ \A i \in DOMAIN l : Append(l, e)[i] = l[i]
         /\ Writes(Append(l, e)) = IF e.kind = "write" THEN Writes(l) \cup {Len(l) + 1} ELSE Writes(l)
<1> DEFINE m == Append(l, e)
<1>1. m \in Seq(Events) /\ Len(m) = Len(l) + 1 /\ m[Len(l) + 1] = e /\ \A i \in 1..Len(l) : m[i] = l[i]
  BY AppendProperties
<1> HIDE DEF m
<1>2. DOMAIN l = 1..Len(l) /\ DOMAIN m = 1..(Len(l) + 1) /\ Len(l) \in Nat
  BY <1>1
<1>3. \A i \in 1..(Len(l) + 1) : i = Len(l) + 1 \/ i \in 1..Len(l)
  BY <1>2
<1>4. Len(l) + 1 \notin 1..Len(l) /\ 1..Len(l) \subseteq 1..(Len(l) + 1) /\ Len(l) + 1 \in 1..(Len(l) + 1)
  BY <1>2
<1>5. Writes(m) = IF e.kind = "write" THEN Writes(l) \cup {Len(l) + 1} ELSE Writes(l)
  BY <1>1, <1>2, <1>3, <1>4 DEF Writes
<1> QED
  BY <1>1, <1>2, <1>5 DEF m

(* How a step leaves the log: longer, and with the writes it had, or with  *)
(* one more, of attempt t.                                                 *)
Longer == log' \in Seq(Events) /\ Len(log) <= Len(log') /\ \A i \in DOMAIN log : log'[i] = log[i]
NoWrite == Longer /\ Writes(log') = Writes(log)
WriteOf(t) ==
  /\ Longer /\ Len(log') = Len(log) + 1 /\ log'[Len(log) + 1].by = t
  /\ Writes(log') = Writes(log) \cup {Len(log) + 1}

LEMMA Unlogged == ASSUME TypeInv, log' = log PROVE NoWrite
BY DEF TypeInv, NoWrite, Longer

LEMMA LoggedEvent ==
  ASSUME TypeInv, NEW e \in Events, e.kind # "write", log' = Append(log, e)
  PROVE  NoWrite /\ Len(log') = Len(log) + 1 /\ log'[Len(log')] = e
<1>1. log \in Seq(Events) /\ Len(log) \in Nat
  BY DEF TypeInv
<1>2. Len(log) <= Len(log) + 1
  BY <1>1
<1> QED
  BY <1>1, <1>2, LogFacts DEF NoWrite, Longer

LEMMA Applied ==
  ASSUME TypeInv, NEW t \in Attempt, Apply(fenced, t, log)
  PROVE  version' \in Nat /\ (NoWrite \/ WriteOf(t))
<1>1. log \in Seq(Events) /\ Len(log) \in Nat /\ version \in Nat /\ Len(log) <= Len(log) + 1
  BY DEF TypeInv
<1>2. CASE t \in fenced
  <2>1. log' = Append(log, Ev("rejected", t, t, "fenced")) /\ version' = version
    BY <1>2 DEF Apply
  <2>2. Ev("rejected", t, t, "fenced") \in Events /\ Ev("rejected", t, t, "fenced").kind = "rejected"
    BY DEF Ev, Events
  <2> QED
    BY <1>1, <2>1, <2>2, LoggedEvent
<1>3. CASE t \notin fenced
  <2> DEFINE e == [Ev("write", t, t, "-") EXCEPT !.version = version']
  <2>1. version' = version + 1 /\ log' = Append(log, e)
    BY <1>3 DEF Apply
  <2>2. version' \in Nat
    BY <1>1, <2>1
  <2>3. e \in Events /\ e.kind = "write" /\ e.by = t
    BY <2>2 DEF Ev, Events
  <2> HIDE DEF e
  <2>4. WriteOf(t)
    BY <1>1, <2>1, <2>3, LogFacts DEF WriteOf, Longer
  <2> QED
    BY <2>2, <2>4
<1> QED
  BY <1>2, <1>3

(* A fence never lets the held write through: it is fenced by then.        *)
LEMMA Fenced ==
  ASSUME TypeInv, NEW k \in Attempt, NEW t \in Attempt, Fence(k, t)
  PROVE  /\ version' \in Nat /\ NoWrite
         /\ \E f \in DOMAIN log' : log'[f].kind = "fence" /\ log'[f].by = k /\ log'[f].target = t
<1> DEFINE e == Ev("fence", k, t, "-")
           l == Append(log, e)
           d == Ev("rejected", t, t, "fenced")
<1>1. log \in Seq(Events) /\ Len(log) \in Nat /\ version \in Nat
  BY DEF TypeInv
<1>2. /\ e \in Events /\ e.kind = "fence" /\ e.by = k /\ e.target = t
      /\ d \in Events /\ d.kind = "rejected"
  BY <1>1 DEF Ev, Events
<1>3. version' = version /\ (log' = l \/ log' = Append(l, d))
  BY DEF Fence, Apply
<1> HIDE DEF e, d
<1>4. /\ l \in Seq(Events) /\ Len(l) = Len(log) + 1 /\ l[Len(log) + 1] = e /\ Writes(l) = Writes(log)
      /\ \A i \in DOMAIN log : l[i] = log[i]
  BY <1>1, <1>2, LogFacts
<1> HIDE DEF l
<1>5. /\ Append(l, d) \in Seq(Events) /\ Len(Append(l, d)) = Len(l) + 1 /\ Writes(Append(l, d)) = Writes(l)
      /\ \A i \in DOMAIN l : Append(l, d)[i] = l[i]
  BY <1>2, <1>4, LogFacts
<1>6. /\ DOMAIN log = 1..Len(log) /\ DOMAIN l = 1..(Len(log) + 1) /\ DOMAIN log \subseteq DOMAIN l
      /\ Len(log) + 1 \in DOMAIN l /\ DOMAIN Append(l, d) = 1..(Len(log) + 2) /\ DOMAIN l \subseteq 1..(Len(log) + 2)
      /\ Len(log) <= Len(log) + 1 /\ Len(log) <= Len(log) + 2 /\ Len(Append(l, d)) = Len(log) + 2
  BY <1>1, <1>4, <1>5
<1>7. CASE log' = l
  BY <1>1, <1>2, <1>3, <1>4, <1>6, <1>7 DEF NoWrite, Longer
<1>8. CASE log' = Append(l, d)
  BY <1>1, <1>2, <1>3, <1>4, <1>5, <1>6, <1>8 DEF NoWrite, Longer
<1> QED
  BY <1>3, <1>7, <1>8

(* What the operations of the reservation store do to the key.             *)
KeyType == entry \in Reservations!Entries \cup {Reservations!NoEntry}
KeyHeld == entry # Reservations!NoEntry

LEMMA Entry ==
  /\ \A e \in Reservations!Entries : e # Reservations!NoEntry /\ e.state \in {"IN_FLIGHT", "COMPLETED", "UNKNOWN"}
  /\ Reservations!NoEntry.state = "NONE" /\ Reservations!NoEntry.lease = "never"
  /\ Reservations!Effective(Reservations!NoEntry) = "NONE"
  /\ \A e \in Reservations!Entries : Reservations!Effective(e) \in {"IN_FLIGHT", "COMPLETED", "UNKNOWN"}
BY DEF Reservations!Entries, Reservations!NoEntry, Reservations!Effective, Reservations!States

(* A failed read still yields an entry, in flight.                         *)
LEMMA EntryRead ==
  /\ \A e \in Reservations!Entries \cup {Reservations!NoEntry} :
       Reservations!Unread(e) \in Reservations!Entries /\ Reservations!Effective(Reservations!Unread(e)) = "IN_FLIGHT"
  /\ \A e \in Reservations!Entries : Reservations!Readings(e) \subseteq Reservations!Entries
<1>1. \A e \in Reservations!Entries \cup {Reservations!NoEntry} :
        Reservations!Unread(e) \in Reservations!Entries /\ Reservations!Effective(Reservations!Unread(e)) = "IN_FLIGHT"
  BY DEF Reservations!Entries, Reservations!NoEntry, Reservations!Effective, Reservations!States, Reservations!Leases, Reservations!Unread
<1> QED
  BY <1>1, Zenon DEF Reservations!Readings

LEMMA KeyReadsIs ==
  ASSUME KeyType
  PROVE  /\ "NONE" \in KeyReads <=> ~KeyHeld
         /\ "COMPLETED" \in KeyReads => KeyHeld /\ entry.state = "COMPLETED"
         /\ KeyReads \subseteq {"NONE", "IN_FLIGHT", "COMPLETED", "UNKNOWN"}
<1>1. CASE entry = Reservations!NoEntry
  BY <1>1 DEF KeyReads, KeyHeld
<1>2. CASE entry \in Reservations!Entries
  <2>1. \A e \in Reservations!Readings(entry) : e = entry \/ e = Reservations!Unread(entry)
    BY Zenon DEF Reservations!Readings
  <2>2. KeyReads = {Reservations!Effective(e) : e \in Reservations!Readings(entry)} /\ KeyHeld
    BY <1>2, Entry DEF KeyReads, KeyHeld
  <2>3. \A s \in KeyReads : s = Reservations!Effective(entry) \/ s = "IN_FLIGHT"
    BY <1>2, <2>1, <2>2, EntryRead
  <2>4. Reservations!Effective(entry) \in {"IN_FLIGHT", "COMPLETED", "UNKNOWN"}
    BY <1>2, Entry
  <2>5. Reservations!Effective(entry) = "COMPLETED" => entry.state = "COMPLETED"
    BY DEF Reservations!Effective
  <2> QED
    BY <2>2, <2>3, <2>4, <2>5
<1> QED
  BY <1>1, <1>2 DEF KeyType

LEMMA KeySteps ==
  ASSUME KeyType, NEW k \in Attempt
  PROVE  /\ Reservations!Reserve(k) => KeyType' /\ KeyHeld'
         /\ \A to \in {"COMPLETED", "UNKNOWN"} : Reservations!Move(k, to) => KeyType' /\ KeyHeld' = KeyHeld
         /\ Reservations!Release => KeyType'
         /\ Reservations!Abandon(k) => entry' = entry
         /\ Reservations!ClockMoves => KeyType' /\ KeyHeld'
         /\ Reservations!Poison(k) \/ Reservations!Forget => KeyType' /\ KeyHeld'
<1>1. ASSUME Reservations!Reserve(k) PROVE KeyType' /\ KeyHeld'
  <2>1. entry' \in Reservations!Entries
    BY <1>1 DEF Reservations!Reserve, Reservations!InFlight, Reservations!Entries, Reservations!States, Reservations!Leases
  <2> QED
    BY <2>1, Entry DEF KeyType, KeyHeld
<1>2. ASSUME NEW to \in {"COMPLETED", "UNKNOWN"}, Reservations!Move(k, to) PROVE KeyType' /\ KeyHeld' = KeyHeld
  <2>1. CASE entry \in Reservations!Entries
    <3>1. \A e \in Reservations!Entries : [e EXCEPT !.state = to] \in Reservations!Entries
      BY DEF Reservations!Entries, Reservations!States
    <3>2. entry' \in Reservations!Entries
      BY <1>2, <2>1, <3>1, EntryRead DEF Reservations!Move
    <3>3. KeyHeld /\ KeyHeld'
      BY <2>1, <3>2, Entry DEF KeyHeld
    <3> QED
      BY <3>2, <3>3 DEF KeyType
  <2>2. CASE entry = Reservations!NoEntry
    <3>1. entry.token # k
      BY <2>2 DEF Reservations!NoEntry, Attempt
    <3>2. entry' = entry
      BY <1>2, <3>1 DEF Reservations!Move
    <3> QED
      BY <3>2 DEF KeyType, KeyHeld
  <2> QED
    BY <2>1, <2>2 DEF KeyType
<1>3. ASSUME Reservations!Release PROVE KeyType'
  BY <1>3 DEF Reservations!Release, KeyType
<1>4. ASSUME Reservations!Abandon(k) PROVE entry' = entry
  BY <1>4 DEF Reservations!Abandon, Reservations!storeVars
<1>5. ASSUME Reservations!ClockMoves PROVE KeyType' /\ KeyHeld'
  <2>1. entry \in Reservations!Entries
    BY <1>5, Entry DEF Reservations!ClockMoves, KeyType
  <2>2. \A lease \in {"running", "over"} : [entry EXCEPT !.lease = lease] \in Reservations!Entries
    BY <2>1 DEF Reservations!Entries, Reservations!Leases
  <2>3. entry' \in Reservations!Entries
    BY <1>5, <2>2 DEF Reservations!ClockMoves
  <2> QED
    BY <2>3, Entry DEF KeyType, KeyHeld
<1>6. ASSUME Reservations!Poison(k) \/ Reservations!Forget PROVE KeyType' /\ KeyHeld'
  <2>1. Reservations!Unread(entry) \in Reservations!Entries
    BY EntryRead DEF KeyType
  <2>2. \A lease \in {"over", "never"} : [Reservations!Unread(entry) EXCEPT !.lease = lease] \in Reservations!Entries
    BY <2>1 DEF Reservations!Entries, Reservations!Leases
  <2>3. entry' \in Reservations!Entries
    BY <1>6, <2>1, <2>2 DEF Reservations!Poison, Reservations!Forget
  <2> QED
    BY <2>3, Entry DEF KeyType, KeyHeld
<1> QED
  BY <1>1, <1>2, <1>3, <1>4, <1>5, <1>6

(* A crash may leave half done what the attempt was doing to the key.      *)
LEMMA CrashKey ==
  ASSUME KeyType, NEW k \in Attempt, Crash(k)
  PROVE  /\ KeyType'
         /\ KeyHeld' /\ ~KeyHeld => at[k] = "reserving"
         /\ KeyHeld /\ ~KeyHeld' => at[k] \in {"releasing", "retracting"}
<1>1. CASE entry' = entry
  BY <1>1 DEF KeyType, KeyHeld
<1>2. CASE at[k] = "reserving" /\ Reservations!Poison(k)
  BY <1>2, KeySteps
<1>3. CASE at[k] = "written" /\ Reservations!Move(k, "COMPLETED")
  BY <1>3, KeySteps
<1>4. CASE at[k] = "lost" /\ Reservations!Move(k, "UNKNOWN")
  BY <1>4, KeySteps
<1>5. CASE at[k] \in {"releasing", "retracting"} /\ (Reservations!Release \/ Reservations!Forget)
  <2>1. Reservations!Release \/ Reservations!Forget => KeyHeld
    BY Entry DEF Reservations!Release, Reservations!Forget, KeyHeld
  <2> QED
    BY <1>5, <2>1, KeySteps
<1>6. (IF use[k] = "holding" THEN Reservations!Abandon(k) ELSE UNCHANGED keyVars) => entry' = entry
  BY KeySteps DEF keyVars
<1> QED
  BY <1>1, <1>2, <1>3, <1>4, <1>5, <1>6 DEF Crash

LEMMA KeyTypeNext ==
  ASSUME TypeInv, [Next]_vars
  PROVE  KeyType'
<1>k. KeyType
  BY DEF TypeInv, KeyType
<1>u. entry' = entry => KeyType'
  BY <1>k DEF KeyType
<1> USE DEF keyVars
<1>1. ASSUME NEW k \in Attempt, Begin(k) \/ CheckKey(k) \/ Read(k) \/ Gate(k) \/ SetValue(k) PROVE entry' = entry
  BY <1>1 DEF Begin, CheckKey, Read, Gate, SetValue
<1>2. ASSUME NEW k \in Attempt, NEW t \in Attempt, Fence(k, t) PROVE entry' = entry
  BY <1>2 DEF Fence
<1>3. ASSUME NEW k \in Attempt, ReleaseKey(k) \/ ReserveKey(k) \/ ReportLost(k) \/ ReportWritten(k) \/ ReportRejected(k) \/ Retract(k)
      PROVE  KeyType'
  BY <1>k, <1>u, <1>3, KeySteps DEF ReleaseKey, ReserveKey, ReportLost, ReportWritten, ReportRejected, Retract, ReleaseRefused
<1>4. ASSUME NEW k \in Attempt, Crash(k) PROVE KeyType'
  BY <1>k, <1>4, CrashKey
<1>5. ASSUME EndCase \/ UNCHANGED vars PROVE entry' = entry
  BY <1>5 DEF EndCase, vars
<1>6. CASE LeaseMoves
  BY <1>k, <1>6, KeySteps, Attempts1 DEF LeaseMoves
<1> QED
  BY <1>u, <1>1, <1>2, <1>3, <1>4, <1>5, <1>6 DEF Next, AttemptStep

(* The log, step by step.                                                  *)
LEMMA LogNext ==
  ASSUME TypeInv, [Next]_vars
  PROVE  /\ log' \in Seq(Events) /\ version' \in Nat
         /\ NoWrite \/ (\E k \in Attempt : SetValue(k) /\ WriteOf(k)) \/ (EndCase /\ heldWrite = "held" /\ WriteOf(1))
<1> DEFINE Goal == /\ version' \in Nat
                   /\ NoWrite \/ (\E k \in Attempt : SetValue(k) /\ WriteOf(k)) \/ (EndCase /\ heldWrite = "held" /\ WriteOf(1))
<1>v. version \in Nat
  BY DEF TypeInv
<1>u. log' = log /\ version' = version => Goal
  BY <1>v, Unlogged
<1> HIDE DEF Goal
<1> USE DEF obsStore
<1>1. ASSUME NEW k \in Attempt, Begin(k) \/ CheckKey(k) \/ ReleaseKey(k) \/ Gate(k) \/ ReserveKey(k) PROVE Goal
  BY <1>1, <1>u DEF Begin, CheckKey, ReleaseKey, Gate, ReserveKey, ReleaseRefused
<1>2. ASSUME NEW k \in Attempt, ReportLost(k) \/ ReportWritten(k) \/ ReportRejected(k) \/ Retract(k) \/ Crash(k) PROVE Goal
  BY <1>2, <1>u DEF ReportLost, ReportWritten, ReportRejected, Retract, Crash, ReleaseRefused
<1>3. ASSUME NEW k \in Attempt, NEW t \in Attempt, Fence(k, t) PROVE Goal
  BY <1>3, Fenced DEF Goal
<1>4. ASSUME NEW k \in Attempt, Read(k) PROVE Goal
  <2> DEFINE e == Ev("read", k, k, IF readable[k] THEN "ok" ELSE "unavailable")
  <2>1. e \in Events /\ e.kind # "write"
    BY DEF Ev, Events
  <2>2. log' = Append(log, e) /\ version' = version
    BY <1>4 DEF Read, StoreRead
  <2> HIDE DEF e
  <2> QED
    BY <1>v, <2>1, <2>2, LoggedEvent DEF Goal
<1>5. ASSUME NEW k \in Attempt, SetValue(k) PROVE Goal
  <2>1. CASE Apply(fenced, k, log)
    BY <1>5, <2>1, Applied DEF Goal
  <2>2. CASE log' = log /\ version' = version
    BY <2>2, <1>u
  <2>3. CASE log' = Append(log, Ev("rejected", k, k, "fault")) /\ version' = version
    <3>1. Ev("rejected", k, k, "fault") \in Events /\ Ev("rejected", k, k, "fault").kind # "write"
      BY DEF Ev, Events
    <3> QED
      BY <1>v, <2>3, <3>1, LoggedEvent DEF Goal
  <2> QED
    BY <1>5, <2>1, <2>2, <2>3 DEF SetValue
<1>6. ASSUME EndCase PROVE Goal
  <2>1. CASE heldWrite = "held"
    BY <1>6, <2>1, Applied, Attempts1 DEF EndCase, Goal
  <2>2. CASE heldWrite # "held"
    BY <1>6, <1>u, <2>2 DEF EndCase
  <2> QED
    BY <2>1, <2>2
<1>7. ASSUME LeaseMoves \/ UNCHANGED vars PROVE Goal
  BY <1>7, <1>u DEF LeaseMoves, vars
<1>8. Goal
  BY <1>1, <1>2, <1>3, <1>4, <1>5, <1>6, <1>7 DEF Next, AttemptStep
<1> QED
  BY <1>8 DEF Goal, NoWrite, WriteOf, Longer

LEMMA TypeNext ==
  ASSUME SeqInv, [Next]_vars
  PROVE  TypeInv'
<1> DEFINE Kept ==
      /\ fence' = fence /\ readable' = readable
      /\ journal' \subseteq Attempt /\ toFence' \in [Attempt -> SUBSET Attempt]
      /\ resolved' \in [Attempt -> BOOLEAN] /\ already' \in [Attempt -> BOOLEAN]
      /\ at' \in [Attempt -> Places] /\ status' \in [Attempt -> Statuses]
<1>t. TypeInv
  BY DEF SeqInv
<1>k. KeyType' /\ log' \in Seq(Events) /\ version' \in Nat
  BY <1>t, KeyTypeNext, LogNext
<1>s. Kept => TypeInv'
  BY <1>t, <1>k DEF TypeInv, KeyType
<1> USE <1>t DEF TypeInv, Places, Statuses, Goto, Report, given, found, obsStore
<1>1. ASSUME NEW k \in Attempt, Begin(k) PROVE Kept
  BY <1>1 DEF Begin
<1>2. ASSUME NEW k \in Attempt, CheckKey(k) PROVE Kept
  <2>1. journal \ {k} \in SUBSET Attempt
    OBVIOUS
  <2>2. fence' = fence /\ readable' = readable /\ journal' = journal /\ status' = status
    BY <1>2 DEF CheckKey
  <2>3. at' \in [Attempt -> Places]
    BY <1>2 DEF CheckKey
  <2>4. toFence' \in [Attempt -> SUBSET Attempt]
    BY <1>2, <2>1 DEF CheckKey
  <2>5. resolved' \in [Attempt -> BOOLEAN] /\ already' \in [Attempt -> BOOLEAN]
    BY <1>2 DEF CheckKey
  <2> QED
    BY <2>2, <2>3, <2>4, <2>5
<1>3. ASSUME NEW k \in Attempt, NEW t \in Attempt, Fence(k, t) PROVE Kept
  BY <1>3 DEF Fence
<1>4. ASSUME NEW k \in Attempt, Read(k) PROVE Kept
  BY <1>4 DEF Read
<1>5. ASSUME NEW k \in Attempt, ReleaseKey(k) \/ Gate(k) PROVE Kept
  BY <1>5 DEF ReleaseKey, Gate, ReleaseRefused
<1>6. ASSUME NEW k \in Attempt, ReserveKey(k) \/ Crash(k) PROVE Kept
  BY <1>6 DEF ReserveKey, Crash
<1>7. ASSUME NEW k \in Attempt, SetValue(k) PROVE Kept
  BY <1>7 DEF SetValue
<1>8. ASSUME NEW k \in Attempt, ReportLost(k) \/ ReportWritten(k) \/ ReportRejected(k) \/ Retract(k) PROVE Kept
  BY <1>8 DEF ReportLost, ReportWritten, ReportRejected, Retract, ReleaseRefused
<1>9. ASSUME EndCase \/ LeaseMoves \/ UNCHANGED vars PROVE Kept
  BY <1>9 DEF EndCase, LeaseMoves, vars
<1> QED
  BY <1>s, <1>1, <1>2, <1>3, <1>4, <1>5, <1>6, <1>7, <1>8, <1>9 DEF Next, AttemptStep

(* Who moves: an attempt that begins when those before it are over, or the *)
(* one that runs.                                                          *)
LEMMA Moves ==
  ASSUME SeqInv, [Next]_vars
  PROVE  \/ at' = at /\ status' = status /\ journal' = journal
         \/ \E k \in Attempt :
              /\ Begin(k) /\ at' = [at EXCEPT ![k] = "begun"] /\ status' = status /\ journal' = journal \cup {k}
         \/ \E k \in Attempt, p \in Places, s \in Statuses :
              /\ at[k] # "waiting" /\ ~Over(k) /\ p # "waiting" /\ journal' = journal
              /\ at' = [at EXCEPT ![k] = p] /\ status' = [status EXCEPT ![k] = s]
              /\ s # "none" => p = "reported"
<1> DEFINE Moved(k) ==
      \E p \in Places, s \in Statuses :
        /\ at[k] # "waiting" /\ ~Over(k) /\ p # "waiting" /\ journal' = journal
        /\ at' = [at EXCEPT ![k] = p] /\ status' = [status EXCEPT ![k] = s]
        /\ s # "none" => p = "reported"
<1>t. TypeInv /\ \A k \in Attempt : status[k] # "none" => at[k] = "reported"
  BY DEF SeqInv, JournalInv
<1>s. \A k \in Attempt : ~Over(k) => [status EXCEPT ![k] = "none"] = status
  BY <1>t DEF Over, TypeInv
<1> USE DEF Places, Statuses, Goto, Over
<1>1. ASSUME NEW k \in Attempt, CheckKey(k) \/ Read(k) \/ ReleaseKey(k) \/ ReserveKey(k) PROVE Moved(k)
  BY <1>1, <1>s DEF CheckKey, Read, ReleaseKey, ReserveKey, ReleaseRefused
<1>2. ASSUME NEW k \in Attempt, NEW t \in Attempt, Fence(k, t) PROVE at' = at /\ status' = status /\ journal' = journal
  BY <1>2 DEF Fence
<1>3. ASSUME NEW k \in Attempt, SetValue(k) \/ ReportRejected(k) \/ Crash(k) PROVE Moved(k)
  BY <1>3, <1>s DEF SetValue, ReportRejected, Crash, Running
<1>4. ASSUME NEW k \in Attempt, Gate(k) PROVE Moved(k)
  BY <1>4, <1>s DEF Gate, Report
<1>5. ASSUME NEW k \in Attempt, ReportLost(k) \/ ReportWritten(k) PROVE Moved(k)
  BY <1>5 DEF ReportLost, ReportWritten, Report
<1>6. ASSUME NEW k \in Attempt, Retract(k) PROVE Moved(k)
  <2>1. CASE Report(k, "FAILED")
    BY <1>6, <2>1 DEF Retract, Report
  <2>2. CASE Goto(k, "raised") /\ status' = status
    BY <1>6, <1>s, <2>2 DEF Retract
  <2> QED
    BY <1>6, <2>1, <2>2 DEF Retract, ReleaseRefused
<1>7. ASSUME EndCase \/ LeaseMoves \/ UNCHANGED vars PROVE at' = at /\ status' = status /\ journal' = journal
  BY <1>7 DEF EndCase, LeaseMoves, vars
<1>8. ASSUME NEW k \in Attempt, Begin(k)
      PROVE  at' = [at EXCEPT ![k] = "begun"] /\ status' = status /\ journal' = journal \cup {k}
  BY <1>8 DEF Begin
<1> QED
  BY <1>1, <1>2, <1>3, <1>4, <1>5, <1>6, <1>7, <1>8 DEF Next, AttemptStep

LEMMA SeqNext ==
  ASSUME SeqInv, [Next]_vars
  PROVE  SeqInv'
<1>t. TypeInv /\ TypeInv'
  BY TypeNext DEF SeqInv
<1>1. OrderInv' /\ JournalInv'
  <2>1. CASE at' = at /\ status' = status /\ journal' = journal
    BY <2>1 DEF SeqInv, OrderInv, JournalInv, Over
  <2>2. ASSUME NEW k \in Attempt, Begin(k), at' = [at EXCEPT ![k] = "begun"], status' = status, journal' = journal \cup {k}
        PROVE  OrderInv' /\ JournalInv'
    <3>1. at[k] = "waiting" /\ \A j \in 1..(k - 1) : Over(j)
      BY <2>2 DEF Begin
    <3>2. \A j \in Attempt : j < k => Over(j)
      BY <3>1 DEF Attempt
    <3>3. \A i \in Attempt : i > k => at[i] = "waiting"
      BY <3>1, Attempts1 DEF SeqInv, OrderInv, Over
    <3>4. OrderInv'
      <4> SUFFICES ASSUME NEW j \in Attempt, NEW i \in Attempt, j < i, at'[i] # "waiting" PROVE Over(j)'
        BY DEF OrderInv
      <4>1. CASE i = k
        BY <2>2, <3>2, <4>1, <1>t, Attempts1 DEF Over, TypeInv
      <4>2. CASE i # k
        <5>1. Over(j) /\ ~(i > k)
          BY <2>2, <3>3, <4>2, <1>t DEF SeqInv, OrderInv, TypeInv
        <5>2. j # k
          BY <3>1, <5>1 DEF Over
        <5> QED
          BY <2>2, <5>1, <5>2, <1>t DEF Over, TypeInv
      <4> QED
        BY <4>1, <4>2
    <3> QED
      BY <2>2, <3>1, <3>4, <1>t DEF SeqInv, JournalInv, TypeInv
  <2>3. ASSUME NEW k \in Attempt, NEW p \in Places, NEW s \in Statuses,
               at[k] # "waiting", ~Over(k), p # "waiting", journal' = journal,
               at' = [at EXCEPT ![k] = p], status' = [status EXCEPT ![k] = s], s # "none" => p = "reported"
        PROVE  OrderInv' /\ JournalInv'
    BY <2>3, <1>t DEF SeqInv, OrderInv, JournalInv, TypeInv, Over
  <2> QED
    BY <2>1, <2>2, <2>3, Moves
<1>2. EntryInv'
  <2>t. KeyType
    BY <1>t DEF TypeInv, KeyType
  <2> SUFFICES ASSUME NEW v \in Attempt, at'[v] \in {"writing", "lost", "written"} PROVE KeyHeld'
    BY DEF EntryInv, KeyHeld
  <2>c. at[v] \in {"writing", "lost", "written"} => KeyHeld
    BY DEF SeqInv, EntryInv, KeyHeld
  <2>a. \A k \in Attempt : at[k] # "waiting" /\ ~Over(k) /\ at[v] # "waiting" /\ ~Over(v) => k = v
    BY Alone
  <2> DEFINE Still == at[v] \in {"writing", "lost", "written"} /\ (KeyHeld => KeyHeld')
  <2>s. Still => KeyHeld'
    BY <2>c
  <2> HIDE DEF Still
  <2> USE <1>t, <2>t DEF TypeInv, Places, Goto, Report, keyVars
  <2>1. ASSUME NEW k \in Attempt, Begin(k) \/ CheckKey(k) \/ Read(k) \/ Gate(k) PROVE Still
    BY <2>1 DEF Begin, CheckKey, Read, Gate, Still, KeyHeld
  <2>2. ASSUME NEW k \in Attempt, NEW t \in Attempt, Fence(k, t) PROVE Still
    BY <2>2 DEF Fence, Still, KeyHeld
  <2>3. ASSUME NEW k \in Attempt, ReserveKey(k) PROVE KeyHeld'
    BY <2>3, KeySteps DEF ReserveKey
  <2>4. ASSUME NEW k \in Attempt, ReleaseKey(k) \/ Retract(k) PROVE Still
    <3>1. k # v => at'[v] = at[v]
      BY <2>4 DEF ReleaseKey, Retract, ReleaseRefused
    <3>2. k # v
      BY <2>4 DEF ReleaseKey, Retract, ReleaseRefused
    <3>3. at[k] # "waiting" /\ ~Over(k)
      BY <2>4 DEF ReleaseKey, Retract, Over, ReleaseRefused
    <3> QED
      BY <2>a, <3>1, <3>2, <3>3 DEF Over
  <2>5. ASSUME NEW k \in Attempt, SetValue(k) PROVE Still
    BY <2>5 DEF SetValue, Still, KeyHeld
  <2>6. ASSUME NEW k \in Attempt, ReportLost(k) \/ ReportWritten(k) \/ ReportRejected(k) PROVE Still
    <3>1. KeyHeld => KeyHeld'
      BY <2>6, KeySteps DEF ReportLost, ReportWritten, ReportRejected
    <3>2. at[v] \in {"writing", "lost", "written"}
      BY <2>6 DEF ReportLost, ReportWritten, ReportRejected
    <3> QED
      BY <3>1, <3>2 DEF Still
  <2>7. ASSUME NEW k \in Attempt, Crash(k) PROVE Still
    <3>1. at[v] \in {"writing", "lost", "written"} /\ k # v /\ at[k] # "waiting" /\ ~Over(k)
      BY <2>7 DEF Crash, Running
    <3> QED
      BY <2>a, <3>1 DEF Over
  <2>8. ASSUME EndCase \/ UNCHANGED vars PROVE Still
    BY <2>8 DEF EndCase, vars, Still, KeyHeld
  <2>9. ASSUME LeaseMoves PROVE KeyHeld'
    BY <2>9, KeySteps DEF LeaseMoves
  <2> QED
    BY <2>s, <2>1, <2>2, <2>3, <2>4, <2>5, <2>6, <2>7, <2>8, <2>9 DEF Next, AttemptStep
<1> QED
  BY <1>t, <1>1, <1>2 DEF SeqInv

---------------------------------------------------------------------------
(* Where nothing has landed, nothing can land any more but by the attempt  *)
(* that runs, and every unknown outcome was fenced and looked at: when the *)
(* key is free, and from an attempt's reconciliation to its write.         *)
FencedAndRead(u, n) ==
  \E f \in 1..(n - 1) : \E r \in (f + 1)..(n - 1) :
    /\ log[f].kind = "fence" /\ log[f].target = u /\ fence[log[f].by]
    /\ log[r].kind = "read" /\ log[r].by = log[f].by /\ readable[log[r].by]
Quiet ==
  /\ Writes(log) = {} /\ heldWrite # "held"
  /\ \A u \in Attempt : status[u] = "UNKNOWN" => FencedAndRead(u, Len(log) + 1)
MayWrite(k) ==
  \/ at[k] \in {"releasing", "reserving", "writing", "rejected", "retracting"}
  \/ at[k] = "gate" /\ resolved[k] /\ ~already[k]
QuietInv == (~KeyHeld => Quiet) /\ \A k \in Attempt : MayWrite(k) => Quiet

(* A write, also one that is held, is of an attempt past its              *)
(* reconciliation, and the only one.                                       *)
Early == {"waiting", "begun", "fencing"}
WriterInv ==
  /\ \A i \in Writes(log) : at[log[i].by] \notin Early
  /\ heldWrite = "held" => at[1] \notin Early /\ Writes(log) = {}
  /\ \A i, j \in Writes(log) : i = j

(* While an attempt fences, what is not to be fenced any more was fenced.  *)
FencedBy(k, t) == \E f \in DOMAIN log : log[f].kind = "fence" /\ log[f].by = k /\ log[f].target = t
FenceInv ==
  \A k \in Attempt : at[k] = "fencing" =>
    /\ fence[k] /\ (heldWrite = "held" => 1 \in toFence[k])
    /\ \A t \in journal \ {k} : t \in toFence[k] \/ FencedBy(k, t)

IInv == SeqInv /\ QuietInv /\ WriterInv /\ FenceInv /\ RetriesAreReconciled

LEMMA ReconciledStays ==
  ASSUME TypeInv, Longer, UNCHANGED <<fence, readable>>, NEW u, NEW n \in 1..(Len(log) + 1), NEW m \in Nat, n <= m,
         FencedAndRead(u, n)
  PROVE  FencedAndRead(u, m)'
<1>1. PICK f \in 1..(n - 1) : \E r \in (f + 1)..(n - 1) :
        /\ log[f].kind = "fence" /\ log[f].target = u /\ fence[log[f].by]
        /\ log[r].kind = "read" /\ log[r].by = log[f].by /\ readable[log[r].by]
  BY DEF FencedAndRead
<1>2. PICK r \in (f + 1)..(n - 1) :
        /\ log[f].kind = "fence" /\ log[f].target = u /\ fence[log[f].by]
        /\ log[r].kind = "read" /\ log[r].by = log[f].by /\ readable[log[r].by]
  BY <1>1
<1>3. Len(log) \in Nat /\ DOMAIN log = 1..Len(log) /\ n \in Nat
  BY DEF TypeInv
<1>4. f \in 1..(m - 1) /\ r \in (f + 1)..(m - 1) /\ f \in DOMAIN log /\ r \in DOMAIN log
  BY <1>3
<1>5. log'[f] = log[f] /\ log'[r] = log[r]
  BY <1>4 DEF Longer
<1> QED
  BY <1>2, <1>4, <1>5 DEF FencedAndRead

LEMMA QuietStays ==
  ASSUME TypeInv, NoWrite, UNCHANGED <<fence, readable>>, heldWrite # "held" => heldWrite' # "held",
         \A u \in Attempt : status'[u] = "UNKNOWN" => status[u] = "UNKNOWN", Quiet
  PROVE  Quiet'
<1>1. Len(log) \in Nat /\ Len(log') \in Nat /\ Len(log) <= Len(log')
  BY DEF TypeInv, NoWrite, Longer
<1>2. Len(log) + 1 \in 1..(Len(log) + 1) /\ Len(log') + 1 \in Nat /\ Len(log) + 1 <= Len(log') + 1
  BY <1>1
<1>3. ASSUME NEW u \in Attempt, status'[u] = "UNKNOWN" PROVE FencedAndRead(u, Len(log) + 1)'
  <2>1. FencedAndRead(u, Len(log) + 1)
    BY <1>3 DEF Quiet
  <2>2. \A m \in Nat : Len(log) + 1 <= m => FencedAndRead(u, m)'
    BY <1>2, <2>1, ReconciledStays DEF NoWrite
  <2> QED
    BY <1>2, <2>2 DEF FencedAndRead
<1> QED
  BY <1>3 DEF Quiet, NoWrite

(* The read that follows the fences and shows no write.                    *)
LEMMA ReadQuiet ==
  ASSUME SeqInv, WriterInv, FenceInv, NEW k \in Attempt, Read(k), at'[k] = "releasing"
  PROVE  Quiet'
<1>t. TypeInv
  BY DEF SeqInv
<1> DEFINE e == Ev("read", k, k, IF readable[k] THEN "ok" ELSE "unavailable")
<1>1. /\ at[k] = "fencing" /\ toFence[k] = {} /\ readable[k] /\ log' = Append(log, e) /\ heldWrite' = heldWrite
      /\ \A t \in Earlier(k) : WritesOf(log, t) = {}
      /\ fence' = fence /\ readable' = readable /\ status' = status
  BY <1>t DEF Read, Goto, TypeInv, StoreRead, given
<1>2. e \in Events /\ e.kind = "read" /\ e.by = k
  BY DEF Ev, Events
<1> HIDE DEF e
<1>3. /\ Writes(log') = Writes(log) /\ Longer /\ Len(log') = Len(log) + 1 /\ log'[Len(log) + 1] = e
      /\ Len(log) \in Nat /\ DOMAIN log = 1..Len(log)
  BY <1>t, <1>1, <1>2, LoggedEvent, LogFacts DEF NoWrite, TypeInv
<1>4. Writes(log) = {}
  <2> SUFFICES ASSUME NEW i \in Writes(log) PROVE FALSE
    OBVIOUS
  <2>1. log[i].by \in Attempt
    <3>1. log[i] \in Events
      BY <1>t, ElementOfSeq DEF TypeInv, Writes
    <3> QED
      BY <3>1 DEF Events
  <2>2. log[i].by \in journal /\ log[i].by # k
    BY <1>1, <2>1 DEF WriterInv, SeqInv, JournalInv, Early
  <2>3. i \in WritesOf(log, log[i].by)
    BY DEF WritesOf
  <2> QED
    BY <1>1, <2>2, <2>3 DEF Earlier
<1>5. heldWrite # "held"
  BY <1>1 DEF FenceInv
<1>6. ASSUME NEW u \in Attempt, status[u] = "UNKNOWN" PROVE FencedAndRead(u, Len(log) + 1)'
  <2>1. u \in journal /\ u # k
    BY <1>1, <1>6 DEF SeqInv, JournalInv
  <2>2. PICK f \in DOMAIN log : log[f].kind = "fence" /\ log[f].by = k /\ log[f].target = u
    BY <1>1, <2>1 DEF FenceInv, FencedBy
  <2>3. fence[k]
    BY <1>1 DEF FenceInv
  <2> DEFINE r == Len(log) + 1
  <2>4. f \in 1..(Len(log') + 1 - 1) /\ r \in (f + 1)..(Len(log') + 1 - 1)
    BY <1>3
  <2>5. log'[f] = log[f] /\ log'[r] = e
    BY <1>3 DEF Longer
  <2> HIDE DEF r
  <2> QED
    BY <1>1, <1>2, <2>2, <2>3, <2>4, <2>5 DEF FencedAndRead
<1> QED
  BY <1>1, <1>3, <1>4, <1>5, <1>6 DEF Quiet

LEMMA QuietNext ==
  ASSUME SeqInv, QuietInv, WriterInv, FenceInv, [Next]_vars
  PROVE  QuietInv'
<1>t. TypeInv /\ KeyType
  BY DEF SeqInv, TypeInv, KeyType
<1> DEFINE Fine == (~KeyHeld' => Quiet') /\ \A v \in Attempt : MayWrite(v)' => Quiet'
           Keeps == /\ NoWrite /\ UNCHANGED <<fence, readable>> /\ (heldWrite # "held" => heldWrite' # "held")
                    /\ \A u \in Attempt : status'[u] = "UNKNOWN" => status[u] = "UNKNOWN"
           Due == (~KeyHeld' => Quiet) /\ \A v \in Attempt : MayWrite(v)' => Quiet
<1>f. Fine => QuietInv'
  BY DEF QuietInv
<1>k. Keeps /\ Due => Fine
  BY <1>t, QuietStays
<1>q. /\ ~KeyHeld => Quiet
      /\ \A v \in Attempt : MayWrite(v) => Quiet
  BY DEF QuietInv
<1>o. \A j, k \in Attempt : at[j] # "waiting" /\ ~Over(j) /\ at[k] # "waiting" /\ ~Over(k) => j = k
  BY Alone
<1>m. \A v \in Attempt : MayWrite(v) => at[v] # "waiting" /\ ~Over(v)
  BY DEF MayWrite, Over
<1>c. \A v \in Attempt : at[v] \in {"writing", "lost", "written"} => KeyHeld
  BY DEF SeqInv, EntryInv, KeyHeld
<1>s. \A v \in Attempt : at'[v] = at[v] /\ resolved'[v] = resolved[v] /\ already'[v] = already[v] => (MayWrite(v)' <=> MayWrite(v))
  BY DEF MayWrite
<1> HIDE DEF Fine, Keeps, Due
<1> USE <1>t DEF TypeInv, Goto, Report, given, found, keyVars, obsStore
<1>1. ASSUME NEW k \in Attempt, Begin(k) PROVE Fine
  <2>1. Keeps
    BY <1>1, Unlogged DEF Begin, Keeps
  <2>2. \A v \in Attempt : MayWrite(v)' => MayWrite(v)
    BY <1>1 DEF Begin, MayWrite
  <2>3. KeyHeld' = KeyHeld
    BY <1>1 DEF Begin, KeyHeld
  <2> QED
    BY <1>k, <1>q, <2>1, <2>2, <2>3 DEF Due
<1>2. ASSUME NEW k \in Attempt, CheckKey(k) PROVE Fine
  <2>1. Keeps
    BY <1>2, Unlogged DEF CheckKey, Keeps
  <2>2. \A v \in Attempt : v # k => at'[v] = at[v] /\ resolved'[v] = resolved[v] /\ already'[v] = already[v]
    BY <1>2 DEF CheckKey
  <2>3. MayWrite(k)' => "NONE" \in KeyReads
    BY <1>2 DEF CheckKey, MayWrite
  <2>4. "NONE" \in KeyReads => ~KeyHeld
    BY KeyReadsIs
  <2>5. KeyHeld' = KeyHeld
    BY <1>2 DEF CheckKey, KeyHeld
  <2> QED
    BY <1>k, <1>q, <1>s, <2>1, <2>2, <2>3, <2>4, <2>5 DEF Due
<1>3. ASSUME NEW k \in Attempt, NEW t \in Attempt, Fence(k, t) PROVE Fine
  <2>1. heldWrite # "held" => heldWrite' # "held"
    BY <1>3 DEF Fence
  <2>2. Keeps
    BY <1>3, <2>1, Fenced DEF Fence, Keeps
  <2>3. at' = at /\ resolved' = resolved /\ already' = already /\ KeyHeld' = KeyHeld
    BY <1>3 DEF Fence, KeyHeld
  <2> QED
    BY <1>k, <1>q, <1>s, <2>2, <2>3 DEF Due
<1>4. ASSUME NEW k \in Attempt, Read(k) PROVE Fine
  <2>1. CASE at'[k] = "releasing"
    BY <1>4, <2>1, ReadQuiet DEF Fine
  <2>2. CASE at'[k] # "releasing"
    <3>1. ~MayWrite(k)'
      BY <1>4, <2>2 DEF Read, MayWrite
    <3>2. \A v \in Attempt : v # k => ~MayWrite(v)'
      <4> SUFFICES ASSUME NEW v \in Attempt, v # k, MayWrite(v)' PROVE FALSE
        OBVIOUS
      <4>1. at'[v] = at[v] /\ resolved'[v] = resolved[v] /\ already'[v] = already[v]
        BY <1>4 DEF Read
      <4>2. MayWrite(v)
        BY <1>s, <4>1
      <4>3. at[k] # "waiting" /\ ~Over(k)
        BY <1>4 DEF Read, Over
      <4> QED
        BY <1>o, <1>m, <4>2, <4>3
    <3>3. ~KeyHeld' => Quiet
      BY <1>4, <1>q DEF Read, KeyHeld
    <3>4. Keeps
      <4>1. NoWrite
        <5> DEFINE e == Ev("read", k, k, IF readable[k] THEN "ok" ELSE "unavailable")
        <5>1. e \in Events /\ e.kind # "write"
          BY DEF Ev, Events
        <5>2. log' = Append(log, e)
          BY <1>4 DEF Read, StoreRead
        <5> HIDE DEF e
        <5> QED
          BY <5>1, <5>2, LoggedEvent
      <4> QED
        BY <1>4, <4>1 DEF Read, Keeps
    <3> QED
      BY <1>k, <3>1, <3>2, <3>3, <3>4 DEF Due
  <2> QED
    BY <2>1, <2>2
<1>5. ASSUME NEW k \in Attempt, ReleaseKey(k) \/ ReserveKey(k) PROVE Fine
  <2>1. Keeps
    BY <1>5, Unlogged DEF ReleaseKey, ReserveKey, Keeps, ReleaseRefused
  <2>2. MayWrite(k)
    BY <1>5 DEF ReleaseKey, ReserveKey, MayWrite, ReleaseRefused
  <2> QED
    BY <1>k, <1>q, <2>1, <2>2 DEF Due
<1>6. ASSUME NEW k \in Attempt, Gate(k) PROVE Fine
  <2>1. Keeps
    BY <1>6, Unlogged DEF Gate, Keeps
  <2>2. \A v \in Attempt : MayWrite(v)' => MayWrite(v)
    BY <1>6 DEF Gate, MayWrite
  <2>3. KeyHeld' = KeyHeld
    BY <1>6 DEF Gate, KeyHeld
  <2> QED
    BY <1>k, <1>q, <2>1, <2>2, <2>3 DEF Due
<1>7. ASSUME NEW k \in Attempt, SetValue(k) PROVE Fine
  <2>1. at[k] = "writing" /\ at[k] # "waiting" /\ ~Over(k) /\ KeyHeld /\ KeyHeld' = KeyHeld
    BY <1>7, <1>c DEF SetValue, Over, KeyHeld
  <2>2. Quiet
    BY <1>q, <2>1 DEF MayWrite
  <2>3. CASE at'[k] \in {"lost", "written"}
    <3>1. ASSUME NEW v \in Attempt, MayWrite(v)' PROVE FALSE
      <4>1. v # k
        BY <2>3, <3>1 DEF MayWrite
      <4>2. at'[v] = at[v] /\ resolved'[v] = resolved[v] /\ already'[v] = already[v]
        BY <1>7, <4>1 DEF SetValue
      <4> QED
        BY <1>o, <1>m, <1>s, <2>1, <3>1, <4>1, <4>2
    <3> QED
      BY <2>1, <3>1 DEF Fine
  <2>4. CASE at'[k] \notin {"lost", "written"}
    <3>1. heldWrite' = heldWrite /\ status' = status /\ fence' = fence /\ readable' = readable
      BY <1>7, <2>4 DEF SetValue
    <3>2. \/ log' = Append(log, Ev("rejected", k, k, "fault"))
          \/ log' = Append(log, Ev("rejected", k, k, "fenced"))
      BY <1>7, <2>4 DEF SetValue, Apply
    <3>3. /\ Ev("rejected", k, k, "fault") \in Events /\ Ev("rejected", k, k, "fault").kind # "write"
          /\ Ev("rejected", k, k, "fenced") \in Events /\ Ev("rejected", k, k, "fenced").kind # "write"
      BY DEF Ev, Events
    <3>4. NoWrite
      BY <3>2, <3>3, LoggedEvent
    <3> QED
      BY <1>k, <2>2, <3>1, <3>4 DEF Keeps, Due
  <2> QED
    BY <2>3, <2>4
<1>8. ASSUME NEW k \in Attempt, ReportLost(k) \/ ReportWritten(k) PROVE Fine
  <2>1. at[k] \in {"lost", "written"} /\ at'[k] = "reported" /\ at[k] # "waiting" /\ ~Over(k)
    BY <1>8 DEF ReportLost, ReportWritten, Over
  <2>2. KeyHeld'
    BY <1>8, <1>c, <2>1, KeySteps DEF ReportLost, ReportWritten
  <2>3. ASSUME NEW v \in Attempt, MayWrite(v)' PROVE FALSE
    <3>1. v # k
      BY <2>1, <2>3 DEF MayWrite
    <3>2. at'[v] = at[v] /\ resolved'[v] = resolved[v] /\ already'[v] = already[v]
      BY <1>8, <3>1 DEF ReportLost, ReportWritten
    <3> QED
      BY <1>o, <1>m, <1>s, <2>1, <2>3, <3>1, <3>2
  <2> QED
    BY <2>2, <2>3 DEF Fine
<1>9. ASSUME NEW k \in Attempt, ReportRejected(k) \/ Retract(k) PROVE Fine
  <2>1. Keeps
    BY <1>9, Unlogged DEF ReportRejected, Retract, Keeps, ReleaseRefused
  <2>2. MayWrite(k)
    BY <1>9 DEF ReportRejected, Retract, MayWrite, ReleaseRefused
  <2> QED
    BY <1>k, <1>q, <2>1, <2>2 DEF Due
<1>10. ASSUME NEW k \in Attempt, Crash(k) PROVE Fine
  <2>1. Keeps
    BY <1>10, Unlogged DEF Crash, Keeps
  <2>2. \A v \in Attempt : MayWrite(v)' => MayWrite(v)
    BY <1>10 DEF Crash, MayWrite
  <2>3. KeyHeld /\ ~KeyHeld' => MayWrite(k)
    BY <1>10, CrashKey DEF MayWrite
  <2> QED
    BY <1>k, <1>q, <2>1, <2>2, <2>3 DEF Due
<1>11. ASSUME EndCase PROVE Fine
  <2>1. KeyHeld' = KeyHeld /\ \A v \in Attempt : MayWrite(v)' <=> MayWrite(v)
    BY <1>11 DEF EndCase, KeyHeld, MayWrite
  <2>2. CASE heldWrite = "held"
    BY <1>q, <2>1, <2>2 DEF Quiet, Fine
  <2>3. CASE heldWrite # "held"
    <3>1. Keeps
      BY <1>11, <2>3, Unlogged DEF EndCase, Keeps
    <3> QED
      BY <1>k, <1>q, <2>1, <3>1 DEF Due
  <2> QED
    BY <2>2, <2>3
<1>12. ASSUME LeaseMoves PROVE Fine
  <2>1. Keeps
    BY <1>12, Unlogged DEF LeaseMoves, Keeps
  <2>2. KeyHeld' /\ \A v \in Attempt : MayWrite(v)' <=> MayWrite(v)
    BY <1>12, KeySteps, Attempts1 DEF LeaseMoves, MayWrite
  <2> QED
    BY <1>k, <1>q, <2>1, <2>2 DEF Due
<1>13. ASSUME UNCHANGED vars PROVE Fine
  <2>1. Keeps /\ KeyHeld' = KeyHeld /\ \A v \in Attempt : MayWrite(v)' <=> MayWrite(v)
    BY <1>13, Unlogged DEF vars, Keeps, KeyHeld, MayWrite
  <2> QED
    BY <1>k, <1>q, <2>1 DEF Due
<1> QED
  BY <1>f, <1>1, <1>2, <1>3, <1>4, <1>5, <1>6, <1>7, <1>8, <1>9, <1>10, <1>11, <1>12, <1>13 DEF Next, AttemptStep

(* Attempts do not come back to where they reconcile.                      *)
LEMMA NotEarlyAgain ==
  ASSUME TypeInv, [Next]_vars, NEW w \in Attempt, at[w] \notin Early
  PROVE  at'[w] \notin Early
<1> USE DEF TypeInv, Goto, Report, Early
<1>1. ASSUME NEW k \in Attempt, Begin(k) \/ CheckKey(k) \/ Read(k) \/ ReleaseKey(k) \/ Gate(k) PROVE at'[w] \notin Early
  BY <1>1 DEF Begin, CheckKey, Read, ReleaseKey, Gate, ReleaseRefused
<1>2. ASSUME NEW k \in Attempt, ReserveKey(k) \/ SetValue(k) \/ Crash(k) PROVE at'[w] \notin Early
  BY <1>2 DEF ReserveKey, SetValue, Crash
<1>3. ASSUME NEW k \in Attempt, ReportLost(k) \/ ReportWritten(k) \/ ReportRejected(k) \/ Retract(k) PROVE at'[w] \notin Early
  BY <1>3 DEF ReportLost, ReportWritten, ReportRejected, Retract, ReleaseRefused
<1>4. ASSUME (\E k, t \in Attempt : Fence(k, t)) \/ EndCase \/ LeaseMoves \/ UNCHANGED vars PROVE at' = at
  BY <1>4 DEF Fence, EndCase, LeaseMoves, vars
<1> QED
  BY <1>1, <1>2, <1>3, <1>4 DEF Next, AttemptStep

(* Only the first attempt's write is ever held, and it lands once.         *)
LEMMA Holding ==
  ASSUME TypeInv, [Next]_vars, heldWrite' = "held"
  PROVE  heldWrite = "held" \/ (SetValue(1) /\ log' = log /\ at'[1] = "lost")
<1> USE DEF TypeInv, Goto, Report, obsStore
<1>1. ASSUME NEW k \in Attempt, Begin(k) \/ CheckKey(k) \/ Read(k) \/ ReleaseKey(k) \/ Gate(k) \/ ReserveKey(k) \/ Crash(k)
      PROVE  heldWrite' = heldWrite
  BY <1>1 DEF Begin, CheckKey, Read, ReleaseKey, Gate, ReserveKey, Crash, ReleaseRefused
<1>2. ASSUME NEW k \in Attempt, ReportLost(k) \/ ReportWritten(k) \/ ReportRejected(k) \/ Retract(k) PROVE heldWrite' = heldWrite
  BY <1>2 DEF ReportLost, ReportWritten, ReportRejected, Retract, ReleaseRefused
<1>3. ASSUME NEW k \in Attempt, SetValue(k), heldWrite # "held" PROVE SetValue(1) /\ log' = log /\ at'[1] = "lost"
  BY <1>3 DEF SetValue
<1>4. ASSUME (\E k, t \in Attempt : Fence(k, t)) \/ EndCase \/ LeaseMoves \/ UNCHANGED vars PROVE heldWrite = "held"
  BY <1>4 DEF Fence, EndCase, LeaseMoves, vars
<1> QED
  BY <1>1, <1>2, <1>3, <1>4 DEF Next, AttemptStep

LEMMA WriterNext ==
  ASSUME SeqInv, QuietInv, WriterInv, [Next]_vars
  PROVE  WriterInv'
<1>t. TypeInv /\ 1 \in Attempt /\ Len(log) \in Nat /\ DOMAIN log = 1..Len(log)
  BY Attempts1 DEF SeqInv, TypeInv
<1>b. \A i \in Writes(log) : i \in DOMAIN log /\ log[i].by \in Attempt
  <2> SUFFICES ASSUME NEW i \in Writes(log) PROVE i \in DOMAIN log /\ log[i].by \in Attempt
    OBVIOUS
  <2>1. log[i] \in Events
    BY <1>t, ElementOfSeq DEF TypeInv, Writes
  <2> QED
    BY <2>1 DEF Events, Writes
<1>1. heldWrite' = "held" => at'[1] \notin Early /\ Writes(log') = {}
  <2> SUFFICES ASSUME heldWrite' = "held" PROVE at'[1] \notin Early /\ Writes(log') = {}
    OBVIOUS
  <2>1. CASE SetValue(1) /\ log' = log /\ at'[1] = "lost"
    <3>1. MayWrite(1)
      BY <2>1 DEF SetValue, MayWrite
    <3> QED
      BY <1>t, <2>1, <3>1 DEF QuietInv, Quiet, Early
  <2>2. CASE heldWrite = "held"
    <3>1. at[1] \notin Early /\ Writes(log) = {}
      BY <2>2 DEF WriterInv
    <3>2. at'[1] \notin Early
      BY <1>t, <3>1, NotEarlyAgain
    <3>3. NoWrite
      <4>1. ~EndCase
        BY <2>2 DEF EndCase
      <4>2. ASSUME NEW k \in Attempt, SetValue(k) PROVE FALSE
        BY <2>2, <4>2 DEF SetValue, QuietInv, Quiet, MayWrite
      <4> QED
        BY <1>t, <4>1, <4>2, LogNext
    <3> QED
      BY <3>1, <3>2, <3>3 DEF NoWrite
  <2> QED
    BY <1>t, <2>1, <2>2, Holding
<1>2. /\ \A i \in Writes(log') : at'[log'[i].by] \notin Early
      /\ \A i, j \in Writes(log') : i = j
  <2>1. CASE NoWrite
    <3>1. \A i \in Writes(log) : log'[i] = log[i] /\ at'[log[i].by] \notin Early
      BY <1>t, <1>b, <2>1, NotEarlyAgain DEF NoWrite, Longer, WriterInv
    <3> QED
      BY <2>1, <3>1 DEF NoWrite, WriterInv
  <2>2. ASSUME NEW k \in Attempt, SetValue(k), WriteOf(k)
        PROVE  /\ \A i \in Writes(log') : at'[log'[i].by] \notin Early
               /\ \A i, j \in Writes(log') : i = j
    <3>1. at[k] = "writing" /\ MayWrite(k)
      BY <2>2 DEF SetValue, MayWrite
    <3>2. Writes(log') = {Len(log) + 1}
      BY <2>2, <3>1 DEF QuietInv, Quiet, WriteOf
    <3>3. at'[k] \notin Early
      BY <1>t, <3>1, NotEarlyAgain DEF Early
    <3> QED
      BY <2>2, <3>2, <3>3 DEF WriteOf
  <2>3. CASE EndCase /\ heldWrite = "held" /\ WriteOf(1)
    <3>1. Writes(log') = {Len(log) + 1}
      BY <2>3 DEF WriterInv, WriteOf
    <3>2. at'[1] \notin Early
      BY <1>t, <2>3, NotEarlyAgain DEF WriterInv
    <3> QED
      BY <2>3, <3>1, <3>2 DEF WriteOf
  <2> QED
    BY <1>t, <2>1, <2>2, <2>3, LogNext
<1> QED
  BY <1>1, <1>2 DEF WriterInv

LEMMA FenceNext ==
  ASSUME SeqInv, WriterInv, FenceInv, [Next]_vars
  PROVE  FenceInv'
<1>t. TypeInv /\ 1 \in Attempt
  BY Attempts1 DEF SeqInv
<1> SUFFICES ASSUME NEW v \in Attempt, at'[v] = "fencing"
             PROVE  /\ fence'[v] /\ (heldWrite' = "held" => 1 \in toFence'[v])
                    /\ \A t \in journal' \ {v} : t \in toFence'[v] \/ FencedBy(v, t)'
  BY DEF FenceInv
<1>l. ASSUME Longer, NEW t, FencedBy(v, t) PROVE FencedBy(v, t)'
  <2>1. DOMAIN log = 1..Len(log) /\ DOMAIN log' = 1..Len(log') /\ Len(log) \in Nat /\ Len(log') \in Nat
    BY <1>t, <1>l DEF TypeInv, Longer
  <2>2. DOMAIN log \subseteq DOMAIN log'
    BY <1>l, <2>1 DEF Longer
  <2> QED
    BY <1>l, <2>2 DEF FencedBy, Longer
<1>n. Longer
  BY <1>t, LogNext DEF NoWrite, WriteOf
<1>f. fence' = fence
  BY DEF Next, AttemptStep, Begin, CheckKey, Fence, Read, ReleaseKey, Gate, ReserveKey, SetValue, ReportLost, ReportWritten, ReleaseRefused,
         ReportRejected, Retract, Crash, EndCase, LeaseMoves, given, vars
<1>1. CASE CheckKey(v)
  <2>1. /\ at[v] = "begun" /\ fence[v] /\ toFence'[v] = journal \ {v} /\ journal' = journal /\ heldWrite' = heldWrite
    BY <1>1, <1>t DEF CheckKey, Goto, TypeInv, obsStore
  <2>2. heldWrite = "held" => 1 \in journal /\ 1 # v
    BY <1>t, <2>1 DEF WriterInv, SeqInv, JournalInv, Early
  <2> QED
    BY <1>f, <2>1, <2>2
<1>2. ASSUME NEW t \in Attempt, Fence(v, t)
      PROVE  /\ fence'[v] /\ (heldWrite' = "held" => 1 \in toFence'[v])
             /\ \A x \in journal' \ {v} : x \in toFence'[v] \/ FencedBy(v, x)'
  <2>1. at[v] = "fencing" /\ toFence'[v] = toFence[v] \ {t} /\ journal' = journal
    BY <1>2, <1>t DEF Fence, TypeInv
  <2>2. heldWrite' = "held" => heldWrite = "held" /\ t # 1
    BY <1>2 DEF Fence
  <2>3. FencedBy(v, t)'
    BY <1>2, <1>t, Fenced DEF FencedBy
  <2> QED
    BY <1>f, <1>l, <1>n, <2>1, <2>2, <2>3 DEF FenceInv
<1>3. CASE at[v] = "fencing" /\ toFence'[v] = toFence[v] /\ journal' = journal
  <2>1. heldWrite' = "held" => heldWrite = "held"
    <3>1. SetValue(1) => at[1] = "writing" /\ 1 # v
      BY <1>3 DEF SetValue
    <3>2. ~SetValue(1)
      BY <1>3, <1>t, <3>1, Alone DEF Over
    <3> QED
      BY <1>t, <3>2, Holding
  <2> QED
    BY <1>3, <1>f, <1>l, <1>n, <2>1 DEF FenceInv
<1>4. \/ CheckKey(v) \/ (\E t \in Attempt : Fence(v, t))
      \/ at[v] = "fencing" /\ toFence'[v] = toFence[v] /\ journal' = journal
  <2> USE <1>t DEF TypeInv, Goto, Report, found
  <2>o. \A k \in Attempt : k # v /\ at[v] = "fencing" => at[k] = "waiting" \/ Over(k)
    BY Alone DEF Over
  <2>1. ASSUME NEW k \in Attempt, Begin(k) PROVE FALSE
    <3>1. k # v /\ at[v] = "fencing" /\ at[k] = "waiting"
      BY <2>1 DEF Begin
    <3>2. ~(k < v)
      BY <3>1 DEF SeqInv, OrderInv, Over
    <3>3. ~(v < k)
      <4>1. v < k => v \in 1..(k - 1)
        BY DEF Attempt
      <4>2. \A j \in 1..(k - 1) : Over(j)
        BY <2>1 DEF Begin
      <4>3. ~Over(v)
        BY <3>1 DEF Over
      <4> QED
        BY <4>1, <4>2, <4>3
    <3> QED
      BY <3>1, <3>2, <3>3, Attempts1
  <2>2. ASSUME NEW k \in Attempt, NEW t \in Attempt, Fence(k, t), k # v PROVE FALSE
    BY <2>2, <2>o DEF Fence, Over
  <2>3. ASSUME NEW k \in Attempt, CheckKey(k), k # v PROVE FALSE
    BY <2>3, <2>o DEF CheckKey, Over
  <2>4. ASSUME NEW k \in Attempt, Read(k) \/ ReleaseKey(k) \/ Gate(k) \/ ReserveKey(k) \/ SetValue(k)
        PROVE  at[v] = "fencing" /\ toFence'[v] = toFence[v] /\ journal' = journal
    BY <2>4 DEF Read, ReleaseKey, Gate, ReserveKey, SetValue, ReleaseRefused
  <2>5. ASSUME NEW k \in Attempt, ReportLost(k) \/ ReportWritten(k) \/ ReportRejected(k) \/ Retract(k) \/ Crash(k)
        PROVE  at[v] = "fencing" /\ toFence'[v] = toFence[v] /\ journal' = journal
    BY <2>5 DEF ReportLost, ReportWritten, ReportRejected, Retract, Crash, ReleaseRefused
  <2>6. ASSUME EndCase \/ LeaseMoves \/ UNCHANGED vars
        PROVE  at[v] = "fencing" /\ toFence'[v] = toFence[v] /\ journal' = journal
    BY <2>6 DEF EndCase, LeaseMoves, vars
  <2> QED
    BY <2>1, <2>2, <2>3, <2>4, <2>5, <2>6 DEF Next, AttemptStep
<1> QED
  BY <1>1, <1>2, <1>3, <1>4

LEMMA RetriesNext ==
  ASSUME SeqInv, QuietInv, WriterInv, RetriesAreReconciled, [Next]_vars
  PROVE  RetriesAreReconciled'
<1>t. TypeInv /\ Len(log) \in Nat /\ DOMAIN log = 1..Len(log) /\ 1 \in Attempt
  BY Attempts1 DEF SeqInv, TypeInv
<1>f. fence' = fence /\ readable' = readable
  BY DEF Next, AttemptStep, Begin, CheckKey, Fence, Read, ReleaseKey, Gate, ReserveKey, SetValue, ReportLost, ReportWritten, ReleaseRefused,
         ReportRejected, Retract, Crash, EndCase, LeaseMoves, given, vars
<1>l. Longer
  BY <1>t, LogNext DEF NoWrite, WriteOf
<1>1. ASSUME NEW i \in Writes(log), NEW u \in 1..(log[i].by - 1), status'[u] = "UNKNOWN" PROVE FencedAndRead(u, i)'
  <2>1. i \in DOMAIN log /\ i \in 1..(Len(log) + 1) /\ i \in Nat /\ log[i] \in Events
    BY <1>t, ElementOfSeq DEF Writes, TypeInv
  <2>2. log[i].by \in Attempt
    BY <2>1 DEF Events
  <2>3. u \in Attempt /\ u < log[i].by
    BY <2>2 DEF Attempt
  <2>4. Over(u)
    BY <2>2, <2>3 DEF WriterInv, Early, SeqInv, OrderInv
  <2>5. status'[u] = status[u]
    <3>1. \A k \in Attempt, s \in Statuses : k # u => [status EXCEPT ![k] = s][u] = status[u]
      BY <1>t, <2>3 DEF TypeInv
    <3> QED
      BY <2>4, <3>1, Moves
  <2>6. FencedAndRead(u, i)
    BY <1>1, <2>5 DEF RetriesAreReconciled, FencedAndRead
  <2> QED
    BY <1>t, <1>f, <1>l, <2>1, <2>6, ReconciledStays
<1> SUFFICES ASSUME NEW i \in Writes(log'), NEW u \in 1..(log'[i].by - 1), status'[u] = "UNKNOWN" PROVE FencedAndRead(u, i)'
  BY DEF RetriesAreReconciled, FencedAndRead
<1>2. CASE i \in Writes(log)
  <2>1. log'[i] = log[i]
    BY <1>l, <1>2 DEF Longer, Writes
  <2> QED
    BY <1>1, <1>2, <2>1
<1>3. ASSUME i \notin Writes(log), NEW k \in Attempt, SetValue(k), WriteOf(k) PROVE FencedAndRead(u, i)'
  <2>1. i = Len(log) + 1 /\ log'[i].by = k
    BY <1>3 DEF WriteOf
  <2>2. u \in Attempt
    BY <2>1 DEF Attempt
  <2>3. Quiet /\ status' = status
    BY <1>3 DEF SetValue, QuietInv, MayWrite
  <2>4. FencedAndRead(u, Len(log) + 1)
    BY <2>2, <2>3 DEF Quiet
  <2>5. Len(log) + 1 \in 1..(Len(log) + 1) /\ Len(log) + 1 \in Nat
    BY <1>t
  <2>6. \A m \in Nat : Len(log) + 1 <= m => FencedAndRead(u, m)'
    BY <1>t, <1>f, <1>l, <2>4, <2>5, ReconciledStays
  <2> QED
    BY <2>1, <2>5, <2>6
<1>4. ASSUME i \notin Writes(log), WriteOf(1) PROVE FALSE
  BY <1>4 DEF WriteOf
<1> QED
  BY <1>t, <1>2, <1>3, <1>4, LogNext DEF NoWrite

LEMMA InitInv == Init => IInv
<1> SUFFICES ASSUME Init PROVE IInv
  OBVIOUS
<1>1. Writes(log) = {} /\ log \in Seq(Events)
  BY EmptySeq DEF Init, Writes
<1>2. SeqInv
  BY <1>1, EmptySeq DEF Init, SeqInv, TypeInv, OrderInv, JournalInv, EntryInv, Reservations!Init, Places, Statuses, NoClaim
<1>3. QuietInv /\ FenceInv
  BY <1>1 DEF Init, QuietInv, FenceInv, Quiet, MayWrite
<1>4. WriterInv /\ RetriesAreReconciled
  BY <1>1 DEF Init, WriterInv, RetriesAreReconciled
<1> QED
  BY <1>2, <1>3, <1>4 DEF IInv

LEMMA NextInv == IInv /\ [Next]_vars => IInv'
BY SeqNext, QuietNext, WriterNext, FenceNext, RetriesNext DEF IInv

LEMMA Invariance == Spec => []IInv
BY InitInv, NextInv, PTL DEF Spec

(* However often the intent is tried, and whatever was lost, held,         *)
(* rejected or crashed: at most one write of it lands.                     *)
THEOREM IntentLandsOnce == Spec => []LandsAtMostOnce
<1>1. IInv => LandsAtMostOnce
  <2> SUFFICES ASSUME WriterInv PROVE LandsAtMostOnce
    BY DEF IInv
  <2>1. CASE Writes(log) = {}
    BY <2>1, FS_EmptySet DEF LandsAtMostOnce
  <2>2. ASSUME NEW i \in Writes(log) PROVE LandsAtMostOnce
    <3>1. Writes(log) = {i}
      BY DEF WriterInv
    <3>2. Cardinality(Writes(log)) = 1
      BY <3>1, FS_Singleton
    <3> QED
      BY <3>2 DEF LandsAtMostOnce
  <2> QED
    BY <2>1, <2>2
<1> QED
  BY <1>1, Invariance, PTL

(* A write after an attempt that reported UNKNOWN comes after a permitted  *)
(* fence of that attempt and a later read by the attempt that fenced it.   *)
THEOREM RetriesReconcile == Spec => []RetriesAreReconciled
<1>1. IInv => RetriesAreReconciled
  BY DEF IInv
<1> QED
  BY <1>1, Invariance, PTL

---------------------------------------------------------------------------
(* What the comparator finds.  The invariants below say of the store that  *)
(* its log agrees with its fences and its record, of each attempt what its *)
(* place and report say of the log, of the first attempt what became of    *)
(* its write, of the key who holds it, and of a retry that it was          *)
(* reconciled.                                                             *)

Claims == [fenced : SUBSET Nat, seq : Nat, writes : Nat]

(* What is fenced, is of earlier attempts.                                 *)
TargetInv == \A k \in Attempt : \A t \in toFence[k] : t < k

CaseType ==
  /\ claim \in [Attempt -> Claims] /\ fault \in Faults /\ fenced \subseteq Attempt
  /\ heldWrite \in {"none", "held", "released at fence", "released at end"}
  /\ write \in [Attempt -> BOOLEAN] /\ faultUsed \in BOOLEAN

EventOK(i) ==
  /\ log[i].by \in journal
  /\ log[i].kind \in {"write", "rejected"} => write[log[i].by]
  /\ log[i].kind = "write" => log[i].version = 1 /\ FencesOf(log[i].by, i) = {}
  /\ log[i].kind = "rejected" /\ log[i].note = "fenced" => FencesOf(log[i].by, i) # {}
  /\ log[i].kind = "fence" => fence[log[i].by] /\ log[i].target < log[i].by
  /\ log[i].kind = "read" => log[i].note = IF readable[log[i].by] THEN "ok" ELSE "unavailable"
IsFenced(t) == \E f \in DOMAIN log : log[f].kind = "fence" /\ log[f].target = t
StoreInv ==
  /\ \A i \in DOMAIN log : EventOK(i)
  /\ \A t \in Attempt : t \in fenced <=> IsFenced(t)
  /\ version = IF Writes(log) = {} THEN 0 ELSE 1

(* What the place and the report of an attempt say by themselves.          *)
Later  == {"lost", "rejected", "retracting"}
Before == {"waiting", "begun", "fencing", "releasing", "gate", "reserving", "writing"}
Permitted == {"reserving", "writing", "lost", "written", "rejected", "retracting"}
Placed(k) ==
  /\ at[k] = "reported" => status[k] # "none"
  /\ at[k] \in Later \/ status[k] \in {"UNKNOWN", "FAILED"} => k = 1
  /\ at[k] \in Permitted \/ status[k] \notin {"none", "REFUSED"} => write[k]
  /\ status[k] = "REFUSED" => ~write[k]
  /\ at[k] \in {"waiting", "begun", "fencing", "releasing"} => resolved[k] /\ ~already[k]
  /\ at[k] \in {"waiting", "begun", "fencing"} => claim[k] = NoClaim
  /\ at[k] = "releasing" => claim[k] # NoClaim
  /\ ~resolved[k] => ~fence[k] \/ ~readable[k]
  /\ claim[k] # NoClaim => readable[k]
  /\ status[k] = "HELD" => ~resolved[k]
  /\ status[k] = "ALREADY_COMPLETED" => already[k]
PlaceInv == \A k \in Attempt : Placed(k)

(* What they say of the attempt's own writes.                              *)
Wrote(k) ==
  /\ at[k] = "written" \/ status[k] = "COMPLETED" => WritesOf(log, k) # {}
  /\ \/ at[k] \in Before \cup {"rejected", "retracting"}
     \/ status[k] \in {"FAILED", "REFUSED", "ALREADY_COMPLETED", "HELD"}
     => WritesOf(log, k) = {}
WroteInv == \A k \in Attempt : Wrote(k)

(* What became of the write of the first attempt under its fault.          *)
FaultInv ==
  /\ at[1] \in Before => ~faultUsed /\ heldWrite = "none" /\ By("rejected", 1) = {}
  /\ heldWrite # "none" =>
       /\ fault = "hold_write_until_fence" /\ write[1]
       /\ status[1] \in {"none", "UNKNOWN"} /\ at[1] \in {"lost", "reported", "crashed"}
  /\ heldWrite = "held" => 1 \notin fenced
  /\ heldWrite = "released at fence" =>
       \E f \in DOMAIN log : log[f].kind = "fence" /\ log[f].target = 1 /\ f + 1 \in By("rejected", 1)
  /\ at[1] = "lost" \/ status[1] = "UNKNOWN" =>
       \/ fault = "lose_ack_after_effect" /\ WritesOf(log, 1) # {}
       \/ fault = "hold_write_until_fence" /\ heldWrite # "none"
  /\ at[1] \in {"rejected", "retracting"} \/ status[1] = "FAILED" =>
       fault = "fail_before_effect" /\ \E i \in DOMAIN log : log[i].note = "fault" /\ By("rejected", 1) = {i}
  /\ at[1] = "written" \/ status[1] = "COMPLETED" => fault = "none"
  /\ fault = "hold_write_until_fence" /\ WritesOf(log, 1) # {} => heldWrite = "released at end"

EndInv ==
  /\ over = "no" => heldWrite # "released at end"
  /\ over = "compared" =>
       /\ \A k \in Attempt : at[k] \in {"waiting", "reported"}
       /\ heldWrite # "held"
       /\ heldWrite = "released at end" => 1 \notin fenced

(* Why the key is held: someone holds it, or left it; and who completed it,*)
(* which the attempt that wrote may also have left half reported.          *)
HoldingPlaces == {"writing", "lost", "written", "rejected", "retracting", "crashed", "raised"}
KeyOf(j, s) ==
  \/ status[j] = "COMPLETED"
  \/ at[j] = "crashed" /\ WritesOf(log, j) # {}
  \/ s # "COMPLETED" /\ (at[j] \in HoldingPlaces \/ status[j] = "UNKNOWN")
KeyInv == KeyHeld => \E j \in Attempt : KeyOf(j, entry.state)

(* Why an attempt has to reconcile, is held, or finds the intent done.     *)
Open(k) == \E j \in Attempt : j < k /\ (at[j] \in {"crashed", "raised"} \/ status[j] \in {"UNKNOWN", "COMPLETED"})
Done == \E j \in Attempt : status[j] = "COMPLETED" \/ at[j] = "crashed"
HeldInv ==
  \A k \in Attempt :
    /\ at[k] \in {"fencing", "releasing"} \/ ~resolved[k] => Open(k)
    /\ already[k] => (\E i \in Writes(log) : log[i].by < k) /\ (claim[k] # NoClaim \/ Done)

(* What an attempt says it reconciled is in the log.                       *)
Seen(k, s) == {w \in Writes(log) : log[w].by \in 1..(k - 1) /\ w < s}
Backed(k, s) ==
  /\ claim[k] = [fenced |-> 1..(k - 1), seq |-> s, writes |-> Cardinality(Seen(k, s))]
  /\ s \in DOMAIN log /\ log[s].kind = "read" /\ log[s].by = k
  /\ \A t \in 1..(k - 1) : FencesOf(t, s) # {}
  /\ \A f \in DOMAIN log : log[f].kind = "fence" /\ (log[f].by = k \/ ~Over(k)) => f < s
  /\ \A w \in WritesOf(log, k) : s < w
ClaimInv == \A k \in Attempt : claim[k] # NoClaim => Backed(k, claim[k].seq)

(* After an UNKNOWN only an attempt that reconciled it goes on to write,   *)
(* unless one crashed or was refused for want of permission.               *)
Excused == \E j \in Attempt : at[j] = "crashed" \/ (at[j] = "reported" /\ ~write[j])
Freed(b) == at[b] \in {"gate", "reserving"} /\ resolved[b] /\ ~already[b] /\ claim[b] # NoClaim
RetryOK(i) ==
  /\ claim[log[i].by] # NoClaim
  /\ \A f \in DOMAIN log : log[f].kind = "fence" /\ f < i => f < claim[log[i].by].seq
RetryInv ==
  status[1] = "UNKNOWN" =>
    /\ KeyHeld \/ Excused \/ \E b \in Attempt : Freed(b)
    /\ \A k \in Attempt : MayWrite(k) => claim[k] # NoClaim \/ Excused
    /\ \A i \in Writes(log) : log[i].by # 1 => Excused \/ RetryOK(i)
    /\ \A k \in Attempt : k # 1 /\ at[k] \notin Early /\ fence[k] => Excused \/ Done \/ FencedBy(k, 1)

(* Of the attempts that began one is the last.                             *)
LastInv == journal # {} => \E k \in journal : \A j \in journal : j <= k

CaseInv ==
  /\ CaseType /\ LastInv /\ TargetInv /\ StoreInv /\ PlaceInv /\ WroteInv
  /\ FaultInv /\ EndInv /\ KeyInv /\ HeldInv /\ ClaimInv /\ RetryInv

---------------------------------------------------------------------------
(* What no step changes: what each attempt is allowed, the events logged,  *)
(* and how an attempt ended.                                               *)
LEMMA Steady ==
  ASSUME SeqInv, [Next]_vars
  PROVE  /\ fault' = fault /\ write' = write /\ fence' = fence /\ readable' = readable
         /\ journal \subseteq journal'
         /\ \A j \in Attempt : Over(j) \/ status[j] # "none" => at'[j] = at[j] /\ status'[j] = status[j]
<1>1. fault' = fault /\ write' = write /\ fence' = fence /\ readable' = readable
  BY DEF Next, AttemptStep, Begin, CheckKey, Fence, Read, ReleaseKey, Gate, ReserveKey, SetValue, ReportLost, ReportWritten, ReleaseRefused,
         ReportRejected, Retract, Crash, EndCase, LeaseMoves, given, vars
<1>2. journal \subseteq journal'
  BY Moves
<1>3. ASSUME NEW j \in Attempt, Over(j) \/ status[j] # "none" PROVE at'[j] = at[j] /\ status'[j] = status[j]
  <2>t. TypeInv
    BY DEF SeqInv
  <2>1. Over(j) /\ at[j] # "waiting"
    BY <1>3 DEF SeqInv, JournalInv, Over
  <2>2. \A k \in Attempt, p \in Places, s \in Statuses : k # j => [at EXCEPT ![k] = p][j] = at[j] /\ [status EXCEPT ![k] = s][j] = status[j]
    BY <2>t DEF TypeInv
  <2>3. "begun" \in Places
    BY DEF Places
  <2>4. ASSUME NEW k \in Attempt, Begin(k), at' = [at EXCEPT ![k] = "begun"], status' = status
        PROVE  at'[j] = at[j] /\ status'[j] = status[j]
    <3>1. k # j
      BY <2>1, <2>4 DEF Begin
    <3> QED
      BY <2>2, <2>3, <2>4, <3>1, <2>t DEF TypeInv
  <2>5. ASSUME NEW k \in Attempt, NEW p \in Places, NEW s \in Statuses, ~Over(k),
               at' = [at EXCEPT ![k] = p], status' = [status EXCEPT ![k] = s]
        PROVE  at'[j] = at[j] /\ status'[j] = status[j]
    <3>1. k # j
      BY <2>1, <2>5
    <3> QED
      BY <2>2, <2>5, <3>1
  <2> QED
    BY <2>4, <2>5, Moves
<1> QED
  BY <1>1, <1>2, <1>3

(* What one attempt does while another moves: nothing.                     *)
Still(v) ==
  /\ at'[v] = at[v] /\ status'[v] = status[v]
  /\ resolved'[v] = resolved[v] /\ already'[v] = already[v] /\ claim'[v] = claim[v]
Own(v) ==
  \/ Begin(v) \/ CheckKey(v) \/ Read(v) \/ ReleaseKey(v) \/ Gate(v) \/ ReserveKey(v) \/ SetValue(v)
  \/ ReportLost(v) \/ ReportWritten(v) \/ ReportRejected(v) \/ Retract(v) \/ Crash(v)

EarlierWrites(k) == UNION {WritesOf(log, t) : t \in Earlier(k)}
ReadClaim(k) == [fenced |-> Earlier(k), seq |-> Len(log'), writes |-> Cardinality(EarlierWrites(k))]
LEMMA ReadOf ==
  ASSUME NEW k \in Attempt, Read(k)
  PROVE  /\ at[k] = "fencing" /\ toFence[k] = {} /\ StoreRead(k) /\ status' = status
         /\ \/ /\ readable[k] /\ claim' = [claim EXCEPT ![k] = ReadClaim(k)] /\ resolved' = resolved
               /\ \/ EarlierWrites(k) # {} /\ already' = [already EXCEPT ![k] = TRUE] /\ at' = [at EXCEPT ![k] = "gate"]
                  \/ EarlierWrites(k) = {} /\ already' = already /\ at' = [at EXCEPT ![k] = "releasing"]
            \/ /\ ~readable[k] /\ claim' = claim /\ already' = already
               /\ resolved' = [resolved EXCEPT ![k] = FALSE] /\ at' = [at EXCEPT ![k] = "gate"]
<1> DEFINE w == UNION {WritesOf(log, t) : t \in Earlier(k)}
<1>1. w = EarlierWrites(k)
  BY DEF EarlierWrites
<1>2. /\ at[k] = "fencing" /\ toFence[k] = {} /\ StoreRead(k) /\ status' = status
      /\ IF readable[k]
         THEN /\ claim' = [claim EXCEPT ![k] = [fenced |-> Earlier(k), seq |-> Len(log'), writes |-> Cardinality(w)]]
              /\ IF w # {} THEN already' = [already EXCEPT ![k] = TRUE] /\ Goto(k, "gate")
                 ELSE UNCHANGED already /\ Goto(k, "releasing")
              /\ UNCHANGED resolved
         ELSE resolved' = [resolved EXCEPT ![k] = FALSE] /\ Goto(k, "gate") /\ UNCHANGED <<already, claim>>
  BY Zenon DEF Read
<1> HIDE DEF w
<1> QED
  BY <1>1, <1>2 DEF Goto, ReadClaim

LEMMA Others ==
  ASSUME TypeInv, CaseType, NEW k \in Attempt, NEW v \in Attempt, k # v, Own(k)
  PROVE  Still(v)
<1> USE DEF TypeInv, CaseType, Goto, Report, found
<1>1. CASE Begin(k) \/ CheckKey(k)
  BY <1>1 DEF Begin, CheckKey, Still
<1>2. CASE Read(k)
  <2>1. \A r : [claim EXCEPT ![k] = r][v] = claim[v]
    OBVIOUS
  <2>2. \A b \in BOOLEAN : [resolved EXCEPT ![k] = b][v] = resolved[v] /\ [already EXCEPT ![k] = b][v] = already[v]
    OBVIOUS
  <2>3. \A p \in Places : [at EXCEPT ![k] = p][v] = at[v]
    OBVIOUS
  <2>4. "gate" \in Places /\ "releasing" \in Places
    BY DEF Places
  <2>5. claim'[v] = claim[v] /\ status'[v] = status[v]
    BY <1>2, <2>1, ReadOf, Zenon
  <2>6. resolved'[v] = resolved[v] /\ already'[v] = already[v]
    BY <1>2, <2>2, ReadOf, Zenon
  <2>7. at'[v] = at[v]
    BY <1>2, <2>3, <2>4, ReadOf, Zenon
  <2> QED
    BY <2>5, <2>6, <2>7 DEF Still
<1>3. CASE ReleaseKey(k) \/ Gate(k) \/ ReserveKey(k)
  BY <1>3 DEF ReleaseKey, Gate, ReserveKey, Still, ReleaseRefused
<1>4. CASE SetValue(k) \/ Crash(k)
  BY <1>4 DEF SetValue, Crash, Still
<1>5. CASE ReportLost(k) \/ ReportWritten(k) \/ ReportRejected(k) \/ Retract(k)
  BY <1>5 DEF ReportLost, ReportWritten, ReportRejected, Retract, Still, ReleaseRefused
<1> QED
  BY <1>1, <1>2, <1>3, <1>4, <1>5 DEF Own

LEMMA Nobody ==
  ASSUME (\E k, t \in Attempt : Fence(k, t)) \/ EndCase \/ LeaseMoves \/ UNCHANGED vars, NEW v
  PROVE  Still(v)
BY DEF Fence, EndCase, LeaseMoves, vars, found, Still

LEMMA Local ==
  ASSUME TypeInv, CaseType, [Next]_vars, NEW v \in Attempt
  PROVE  Still(v) \/ Own(v)
<1>1. ASSUME NEW k \in Attempt, Own(k) PROVE Still(v) \/ Own(v)
  BY <1>1, Others
<1>2. (\E k \in Attempt : Own(k)) \/ (\E k, t \in Attempt : Fence(k, t)) \/ EndCase \/ LeaseMoves \/ UNCHANGED vars
  BY DEF Next, AttemptStep, Own
<1> QED
  BY <1>1, <1>2, Nobody

(* The log, event by event.                                                *)
LEMMA FenceLog ==
  ASSUME TypeInv, NEW k \in Attempt, NEW t \in Attempt, Fence(k, t)
  PROVE  /\ log'[Len(log) + 1].kind = "fence" /\ log'[Len(log) + 1].by = k /\ log'[Len(log) + 1].target = t
         /\ version' = version /\ fenced' = fenced \cup {t}
         /\ Writes(log') = Writes(log)
         /\ \/ /\ heldWrite = "held" /\ t = 1 /\ heldWrite' = "released at fence" /\ Len(log') = Len(log) + 2
               /\ log'[Len(log) + 2].kind = "rejected" /\ log'[Len(log) + 2].by = 1
            \/ /\ ~(heldWrite = "held" /\ t = 1) /\ heldWrite' = heldWrite /\ Len(log') = Len(log) + 1
<1> DEFINE e == Ev("fence", k, t, "-")
           l == Append(log, e)
           d == Ev("rejected", t, t, "fenced")
<1>1. log \in Seq(Events) /\ Len(log) \in Nat
  BY DEF TypeInv
<1>2. e \in Events /\ e.kind # "write" /\ d \in Events /\ d.kind # "write"
  BY DEF Ev, Events
<1>3. /\ version' = version /\ fenced' = fenced \cup {t}
      /\ \/ heldWrite = "held" /\ t = 1 /\ heldWrite' = "released at fence" /\ log' = Append(l, d)
         \/ ~(heldWrite = "held" /\ t = 1) /\ heldWrite' = heldWrite /\ log' = l
  BY DEF Fence, Apply
<1>p. d.kind = "rejected" /\ d.by = t /\ e.kind = "fence" /\ e.by = k /\ e.target = t
  BY DEF Ev
<1> HIDE DEF e, d
<1>4. /\ l \in Seq(Events) /\ Len(l) = Len(log) + 1 /\ l[Len(log) + 1] = e /\ Writes(l) = Writes(log)
      /\ Len(log) + 1 \in DOMAIN l
  BY <1>1, <1>2, LogFacts
<1> HIDE DEF l
<1>5. /\ Len(Append(l, d)) = Len(l) + 1 /\ Writes(Append(l, d)) = Writes(l)
      /\ Append(l, d)[Len(l) + 1] = d /\ \A i \in DOMAIN l : Append(l, d)[i] = l[i]
  BY <1>2, <1>4, LogFacts
<1>6. Len(log) + 1 + 1 = Len(log) + 2
  BY <1>1
<1> QED
  BY <1>3, <1>4, <1>5, <1>6, <1>p

LEMMA ApplyLog ==
  ASSUME TypeInv, NEW t \in Attempt, Apply(fenced, t, log)
  PROVE  /\ Len(log') = Len(log) + 1
         /\ \/ /\ t \in fenced /\ log'[Len(log) + 1] = Ev("rejected", t, t, "fenced") /\ version' = version
               /\ Writes(log') = Writes(log)
            \/ /\ t \notin fenced /\ log'[Len(log) + 1] = [Ev("write", t, t, "-") EXCEPT !.version = version + 1]
               /\ version' = version + 1 /\ Writes(log') = Writes(log) \cup {Len(log) + 1}
<1>1. log \in Seq(Events) /\ Len(log) \in Nat /\ version \in Nat
  BY DEF TypeInv
<1>2. CASE t \in fenced
  <2> DEFINE e == Ev("rejected", t, t, "fenced")
  <2>1. e \in Events /\ e.kind # "write"
    BY DEF Ev, Events
  <2>2. log' = Append(log, e) /\ version' = version
    BY <1>2 DEF Apply
  <2>3. e = Ev("rejected", t, t, "fenced")
    OBVIOUS
  <2> HIDE DEF e
  <2>4. Len(log') = Len(log) + 1 /\ log'[Len(log) + 1] = e /\ Writes(log') = Writes(log)
    BY <1>1, <2>1, <2>2, LogFacts
  <2> QED
    BY <1>2, <2>2, <2>3, <2>4
<1>3. CASE t \notin fenced
  <2> DEFINE e == [Ev("write", t, t, "-") EXCEPT !.version = version + 1]
  <2>1. e \in Events /\ e.kind = "write"
    BY <1>1 DEF Ev, Events
  <2>2. log' = Append(log, e) /\ version' = version + 1
    BY <1>3 DEF Apply
  <2>3. e = [Ev("write", t, t, "-") EXCEPT !.version = version + 1]
    OBVIOUS
  <2> HIDE DEF e
  <2>4. Len(log') = Len(log) + 1 /\ log'[Len(log) + 1] = e /\ Writes(log') = Writes(log) \cup {Len(log) + 1}
    BY <1>1, <2>1, <2>2, LogFacts
  <2> QED
    BY <1>3, <2>2, <2>3, <2>4
<1> QED
  BY <1>2, <1>3

LEMMA EventLog ==
  ASSUME TypeInv, NEW e \in Events, e.kind # "write", log' = Append(log, e)
  PROVE  Len(log') = Len(log) + 1 /\ log'[Len(log) + 1] = e /\ Writes(log') = Writes(log)
BY LogFacts DEF TypeInv

(* What grows with the log, and what does not.                             *)
LEMMA Grown ==
  ASSUME TypeInv, Longer
  PROVE  /\ Len(log) \in Nat /\ Len(log') \in Nat /\ DOMAIN log = 1..Len(log) /\ DOMAIN log' = 1..Len(log')
         /\ DOMAIN log \subseteq DOMAIN log' /\ Writes(log) \subseteq Writes(log')
         /\ \A i \in DOMAIN log : log'[i] = log[i] /\ log[i] \in Events
         /\ \A i \in 1..(Len(log) + 1) : \A t : FencesOf(t, i)' = FencesOf(t, i)
         /\ \A k : WritesOf(log, k) \subseteq WritesOf(log', k)
<1>1. Len(log) \in Nat /\ Len(log') \in Nat /\ Len(log) <= Len(log') /\ DOMAIN log = 1..Len(log) /\ DOMAIN log' = 1..Len(log')
  BY DEF TypeInv, Longer
<1>2. DOMAIN log \subseteq DOMAIN log' /\ \A i \in DOMAIN log : log'[i] = log[i]
  BY <1>1 DEF Longer
<1>3. \A i \in DOMAIN log : log[i] \in Events
  BY <1>1, ElementOfSeq DEF TypeInv
<1>4. Writes(log) \subseteq Writes(log') /\ \A k : WritesOf(log, k) \subseteq WritesOf(log', k)
  BY <1>2 DEF Writes, WritesOf
<1>5. ASSUME NEW i \in 1..(Len(log) + 1), NEW t PROVE FencesOf(t, i)' = FencesOf(t, i)
  <2>1. \A f \in 1..(i - 1) : f \in DOMAIN log
    BY <1>1
  <2> QED
    BY <1>2, <2>1 DEF FencesOf
<1> QED
  BY <1>1, <1>2, <1>3, <1>4, <1>5
LEMMA EarlierFacts ==
  ASSUME SeqInv, NEW k \in Attempt, at[k] # "waiting", ~Over(k)
  PROVE  Earlier(k) = 1..(k - 1) /\ \A t \in Attempt : at[t] # "waiting" => t <= k
<1>1. ASSUME NEW t \in Attempt, at[t] # "waiting" PROVE t <= k
  BY <1>1, Attempts1 DEF SeqInv, OrderInv
<1>2. ASSUME NEW t \in 1..(k - 1) PROVE t \in Attempt /\ at[t] # "waiting" /\ t # k
  <2>1. t \in Attempt /\ t < k
    BY DEF Attempt
  <2> QED
    BY <2>1 DEF SeqInv, OrderInv, Over
<1>3. \A t \in Attempt : t <= k /\ t # k => t \in 1..(k - 1)
  BY DEF Attempt
<1> QED
  BY <1>1, <1>2, <1>3 DEF Earlier, SeqInv, JournalInv, TypeInv

LEMMA TargetNext ==
  ASSUME SeqInv, TargetInv, [Next]_vars
  PROVE  TargetInv'
<1>t. TypeInv
  BY DEF SeqInv
<1> USE DEF TypeInv, found
<1> DEFINE Less == \A k \in Attempt : toFence'[k] \subseteq toFence[k]
<1>l. Less => TargetInv'
  BY DEF TargetInv
<1>1. ASSUME NEW k \in Attempt, CheckKey(k) PROVE TargetInv'
  <2>1. toFence' = toFence \/ toFence' = [toFence EXCEPT ![k] = Earlier(k)]
    BY <1>1 DEF CheckKey, Earlier
  <2>2. \A t \in Earlier(k) : t < k
    <3>1. at[k] = "begun"
      BY <1>1 DEF CheckKey
    <3>2. Earlier(k) = 1..(k - 1) /\ k \in Nat
      BY <3>1, EarlierFacts, Attempts1 DEF Over
    <3> QED
      BY <3>2
  <2> QED
    BY <1>t, <2>1, <2>2 DEF TargetInv
<1>2. ASSUME NEW k \in Attempt, NEW t \in Attempt, Fence(k, t) PROVE Less
  BY <1>2, <1>t DEF Fence
<1>3. ASSUME NEW k \in Attempt, Begin(k) \/ Read(k) \/ ReleaseKey(k) \/ Gate(k) \/ ReserveKey(k) \/ SetValue(k) PROVE Less
  BY <1>3 DEF Begin, Read, ReleaseKey, Gate, ReserveKey, SetValue, ReleaseRefused
<1>4. ASSUME NEW k \in Attempt, ReportLost(k) \/ ReportWritten(k) \/ ReportRejected(k) \/ Retract(k) \/ Crash(k) PROVE Less
  BY <1>4 DEF ReportLost, ReportWritten, ReportRejected, Retract, Crash, ReleaseRefused
<1>5. ASSUME EndCase \/ LeaseMoves \/ UNCHANGED vars PROVE Less
  BY <1>5 DEF EndCase, LeaseMoves, vars
<1> QED
  BY <1>l, <1>1, <1>2, <1>3, <1>4, <1>5 DEF Next, AttemptStep

LEMMA FiniteWrites ==
  ASSUME TypeInv, NEW S, S \subseteq Writes(log)
  PROVE  IsFiniteSet(S) /\ Cardinality(S) \in Nat
<1>1. Len(log) \in Nat /\ Writes(log) \subseteq 1..Len(log)
  BY DEF TypeInv, Writes
<1>2. IsFiniteSet(1..Len(log))
  BY <1>1, FS_Interval
<1>3. IsFiniteSet(S)
  BY <1>1, <1>2, FS_Subset
<1> QED
  BY <1>3, FS_CardinalityType

LEMMA CaseTypeNext ==
  ASSUME SeqInv, CaseType, [Next]_vars
  PROVE  CaseType'
<1>t. TypeInv
  BY DEF SeqInv
<1> DEFINE Fine == /\ claim' \in [Attempt -> Claims] /\ fenced' \subseteq Attempt
                   /\ heldWrite' \in {"none", "held", "released at fence", "released at end"} /\ faultUsed' \in BOOLEAN
<1>s. Fine => CaseType'
  BY Steady DEF CaseType
<1> USE DEF CaseType, found, obsStore
<1>1. ASSUME NEW k \in Attempt, Begin(k) \/ CheckKey(k) \/ ReleaseKey(k) \/ Gate(k) \/ ReserveKey(k) PROVE Fine
  BY <1>1 DEF Begin, CheckKey, ReleaseKey, Gate, ReserveKey, ReleaseRefused
<1>2. ASSUME NEW k \in Attempt, ReportLost(k) \/ ReportWritten(k) \/ ReportRejected(k) \/ Retract(k) \/ Crash(k) PROVE Fine
  BY <1>2 DEF ReportLost, ReportWritten, ReportRejected, Retract, Crash, ReleaseRefused
<1>3. ASSUME NEW k \in Attempt, NEW t \in Attempt, Fence(k, t) PROVE Fine
  <2>1. claim' = claim /\ faultUsed' = faultUsed
    BY <1>3 DEF Fence
  <2>2. fenced' = fenced \cup {t} /\ (heldWrite' = heldWrite \/ heldWrite' = "released at fence")
    BY <1>t, <1>3, FenceLog
  <2> QED
    BY <2>1, <2>2
<1>4. ASSUME NEW k \in Attempt, Read(k) PROVE Fine
  <2>1. ReadClaim(k) \in Claims
    <3>1. Cardinality(EarlierWrites(k)) \in Nat
      <4>1. EarlierWrites(k) \subseteq Writes(log)
        BY DEF EarlierWrites, WritesOf
      <4> QED
        BY <1>t, <4>1, FiniteWrites
    <3>2. Len(log') \in Nat
      <4>1. Longer
        BY <1>t, LogNext DEF NoWrite, WriteOf
      <4> QED
        BY <1>t, <4>1, Grown
    <3>3. Earlier(k) \subseteq Nat
      BY <1>t, Attempts1 DEF Earlier, TypeInv
    <3> QED
      BY <3>1, <3>2, <3>3 DEF ReadClaim, Claims
  <2>2. claim' \in [Attempt -> Claims]
    <3>1. claim' = claim \/ claim' = [claim EXCEPT ![k] = ReadClaim(k)]
      BY <1>4, ReadOf
    <3> QED
      BY <2>1, <3>1
  <2> QED
    BY <1>4, <2>2 DEF Read
<1>5. ASSUME NEW k \in Attempt, SetValue(k) PROVE Fine
  BY <1>5 DEF SetValue
<1>6. ASSUME EndCase \/ LeaseMoves \/ UNCHANGED vars PROVE Fine
  BY <1>6 DEF EndCase, LeaseMoves, vars
<1> QED
  BY <1>s, <1>1, <1>2, <1>3, <1>4, <1>5, <1>6 DEF Next, AttemptStep

(* What is logged agrees with the store.                                   *)
LEMMA EventStays ==
  ASSUME SeqInv, [Next]_vars, NEW i \in DOMAIN log, EventOK(i)
  PROVE  EventOK(i)'
<1>1. TypeInv /\ Longer
  BY LogNext DEF SeqInv, NoWrite, WriteOf
<1>2. log'[i] = log[i] /\ \A t : FencesOf(t, i)' = FencesOf(t, i)
  <2>1. i \in 1..(Len(log) + 1)
    BY <1>1, Grown
  <2> QED
    BY <1>1, <2>1, Grown
<1>3. write' = write /\ fence' = fence /\ readable' = readable /\ journal \subseteq journal'
  BY Steady
<1> QED
  BY <1>2, <1>3 DEF EventOK

LEMMA StoreNext ==
  ASSUME SeqInv, QuietInv, WriterInv, FenceInv, CaseType, TargetInv, StoreInv, PlaceInv, FaultInv, [Next]_vars
  PROVE  StoreInv'
<1>t. TypeInv /\ Longer /\ Len(log) \in Nat /\ DOMAIN log = 1..Len(log) /\ 1 \in Attempt
  BY LogNext, Attempts1 DEF SeqInv, NoWrite, WriteOf, TypeInv
<1>n. PICK n \in Nat : n = Len(log) + 1
  BY <1>t
<1>g. /\ Len(log') \in Nat /\ DOMAIN log' = 1..Len(log') /\ DOMAIN log \subseteq DOMAIN log'
      /\ \A i \in DOMAIN log : log'[i] = log[i]
  BY <1>t, Grown
<1>s. write' = write /\ fence' = fence /\ readable' = readable /\ journal \subseteq journal'
  BY Steady
<1>j. \A k \in Attempt : at[k] # "waiting" => k \in journal
  BY DEF SeqInv, JournalInv
<1>o. \A t \in Attempt : FencesOf(t, n)' # {} <=> t \in fenced
  <2>1. 1..(n - 1) = DOMAIN log
    BY <1>t, <1>n
  <2>2. \A t \in Attempt : FencesOf(t, n)' # {} <=> IsFenced(t)
    BY <1>g, <2>1 DEF FencesOf, IsFenced
  <2> QED
    BY <2>2 DEF StoreInv
<1>1. CASE log' = log /\ fenced' = fenced /\ version' = version
  BY <1>1, EventStays DEF StoreInv, IsFenced
<1>e. \A i \in DOMAIN log : EventOK(i)'
  BY EventStays DEF StoreInv
<1>2. ASSUME Len(log') = n, fenced' = fenced, log'[n].kind # "fence",
             version' = (IF Writes(log') = {} THEN 0 ELSE 1), EventOK(n)'
      PROVE  StoreInv'
  <2>1. \A i \in DOMAIN log' : i \in DOMAIN log \/ i = n
    BY <1>t, <1>n, <1>g, <1>2
  <2>2. \A i \in DOMAIN log' : EventOK(i)'
    BY <1>2, <1>e, <2>1
  <2>3. \A t \in Attempt : IsFenced(t)' <=> IsFenced(t)
    BY <1>g, <1>2, <2>1 DEF IsFenced
  <2> QED
    BY <1>2, <2>2, <2>3 DEF StoreInv
<1>a. ASSUME NEW t \in Attempt, Apply(fenced, t, log), fenced' = fenced, t \in journal, write[t], Writes(log) = {} PROVE StoreInv'
  <2>1. version = 0
    BY <1>a DEF StoreInv
  <2>2. CASE t \in fenced
    <3>1. Len(log') = n /\ log'[n] = Ev("rejected", t, t, "fenced") /\ version' = version /\ Writes(log') = Writes(log)
      BY <1>t, <1>n, <1>a, <2>2, ApplyLog
    <3>2. log'[n].by = t /\ log'[n].kind = "rejected"
      BY <3>1 DEF Ev
    <3>3. FencesOf(t, n)' # {} /\ t \in journal' /\ write'[t]
      BY <1>a, <1>o, <1>s, <2>2
    <3>4. EventOK(n)'
      BY <3>2, <3>3 DEF EventOK
    <3>5. version' = (IF Writes(log') = {} THEN 0 ELSE 1)
      BY <1>a, <2>1, <3>1
    <3> QED
      BY <1>2, <1>a, <3>1, <3>2, <3>4, <3>5
  <2>3. CASE t \notin fenced
    <3> DEFINE e == [Ev("write", t, t, "-") EXCEPT !.version = version + 1]
    <3>1. Len(log') = n /\ log'[n] = e /\ version' = version + 1 /\ Writes(log') = Writes(log) \cup {n}
      BY <1>t, <1>n, <1>a, <2>3, ApplyLog
    <3>2. e.kind = "write" /\ e.by = t /\ e.version = 1
      BY <2>1 DEF Ev
    <3> HIDE DEF e
    <3>3. FencesOf(t, n)' = {} /\ t \in journal' /\ write'[t]
      BY <1>a, <1>o, <1>s, <2>3
    <3>4. EventOK(n)'
      BY <3>1, <3>2, <3>3 DEF EventOK
    <3>5. version' = (IF Writes(log') = {} THEN 0 ELSE 1)
      BY <2>1, <3>1
    <3>6. log'[n].kind = "write"
      BY <3>1, <3>2
    <3> QED
      BY <1>2, <1>a, <3>1, <3>4, <3>5, <3>6
  <2> QED
    BY <2>2, <2>3
<1> USE DEF obsStore
<1>3. ASSUME NEW k \in Attempt, Begin(k) \/ CheckKey(k) \/ ReleaseKey(k) \/ Gate(k) \/ ReserveKey(k) PROVE StoreInv'
  BY <1>1, <1>3 DEF Begin, CheckKey, ReleaseKey, Gate, ReserveKey, ReleaseRefused
<1>4. ASSUME NEW k \in Attempt, ReportLost(k) \/ ReportWritten(k) \/ ReportRejected(k) \/ Retract(k) \/ Crash(k) PROVE StoreInv'
  BY <1>1, <1>4 DEF ReportLost, ReportWritten, ReportRejected, Retract, Crash, ReleaseRefused
<1>5. ASSUME NEW k \in Attempt, NEW t \in Attempt, Fence(k, t) PROVE StoreInv'
  <2>1. at[k] = "fencing" /\ t < k /\ k \in journal'
    BY <1>5, <1>j, <1>s DEF Fence, TargetInv
  <2>2. fence'[k]
    BY <1>s, <2>1 DEF FenceInv
  <2>3. /\ version' = version /\ fenced' = fenced \cup {t} /\ Writes(log') = Writes(log)
        /\ \/ /\ heldWrite = "held" /\ t = 1 /\ Len(log') = n + 1
              /\ log'[n + 1].kind = "rejected" /\ log'[n + 1].by = 1
           \/ Len(log') = n
    <3>1. Len(log) + 2 = n + 1
      BY <1>t, <1>n
    <3> QED
      BY <1>t, <1>n, <1>5, <3>1, FenceLog, Zenon
  <2>4. log'[n].kind = "fence" /\ log'[n].by = k /\ log'[n].target = t
    BY <1>t, <1>n, <1>5, FenceLog, Zenon
  <2>5. EventOK(n)'
    BY <2>1, <2>2, <2>4 DEF EventOK
  <2>6. CASE Len(log') = n
    <3>1. \A i \in DOMAIN log' : i \in DOMAIN log \/ i = n
      BY <1>t, <1>n, <1>g, <2>6
    <3>2. n \in DOMAIN log'
      BY <1>t, <1>n, <1>g, <2>6
    <3>3. \A x \in Attempt : IsFenced(x)' <=> IsFenced(x) \/ x = t
      BY <1>g, <2>4, <3>1, <3>2 DEF IsFenced
    <3>4. \A i \in DOMAIN log' : EventOK(i)'
      BY <1>e, <2>5, <3>1
    <3> QED
      BY <2>3, <3>3, <3>4 DEF StoreInv
  <2>7. CASE heldWrite = "held" /\ t = 1 /\ Len(log') = n + 1 /\ log'[n + 1].kind = "rejected" /\ log'[n + 1].by = 1
    <3>1. \A i \in DOMAIN log' : i \in DOMAIN log \/ i = n \/ i = n + 1
      BY <1>t, <1>n, <1>g, <2>7
    <3>2. n \in DOMAIN log'
      BY <1>t, <1>n, <1>g, <2>7
    <3>3. log'[n + 1].kind = "rejected" /\ log'[n + 1].by = 1
      BY <2>7
    <3>4. \A x \in Attempt : IsFenced(x)' <=> IsFenced(x) \/ x = t
      BY <1>g, <2>4, <3>1, <3>2, <3>3 DEF IsFenced
    <3>5. n \in FencesOf(1, n + 1)'
      BY <1>n, <1>t, <2>4, <2>7 DEF FencesOf
    <3>6. write'[1] /\ 1 \in journal'
      <4>1. write[1] /\ at[1] # "waiting"
        BY <2>7 DEF FaultInv
      <4> QED
        BY <1>j, <1>s, <1>t, <4>1
    <3>7. EventOK(n + 1)'
      BY <3>3, <3>5, <3>6 DEF EventOK
    <3>8. \A i \in DOMAIN log' : EventOK(i)'
      BY <1>e, <2>5, <3>1, <3>7
    <3> QED
      BY <2>3, <3>4, <3>8 DEF StoreInv
  <2> QED
    BY <2>3, <2>6, <2>7
<1>v. ASSUME NEW e \in Events, e.kind \notin {"write", "fence"}, log' = Append(log, e), fenced' = fenced, version' = version, EventOK(n)'
      PROVE  StoreInv'
  <2>1. Len(log') = n /\ log'[n] = e /\ Writes(log') = Writes(log)
    BY <1>t, <1>n, <1>v, EventLog
  <2>2. version' = (IF Writes(log') = {} THEN 0 ELSE 1)
    BY <1>v, <2>1 DEF StoreInv
  <2> QED
    BY <1>2, <1>v, <2>1, <2>2
<1>6. ASSUME NEW k \in Attempt, Read(k) PROVE StoreInv'
  <2> DEFINE e == Ev("read", k, k, IF readable[k] THEN "ok" ELSE "unavailable")
  <2>1. e \in Events /\ e.kind = "read" /\ e.by = k /\ e.note = IF readable[k] THEN "ok" ELSE "unavailable"
    BY DEF Ev, Events
  <2>2. log' = Append(log, e) /\ at[k] = "fencing"
    BY <1>6 DEF Read, StoreRead
  <2> HIDE DEF e
  <2>3. log'[n] = e
    BY <1>t, <1>n, <2>1, <2>2, EventLog
  <2>4. EventOK(n)'
    BY <1>j, <1>s, <2>1, <2>2, <2>3 DEF EventOK
  <2>5. fenced' = fenced /\ version' = version
    BY <1>6 DEF Read
  <2> QED
    BY <1>v, <2>1, <2>2, <2>4, <2>5
<1>7. ASSUME NEW k \in Attempt, SetValue(k) PROVE StoreInv'
  <2>1. k \in journal /\ write[k] /\ fenced' = fenced
    BY <1>7, <1>j DEF SetValue, PlaceInv, Placed, Permitted
  <2>2. Writes(log) = {}
    BY <1>7 DEF SetValue, QuietInv, Quiet, MayWrite
  <2>3. CASE log' = Append(log, Ev("rejected", k, k, "fault")) /\ version' = version
    <3> DEFINE e == Ev("rejected", k, k, "fault")
    <3>1. e \in Events /\ e.kind = "rejected" /\ e.by = k /\ e.note = "fault" /\ log' = Append(log, e)
      BY <2>3 DEF Ev, Events
    <3> HIDE DEF e
    <3>2. log'[n] = e
      BY <1>t, <1>n, <3>1, EventLog
    <3>3. EventOK(n)'
      BY <1>s, <2>1, <3>1, <3>2 DEF EventOK
    <3> QED
      BY <1>v, <2>1, <2>3, <3>1, <3>3
  <2>4. CASE Apply(fenced, k, log)
    BY <1>a, <2>1, <2>2, <2>4
  <2>5. CASE log' = log /\ version' = version
    BY <1>1, <2>1, <2>5
  <2> QED
    BY <1>7, <2>3, <2>4, <2>5 DEF SetValue
<1>8. ASSUME EndCase PROVE StoreInv'
  <2>1. CASE heldWrite = "held"
    <3>1. write[1] /\ at[1] # "waiting" /\ Writes(log) = {}
      BY <2>1 DEF FaultInv, WriterInv
    <3>2. 1 \in journal
      BY <1>j, <1>t, <3>1
    <3>3. Apply(fenced, 1, log) /\ fenced' = fenced
      BY <1>8, <2>1 DEF EndCase
    <3> QED
      BY <1>a, <1>t, <3>1, <3>2, <3>3
  <2>2. CASE heldWrite # "held"
    BY <1>1, <1>8, <2>2 DEF EndCase
  <2> QED
    BY <2>1, <2>2
<1>9. ASSUME LeaseMoves \/ UNCHANGED vars PROVE StoreInv'
  BY <1>1, <1>9 DEF LeaseMoves, vars
<1> QED
  BY <1>3, <1>4, <1>5, <1>6, <1>7, <1>8, <1>9 DEF Next, AttemptStep

LEMMA RunningUnfenced ==
  ASSUME SeqInv, StoreInv, NEW k \in Attempt, at[k] # "waiting", ~Over(k)
  PROVE  k \notin fenced
<1> SUFFICES ASSUME k \in fenced PROVE FALSE
  OBVIOUS
<1>1. PICK f \in DOMAIN log : log[f].kind = "fence" /\ log[f].target = k
  BY DEF StoreInv, IsFenced
<1>2. log[f].by \in journal /\ k < log[f].by
  BY <1>1 DEF StoreInv, EventOK
<1>3. log[f].by \in Attempt /\ at[log[f].by] # "waiting"
  BY <1>2 DEF SeqInv, JournalInv, TypeInv
<1>4. log[f].by <= k
  BY <1>3, EarlierFacts
<1>5. \A b \in Attempt : ~(k < b /\ b <= k)
  BY Attempts1
<1> QED
  BY <1>2, <1>3, <1>4, <1>5

LEMMA PlaceNext ==
  ASSUME SeqInv, CaseType, StoreInv, FenceInv, PlaceInv, [Next]_vars
  PROVE  PlaceInv'
<1>t. TypeInv /\ CaseType /\ write' = write /\ fence' = fence /\ readable' = readable
  BY Steady DEF SeqInv
<1> SUFFICES ASSUME NEW v \in Attempt PROVE Placed(v)'
  BY DEF PlaceInv
<1>p. Placed(v) /\ (status[v] # "none" => at[v] = "reported")
  BY DEF PlaceInv, SeqInv, JournalInv
<1>1. CASE Still(v)
  BY <1>1, <1>p, <1>t DEF Still, Placed, Later, Permitted
<1>r. ASSUME Read(v) PROVE ReadClaim(v) # NoClaim /\ StoreRead(v)
  <2>1. StoreRead(v)
    BY <1>r, ReadOf
  <2> DEFINE e == Ev("read", v, v, IF readable[v] THEN "ok" ELSE "unavailable")
  <2>2. e \in Events /\ e.kind # "write" /\ log' = Append(log, e)
    BY <2>1 DEF Ev, Events, StoreRead
  <2> HIDE DEF e
  <2>3. Len(log') = Len(log) + 1 /\ Len(log) \in Nat
    BY <1>t, <2>2, EventLog DEF TypeInv
  <2>4. ReadClaim(v).seq = Len(log') /\ NoClaim.seq = 0
    BY DEF ReadClaim, NoClaim
  <2>5. Len(log') # 0
    BY <2>3
  <2> QED
    BY <2>1, <2>4, <2>5
<1>q. ASSUME Read(v), readable[v], claim' # claim PROVE at'[v] \in {"gate", "releasing"} /\ (at'[v] = "releasing" => already'[v] = already[v])
  <2>1. \/ at' = [at EXCEPT ![v] = "gate"]
        \/ already' = already /\ at' = [at EXCEPT ![v] = "releasing"]
    BY <1>q, ReadOf
  <2> QED
    BY <1>t, <2>1 DEF TypeInv
<1> USE <1>t, <1>p DEF TypeInv, CaseType, Placed, Later, Permitted, Goto, Report, found
<1>2. CASE Begin(v)
  BY <1>2 DEF Begin
<1>3. CASE CheckKey(v)
  BY <1>3 DEF CheckKey
<1>4. CASE Read(v)
  <2>1. at[v] = "fencing" /\ status'[v] = status[v]
    BY <1>4, ReadOf
  <2>2. CASE readable[v] /\ claim' = [claim EXCEPT ![v] = ReadClaim(v)] /\ resolved' = resolved
    <3>1. ReadClaim(v) # NoClaim
      BY <1>4, <1>r
    <3>2. claim'[v] = ReadClaim(v) /\ resolved'[v] = resolved[v]
      BY <2>2
    <3>3. at'[v] \in {"gate", "releasing"} /\ (at'[v] = "releasing" => already'[v] = already[v])
      <4>1. claim' # claim
        BY <2>1, <3>1, <3>2
      <4> QED
        BY <1>4, <1>q, <2>2, <4>1
    <3> QED
      BY <2>1, <2>2, <3>1, <3>2, <3>3
  <2>3. CASE ~readable[v] /\ claim' = claim /\ resolved' = [resolved EXCEPT ![v] = FALSE] /\ at' = [at EXCEPT ![v] = "gate"]
    BY <2>1, <2>3
  <2> QED
    BY <1>4, <2>2, <2>3, ReadOf
<1>5. CASE ReleaseKey(v)
  BY <1>5 DEF ReleaseKey, ReleaseRefused
<1>6. CASE Gate(v)
  BY <1>6 DEF Gate
<1>7. CASE ReserveKey(v)
  BY <1>7 DEF ReserveKey
<1>8. CASE SetValue(v)
  <2>1. v \notin fenced
    BY <1>8, RunningUnfenced DEF SetValue, Over
  <2>2. status'[v] = status[v] /\ resolved'[v] = resolved[v] /\ already'[v] = already[v] /\ claim'[v] = claim[v] /\ at[v] = "writing"
    BY <1>8 DEF SetValue
  <2>3. (at'[v] \in {"lost", "rejected"} /\ v = 1) \/ at'[v] = "written"
    BY <1>8, <2>1 DEF SetValue
  <2> QED
    BY <2>2, <2>3
<1>9. CASE ReportLost(v) \/ ReportWritten(v)
  BY <1>9 DEF ReportLost, ReportWritten
<1>10. CASE ReportRejected(v) \/ Retract(v)
  BY <1>10 DEF ReportRejected, Retract, ReleaseRefused
<1>11. CASE Crash(v)
  BY <1>11 DEF Crash, Running, Over
<1> QED
  BY <1>1, <1>2, <1>3, <1>4, <1>5, <1>6, <1>7, <1>8, <1>9, <1>10, <1>11, Local DEF Own

(* Whose writes and rejections a step adds.                                *)
LEMMA OwnWrites ==
  ASSUME TypeInv
  PROVE  /\ NoWrite => \A v : WritesOf(log', v) = WritesOf(log, v)
         /\ \A t : WriteOf(t) => /\ Len(log) + 1 \in WritesOf(log', t)
                                 /\ \A v : v # t => WritesOf(log', v) = WritesOf(log, v)
<1>1. ASSUME NoWrite PROVE \A v : WritesOf(log', v) = WritesOf(log, v)
  BY <1>1 DEF NoWrite, Longer, WritesOf, Writes
<1>2. ASSUME NEW t, WriteOf(t)
      PROVE  /\ Len(log) + 1 \in WritesOf(log', t)
             /\ \A v : v # t => WritesOf(log', v) = WritesOf(log, v)
  <2>1. /\ Writes(log') = Writes(log) \cup {Len(log) + 1} /\ log'[Len(log) + 1].by = t
        /\ \A i \in Writes(log) : log'[i] = log[i]
    BY <1>2 DEF WriteOf, Longer, Writes
  <2> QED
    BY <2>1 DEF WritesOf
<1> QED
  BY <1>1, <1>2

LEMMA Written ==
  ASSUME SeqInv, StoreInv, NEW k \in Attempt, SetValue(k),
         at'[k] = "written" \/ (at'[k] = "lost" /\ fault = "lose_ack_after_effect")
  PROVE  WriteOf(k)
<1>1. k \notin fenced
  BY RunningUnfenced DEF SetValue, Over
<1>2. Apply(fenced, k, log)
  BY DEF SetValue, Goto, SeqInv, TypeInv
<1>3. /\ Len(log') = Len(log) + 1 /\ Writes(log') = Writes(log) \cup {Len(log) + 1}
      /\ log'[Len(log) + 1] = [Ev("write", k, k, "-") EXCEPT !.version = version + 1]
  BY <1>1, <1>2, ApplyLog DEF SeqInv
<1>4. log'[Len(log) + 1].by = k
  BY <1>3 DEF Ev
<1>5. Longer
  <2>1. TypeInv /\ [Next]_vars
    BY DEF SeqInv, Next, AttemptStep
  <2> QED
    BY <2>1, LogNext DEF NoWrite, WriteOf
<1> QED
  BY <1>3, <1>4, <1>5 DEF WriteOf

LEMMA WroteNext ==
  ASSUME SeqInv, CaseType, StoreInv, PlaceInv, WroteInv, FaultInv, [Next]_vars
  PROVE  WroteInv'
<1>t. TypeInv /\ 1 \in Attempt
  BY Attempts1 DEF SeqInv
<1> SUFFICES ASSUME NEW v \in Attempt PROVE Wrote(v)'
  BY DEF WroteInv
<1>p. Wrote(v) /\ (status[v] # "none" => at[v] = "reported")
  BY DEF WroteInv, SeqInv, JournalInv
<1> DEFINE Has == at[v] = "written" \/ status[v] = "COMPLETED"
           HasNot == \/ at[v] \in Before \cup {"rejected", "retracting"}
                     \/ status[v] \in {"FAILED", "REFUSED", "ALREADY_COMPLETED", "HELD"}
<1>d. /\ (Has => WritesOf(log, v) # {}) /\ (HasNot => WritesOf(log, v) = {})
      /\ (Wrote(v)' <=> (Has' => WritesOf(log', v) # {}) /\ (HasNot' => WritesOf(log', v) = {}))
  BY <1>p DEF Wrote
<1>1. CASE SetValue(v)
  <2>1. at'[v] \in {"lost", "rejected", "written"} /\ status'[v] = status[v] /\ status[v] = "none" /\ at[v] = "writing"
    BY <1>1, <1>p, <1>t DEF SetValue, Goto, TypeInv
  <2>2. CASE at'[v] = "written"
    <3>1. WritesOf(log', v) # {}
      <4>1. WriteOf(v)
        BY <1>1, <2>2, Written
      <4> QED
        BY <1>t, <4>1, OwnWrites
    <3> QED
      BY <1>d, <2>1, <2>2, <3>1 DEF Before
  <2>3. CASE at'[v] = "lost"
    BY <1>d, <2>1, <2>3 DEF Before
  <2>4. CASE at'[v] = "rejected"
    <3> DEFINE e == Ev("rejected", v, v, "fault")
    <3>1. v \notin fenced
      BY <1>1, RunningUnfenced DEF SetValue, Over
    <3>2. log' = Append(log, e)
      BY <1>1, <1>t, <2>4, <3>1 DEF SetValue, Goto, TypeInv
    <3>3. e \in Events /\ e.kind # "write"
      BY DEF Ev, Events
    <3> HIDE DEF e
    <3>4. WritesOf(log', v) = WritesOf(log, v)
      BY <1>t, <3>2, <3>3, LoggedEvent, OwnWrites
    <3> QED
      BY <1>d, <2>1, <2>4, <3>4 DEF Before
  <2> QED
    BY <2>1, <2>2, <2>3, <2>4
<1>2. CASE ~SetValue(v)
  <2>1. (Has' => Has) /\ (HasNot' => HasNot)
    <3> USE <1>t, <1>p DEF Before, TypeInv, Goto, Report
    <3>1. CASE Still(v)
      BY <3>1 DEF Still
    <3>2. CASE Begin(v) \/ CheckKey(v)
      BY <3>2 DEF Begin, CheckKey
    <3>3. CASE Read(v)
      BY <3>3, ReadOf
    <3>4. CASE ReleaseKey(v) \/ Gate(v) \/ ReserveKey(v)
      BY <3>4 DEF ReleaseKey, Gate, ReserveKey, ReleaseRefused
    <3>5. CASE ReportLost(v) \/ ReportWritten(v) \/ ReportRejected(v) \/ Retract(v)
      BY <3>5 DEF ReportLost, ReportWritten, ReportRejected, Retract, ReleaseRefused
    <3>6. CASE Crash(v)
      BY <3>6 DEF Crash, Running, Over
    <3> QED
      BY <1>2, <3>1, <3>2, <3>3, <3>4, <3>5, <3>6, Local DEF Own
  <2>2. HasNot' => WritesOf(log', v) = WritesOf(log, v)
    <3>1. CASE NoWrite
      BY <1>t, <3>1, OwnWrites
    <3>2. ASSUME NEW k \in Attempt, SetValue(k), WriteOf(k) PROVE WritesOf(log', v) = WritesOf(log, v)
      BY <1>t, <1>2, <3>2, OwnWrites
    <3>3. CASE EndCase /\ heldWrite = "held" /\ WriteOf(1)
      <4>1. at' = at /\ status' = status
        BY <3>3 DEF EndCase
      <4>2. v = 1 => ~HasNot
        BY <3>3 DEF FaultInv, Before
      <4> QED
        BY <1>t, <3>3, <4>1, <4>2, OwnWrites
    <3> QED
      BY <1>t, <3>1, <3>2, <3>3, LogNext
  <2>3. WritesOf(log, v) \subseteq WritesOf(log', v)
    <3>1. Longer
      BY <1>t, LogNext DEF NoWrite, WriteOf
    <3> QED
      BY <1>t, <3>1, Grown
  <2> HIDE DEF Has, HasNot
  <2> QED
    BY <1>d, <2>1, <2>2, <2>3
<1> QED
  BY <1>1, <1>2

LEMMA EndNext ==
  ASSUME SeqInv, CaseType, FaultInv, EndInv, [Next]_vars
  PROVE  EndInv'
<1>t. TypeInv
  BY DEF SeqInv
<1>1. CASE EndCase
  <2>1. /\ over = "no" /\ over' \in {"compared", "given up"} /\ fenced' = fenced /\ at' = at
        /\ heldWrite' = (IF heldWrite = "held" THEN "released at end" ELSE heldWrite)
        /\ over' = "compared" => \A k \in Attempt : at[k] \in {"waiting", "reported"}
    BY <1>1 DEF EndCase
  <2> QED
    BY <2>1 DEF EndInv, FaultInv
<1>2. CASE LeaseMoves \/ UNCHANGED vars
  BY <1>2 DEF LeaseMoves, vars, obsStore, EndInv
<1>3. ASSUME NEW k \in Attempt, Begin(k) \/ AttemptStep(k) \/ Crash(k) PROVE EndInv'
  <2>1. over # "compared" /\ over' = over
    <3>1. CASE Begin(k)
      BY <3>1 DEF Begin
    <3>2. CASE Crash(k)
      BY <3>2 DEF Crash, Running, Over, EndInv
    <3>3. CASE AttemptStep(k)
      BY <3>3 DEF AttemptStep, CheckKey, Fence, Read, ReleaseKey, Gate, ReserveKey, SetValue, ReportLost, ReportWritten, ReleaseRefused,
                  ReportRejected, Retract, EndInv
    <3> QED
      BY <1>3, <3>1, <3>2, <3>3
  <2>2. heldWrite' = "released at end" => heldWrite = "released at end"
    BY <1>3 DEF Begin, Crash, AttemptStep, CheckKey, Fence, Read, ReleaseKey, Gate, ReserveKey, SetValue, ReportLost, ReportWritten, ReleaseRefused,
                ReportRejected, Retract, obsStore
  <2> QED
    BY <2>1, <2>2 DEF EndInv
<1> QED
  BY <1>1, <1>2, <1>3 DEF Next

(* The rejections of the first attempt.                                    *)
LEMMA Rejections ==
  ASSUME TypeInv, NEW n \in Nat, n = Len(log) + 1, Longer
  PROVE  /\ (Len(log') = Len(log)) => By("rejected", 1)' = By("rejected", 1)
         /\ (Len(log') = n /\ ~(log'[n].kind = "rejected" /\ log'[n].by = 1)) => By("rejected", 1)' = By("rejected", 1)
         /\ (Len(log') = n /\ log'[n].kind = "rejected" /\ log'[n].by = 1) => By("rejected", 1)' = By("rejected", 1) \cup {n}
         /\ By("rejected", 1) \subseteq By("rejected", 1)'
<1>1. /\ Len(log) \in Nat /\ Len(log') \in Nat /\ DOMAIN log = 1..Len(log) /\ DOMAIN log' = 1..Len(log')
      /\ DOMAIN log \subseteq DOMAIN log' /\ \A i \in DOMAIN log : log'[i] = log[i]
  BY Grown
<1>2. Len(log') = n => \A i \in DOMAIN log' : i \in DOMAIN log \/ i = n
  BY <1>1
<1>3. Len(log') = n => n \in DOMAIN log' /\ n \notin DOMAIN log
  BY <1>1
<1>4. Len(log') = Len(log) => DOMAIN log' = DOMAIN log
  BY <1>1
<1> QED
  BY <1>1, <1>2, <1>3, <1>4 DEF By

(* Where the first attempt is, and what its fault left, but for the steps  *)
(* that decide it.                                                         *)
LEMMA FaultKept ==
  ASSUME SeqInv, CaseType, PlaceInv, FaultInv, [Next]_vars, ~SetValue(1),
         heldWrite' = heldWrite, By("rejected", 1)' = By("rejected", 1), WritesOf(log', 1) = WritesOf(log, 1),
         heldWrite = "held" => 1 \notin fenced'
  PROVE  FaultInv'
<1>t. TypeInv /\ CaseType /\ 1 \in Attempt /\ Longer /\ fault' = fault /\ write' = write
  BY Attempts1, LogNext, Steady DEF SeqInv, NoWrite, WriteOf
<1>p. status[1] # "none" => at[1] = "reported"
  BY <1>t DEF SeqInv, JournalInv
<1>f. faultUsed' = faultUsed
  <2>1. ASSUME NEW k \in Attempt, SetValue(k), k # 1 PROVE faultUsed' = faultUsed
    BY <2>1 DEF SetValue
  <2> QED
    BY <2>1 DEF Next, AttemptStep, Begin, CheckKey, Fence, Read, ReleaseKey, Gate, ReserveKey, ReportLost, ReportWritten, ReleaseRefused,
         ReportRejected, Retract, Crash, EndCase, LeaseMoves, obsStore, vars
<1>g. DOMAIN log \subseteq DOMAIN log' /\ \A i \in DOMAIN log : log'[i] = log[i]
  BY <1>t, Grown
<1>1. /\ at'[1] \in Before => at[1] \in Before
      /\ status[1] \in {"none", "UNKNOWN"} /\ at[1] \in {"lost", "reported", "crashed"} =>
           status'[1] \in {"none", "UNKNOWN"} /\ at'[1] \in {"lost", "reported", "crashed"}
      /\ at'[1] = "lost" \/ status'[1] = "UNKNOWN" => at[1] = "lost" \/ status[1] = "UNKNOWN"
      /\ at'[1] \in {"rejected", "retracting"} \/ status'[1] = "FAILED" => at[1] \in {"rejected", "retracting"} \/ status[1] = "FAILED"
      /\ at'[1] = "written" \/ status'[1] = "COMPLETED" => at[1] = "written" \/ status[1] = "COMPLETED"
  <2> USE <1>t, <1>p DEF Before, TypeInv, Goto, Report
  <2>1. CASE Still(1)
    BY <2>1 DEF Still
  <2>2. CASE Begin(1) \/ CheckKey(1)
    BY <2>2 DEF Begin, CheckKey
  <2>3. CASE Read(1)
    BY <2>3, ReadOf
  <2>4. CASE ReleaseKey(1) \/ Gate(1) \/ ReserveKey(1)
    BY <2>4 DEF ReleaseKey, Gate, ReserveKey, ReleaseRefused
  <2>5. CASE ReportLost(1) \/ ReportWritten(1) \/ ReportRejected(1) \/ Retract(1)
    BY <2>5 DEF ReportLost, ReportWritten, ReportRejected, Retract, ReleaseRefused
  <2>6. CASE Crash(1)
    BY <2>6 DEF Crash, Running, Over
  <2> QED
    BY <2>1, <2>2, <2>3, <2>4, <2>5, <2>6, Local DEF Own
<1>2. at'[1] \in Before => ~faultUsed' /\ heldWrite' = "none" /\ By("rejected", 1)' = {}
  BY <1>1, <1>f DEF FaultInv
<1>3. heldWrite' # "none" =>
       /\ fault' = "hold_write_until_fence" /\ write'[1]
       /\ status'[1] \in {"none", "UNKNOWN"} /\ at'[1] \in {"lost", "reported", "crashed"}
  BY <1>1, <1>t DEF FaultInv
<1>4. heldWrite' = "released at fence" =>
       \E f \in DOMAIN log' : log'[f].kind = "fence" /\ log'[f].target = 1 /\ f + 1 \in By("rejected", 1)'
  BY <1>g DEF FaultInv
<1>5. at'[1] = "lost" \/ status'[1] = "UNKNOWN" =>
       \/ fault' = "lose_ack_after_effect" /\ WritesOf(log', 1) # {}
       \/ fault' = "hold_write_until_fence" /\ heldWrite' # "none"
  BY <1>1, <1>t DEF FaultInv
<1>6. at'[1] \in {"rejected", "retracting"} \/ status'[1] = "FAILED" =>
       fault' = "fail_before_effect" /\ \E i \in DOMAIN log' : log'[i].note = "fault" /\ By("rejected", 1)' = {i}
  BY <1>1, <1>t, <1>g DEF FaultInv
<1>7. at'[1] = "written" \/ status'[1] = "COMPLETED" => fault' = "none"
  BY <1>1, <1>t DEF FaultInv
<1>8. /\ heldWrite' = "held" => 1 \notin fenced'
      /\ fault' = "hold_write_until_fence" /\ WritesOf(log', 1) # {} => heldWrite' = "released at end"
  BY <1>t DEF FaultInv
<1> QED
  BY <1>2, <1>3, <1>4, <1>5, <1>6, <1>7, <1>8 DEF FaultInv

LEMMA FaultNext ==
  ASSUME SeqInv, WriterInv, CaseType, StoreInv, PlaceInv, WroteInv, FaultInv, [Next]_vars
  PROVE  FaultInv'
<1>t. TypeInv /\ 1 \in Attempt /\ Longer /\ fault' = fault /\ write' = write /\ Len(log) \in Nat
  <2>1. TypeInv /\ 1 \in Attempt /\ Len(log) \in Nat
    BY Attempts1 DEF SeqInv, TypeInv
  <2>2. Longer
    BY <2>1, LogNext DEF NoWrite, WriteOf
  <2> QED
    BY <2>1, <2>2, Steady
<1>n. PICK n \in Nat : n = Len(log) + 1
  BY <1>t
<1>k. ASSUME Len(log') = Len(log) \/ (Len(log') = n /\ ~(log'[n].kind = "rejected" /\ log'[n].by = 1)),
             NoWrite \/ \E k \in Attempt : k # 1 /\ WriteOf(k), ~SetValue(1),
             heldWrite' = heldWrite, heldWrite = "held" => 1 \notin fenced'
      PROVE  FaultInv'
  <2>1. By("rejected", 1)' = By("rejected", 1)
    BY <1>t, <1>n, <1>k, Rejections
  <2>2. WritesOf(log', 1) = WritesOf(log, 1)
    BY <1>t, <1>k, OwnWrites
  <2> QED
    BY <1>k, <2>1, <2>2, FaultKept
<1>u. ASSUME log' = log, heldWrite' = heldWrite, fenced' = fenced, ~SetValue(1) PROVE FaultInv'
  <2>1. NoWrite
    BY <1>t, <1>u, Unlogged
  <2> QED
    BY <1>k, <1>u, <2>1 DEF FaultInv
<1> USE DEF obsStore
<1>1. ASSUME NEW k \in Attempt, Begin(k) \/ CheckKey(k) \/ ReleaseKey(k) \/ Gate(k) \/ ReserveKey(k), ~SetValue(1) PROVE FaultInv'
  BY <1>1, <1>u DEF Begin, CheckKey, ReleaseKey, Gate, ReserveKey, ReleaseRefused
<1>2. ASSUME NEW k \in Attempt, ReportLost(k) \/ ReportWritten(k) \/ ReportRejected(k) \/ Retract(k) \/ Crash(k), ~SetValue(1)
      PROVE  FaultInv'
  BY <1>2, <1>u DEF ReportLost, ReportWritten, ReportRejected, Retract, Crash, ReleaseRefused
<1>3. ASSUME LeaseMoves \/ UNCHANGED vars, ~SetValue(1) PROVE FaultInv'
  BY <1>3, <1>u DEF LeaseMoves, vars
<1>4. ASSUME NEW k \in Attempt, Read(k), ~SetValue(1) PROVE FaultInv'
  <2> DEFINE e == Ev("read", k, k, IF readable[k] THEN "ok" ELSE "unavailable")
  <2>1. e \in Events /\ e.kind = "read"
    BY DEF Ev, Events
  <2>2. log' = Append(log, e) /\ heldWrite' = heldWrite /\ fenced' = fenced
    BY <1>4 DEF Read, StoreRead
  <2> HIDE DEF e
  <2>3. NoWrite /\ Len(log') = n /\ log'[n] = e
    BY <1>t, <1>n, <2>1, <2>2, LoggedEvent
  <2> QED
    BY <1>k, <1>4, <2>1, <2>2, <2>3 DEF FaultInv
<1>5. ASSUME NEW k \in Attempt, NEW t \in Attempt, Fence(k, t), ~SetValue(1) PROVE FaultInv'
  <2>1. /\ fenced' = fenced \cup {t} /\ Writes(log') = Writes(log)
        /\ \/ /\ heldWrite = "held" /\ t = 1 /\ heldWrite' = "released at fence" /\ Len(log') = n + 1
              /\ log'[n + 1].kind = "rejected" /\ log'[n + 1].by = 1
           \/ /\ ~(heldWrite = "held" /\ t = 1) /\ heldWrite' = heldWrite /\ Len(log') = n
    <3>1. Len(log) + 2 = n + 1
      BY <1>t, <1>n
    <3> QED
      BY <1>t, <1>n, <1>5, <3>1, FenceLog, Zenon
  <2>2. log'[n].kind = "fence" /\ log'[n].target = t
    BY <1>t, <1>n, <1>5, FenceLog, Zenon
  <2>n. NoWrite
    BY <1>t, <2>1 DEF NoWrite
  <2>3. CASE ~(heldWrite = "held" /\ t = 1) /\ heldWrite' = heldWrite /\ Len(log') = n
    BY <1>k, <1>5, <2>1, <2>2, <2>n, <2>3 DEF FaultInv
  <2>4. CASE /\ heldWrite = "held" /\ t = 1 /\ heldWrite' = "released at fence" /\ Len(log') = n + 1
             /\ log'[n + 1].kind = "rejected" /\ log'[n + 1].by = 1
    <3>1. at' = at /\ status' = status
      BY <1>5 DEF Fence
    <3>2. n \in DOMAIN log' /\ n + 1 \in DOMAIN log' /\ log'[n + 1].kind = "rejected" /\ log'[n + 1].by = 1
      <4>1. DOMAIN log' = 1..(n + 1)
        BY <1>t, <2>4, Grown
      <4>2. n \in 1..(n + 1) /\ n + 1 \in 1..(n + 1)
        BY <1>n, <1>t
      <4> QED
        BY <2>4, <4>1, <4>2, Zenon
    <3>3. n + 1 \in By("rejected", 1)'
      BY <3>2 DEF By
    <3>4. WritesOf(log', 1) = {}
      BY <2>1, <2>4 DEF WriterInv, WritesOf
    <3>5. /\ fault = "hold_write_until_fence" /\ write[1]
          /\ status[1] \in {"none", "UNKNOWN"} /\ at[1] \in {"lost", "reported", "crashed"}
      BY <2>4 DEF FaultInv
    <3>6. \E f \in DOMAIN log' : log'[f].kind = "fence" /\ log'[f].target = 1 /\ f + 1 \in By("rejected", 1)'
      BY <2>2, <2>4, <3>2, <3>3
    <3> QED
      BY <1>t, <2>4, <3>1, <3>4, <3>5, <3>6 DEF FaultInv, Before
  <2> QED
    BY <2>1, <2>3, <2>4
<1>6. ASSUME NEW k \in Attempt, SetValue(k), k # 1, ~SetValue(1) PROVE FaultInv'
  <2>1. Apply(fenced, k, log) /\ heldWrite' = heldWrite /\ fenced' = fenced
    BY <1>6 DEF SetValue
  <2>2. /\ Len(log') = n
        /\ \/ log'[n] = Ev("rejected", k, k, "fenced") /\ Writes(log') = Writes(log)
           \/ log'[n] = [Ev("write", k, k, "-") EXCEPT !.version = version + 1] /\ Writes(log') = Writes(log) \cup {n}
    BY <1>t, <1>n, <2>1, ApplyLog
  <2>3. log'[n].by = k
    BY <2>2 DEF Ev
  <2>4. NoWrite \/ WriteOf(k)
    BY <1>t, <1>n, <2>2, <2>3 DEF NoWrite, WriteOf
  <2> QED
    BY <1>k, <1>6, <2>1, <2>2, <2>3, <2>4 DEF FaultInv
<1>7. CASE EndCase /\ ~SetValue(1)
  <2>1. CASE heldWrite # "held"
    BY <1>u, <1>7, <2>1 DEF EndCase
  <2>2. CASE heldWrite = "held"
    <3>1. /\ at' = at /\ status' = status /\ heldWrite' = "released at end" /\ fenced' = fenced
      BY <1>7, <2>2 DEF EndCase
    <3>2. /\ fault = "hold_write_until_fence" /\ write[1]
          /\ status[1] \in {"none", "UNKNOWN"} /\ at[1] \in {"lost", "reported", "crashed"}
      BY <2>2 DEF FaultInv
    <3> QED
      BY <1>t, <3>1, <3>2 DEF FaultInv, Before
  <2> QED
    BY <2>1, <2>2
<1>8. CASE SetValue(1)
  <2>1. /\ at[1] = "writing" /\ ~faultUsed /\ heldWrite = "none" /\ By("rejected", 1) = {} /\ 1 \notin fenced /\ write[1]
        /\ status[1] = "none" /\ WritesOf(log, 1) = {}
    <3>1. at[1] = "writing" /\ status[1] = "none"
      BY <1>8, <1>t DEF SetValue, SeqInv, JournalInv
    <3>2. 1 \notin fenced
      BY <1>t, <3>1, RunningUnfenced DEF Over
    <3> QED
      BY <1>t, <3>1, <3>2 DEF FaultInv, PlaceInv, Placed, Permitted, WroteInv, Wrote, Before
  <2>2. status' = status /\ fenced' = fenced
    BY <1>8 DEF SetValue
  <2>3. CASE fault = "hold_write_until_fence"
    <3>1. heldWrite' = "held" /\ at'[1] = "lost" /\ log' = log
      BY <1>8, <1>t, <2>1, <2>3 DEF SetValue, Goto, TypeInv
    <3> QED
      BY <1>t, <2>1, <2>2, <2>3, <3>1 DEF FaultInv, Before
  <2>4. CASE fault = "fail_before_effect"
    <3>1. heldWrite' = "none" /\ at'[1] = "rejected" /\ log' = Append(log, Ev("rejected", 1, 1, "fault"))
      BY <1>8, <1>t, <2>1, <2>4 DEF SetValue, Goto, TypeInv
    <3> DEFINE e == Ev("rejected", 1, 1, "fault")
    <3>2. e \in Events /\ e.kind = "rejected" /\ e.by = 1 /\ e.note = "fault" /\ log' = Append(log, e)
      BY <1>t, <3>1 DEF Ev, Events
    <3> HIDE DEF e
    <3>3. Len(log') = n /\ log'[n] = e
      BY <1>t, <1>n, <3>2, EventLog
    <3>4. By("rejected", 1)' = {n} /\ n \in DOMAIN log'
      <4>1. By("rejected", 1)' = By("rejected", 1) \cup {n}
        BY <1>t, <1>n, <3>2, <3>3, Rejections
      <4>2. n \in By("rejected", 1)'
        BY <4>1
      <4> QED
        BY <2>1, <4>1, <4>2 DEF By
    <3> QED
      BY <1>t, <2>1, <2>2, <2>4, <3>1, <3>2, <3>3, <3>4 DEF FaultInv, Before
  <2>5. CASE fault = "lose_ack_after_effect"
    <3>1. heldWrite' = "none" /\ at'[1] = "lost"
      BY <1>8, <1>t, <2>1, <2>5 DEF SetValue, Goto, TypeInv
    <3>2. WriteOf(1)
      BY <1>8, <1>t, <2>5, <3>1, Written
    <3>3. WritesOf(log', 1) # {}
      BY <1>t, <3>2, OwnWrites
    <3> QED
      BY <1>t, <2>1, <2>2, <2>5, <3>1, <3>3 DEF FaultInv, Before
  <2>6. CASE fault = "none"
    <3>1. heldWrite' = "none" /\ at'[1] = "written"
      BY <1>8, <1>t, <2>1, <2>6 DEF SetValue, Goto, TypeInv
    <3> QED
      BY <1>t, <2>1, <2>2, <2>6, <3>1 DEF FaultInv, Before
  <2> QED
    BY <2>3, <2>4, <2>5, <2>6 DEF CaseType, Faults
<1> QED
  BY <1>1, <1>2, <1>3, <1>4, <1>5, <1>6, <1>7, <1>8 DEF Next, AttemptStep

(* Why the key is held stays so, but for the attempt that frees it.        *)
LEMMA KeyOfStays ==
  ASSUME SeqInv, CaseType, [Next]_vars, NEW j \in Attempt, NEW s, KeyOf(j, s), ~(Retract(j) /\ Reservations!Release)
  PROVE  KeyOf(j, s)'
<1>t. TypeInv /\ (status[j] # "none" => at[j] = "reported")
  BY DEF SeqInv, JournalInv
<1>w. WritesOf(log, j) # {} => WritesOf(log', j) # {}
  <2>1. Longer
    BY LogNext, <1>t DEF NoWrite, WriteOf
  <2> QED
    BY <1>t, <2>1, Grown
<1>1. CASE Still(j)
  BY <1>1, <1>w DEF Still, KeyOf
<1>2. CASE Own(j)
  <2>1. ~Over(j) /\ status[j] = "none"
    BY <1>2, <1>t DEF Own, Begin, CheckKey, Read, ReleaseKey, Gate, ReserveKey, SetValue, ReportLost, ReportWritten, ReportRejected,
                      Retract, Crash, Running, Over
  <2>2. s # "COMPLETED" /\ at[j] \in {"writing", "lost", "written", "rejected", "retracting"}
    BY <2>1 DEF KeyOf, Over, HoldingPlaces
  <2>3. at'[j] \in HoldingPlaces \/ status'[j] \in {"UNKNOWN", "COMPLETED"}
    <3> USE <1>t, <2>2 DEF TypeInv, CaseType, Goto, Report, HoldingPlaces
    <3>1. CASE SetValue(j) \/ Crash(j)
      BY <3>1 DEF SetValue, Crash
    <3>2. CASE ReportLost(j) \/ ReportWritten(j) \/ ReportRejected(j)
      BY <3>2 DEF ReportLost, ReportWritten, ReportRejected
    <3>3. CASE Retract(j)
      BY <3>3 DEF Retract, ReleaseRefused
    <3> QED
      BY <1>2, <3>1, <3>2, <3>3 DEF Own, Begin, CheckKey, Read, ReleaseKey, Gate, ReserveKey
  <2> QED
    BY <2>2, <2>3 DEF KeyOf
<1> QED
  BY <1>t, <1>1, <1>2, Local

(* A move leaves the key as it was, or as the report has it.               *)
LEMMA KeyMoved ==
  ASSUME KeyType, NEW k \in Attempt, NEW to \in {"COMPLETED", "UNKNOWN"}, Reservations!Move(k, to)
  PROVE  entry' = entry \/ entry'.state = to
<1>1. CASE entry \in Reservations!Entries
  <2>1. \A e \in Reservations!Readings(entry) : e \in Reservations!Entries
    BY <1>1, EntryRead
  <2>2. \A e \in Reservations!Entries : [e EXCEPT !.state = to].state = to
    BY DEF Reservations!Entries
  <2> QED
    BY <2>1, <2>2 DEF Reservations!Move
<1>2. CASE entry = Reservations!NoEntry
  BY <1>2 DEF Reservations!Move, Reservations!NoEntry, Attempt
<1> QED
  BY <1>1, <1>2 DEF KeyType

LEMMA KeyUnread ==
  ASSUME KeyType, NEW k \in Attempt, Reservations!Poison(k) \/ Reservations!Forget
  PROVE  entry'.state = "IN_FLIGHT"
BY DEF Reservations!Poison, Reservations!Forget, Reservations!Unread

LEMMA KeyChanged ==
  ASSUME SeqInv, CaseType, WroteInv, [Next]_vars, KeyHeld'
  PROVE  (KeyHeld /\ entry'.state = entry.state) \/ \E k \in Attempt : KeyOf(k, entry.state)'
<1>t. TypeInv /\ KeyType
  BY DEF SeqInv, TypeInv, KeyType
<1>u. entry' = entry => KeyHeld /\ entry'.state = entry.state
  BY DEF KeyHeld
<1> USE <1>t DEF TypeInv, CaseType, Goto, Report, keyVars, obsStore
<1>1. ASSUME NEW k \in Attempt, Begin(k) \/ CheckKey(k) \/ Read(k) \/ Gate(k) \/ SetValue(k) PROVE entry' = entry
  BY <1>1 DEF Begin, CheckKey, Read, Gate, SetValue
<1>2. ASSUME (\E k, t \in Attempt : Fence(k, t)) \/ EndCase \/ UNCHANGED vars PROVE entry' = entry
  BY <1>2 DEF Fence, EndCase, vars
<1>3. ASSUME LeaseMoves PROVE KeyHeld /\ entry'.state = entry.state
  <2>1. entry \in Reservations!Entries
    BY <1>3, Entry DEF LeaseMoves, Reservations!ClockMoves, KeyType
  <2> QED
    BY <1>3, <2>1, Entry DEF LeaseMoves, Reservations!ClockMoves, KeyHeld, Reservations!Entries
<1>4. ASSUME NEW k \in Attempt, ReserveKey(k) PROVE KeyOf(k, entry.state)'
  <2>1. at'[k] = "writing"
    BY <1>4 DEF ReserveKey
  <2>2. entry'.state = "IN_FLIGHT"
    <3>1. PICK lease \in {"running", "over"} : entry' = Reservations!InFlight(k, lease)
      BY <1>4, Zenon DEF ReserveKey, Reservations!Reserve
    <3> QED
      BY <3>1 DEF Reservations!InFlight
  <2> QED
    BY <2>1, <2>2 DEF KeyOf, HoldingPlaces
<1>5. ASSUME NEW k \in Attempt, ReleaseKey(k) \/ Retract(k) PROVE entry' = entry
  <2>1. ~Reservations!Release
    BY DEF Reservations!Release, KeyHeld
  <2> QED
    BY <1>5, <2>1 DEF ReleaseKey, Retract, ReleaseRefused
<1>6. ASSUME NEW k \in Attempt, ReportWritten(k) PROVE KeyOf(k, entry.state)'
  BY <1>6 DEF ReportWritten, KeyOf
<1>7. ASSUME NEW k \in Attempt, ReportLost(k) \/ ReportRejected(k) PROVE entry' = entry \/ KeyOf(k, entry.state)'
  <2>1. entry' = entry \/ entry'.state = "UNKNOWN"
    BY <1>7, KeyMoved DEF ReportLost, ReportRejected
  <2>2. status'[k] = "UNKNOWN" \/ at'[k] = "retracting"
    BY <1>7 DEF ReportLost, ReportRejected
  <2> QED
    BY <2>1, <2>2 DEF KeyOf, HoldingPlaces
<1>8. ASSUME NEW k \in Attempt, Crash(k) PROVE entry' = entry \/ KeyOf(k, entry.state)'
  <2>1. at'[k] = "crashed" /\ log' = log
    BY <1>8 DEF Crash
  <2>2. CASE at[k] = "written"
    <3>1. WritesOf(log', k) # {}
      BY <2>1, <2>2 DEF WroteInv, Wrote
    <3> QED
      BY <2>1, <3>1 DEF KeyOf
  <2>3. CASE at[k] # "written"
    <3>1. ~Reservations!Release
      BY DEF Reservations!Release, KeyHeld
    <3>2. entry' = entry \/ entry'.state # "COMPLETED"
      <4>1. (IF use[k] = "holding" THEN Reservations!Abandon(k) ELSE UNCHANGED keyVars) => entry' = entry
        BY KeySteps
      <4> QED
        BY <1>8, <2>3, <3>1, <4>1, KeyMoved, KeyUnread DEF Crash
    <3> QED
      BY <2>1, <3>2 DEF KeyOf, HoldingPlaces
  <2> QED
    BY <2>2, <2>3
<1> QED
  BY <1>u, <1>1, <1>2, <1>3, <1>4, <1>5, <1>6, <1>7, <1>8 DEF Next, AttemptStep

LEMMA KeyNext ==
  ASSUME SeqInv, CaseType, WroteInv, KeyInv, [Next]_vars
  PROVE  KeyInv'
<1> SUFFICES ASSUME KeyHeld' PROVE \E j \in Attempt : KeyOf(j, entry.state)'
  BY DEF KeyInv
<1>1. CASE KeyHeld /\ entry'.state = entry.state
  <2>1. PICK j \in Attempt : KeyOf(j, entry.state)
    BY <1>1 DEF KeyInv
  <2>2. PICK s : s = entry.state
    OBVIOUS
  <2>3. ~Reservations!Release
    BY DEF Reservations!Release, KeyHeld
  <2>4. KeyOf(j, s)'
    BY <2>1, <2>2, <2>3, KeyOfStays
  <2> QED
    BY <1>1, <2>2, <2>4 DEF KeyOf
<1> QED
  BY <1>1, KeyChanged

(* Why attempts reconcile, are held, or find the intent done.              *)
LEMMA EndsStay ==
  ASSUME SeqInv, [Next]_vars
  PROVE  /\ Done => Done'
         /\ Excused => Excused'
         /\ \A k \in Attempt : Open(k) => Open(k)'
<1>1. \A j \in Attempt : Over(j) \/ status[j] # "none" => at'[j] = at[j] /\ status'[j] = status[j]
  BY Steady
<1>2. write' = write
  BY Steady
<1> QED
  BY <1>1, <1>2 DEF Done, Excused, Open, Over

(* An attempt that finds the key held finds an earlier one that left it so;*)
(* one that finds the key completed, the one that wrote.                   *)
LEMMA KeySays ==
  ASSUME SeqInv, WriterInv, StoreInv, PlaceInv, WroteInv, KeyInv, NEW k \in Attempt, at[k] = "begun"
  PROVE  /\ KeyReads \cap {"IN_FLIGHT", "UNKNOWN"} # {} => Open(k)
         /\ "COMPLETED" \in KeyReads => Done /\ \E i \in Writes(log) : log[i].by < k
         /\ "NONE" \in KeyReads => ~KeyHeld
<1>t. TypeInv /\ KeyType
  BY DEF SeqInv, TypeInv, KeyType
<1>0. /\ "NONE" \in KeyReads => ~KeyHeld
      /\ "COMPLETED" \in KeyReads => KeyHeld /\ entry.state = "COMPLETED"
  BY <1>t, KeyReadsIs
<1>1. KeyReads \cap {"IN_FLIGHT", "UNKNOWN"} # {} => KeyHeld
  BY DEF KeyReads, KeyHeld
<1> SUFFICES ASSUME KeyHeld PROVE Open(k) /\ (entry.state = "COMPLETED" => Done /\ \E i \in Writes(log) : log[i].by < k)
  BY <1>0, <1>1
<1>2. PICK j \in Attempt : KeyOf(j, entry.state)
  BY DEF KeyInv
<1>3. at[j] \in HoldingPlaces \/ status[j] \in {"COMPLETED", "UNKNOWN"}
  BY <1>2 DEF KeyOf, HoldingPlaces
<1>4. at[j] # "waiting" /\ j # k
  BY <1>3 DEF HoldingPlaces, SeqInv, JournalInv
<1>5. at[k] # "waiting" /\ ~Over(k)
  BY DEF Over
<1>6. j < k /\ Over(j)
  <2>1. j <= k
    BY <1>4, <1>5, EarlierFacts
  <2>2. j < k
    BY <1>4, <2>1, Attempts1
  <2> QED
    BY <1>4, <1>5, <2>2, Alone
<1>7. Open(k)
  BY <1>3, <1>6 DEF Open, HoldingPlaces, Over
<1>8. ASSUME entry.state = "COMPLETED" PROVE Done /\ \E i \in Writes(log) : log[i].by < k
  <2>1. status[j] = "COMPLETED" \/ (at[j] = "crashed" /\ WritesOf(log, j) # {})
    BY <1>2, <1>8 DEF KeyOf
  <2>2. WritesOf(log, j) # {}
    BY <2>1 DEF WroteInv, Wrote
  <2> QED
    BY <1>6, <2>1, <2>2 DEF WritesOf, Done
<1> QED
  BY <1>7, <1>8

LEMMA HeldNext ==
  ASSUME SeqInv, WriterInv, CaseType, StoreInv, PlaceInv, WroteInv, KeyInv, HeldInv, [Next]_vars
  PROVE  HeldInv'
<1>t. TypeInv /\ Longer
  BY LogNext DEF SeqInv, NoWrite, WriteOf
<1> SUFFICES ASSUME NEW v \in Attempt
             PROVE  /\ at'[v] \in {"fencing", "releasing"} \/ ~resolved'[v] => Open(v)'
                    /\ already'[v] => (\E i \in Writes(log') : log'[i].by < v) /\ (claim'[v] # NoClaim \/ Done')
  BY DEF HeldInv
<1>h. /\ at[v] \in {"fencing", "releasing"} \/ ~resolved[v] => Open(v)
      /\ already[v] => (\E i \in Writes(log) : log[i].by < v) /\ (claim[v] # NoClaim \/ Done)
  BY DEF HeldInv
<1>e. (Open(v) => Open(v)') /\ (Done => Done')
  BY EndsStay
<1>w. ASSUME \E i \in Writes(log) : log[i].by < v PROVE \E i \in Writes(log') : log'[i].by < v
  <2>1. Writes(log) \subseteq Writes(log') /\ \A i \in Writes(log) : log'[i] = log[i]
    BY <1>t, Grown DEF Writes
  <2> QED
    BY <1>w, <2>1
<1>1. ASSUME at'[v] \in {"fencing", "releasing"} \/ ~resolved'[v] => at[v] \in {"fencing", "releasing"} \/ ~resolved[v],
             already'[v] => already[v], claim'[v] = claim[v]
      PROVE  /\ at'[v] \in {"fencing", "releasing"} \/ ~resolved'[v] => Open(v)'
             /\ already'[v] => (\E i \in Writes(log') : log'[i].by < v) /\ (claim'[v] # NoClaim \/ Done')
  BY <1>1, <1>h, <1>e, <1>w
<1>2. CASE Still(v)
  BY <1>1, <1>2 DEF Still
<1>3. CASE CheckKey(v)
  <2>1. at[v] = "begun"
    BY <1>3 DEF CheckKey
  <2>2. /\ KeyReads \cap {"IN_FLIGHT", "UNKNOWN"} # {} => Open(v)
        /\ "COMPLETED" \in KeyReads => Done /\ \E i \in Writes(log) : log[i].by < v
    BY <2>1, KeySays
  <2>3. /\ at'[v] \in {"fencing", "releasing"} \/ ~resolved'[v] =>
             KeyReads \cap {"IN_FLIGHT", "UNKNOWN"} # {} \/ ~resolved[v]
        /\ already'[v] => already[v] \/ "COMPLETED" \in KeyReads
        /\ claim'[v] = claim[v]
    BY <1>3, <1>t DEF CheckKey, Goto, TypeInv, CaseType, found
  <2> QED
    BY <1>h, <1>e, <1>w, <2>2, <2>3
<1>4. CASE Read(v)
  <2>1. at[v] = "fencing"
    BY <1>4 DEF Read
  <2>2. Open(v)'
    BY <1>h, <1>e, <2>1
  <2>3. ASSUME already'[v] PROVE (\E i \in Writes(log) : log[i].by < v) /\ claim'[v] # NoClaim
    <3>1. ~already[v]
      BY <2>1 DEF PlaceInv, Placed
    <3>2. EarlierWrites(v) # {} /\ claim' = [claim EXCEPT ![v] = ReadClaim(v)]
      BY <1>4, <2>3, <3>1, ReadOf
    <3>3. \E i \in Writes(log) : log[i].by \in Earlier(v)
      BY <3>2 DEF EarlierWrites, WritesOf
    <3>4. Earlier(v) = 1..(v - 1) /\ v \in Nat
      BY <2>1, EarlierFacts, Attempts1 DEF Over
    <3>5. claim'[v] # NoClaim
      <4>1. claim'[v] = ReadClaim(v)
        BY <3>2 DEF CaseType
      <4>2. ReadClaim(v).seq = Len(log') /\ NoClaim.seq = 0
        BY DEF ReadClaim, NoClaim
      <4>3. Len(log') # 0
        <5> DEFINE e == Ev("read", v, v, IF readable[v] THEN "ok" ELSE "unavailable")
        <5>1. e \in Events /\ e.kind # "write"
          BY DEF Ev, Events
        <5>2. log' = Append(log, e)
          BY <1>4 DEF Read, StoreRead
        <5> HIDE DEF e
        <5>3. Len(log') = Len(log) + 1 /\ Len(log) \in Nat
          BY <1>t, <5>1, <5>2, EventLog, Grown
        <5> QED
          BY <5>3
      <4> QED
        BY <4>1, <4>2, <4>3
    <3> QED
      BY <3>3, <3>4, <3>5
  <2> QED
    BY <1>w, <2>2, <2>3
<1>5. CASE Own(v) /\ ~CheckKey(v) /\ ~Read(v)
  <2> USE <1>t DEF TypeInv, CaseType, Goto, Report, found
  <2>1. CASE Begin(v) \/ ReleaseKey(v) \/ Gate(v) \/ ReserveKey(v)
    BY <1>1, <2>1 DEF Begin, ReleaseKey, Gate, ReserveKey, ReleaseRefused
  <2>2. CASE SetValue(v) \/ Crash(v)
    BY <1>1, <2>2 DEF SetValue, Crash
  <2>3. CASE ReportLost(v) \/ ReportWritten(v) \/ ReportRejected(v) \/ Retract(v)
    BY <1>1, <2>3 DEF ReportLost, ReportWritten, ReportRejected, Retract, ReleaseRefused
  <2> QED
    BY <1>5, <2>1, <2>2, <2>3 DEF Own
<1> QED
  BY <1>t, <1>2, <1>3, <1>4, <1>5, Local

(* What an attempt says it reconciled.                                     *)
LEMMA NewFence ==
  ASSUME TypeInv, [Next]_vars, NEW f \in DOMAIN log', f \notin DOMAIN log, log'[f].kind = "fence"
  PROVE  \E k, t \in Attempt : Fence(k, t) /\ log'[f].by = k
<1>t. Longer /\ Len(log) \in Nat
  BY LogNext DEF NoWrite, WriteOf, TypeInv
<1>g. /\ Len(log') \in Nat /\ DOMAIN log = 1..Len(log) /\ DOMAIN log' = 1..Len(log')
  BY <1>t, Grown
<1>u. log' # log
  OBVIOUS
<1>f. f \in Nat /\ Len(log) < f /\ f <= Len(log')
  BY <1>g
<1>e. ASSUME NEW e \in Events, e.kind \notin {"write", "fence"}, log' = Append(log, e) PROVE FALSE
  <2>1. Len(log') = Len(log) + 1 /\ log'[Len(log) + 1] = e
    BY <1>e, EventLog
  <2>2. f = Len(log) + 1
    BY <1>f, <1>t, <2>1
  <2> QED
    BY <1>e, <2>1, <2>2
<1>a. ASSUME NEW t \in Attempt, Apply(fenced, t, log) PROVE FALSE
  <2>1. Len(log') = Len(log) + 1
    BY <1>a, ApplyLog
  <2>2. f = Len(log) + 1
    BY <1>f, <1>t, <2>1
  <2>3. \/ log'[f] = Ev("rejected", t, t, "fenced")
        \/ log'[f] = [Ev("write", t, t, "-") EXCEPT !.version = version + 1]
    BY <1>a, <2>2, ApplyLog
  <2> QED
    BY <2>3 DEF Ev
<1> USE DEF obsStore
<1>1. ASSUME NEW k \in Attempt, Begin(k) \/ CheckKey(k) \/ ReleaseKey(k) \/ Gate(k) \/ ReserveKey(k) PROVE FALSE
  BY <1>1, <1>u DEF Begin, CheckKey, ReleaseKey, Gate, ReserveKey, ReleaseRefused
<1>2. ASSUME NEW k \in Attempt, ReportLost(k) \/ ReportWritten(k) \/ ReportRejected(k) \/ Retract(k) \/ Crash(k) PROVE FALSE
  BY <1>2, <1>u DEF ReportLost, ReportWritten, ReportRejected, Retract, Crash, ReleaseRefused
<1>3. ASSUME NEW k \in Attempt, Read(k) PROVE FALSE
  <2> DEFINE e == Ev("read", k, k, IF readable[k] THEN "ok" ELSE "unavailable")
  <2>1. e \in Events /\ e.kind = "read"
    BY DEF Ev, Events
  <2>2. log' = Append(log, e)
    BY <1>3 DEF Read, StoreRead
  <2> HIDE DEF e
  <2> QED
    BY <1>e, <2>1, <2>2
<1>4. ASSUME NEW k \in Attempt, SetValue(k) PROVE FALSE
  <2>1. CASE Apply(fenced, k, log)
    BY <1>a, <2>1
  <2>2. CASE log' = Append(log, Ev("rejected", k, k, "fault"))
    <3> DEFINE e == Ev("rejected", k, k, "fault")
    <3>1. e \in Events /\ e.kind = "rejected" /\ log' = Append(log, e)
      BY <2>2 DEF Ev, Events
    <3> HIDE DEF e
    <3> QED
      BY <1>e, <3>1
  <2> QED
    BY <1>4, <1>u, <2>1, <2>2 DEF SetValue
<1>5. ASSUME EndCase PROVE FALSE
  BY <1>5, <1>a, <1>u, Attempts1 DEF EndCase
<1>6. ASSUME LeaseMoves \/ UNCHANGED vars PROVE FALSE
  BY <1>6, <1>u DEF LeaseMoves, vars
<1>7. PICK k \in Attempt, t \in Attempt : Fence(k, t)
  BY <1>1, <1>2, <1>3, <1>4, <1>5, <1>6 DEF Next, AttemptStep
<1>8. log'[f].by = k
  <2>1. /\ log'[Len(log) + 1].by = k
        /\ \/ Len(log') = Len(log) + 2 /\ log'[Len(log) + 2].kind = "rejected"
           \/ Len(log') = Len(log) + 1
    BY <1>7, FenceLog
  <2>2. f = Len(log) + 1 \/ (f = Len(log) + 2 /\ Len(log') = Len(log) + 2)
    BY <1>f, <1>t, <2>1
  <2>3. f # Len(log) + 2 \/ Len(log') # Len(log) + 2
    BY <1>t, <2>1
  <2> QED
    BY <2>1, <2>2, <2>3
<1> QED
  BY <1>7, <1>8

LEMMA BackedStays ==
  ASSUME SeqInv, PlaceInv, [Next]_vars, NEW v \in Attempt, NEW s, claim'[v] = claim[v], claim[v] # NoClaim, Backed(v, s)
  PROVE  Backed(v, s)'
<1>t. TypeInv /\ Longer
  BY LogNext DEF SeqInv, NoWrite, WriteOf
<1>g. /\ Len(log) \in Nat /\ Len(log') \in Nat /\ DOMAIN log = 1..Len(log) /\ DOMAIN log' = 1..Len(log')
      /\ DOMAIN log \subseteq DOMAIN log' /\ Writes(log) \subseteq Writes(log')
      /\ \A i \in DOMAIN log : log'[i] = log[i]
  BY <1>t, Grown
<1>b. s \in DOMAIN log /\ s \in Nat /\ s <= Len(log) /\ s < Len(log) + 1
  BY <1>g DEF Backed
<1>w. \A w \in Writes(log') : w \in Writes(log) \/ (w = Len(log) + 1 /\ s < w)
  BY <1>t, <1>b, LogNext DEF NoWrite, WriteOf
<1>1. Seen(v, s)' = Seen(v, s)
  <2>1. \A w \in Writes(log) : log'[w] = log[w] /\ w \in Writes(log')
    BY <1>g DEF Writes
  <2>2. \A w \in Writes(log') : w < s => w \in Writes(log)
    BY <1>b, <1>w, <1>g
  <2> QED
    BY <2>1, <2>2 DEF Seen
<1>2. \A t \in 1..(v - 1) : FencesOf(t, s)' # {}
  <2>1. s \in 1..(Len(log) + 1)
    BY <1>b, <1>g
  <2> QED
    BY <1>t, <2>1, Grown DEF Backed
<1>3. ASSUME NEW f \in DOMAIN log', log'[f].kind = "fence", log'[f].by = v \/ ~Over(v)' PROVE f < s
  <2>1. ~Over(v)' => ~Over(v)
    BY Steady DEF Over
  <2>2. CASE f \in DOMAIN log
    BY <1>3, <1>g, <2>1, <2>2 DEF Backed
  <2>3. CASE f \notin DOMAIN log
    <3>1. PICK k \in Attempt, t \in Attempt : Fence(k, t) /\ log'[f].by = k
      BY <1>3, <1>t, <2>3, NewFence
    <3>2. at[k] = "fencing" /\ ~Over(k)
      BY <3>1 DEF Fence, Over
    <3>3. at[v] \notin {"waiting", "fencing"}
      BY DEF PlaceInv, Placed
    <3>4. k # v
      BY <3>2, <3>3
    <3> QED
      BY <1>3, <2>1, <3>1, <3>2, <3>3, <3>4, Alone
  <2> QED
    BY <2>2, <2>3
<1>4. \A w \in WritesOf(log', v) : s < w
  <2>1. \A w \in Writes(log) : log'[w] = log[w]
    BY <1>g DEF Writes
  <2> QED
    BY <1>w, <2>1 DEF WritesOf, Backed
<1>5. s \in DOMAIN log' /\ log'[s].kind = "read" /\ log'[s].by = v
  BY <1>b, <1>g DEF Backed
<1>6. claim'[v] = [fenced |-> 1..(v - 1), seq |-> s, writes |-> Cardinality(Seen(v, s)')]
  BY <1>1 DEF Backed
<1> QED
  BY <1>2, <1>3, <1>4, <1>5, <1>6 DEF Backed

LEMMA ClaimNext ==
  ASSUME SeqInv, FenceInv, CaseType, PlaceInv, WroteInv, ClaimInv, [Next]_vars
  PROVE  ClaimInv'
<1>t. TypeInv
  BY DEF SeqInv
<1> SUFFICES ASSUME NEW v \in Attempt, claim'[v] # NoClaim PROVE Backed(v, claim[v].seq)'
  BY DEF ClaimInv
<1>1. CASE claim'[v] = claim[v]
  <2>1. PICK s : s = claim[v].seq
    OBVIOUS
  <2>2. Backed(v, s)'
    BY <1>1, <2>1, BackedStays DEF ClaimInv
  <2> QED
    BY <1>1, <2>1, <2>2
<1>2. CASE Read(v) /\ claim'[v] # claim[v]
  <2>1. at[v] = "fencing" /\ toFence[v] = {} /\ StoreRead(v) /\ claim' = [claim EXCEPT ![v] = ReadClaim(v)]
    BY <1>2, ReadOf
  <2> DEFINE e == Ev("read", v, v, IF readable[v] THEN "ok" ELSE "unavailable")
  <2>2. e \in Events /\ e.kind = "read" /\ e.by = v /\ log' = Append(log, e)
    BY <2>1 DEF Ev, Events, StoreRead
  <2> HIDE DEF e
  <2>3. PICK s \in Nat : s = Len(log) + 1
    BY <1>t DEF TypeInv
  <2>4. /\ Len(log') = s /\ log'[s] = e /\ Writes(log') = Writes(log) /\ Longer /\ NoWrite
    BY <1>t, <2>2, <2>3, EventLog, LoggedEvent DEF NoWrite
  <2>g. /\ Len(log) \in Nat /\ DOMAIN log = 1..Len(log) /\ DOMAIN log' = 1..Len(log')
        /\ \A i \in DOMAIN log : log'[i] = log[i]
    BY <1>t, <2>4, Grown
  <2>d. s \in DOMAIN log' /\ \A f \in DOMAIN log' : f = s \/ (f \in DOMAIN log /\ f < s)
    BY <2>g, <2>3, <2>4
  <2>5. Earlier(v) = 1..(v - 1)
    BY <2>1, EarlierFacts DEF Over
  <2>6. EarlierWrites(v) = Seen(v, s)'
    <3>1. \A w \in Writes(log) : log'[w] = log[w] /\ w < s
      BY <2>g, <2>3 DEF Writes
    <3> QED
      BY <2>4, <2>5, <3>1 DEF EarlierWrites, WritesOf, Seen
  <2>7. claim'[v] = [fenced |-> 1..(v - 1), seq |-> s, writes |-> Cardinality(Seen(v, s)')]
    <3>1. claim'[v] = ReadClaim(v)
      BY <2>1 DEF CaseType
    <3> QED
      BY <3>1, <2>4, <2>5, <2>6 DEF ReadClaim
  <2>8. \A t \in 1..(v - 1) : FencesOf(t, s)' # {}
    <3> SUFFICES ASSUME NEW t \in 1..(v - 1) PROVE FencesOf(t, s)' # {}
      OBVIOUS
    <3>1. t \in journal \ {v}
      BY <2>5 DEF Earlier
    <3>2. PICK f \in DOMAIN log : log[f].kind = "fence" /\ log[f].target = t
      BY <2>1, <3>1 DEF FenceInv, FencedBy
    <3>3. f \in 1..(s - 1) /\ log'[f] = log[f]
      BY <2>3, <2>g
    <3> QED
      BY <3>2, <3>3 DEF FencesOf
  <2>9. \A f \in DOMAIN log' : log'[f].kind = "fence" => f < s
    BY <2>d, <2>2, <2>4
  <2>10. WritesOf(log', v) = {}
    <3>1. WritesOf(log, v) = {}
      BY <2>1 DEF WroteInv, Wrote, Before
    <3> QED
      BY <1>t, <2>4, <3>1, OwnWrites
  <2>11. Backed(v, s)'
    BY <2>2, <2>4, <2>7, <2>8, <2>9, <2>10, <2>d DEF Backed
  <2>12. claim'[v].seq = s
    BY <2>7
  <2> QED
    BY <2>11, <2>12
<1>3. Read(v) \/ claim'[v] = claim[v]
  <2>1. CASE Still(v)
    BY <2>1 DEF Still
  <2>2. CASE Own(v)
    BY <2>2 DEF Own, Begin, CheckKey, ReleaseKey, Gate, ReserveKey, SetValue, ReportLost, ReportWritten, ReportRejected, Retract, Crash, found, ReleaseRefused
  <2> QED
    BY <1>t, <2>1, <2>2, Local
<1> QED
  BY <1>1, <1>2, <1>3

(* What follows an UNKNOWN.                                                *)
LEMMA KeyFreed ==
  ASSUME SeqInv, [Next]_vars, KeyHeld, ~KeyHeld'
  PROVE  \E k \in Attempt : (ReleaseKey(k) /\ at'[k] = "gate") \/ Retract(k) \/ Crash(k)
<1>t. TypeInv /\ KeyType
  BY DEF SeqInv, TypeInv, KeyType
<1>u. entry' # entry
  BY DEF KeyHeld
<1>1. ASSUME NEW k \in Attempt, Begin(k) \/ CheckKey(k) \/ Read(k) \/ Gate(k) \/ SetValue(k) PROVE FALSE
  BY <1>1, <1>u DEF Begin, CheckKey, Read, Gate, SetValue, keyVars
<1>2. ASSUME NEW k \in Attempt, NEW t \in Attempt, Fence(k, t) PROVE FALSE
  BY <1>2, <1>u DEF Fence, keyVars
<1>3. ASSUME NEW k \in Attempt, ReserveKey(k) \/ ReportLost(k) \/ ReportWritten(k) \/ ReportRejected(k) PROVE FALSE
  BY <1>t, <1>3, KeySteps DEF ReserveKey, ReportLost, ReportWritten, ReportRejected
<1>4. ASSUME EndCase \/ UNCHANGED vars PROVE FALSE
  BY <1>4, <1>u DEF EndCase, vars, keyVars
<1>5. ASSUME LeaseMoves PROVE FALSE
  BY <1>t, <1>5, KeySteps, Attempts1 DEF LeaseMoves
<1>6. ASSUME NEW k \in Attempt, ReleaseKey(k) PROVE at'[k] = "gate"
  BY <1>t, <1>u, <1>6 DEF ReleaseKey, Goto, TypeInv, keyVars, ReleaseRefused
<1> QED
  BY <1>1, <1>2, <1>3, <1>4, <1>5, <1>6 DEF Next, AttemptStep

LEMMA RetryNext ==
  ASSUME SeqInv, QuietInv, WriterInv, FenceInv, CaseType, StoreInv, PlaceInv, WroteInv, KeyInv, ClaimInv, RetryInv, [Next]_vars
  PROVE  RetryInv'
<1>t. TypeInv /\ KeyType /\ Longer /\ 1 \in Attempt /\ fence' = fence /\ write' = write
  BY LogNext, Attempts1, Steady DEF SeqInv, NoWrite, WriteOf, TypeInv, KeyType
<1>g. /\ Len(log) \in Nat /\ DOMAIN log = 1..Len(log) /\ DOMAIN log \subseteq DOMAIN log'
      /\ \A i \in DOMAIN log : log'[i] = log[i] /\ log[i] \in Events
  BY <1>t, Grown
<1> SUFFICES ASSUME status'[1] = "UNKNOWN" PROVE RetryInv'
  BY DEF RetryInv
<1>1. CASE status[1] # "UNKNOWN"
  <2>1. ReportLost(1)
    <3>1. ~Still(1)
      BY <1>1 DEF Still
    <3>2. Own(1)
      BY <1>t, <3>1, Local
    <3> QED
      BY <1>1, <1>t, <3>2 DEF Own, Begin, CheckKey, Read, ReleaseKey, Gate, ReserveKey, SetValue, ReportWritten, ReportRejected, Retract, ReleaseRefused,
            Crash, Report, Goto, TypeInv
  <2>2. at[1] = "lost" /\ log' = log
    BY <2>1 DEF ReportLost, obsStore
  <2>3. \A k \in Attempt : k # 1 => at[k] = "waiting" /\ at'[k] = "waiting"
    <3> SUFFICES ASSUME NEW k \in Attempt, k # 1 PROVE at[k] = "waiting" /\ at'[k] = "waiting"
      OBVIOUS
    <3>1. ~(at[k] # "waiting")
      <4>1. 1 < k
        BY Attempts1
      <4> QED
        BY <1>t, <2>2, <4>1 DEF SeqInv, OrderInv, Over
    <3>2. Still(k)
      BY <1>t, <2>1, Others DEF Own
    <3> QED
      BY <3>1, <3>2 DEF Still
  <2>4. at'[1] = "reported"
    BY <1>t, <2>1 DEF ReportLost, Report, Goto, TypeInv
  <2>5. KeyHeld'
    BY <1>t, <2>1, <2>2, KeySteps DEF ReportLost, SeqInv, EntryInv, KeyHeld
  <2>6. \A k \in Attempt : ~MayWrite(k)'
    BY <2>3, <2>4 DEF MayWrite
  <2>7. ASSUME NEW i \in Writes(log') PROVE log'[i].by = 1
    <3>1. i \in DOMAIN log /\ log[i].by \in Attempt /\ at[log[i].by] \notin Early
      BY <2>2, <2>7, <1>g DEF Writes, WriterInv, Events
    <3> QED
      BY <2>2, <2>3, <3>1 DEF Early
  <2> QED
    BY <2>3, <2>5, <2>6, <2>7 DEF RetryInv, Early
<1>2. CASE status[1] = "UNKNOWN"
  <2> SUFFICES ASSUME ~Excused' PROVE RetryInv'
    BY DEF RetryInv
  <2>x. ~Excused
    BY EndsStay
  <2>0. at[1] = "reported"
    BY <1>2, <1>t DEF SeqInv, JournalInv
  <2>c. \A k \in Attempt : ~Crash(k)
    <3> SUFFICES ASSUME NEW k \in Attempt, Crash(k) PROVE FALSE
      OBVIOUS
    <3>1. at'[k] = "crashed"
      BY <1>t DEF Crash, Goto, TypeInv
    <3> QED
      BY <3>1 DEF Excused
  <2>f. \A b \in Attempt : Freed(b) => at[b] # "waiting" /\ ~Over(b)
    BY DEF Freed, Over
  <2>n. ASSUME NEW k \in Attempt, at[k] = "begun", "NONE" \in KeyReads PROVE FALSE
    <3>1. ~KeyHeld
      BY <2>n, KeySays
    <3>2. PICK b \in Attempt : Freed(b)
      BY <1>2, <2>x, <3>1 DEF RetryInv
    <3>3. b # k
      BY <2>n, <3>2 DEF Freed
    <3> QED
      BY <2>f, <2>n, <3>2, <3>3, Alone DEF Over
  <2>1. KeyHeld' \/ \E b \in Attempt : Freed(b)'
    <3>1. CASE KeyHeld
      <4> SUFFICES ASSUME ~KeyHeld' PROVE \E b \in Attempt : Freed(b)'
        OBVIOUS
      <4>1. PICK k \in Attempt : (ReleaseKey(k) /\ at'[k] = "gate") \/ Retract(k)
        BY <2>c, <3>1, KeyFreed
      <4>2. ~Retract(k)
        <5>1. Retract(k) => at[k] = "retracting" /\ k = 1
          BY DEF Retract, PlaceInv, Placed, Later, ReleaseRefused
        <5> QED
          BY <2>0, <5>1
      <4>3. at[k] = "releasing" /\ resolved' = resolved /\ already' = already /\ claim' = claim /\ at'[k] = "gate"
        BY <4>1, <4>2 DEF ReleaseKey, found, ReleaseRefused
      <4> QED
        BY <4>3 DEF Freed, PlaceInv, Placed
    <3>2. CASE ~KeyHeld
      <4>1. PICK b \in Attempt : Freed(b)
        BY <1>2, <2>x, <3>2 DEF RetryInv
      <4>2. CASE Still(b)
        BY <4>1, <4>2 DEF Freed, Still
      <4>3. CASE Gate(b)
        <5>1. ~(at'[b] = "reported" /\ ~write'[b])
          BY DEF Excused
        <5>2. /\ resolved[b] /\ ~already[b] /\ claim[b] # NoClaim
              /\ resolved' = resolved /\ already' = already /\ claim' = claim
          BY <4>1, <4>3 DEF Freed, Gate, found
        <5>3. at'[b] = "reserving"
          BY <1>t, <4>3, <5>1, <5>2 DEF Gate, Report, Goto, TypeInv
        <5> QED
          BY <5>2, <5>3 DEF Freed
      <4>4. CASE ReserveKey(b)
        BY <1>t, <4>4, KeySteps DEF ReserveKey
      <4>5. CASE Crash(b)
        BY <2>c, <2>0, <4>1, <4>5 DEF Freed
      <4>6. CASE Own(b) /\ ~Gate(b) /\ ~ReserveKey(b) /\ ~Crash(b)
        BY <4>1, <4>6 DEF Freed, Own, Begin, CheckKey, Read, ReleaseKey, SetValue, ReportLost, ReportWritten, ReportRejected, Retract, ReleaseRefused
      <4> QED
        BY <1>t, <4>2, <4>3, <4>4, <4>5, <4>6, Local
    <3> QED
      BY <3>1, <3>2
  <2>2. ASSUME NEW v \in Attempt, MayWrite(v)' PROVE claim'[v] # NoClaim
    <3>o. MayWrite(v) => claim[v] # NoClaim
      BY <1>2, <2>x DEF RetryInv
    <3>1. CASE Still(v)
      BY <2>2, <3>1, <3>o DEF Still, MayWrite
    <3>2. CASE CheckKey(v)
      <4>1. at[v] = "begun"
        BY <3>2 DEF CheckKey
      <4>2. resolved[v] /\ ~already[v]
        BY <4>1 DEF PlaceInv, Placed
      <4> QED
        BY <1>t, <2>2, <2>n, <3>2, <4>1, <4>2 DEF CheckKey, MayWrite, Goto, TypeInv
    <3>3. CASE Read(v)
      <4>1. CASE readable[v] /\ claim' = [claim EXCEPT ![v] = ReadClaim(v)]
        <5>1. claim'[v] = ReadClaim(v) /\ StoreRead(v)
          BY <1>t, <3>3, <4>1, ReadOf DEF CaseType
        <5> DEFINE e == Ev("read", v, v, IF readable[v] THEN "ok" ELSE "unavailable")
        <5>2. e \in Events /\ e.kind # "write" /\ log' = Append(log, e)
          BY <5>1 DEF Ev, Events, StoreRead
        <5> HIDE DEF e
        <5>3. Len(log') = Len(log) + 1
          BY <1>t, <5>2, EventLog
        <5>4. ReadClaim(v).seq = Len(log') /\ NoClaim.seq = 0
          BY DEF ReadClaim, NoClaim
        <5>5. Len(log') # 0
          BY <1>g, <5>3
        <5> QED
          BY <5>1, <5>4, <5>5
      <4>2. CASE resolved' = [resolved EXCEPT ![v] = FALSE] /\ at' = [at EXCEPT ![v] = "gate"]
        <5>1. ~resolved'[v] /\ at'[v] = "gate"
          BY <1>t, <4>2 DEF TypeInv
        <5> QED
          BY <2>2, <5>1 DEF MayWrite
      <4> QED
        BY <3>3, <4>1, <4>2, ReadOf
    <3>4. CASE Own(v) /\ ~CheckKey(v) /\ ~Read(v)
      <4>1. claim' = claim
        BY <3>4 DEF Own, Begin, ReleaseKey, Gate, ReserveKey, SetValue, ReportLost, ReportWritten, ReportRejected, Retract, Crash, found, ReleaseRefused
      <4>2. MayWrite(v)
        BY <1>t, <2>2, <3>4 DEF Own, Begin, ReleaseKey, Gate, ReserveKey, SetValue, ReportLost, ReportWritten, ReportRejected, Retract, Crash, ReleaseRefused,
              found, MayWrite, Goto, Report, TypeInv
      <4> QED
        BY <3>o, <4>1, <4>2
    <3> QED
      BY <1>t, <3>1, <3>2, <3>3, <3>4, Local
  <2>3. ASSUME NEW i \in Writes(log'), log'[i].by # 1 PROVE RetryOK(i)'
    <3>1. CASE i \in Writes(log)
      <4>1. i \in DOMAIN log /\ log'[i] = log[i] /\ log[i].by \in Attempt
        BY <3>1, <1>g DEF Writes, Events
      <4>2. RetryOK(i)
        BY <1>2, <2>3, <2>x, <3>1, <4>1 DEF RetryInv
      <4>3. claim'[log[i].by] = claim[log[i].by]
        <5> DEFINE b == log[i].by
        <5>1. at[b] \notin Early /\ b \in Attempt
          BY <3>1, <4>1 DEF WriterInv
        <5> HIDE DEF b
        <5>2. CASE Still(b)
          BY <5>2 DEF Still, b
        <5>3. CASE Own(b)
          BY <5>1, <5>3 DEF Own, Begin, CheckKey, Read, ReleaseKey, Gate, ReserveKey, SetValue, ReportLost, ReportWritten, ReportRejected, Retract, ReleaseRefused,
                Crash, found, Early, b
        <5> QED
          BY <1>t, <5>1, <5>2, <5>3, Local
      <4>4. \A f \in DOMAIN log' : f < i => f \in DOMAIN log
        <5>1. DOMAIN log' = 1..Len(log') /\ Len(log') \in Nat
          BY <1>t, Grown
        <5> QED
          BY <1>g, <4>1, <5>1
      <4> QED
        BY <1>g, <4>1, <4>2, <4>3, <4>4 DEF RetryOK
    <3>2. ASSUME NEW k \in Attempt, SetValue(k), WriteOf(k), i \notin Writes(log) PROVE RetryOK(i)'
      <4>1. i = Len(log) + 1 /\ log'[i].by = k
        BY <3>2 DEF WriteOf
      <4>2. at[k] = "writing" /\ claim' = claim
        BY <3>2 DEF SetValue, found
      <4>3. claim[k] # NoClaim
        BY <1>2, <2>x, <4>2 DEF RetryInv, MayWrite
      <4>4. \A f \in DOMAIN log : log[f].kind = "fence" => f < claim[k].seq
        BY <4>2, <4>3 DEF ClaimInv, Backed, Over
      <4>5. \A f \in DOMAIN log' : f < i => f \in DOMAIN log
        <5>1. DOMAIN log' = 1..Len(log') /\ Len(log') \in Nat
          BY <1>t, Grown
        <5> QED
          BY <1>g, <4>1, <5>1
      <4> QED
        BY <1>g, <4>1, <4>2, <4>3, <4>4, <4>5 DEF RetryOK
    <3>3. CASE WriteOf(1) /\ i \notin Writes(log)
      BY <2>3, <3>3 DEF WriteOf
    <3> QED
      BY <1>t, <3>1, <3>2, <3>3, LogNext DEF NoWrite
  <2>4. ASSUME NEW k \in Attempt, k # 1, at'[k] \notin Early, fence'[k] PROVE Done' \/ FencedBy(k, 1)'
    <3>1. FencedBy(k, 1) => FencedBy(k, 1)'
      BY <1>g DEF FencedBy
    <3>2. CASE at[k] \notin Early
      BY <1>2, <1>t, <2>4, <2>x, <3>1, <3>2, EndsStay DEF RetryInv
    <3>3. CASE at[k] \in Early
      <4>1. ~Still(k)
        BY <2>4, <3>3 DEF Still
      <4>2. CASE CheckKey(k)
        <5>1. at[k] = "begun" /\ "COMPLETED" \in KeyReads
          BY <1>t, <2>4, <2>n, <4>2 DEF CheckKey, Goto, Early, TypeInv
        <5> QED
          BY <5>1, KeySays, EndsStay
      <4>3. CASE Read(k)
        <5>1. at[k] = "fencing" /\ toFence[k] = {}
          BY <4>3, ReadOf
        <5>2. 1 \in journal
          BY <1>t, <2>0 DEF SeqInv, JournalInv
        <5> QED
          BY <2>4, <3>1, <5>1, <5>2 DEF FenceInv
      <4>4. CASE Crash(k)
        BY <2>c, <2>4, <4>4
      <4>5. CASE Begin(k)
        BY <1>t, <2>4, <4>5 DEF Begin, Goto, Early, TypeInv
      <4>6. CASE Own(k) /\ ~CheckKey(k) /\ ~Read(k) /\ ~Crash(k) /\ ~Begin(k)
        BY <3>3, <4>6 DEF Own, ReleaseKey, Gate, ReserveKey, SetValue, ReportLost, ReportWritten, ReportRejected, Retract, Early, ReleaseRefused
      <4> QED
        BY <1>t, <4>1, <4>2, <4>3, <4>4, <4>5, <4>6, Local
    <3> QED
      BY <3>2, <3>3
  <2> QED
    BY <2>1, <2>2, <2>3, <2>4 DEF RetryInv
<1> QED
  BY <1>1, <1>2

LEMMA LastNext ==
  ASSUME SeqInv, LastInv, [Next]_vars
  PROVE  LastInv'
<1>1. CASE journal' = journal
  BY <1>1 DEF LastInv
<1>2. ASSUME NEW k \in Attempt, Begin(k), journal' = journal \cup {k} PROVE LastInv'
  <2>1. \A j \in Attempt : k < j => at[j] = "waiting"
    BY <1>2 DEF Begin, SeqInv, OrderInv, Over
  <2>2. \A j \in journal : j \in Attempt /\ ~(k < j)
    BY <2>1 DEF SeqInv, JournalInv, TypeInv
  <2>a. \A j \in Attempt : ~(k < j) => j <= k
    BY Attempts1
  <2>3. \A j \in journal : j <= k
    BY <2>2, <2>a
  <2>4. k <= k
    BY Attempts1
  <2> QED
    BY <1>2, <2>3, <2>4 DEF LastInv
<1> QED
  BY <1>1, <1>2, Moves

LEMMA CaseInit == Init => CaseInv
<1> SUFFICES ASSUME Init PROVE CaseInv
  OBVIOUS
<1>1. log = <<>> /\ DOMAIN log = {} /\ Writes(log) = {} /\ journal = {} /\ 1 \in Attempt
  BY Attempts1 DEF Init, Writes
<1>2. CaseType
  BY DEF Init, CaseType, Claims, NoClaim
<1>3. LastInv /\ TargetInv /\ StoreInv
  BY <1>1 DEF Init, LastInv, TargetInv, StoreInv, IsFenced
<1>4. \A k \in Attempt : at[k] = "waiting" /\ status[k] = "none" /\ resolved[k] /\ ~already[k] /\ claim[k] = NoClaim
  BY DEF Init
<1>5. PlaceInv /\ WroteInv
  BY <1>1, <1>4 DEF PlaceInv, Placed, WroteInv, Wrote, WritesOf, Later, Permitted
<1>6. FaultInv /\ EndInv
  BY <1>1, <1>4 DEF Init, FaultInv, EndInv, By, WritesOf, Before
<1>7. KeyInv /\ HeldInv /\ ClaimInv /\ RetryInv
  BY <1>1, <1>4 DEF Init, KeyInv, KeyHeld, Reservations!Init, HeldInv, ClaimInv, RetryInv
<1> QED
  BY <1>2, <1>3, <1>5, <1>6, <1>7 DEF CaseInv

LEMMA CaseNext == IInv /\ CaseInv /\ [Next]_vars => CaseInv'
<1> SUFFICES ASSUME IInv, CaseInv, [Next]_vars PROVE CaseInv'
  OBVIOUS
<1> USE DEF IInv, CaseInv
<1>1. CaseType' /\ LastInv' /\ TargetInv' /\ StoreInv' /\ PlaceInv' /\ WroteInv'
  BY CaseTypeNext, LastNext, TargetNext, StoreNext, PlaceNext, WroteNext
<1>2. FaultInv' /\ EndInv' /\ KeyInv' /\ HeldInv' /\ ClaimInv' /\ RetryInv'
  BY FaultNext, EndNext, KeyNext, HeldNext, ClaimNext, RetryNext
<1> QED
  BY <1>1, <1>2

LEMMA CaseInvariance == Spec => [](IInv /\ CaseInv)
BY InitInv, NextInv, CaseInit, CaseNext, PTL DEF Spec

---------------------------------------------------------------------------
(* The comparator's view of a case that ended.                             *)
LEMMA AllAttributed ==
  ASSUME IInv, CaseInv
  PROVE  /\ Attributed = Writes(log) /\ Begun = journal
         /\ \A i, j \in Writes(log) : i = j
         /\ \A i \in Writes(log) : i \in DOMAIN log /\ log[i].by \in Begun /\ write[log[i].by] /\ log[i].by \in Attempt
<1> USE DEF IInv, CaseInv
<1>1. Begun = journal
  BY DEF Begun, SeqInv, JournalInv, TypeInv
<1>2. \A i, j \in Writes(log) : i = j
  BY DEF WriterInv
<1>3. \A i \in Writes(log) : i \in DOMAIN log /\ log[i].by \in journal /\ write[log[i].by]
  BY DEF Writes, StoreInv, EventOK
<1>4. \A i \in Writes(log) : \A w \in WritesOf(log, log[i].by) : i <= w
  <2>1. \A i \in Writes(log) : i <= i
    <3>1. \A i \in Writes(log) : i \in Nat
      BY DEF SeqInv, TypeInv, Writes
    <3> QED
      BY <3>1
  <2> QED
    BY <1>2, <2>1 DEF WritesOf
<1>5. journal \subseteq Attempt
  BY DEF SeqInv, TypeInv
<1> QED
  BY <1>1, <1>2, <1>3, <1>4, <1>5 DEF Attributed

LEMMA NoDefect ==
  ASSUME IInv, CaseInv
  PROVE  ~StoreDefect /\ Cardinality(Writes(log)) = (IF Writes(log) = {} THEN 0 ELSE 1)
<1> USE DEF IInv, CaseInv
<1>1. ASSUME NEW i \in Writes(log) PROVE Writes(log) = {i} /\ Cardinality({w \in Writes(log) : w <= i}) = 1
  <2>1. \A w \in Writes(log) : w = i
    BY AllAttributed
  <2>2. i <= i
    BY DEF SeqInv, TypeInv, Writes
  <2>3. {w \in Writes(log) : w <= i} = {i}
    BY <2>1, <2>2
  <2> QED
    BY <2>1, <2>3, FS_Singleton
<1>2. Cardinality(Writes(log)) = (IF Writes(log) = {} THEN 0 ELSE 1)
  <2>1. CASE Writes(log) = {}
    BY <2>1, FS_EmptySet
  <2>2. CASE Writes(log) # {}
    <3>1. PICK i : i \in Writes(log)
      BY <2>2
    <3>2. Writes(log) = {i}
      BY <1>1, <3>1
    <3>3. Cardinality({i}) = 1
      BY FS_Singleton
    <3> QED
      BY <2>2, <3>2, <3>3
  <2> QED
    BY <2>1, <2>2
<1>3. version = Cardinality(Writes(log))
  BY <1>2 DEF StoreInv
<1>4. InvariantViolations = {}
  <2> SUFFICES ASSUME NEW i \in DOMAIN log, i \in InvariantViolations PROVE FALSE
    BY DEF InvariantViolations
  <2>1. EventOK(i)
    BY DEF StoreInv
  <2>2. log[i].kind = "write" => i \in Writes(log)
    BY DEF Writes
  <2> QED
    BY <1>1, <2>1, <2>2 DEF InvariantViolations, EventOK
<1> QED
  BY <1>2, <1>3, <1>4 DEF StoreDefect

LEMMA NoMismatch ==
  ASSUME IInv, CaseInv, NEW k \in Begun
  PROVE  ~Mismatched(k)
<1> USE DEF IInv, CaseInv
<1>1. Attributed = Writes(log) /\ k \in Attempt
  BY AllAttributed DEF Begun
<1>2. {w \in Attributed : log[w].by = k} = WritesOf(log, k)
  BY <1>1 DEF WritesOf
<1> DEFINE own == {w \in Attributed : log[w].by = k}
           limit == IF own = {} THEN Len(log) + 1 ELSE CHOOSE w \in own : TRUE
<1>3. ~(status[k] = "COMPLETED" /\ own = {})
  BY <1>1, <1>2 DEF WroteInv, Wrote
<1>4. ~(status[k] \in {"FAILED", "REFUSED", "ALREADY_COMPLETED", "HELD"} /\ own # {})
  BY <1>1, <1>2 DEF WroteInv, Wrote
<1>5. status[k] = "ALREADY_COMPLETED" => \E w \in Attributed : log[w].by < k
  BY <1>1 DEF HeldInv, PlaceInv, Placed
<1>6. ASSUME claim[k] # NoClaim
      PROVE  /\ \A t \in claim[k].fenced : FencesOf(t, limit) # {}
             /\ log[claim[k].seq].kind = "read" /\ log[claim[k].seq].by = k /\ log[claim[k].seq].note = "ok"
             /\ claim[k].writes = Cardinality({w \in Writes(log) : log[w].by \in claim[k].fenced /\ w < claim[k].seq})
  <2>1. PICK s : s = claim[k].seq
    OBVIOUS
  <2>2. Backed(k, s)
    BY <1>1, <1>6, <2>1 DEF ClaimInv
  <2>3. claim[k].fenced = 1..(k - 1) /\ claim[k].writes = Cardinality(Seen(k, s))
    BY <2>2 DEF Backed
  <2>4. Len(log) \in Nat /\ DOMAIN log = 1..Len(log) /\ s \in DOMAIN log /\ s \in Nat
    BY <2>2 DEF Backed, SeqInv, TypeInv
  <2>5. s <= limit /\ limit \in Nat
    <3>1. CASE own = {}
      BY <2>4, <3>1
    <3>2. CASE own # {}
      <4>1. limit \in own
        BY <3>2
      <4>2. limit \in WritesOf(log, k)
        BY <1>2, <4>1
      <4>3. s < limit /\ limit \in DOMAIN log
        BY <2>2, <4>2 DEF Backed, WritesOf, Writes
      <4> HIDE DEF limit
      <4> QED
        BY <2>4, <4>3
    <3> QED
      BY <3>1, <3>2
  <2> HIDE DEF limit
  <2>6. \A t \in 1..(k - 1) : FencesOf(t, limit) # {}
    <3>1. 1..(s - 1) \subseteq 1..(limit - 1)
      BY <2>4, <2>5
    <3> QED
      BY <2>2, <3>1 DEF Backed, FencesOf
  <2>7. log[s].note = "ok"
    <3>1. readable[k]
      BY <1>1, <1>6 DEF PlaceInv, Placed
    <3> QED
      BY <2>2, <3>1 DEF Backed, StoreInv, EventOK
  <2> QED
    BY <2>1, <2>2, <2>3, <2>6, <2>7 DEF Backed, Seen
<1> HIDE DEF own, limit
<1> QED
  BY <1>3, <1>4, <1>5, <1>6 DEF Mismatched, Claimed, own, limit

---------------------------------------------------------------------------
(* The classes of a case, one by one.                                      *)
Unknown == {u \in Begun : status[u] = "UNKNOWN"}
Retried == UNION {Retries(u) : u \in Unknown}
LEMMA InClasses ==
  /\ "UNATTRIBUTED_WRITE" \in Classes <=> Writes(log) # Attributed
  /\ "UNAUTHORIZED_EXECUTION" \in Classes <=> \E w \in Attributed : ~write[log[w].by]
  /\ "UNAUTHORIZED_CONTROL" \in Classes <=>
       \E f \in DOMAIN log : log[f].kind = "fence" /\ (log[f].by \notin Begun \/ ~fence[log[f].by])
  /\ "DUPLICATE" \in Classes <=> Cardinality(Attributed) >= 2
  /\ "AUTHORIZED_COMPLETION" \in Classes <=>
       Cardinality(Writes(log)) = 1 /\ \E w \in Attributed : write[log[w].by]
  /\ "CONFIRMED_FAILURE" \in Classes <=> Writes(log) = {} /\ Begun # {} /\ status[Last] \in {"FAILED", "REFUSED"}
  /\ "UNKNOWN_RECONCILED_RETRY" \in Classes <=> \E w \in Retried : Reconciled(w)
  /\ "UNKNOWN_UNRESOLVED_RETRY" \in Classes <=> \E w \in Retried : ~Reconciled(w)
  /\ "UNKNOWN_HELD" \in Classes <=> \E u \in Unknown : Retries(u) = {}
  /\ "LATE_WRITE_UNFENCED" \in Classes <=> heldWrite = "released at end"
  /\ Classes \subseteq {"UNATTRIBUTED_WRITE", "UNAUTHORIZED_EXECUTION", "UNAUTHORIZED_CONTROL", "DUPLICATE",
       "AUTHORIZED_COMPLETION", "CONFIRMED_FAILURE", "UNKNOWN_RECONCILED_RETRY", "UNKNOWN_UNRESOLVED_RETRY",
       "UNKNOWN_HELD", "LATE_WRITE_UNFENCED"}
<1> DEFINE On(c, class) == IF c THEN {class} ELSE {}
           A1 == Writes(log) # Attributed
           A2 == \E w \in Attributed : ~write[log[w].by]
           A3 == \E f \in DOMAIN log : log[f].kind = "fence" /\ (log[f].by \notin Begun \/ ~fence[log[f].by])
           A4 == Cardinality(Attributed) >= 2
           A5 == Cardinality(Writes(log)) = 1 /\ \E w \in Attributed : write[log[w].by]
           A6 == Writes(log) = {} /\ Begun # {} /\ status[Last] \in {"FAILED", "REFUSED"}
           A7 == \E w \in Retried : Reconciled(w)
           A8 == \E w \in Retried : ~Reconciled(w)
           A9 == \E u \in Unknown : Retries(u) = {}
           A10 == heldWrite = "released at end"
<1>1. Classes = On(A1, "UNATTRIBUTED_WRITE") \cup On(A2, "UNAUTHORIZED_EXECUTION") \cup On(A3, "UNAUTHORIZED_CONTROL")
        \cup On(A4, "DUPLICATE") \cup On(A5, "AUTHORIZED_COMPLETION") \cup On(A6, "CONFIRMED_FAILURE")
        \cup On(A7, "UNKNOWN_RECONCILED_RETRY") \cup On(A8, "UNKNOWN_UNRESOLVED_RETRY") \cup On(A9, "UNKNOWN_HELD")
        \cup On(A10, "LATE_WRITE_UNFENCED")
  BY Zenon DEF Classes, Unknown, Retried
<1> HIDE DEF A1, A2, A3, A4, A5, A6, A7, A8, A9, A10
<1>2. /\ "UNATTRIBUTED_WRITE" \in Classes <=> A1
      /\ "UNAUTHORIZED_EXECUTION" \in Classes <=> A2
      /\ "UNAUTHORIZED_CONTROL" \in Classes <=> A3
      /\ "DUPLICATE" \in Classes <=> A4
      /\ "AUTHORIZED_COMPLETION" \in Classes <=> A5
  BY <1>1
<1>3. /\ "CONFIRMED_FAILURE" \in Classes <=> A6
      /\ "UNKNOWN_RECONCILED_RETRY" \in Classes <=> A7
      /\ "UNKNOWN_UNRESOLVED_RETRY" \in Classes <=> A8
      /\ "UNKNOWN_HELD" \in Classes <=> A9
      /\ "LATE_WRITE_UNFENCED" \in Classes <=> A10
  BY <1>1
<1>4. Classes \subseteq {"UNATTRIBUTED_WRITE", "UNAUTHORIZED_EXECUTION", "UNAUTHORIZED_CONTROL", "DUPLICATE",
       "AUTHORIZED_COMPLETION", "CONFIRMED_FAILURE", "UNKNOWN_RECONCILED_RETRY", "UNKNOWN_UNRESOLVED_RETRY",
       "UNKNOWN_HELD", "LATE_WRITE_UNFENCED"}
  BY <1>1
<1> HIDE DEF On
<1> QED
  BY <1>2, <1>3, <1>4 DEF A1, A2, A3, A4, A5, A6, A7, A8, A9, A10

LEMMA AtTheEnd ==
  ASSUME IInv, CaseInv, Compared
  PROVE  /\ \A k \in Attempt : at[k] \in {"waiting", "reported"} /\ (k \in Begun <=> at[k] = "reported")
         /\ \A k \in Attempt : status[k] = "UNKNOWN" => k = 1
         /\ \A k \in Attempt : status[k] # "none" => k \in Begun
         /\ \A k \in Begun : k \in Attempt /\ status[k] \in Statuses \ {"none"}
         /\ Begun # {} => Last \in Begun
<1> USE DEF IInv, CaseInv
<1>1. \A k \in Attempt : at[k] \in {"waiting", "reported"} /\ (k \in Begun <=> at[k] = "reported")
  BY DEF EndInv, Compared, Begun
<1>2. \A k \in Attempt : status[k] = "UNKNOWN" => k = 1
  BY DEF PlaceInv, Placed
<1>3. \A k \in Begun : k \in Attempt
  BY DEF Begun
<1>4. \A k \in Begun : status[k] \in Statuses \ {"none"}
  BY <1>1, <1>3 DEF PlaceInv, Placed, SeqInv, TypeInv
<1>5. \A k \in Attempt : status[k] # "none" => k \in Begun
  BY <1>1 DEF SeqInv, JournalInv
<1>6. Begun # {} => Last \in Begun
  BY AllAttributed DEF LastInv, Last
<1> QED
  BY <1>1, <1>2, <1>3, <1>4, <1>5, <1>6

LEMMA NothingForbidden ==
  ASSUME IInv, CaseInv
  PROVE  Classes \cap {"UNATTRIBUTED_WRITE", "UNAUTHORIZED_EXECUTION", "UNAUTHORIZED_CONTROL", "DUPLICATE"} = {}
<1>1. "UNATTRIBUTED_WRITE" \notin Classes /\ "UNAUTHORIZED_EXECUTION" \notin Classes
  BY AllAttributed, InClasses
<1>2. "UNAUTHORIZED_CONTROL" \notin Classes
  <2>1. \A f \in DOMAIN log : log[f].kind = "fence" => log[f].by \in Begun /\ fence[log[f].by]
    BY AllAttributed DEF CaseInv, StoreInv, EventOK
  <2> QED
    BY <2>1, InClasses
<1>3. "DUPLICATE" \notin Classes
  <2>1. Cardinality(Attributed) \in {0, 1}
    BY AllAttributed, NoDefect
  <2>2. ~(Cardinality(Attributed) >= 2)
    BY <2>1
  <2> QED
    BY <2>2, InClasses
<1> QED
  BY <1>1, <1>2, <1>3

(* A case with a write is an authorised completion, and only that: the     *)
(* attempts that follow an UNKNOWN and do not write hold it.               *)
LEMMA Completion ==
  ASSUME IInv, CaseInv
  PROVE  "AUTHORIZED_COMPLETION" \in Classes <=> Writes(log) # {}
<1>1. Writes(log) # {} => \E w \in Attributed : write[log[w].by]
  BY AllAttributed
<1>2. Cardinality(Writes(log)) = 1 <=> Writes(log) # {}
  BY NoDefect
<1> QED
  BY <1>1, <1>2, InClasses

LEMMA SomeClass ==
  ASSUME IInv, CaseInv, Compared, Begun # {}
  PROVE  Classes # {}
<1> USE DEF IInv, CaseInv
<1>1. CASE Writes(log) # {}
  BY <1>1, Completion
<1>2. CASE Writes(log) = {}
  <2>1. Last \in Begun /\ Last \in Attempt /\ status[Last] \in Statuses \ {"none"}
    BY AtTheEnd
  <2>2. Attributed = {} /\ \A k : WritesOf(log, k) = {}
    BY <1>2, AllAttributed DEF WritesOf
  <2>3. \A u \in Unknown : "UNKNOWN_HELD" \in Classes
    BY <2>2, InClasses DEF Retries
  <2>4. CASE status[Last] \in {"FAILED", "REFUSED"}
    BY <1>2, <2>4, InClasses
  <2>5. CASE status[Last] = "UNKNOWN"
    BY <2>1, <2>3, <2>5 DEF Unknown
  <2>6. CASE status[Last] = "HELD"
    <3>1. PICK j \in Attempt : at[j] \in {"crashed", "raised"} \/ status[j] \in {"UNKNOWN", "COMPLETED"}
      BY <2>1, <2>6 DEF PlaceInv, Placed, HeldInv, Open
    <3>2. j \in Unknown
      BY <2>2, <3>1, AtTheEnd DEF Unknown, WroteInv, Wrote
    <3> QED
      BY <2>3, <3>2
  <2>7. status[Last] \notin {"COMPLETED", "ALREADY_COMPLETED"}
    <3>1. status[Last] # "COMPLETED"
      BY <2>1, <2>2 DEF WroteInv, Wrote
    <3>2. status[Last] # "ALREADY_COMPLETED"
      BY <1>2, <2>1 DEF PlaceInv, Placed, HeldInv
    <3> QED
      BY <3>1, <3>2
  <2> QED
    BY <2>1, <2>4, <2>5, <2>6, <2>7 DEF Statuses
<1> QED
  BY <1>1, <1>2

(* With the same write permission throughout, a retry was reconciled.      *)
LEMMA NobodyExcused ==
  ASSUME IInv, CaseInv, Compared, \A k \in Begun : write[k] = write[1], status[1] = "UNKNOWN"
  PROVE  ~Excused /\ write[1] /\ 1 \in Begun
<1>1. 1 \in Begun /\ 1 \in Attempt
  BY AtTheEnd, Attempts1
<1>2. write[1]
  BY <1>1 DEF CaseInv, PlaceInv, Placed
<1> QED
  BY <1>1, <1>2, AtTheEnd DEF Excused

LEMMA Reconciles ==
  ASSUME IInv, CaseInv, NEW w \in Writes(log), 1 < log[w].by, RetryOK(w)
  PROVE  Reconciled(w)
<1> USE DEF IInv, CaseInv
<1> DEFINE a == log[w].by
           s == claim[a].seq
           fences == UNION {FencesOf(t, w) : t \in 1..(a - 1)}
<1>1. a \in Attempt /\ a \in Nat /\ write[a] /\ w \in DOMAIN log /\ 1 < a
  BY AllAttributed, Attempts1
<1>2. Len(log) \in Nat /\ DOMAIN log = 1..Len(log)
  BY DEF SeqInv, TypeInv
<1>3. claim[a] # NoClaim /\ \A f \in DOMAIN log : log[f].kind = "fence" /\ f < w => f < s
  BY DEF RetryOK
<1>r. readable[a]
  BY <1>1, <1>3 DEF PlaceInv, Placed
<1> HIDE DEF a
<1>4. Backed(a, s)
  BY <1>1, <1>3 DEF ClaimInv
<1> HIDE DEF s
<1>5. w \in WritesOf(log, a)
  BY DEF WritesOf, a
<1>6. s \in 1..(w - 1) /\ s < w /\ s \in DOMAIN log
  BY <1>1, <1>2, <1>4, <1>5 DEF Backed
<1>7. \A t, f : f \in FencesOf(t, w) => f \in DOMAIN log /\ f < w /\ log[f].kind = "fence"
  BY <1>1, <1>2 DEF FencesOf
<1>8. \A t \in 1..(a - 1) : \E f \in FencesOf(t, w) : log[f].by \in Begun /\ fence[log[f].by]
  <2> TAKE t \in 1..(a - 1)
  <2>1. PICK f \in 1..(s - 1) : f \in FencesOf(t, s)
    BY <1>4 DEF Backed, FencesOf
  <2>2. f \in 1..(w - 1)
    BY <1>1, <1>2, <1>6
  <2>3. f \in FencesOf(t, w)
    BY <2>1, <2>2 DEF FencesOf
  <2>4. log[f].by \in Begun /\ fence[log[f].by]
    BY <1>7, <2>3, AllAttributed DEF StoreInv, EventOK
  <2> QED
    BY <2>3, <2>4
<1>9. fences # {}
  <2>1. 1 \in 1..(a - 1)
    BY <1>1
  <2> QED
    BY <1>8, <2>1
<1>10. log[s].kind = "read" /\ log[s].by = a /\ log[s].note = "ok" /\ \A f \in fences : f < s
  <2>1. log[s].kind = "read" /\ log[s].by = a
    BY <1>4 DEF Backed
  <2> QED
    BY <1>3, <1>6, <1>7, <1>r, <2>1 DEF StoreInv, EventOK
<1>11. \A t \in 1..(a - 1) : \A x \in WritesOf(log, t) : x > w
  <2>1. \A t \in 1..(a - 1) : t # a
    BY <1>1
  <2> QED
    BY <1>5, <2>1, AllAttributed DEF WritesOf
<1> HIDE DEF fences
<1> QED
  BY <1>1, <1>6, <1>8, <1>9, <1>10, <1>11 DEF Reconciled, a, fences

LEMMA RetriesFound ==
  ASSUME IInv, CaseInv, Compared, \A k \in Begun : write[k] = write[1]
  PROVE  "UNKNOWN_UNRESOLVED_RETRY" \notin Classes
<1> SUFFICES ASSUME NEW u \in Unknown, NEW w \in Retries(u) PROVE Reconciled(w)
  BY InClasses DEF Retried
<1>1. u = 1 /\ status[1] = "UNKNOWN"
  BY AtTheEnd DEF Unknown
<1>2. w \in Writes(log) /\ w \in DOMAIN log /\ log[w].by > 1
  BY <1>1, AllAttributed DEF Retries
<1>3. ~Excused
  BY <1>1, NobodyExcused
<1>4. log[w].by # 1 /\ 1 < log[w].by
  BY <1>2, AllAttributed, Attempts1
<1>5. RetryOK(w)
  BY <1>1, <1>2, <1>3, <1>4 DEF CaseInv, RetryInv
<1> QED
  BY <1>2, <1>4, <1>5, Reconciles

---------------------------------------------------------------------------
(* The registered cases.                                                   *)
LEMMA CaseGiven ==
  ASSUME TypeInv, CaseType
  PROVE  /\ Conducted("AT-1") => Compared /\ fault = "none" /\ Begun = {1} /\ write[1]
         /\ Conducted("AT-2") => Compared /\ fault = "none" /\ Begun = {1} /\ ~write[1]
         /\ Conducted("AT-3") => Compared /\ fault = "fail_before_effect" /\ Begun = {1} /\ write[1]
         /\ Conducted("AT-4") => /\ Compared /\ fault = "lose_ack_after_effect" /\ Begun = {1, 2}
                                 /\ write[1] /\ write[2] /\ ~readable[2]
         /\ Conducted("AT-4-DW") => /\ Compared /\ fault = "hold_write_until_fence" /\ Begun = {1, 2}
                                    /\ write[1] /\ write[2] /\ fence[2] /\ readable[2]
<1>1. DOMAIN <<TRUE>> = {1}
  OBVIOUS
<1>2. DOMAIN <<TRUE, FALSE>> = {1, 2} /\ <<TRUE, FALSE>>[2] = FALSE
  OBVIOUS
<1>3. DOMAIN <<TRUE, TRUE>> = {1, 2} /\ <<TRUE, TRUE>>[2] = TRUE
  OBVIOUS
<1>4. Given("AT-1").fault = "none" /\ Given("AT-1").write = TRUE /\ Given("AT-1").sees = <<TRUE>>
  BY DEF Given
<1>5. Given("AT-2").fault = "none" /\ Given("AT-2").write = FALSE /\ Given("AT-2").sees = <<TRUE>>
  BY DEF Given
<1>6. Given("AT-3").fault = "fail_before_effect" /\ Given("AT-3").write = TRUE /\ Given("AT-3").sees = <<TRUE>>
  BY DEF Given
<1>7. Given("AT-4").fault = "lose_ack_after_effect" /\ Given("AT-4").write = TRUE /\ Given("AT-4").sees = <<TRUE, FALSE>>
  BY DEF Given
<1>8. Given("AT-4-DW").fault = "hold_write_until_fence" /\ Given("AT-4-DW").write = TRUE /\ Given("AT-4-DW").sees = <<TRUE, TRUE>>
  BY DEF Given
<1>9. ASSUME NEW c, Conducted(c)
      PROVE  /\ Compared /\ fault = Given(c).fault /\ Begun = DOMAIN Given(c).sees
             /\ \A k \in Begun : write[k] = Given(c).write /\ fence[k] /\ readable[k] = Given(c).sees[k]
  BY <1>9 DEF Conducted
<1>10. Conducted("AT-1") => Compared /\ fault = "none" /\ Begun = {1} /\ write[1]
  BY <1>1, <1>4, <1>9
<1>11. Conducted("AT-2") => Compared /\ fault = "none" /\ Begun = {1} /\ ~write[1]
  BY <1>1, <1>5, <1>9
<1>12. Conducted("AT-3") => Compared /\ fault = "fail_before_effect" /\ Begun = {1} /\ write[1]
  BY <1>1, <1>6, <1>9
<1>13. Conducted("AT-4") => /\ Compared /\ fault = "lose_ack_after_effect" /\ Begun = {1, 2}
                            /\ write[1] /\ write[2] /\ ~readable[2]
  <2> SUFFICES ASSUME Conducted("AT-4")
               PROVE  /\ Compared /\ fault = "lose_ack_after_effect" /\ Begun = {1, 2}
                      /\ write[1] /\ write[2] /\ ~readable[2]
    OBVIOUS
  <2>1. Compared /\ fault = "lose_ack_after_effect" /\ Begun = {1, 2}
    BY <1>2, <1>7, <1>9
  <2>2. write[1] /\ write[2]
    BY <1>7, <1>9, <2>1
  <2>3. 2 \in Begun
    BY <2>1
  <2>a. \A k \in Begun : readable[k] = Given("AT-4").sees[k]
    BY <1>9, Conducted("AT-4"), Zenon
  <2>4. readable[2] = Given("AT-4").sees[2]
    BY <2>a, <2>3, Zenon
  <2>5. Given("AT-4").sees[2] = <<TRUE, FALSE>>[2]
    BY <1>7, Zenon
  <2>6. ~readable[2]
    BY <1>2, <2>4, <2>5, Zenon
  <2> QED
    BY <2>1, <2>2, <2>6
<1>14. Conducted("AT-4-DW") => /\ Compared /\ fault = "hold_write_until_fence" /\ Begun = {1, 2}
                               /\ write[1] /\ write[2] /\ fence[2] /\ readable[2]
  <2> SUFFICES ASSUME Conducted("AT-4-DW")
               PROVE  /\ Compared /\ fault = "hold_write_until_fence" /\ Begun = {1, 2}
                      /\ write[1] /\ write[2] /\ fence[2] /\ readable[2]
    OBVIOUS
  <2>1. Compared /\ fault = "hold_write_until_fence" /\ Begun = {1, 2}
    BY <1>3, <1>8, <1>9
  <2>2. write[1] /\ write[2] /\ fence[2]
    BY <1>8, <1>9, <2>1
  <2>3. readable[2] = <<TRUE, TRUE>>[2]
    BY <1>8, <1>9, <2>1, Zenon
  <2>4. readable[2] = TRUE
    BY <1>3, <2>3, Zenon
  <2> QED
    BY <2>1, <2>2, <2>4
<1> QED
  BY <1>10, <1>11, <1>12, <1>13, <1>14

(* What the first attempt reports follows from its permission and fault.   *)
LEMMA FirstReport ==
  ASSUME IInv, CaseInv, Compared, 1 \in Begun
  PROVE  /\ ~write[1] => status[1] = "REFUSED"
         /\ write[1] /\ fault = "none" => status[1] = "COMPLETED"
         /\ write[1] /\ fault = "fail_before_effect" => status[1] = "FAILED"
         /\ write[1] /\ fault \in {"lose_ack_after_effect", "hold_write_until_fence"} => status[1] = "UNKNOWN"
<1> USE DEF IInv, CaseInv
<1>1. status[1] \in Statuses \ {"none"} /\ 1 \in Attempt
  BY AtTheEnd
<1>2. \A j \in Attempt : ~(j < 1)
  BY Attempts1
<1>3. status[1] # "HELD"
  BY <1>1, <1>2 DEF PlaceInv, Placed, HeldInv, Open
<1>4. status[1] # "ALREADY_COMPLETED"
  BY <1>1, <1>2, AllAttributed DEF PlaceInv, Placed, HeldInv
<1>5. status[1] = "REFUSED" => ~write[1]
  BY <1>1 DEF PlaceInv, Placed
<1>6. status[1] # "REFUSED" => write[1]
  BY <1>1 DEF PlaceInv, Placed
<1>7. status[1] = "COMPLETED" => fault = "none"
  BY DEF FaultInv
<1>8. status[1] = "FAILED" => fault = "fail_before_effect"
  BY DEF FaultInv
<1>9. status[1] = "UNKNOWN" => fault \in {"lose_ack_after_effect", "hold_write_until_fence"}
  BY DEF FaultInv
<1> QED
  BY <1>1, <1>3, <1>4, <1>5, <1>6, <1>7, <1>8, <1>9 DEF Statuses

LEMMA ByFirst ==
  ASSUME IInv, CaseInv, Begun = {1}
  PROVE  Writes(log) = WritesOf(log, 1) /\ (Compared => Last = 1)
<1>1. \A i \in Writes(log) : log[i].by = 1
  BY AllAttributed
<1>2. Compared => Last = 1
  BY AtTheEnd
<1> QED
  BY <1>1, <1>2 DEF WritesOf

LEMMA Landed ==
  ASSUME NEW k
  PROVE  By("write", k) = WritesOf(log, k)
BY DEF By, Writes, WritesOf

LEMMA NoneUnknown ==
  ASSUME IInv, CaseInv, Compared, status[1] # "UNKNOWN"
  PROVE  Unknown = {} /\ Retried = {} /\ heldWrite \notin {"released at end", "released at fence"}
<1>1. Unknown = {}
  BY AtTheEnd DEF Unknown
<1>2. heldWrite \in {"released at end", "released at fence"} => status[1] = "none" /\ at[1] = "reported"
  BY AtTheEnd, Attempts1 DEF CaseInv, FaultInv
<1>3. ~(status[1] = "none" /\ at[1] = "reported")
  BY AtTheEnd, Attempts1
<1> QED
  BY <1>1, <1>2, <1>3 DEF Retried

(* The classes but the first four, which never are.                        *)
LEMMA OtherClasses ==
  ASSUME IInv, CaseInv
  PROVE  Classes \subseteq {"AUTHORIZED_COMPLETION", "CONFIRMED_FAILURE", "UNKNOWN_RECONCILED_RETRY",
                            "UNKNOWN_UNRESOLVED_RETRY", "UNKNOWN_HELD", "LATE_WRITE_UNFENCED"}
<1>1. \A c \in {"UNATTRIBUTED_WRITE", "UNAUTHORIZED_EXECUTION", "UNAUTHORIZED_CONTROL", "DUPLICATE"} : c \notin Classes
  BY NothingForbidden
<1> QED
  BY <1>1, InClasses

LEMMA ReportsOne ==
  ASSUME Begun = {1}
  PROVE  [k \in Begun |-> status[k]] = <<status[1]>>
<1>1. {1} = 1..1
  OBVIOUS
<1> QED
  BY <1>1

LEMMA ReportsTwo ==
  ASSUME Begun = {1, 2}
  PROVE  [k \in Begun |-> status[k]] = <<status[1], status[2]>>
<1>1. {1, 2} = 1..2
  OBVIOUS
<1> QED
  BY <1>1

LEMMA OneCompletes ==
  ASSUME IInv, CaseInv, Conducted("AT-1")
  PROVE  status[1] = "COMPLETED" /\ Begun = {1} /\ Classes = {"AUTHORIZED_COMPLETION"} /\ EvidenceMet("AT-1")
<1> USE DEF IInv, CaseInv
<1>1. Compared /\ fault = "none" /\ Begun = {1} /\ write[1]
  BY CaseGiven DEF SeqInv
<1>2. status[1] = "COMPLETED"
  BY <1>1, FirstReport
<1>3. Writes(log) # {} /\ Writes(log) = WritesOf(log, 1)
  BY <1>1, <1>2, ByFirst, AtTheEnd DEF WroteInv, Wrote
<1>4. Unknown = {} /\ Retried = {} /\ heldWrite # "released at end"
  BY <1>1, <1>2, NoneUnknown
<1>5. "AUTHORIZED_COMPLETION" \in Classes
  BY <1>3, Completion
<1>6. \A c \in {"CONFIRMED_FAILURE", "UNKNOWN_RECONCILED_RETRY", "UNKNOWN_UNRESOLVED_RETRY", "UNKNOWN_HELD",
                "LATE_WRITE_UNFENCED"} : c \notin Classes
  BY <1>3, <1>4, InClasses
<1>7. Classes = {"AUTHORIZED_COMPLETION"}
  BY <1>5, <1>6, OtherClasses
<1>8. Cardinality(By("write", 1)) = 1
  BY <1>3, Landed, NoDefect
<1> QED
  BY <1>1, <1>2, <1>7, <1>8 DEF EvidenceMet

LEMMA TwoIsRefused ==
  ASSUME IInv, CaseInv, Conducted("AT-2")
  PROVE  status[1] = "REFUSED" /\ Begun = {1} /\ Classes = {"CONFIRMED_FAILURE"} /\ EvidenceMet("AT-2")
<1> USE DEF IInv, CaseInv
<1>1. Compared /\ fault = "none" /\ Begun = {1} /\ ~write[1]
  BY CaseGiven DEF SeqInv
<1>2. status[1] = "REFUSED"
  BY <1>1, FirstReport
<1>3. By("write", 1) \cup By("rejected", 1) = {}
  BY <1>1 DEF By, StoreInv, EventOK
<1>4. Writes(log) = {}
  BY <1>1, <1>3, ByFirst, Landed
<1>5. Unknown = {} /\ Retried = {} /\ heldWrite # "released at end" /\ Last = 1
  BY <1>1, <1>2, NoneUnknown, ByFirst
<1>6. "CONFIRMED_FAILURE" \in Classes
  BY <1>1, <1>2, <1>4, <1>5, InClasses
<1>7. \A c \in {"AUTHORIZED_COMPLETION", "UNKNOWN_RECONCILED_RETRY", "UNKNOWN_UNRESOLVED_RETRY", "UNKNOWN_HELD",
                "LATE_WRITE_UNFENCED"} : c \notin Classes
  BY <1>4, <1>5, InClasses, Completion
<1>8. Classes = {"CONFIRMED_FAILURE"}
  BY <1>6, <1>7, OtherClasses
<1> QED
  BY <1>1, <1>2, <1>3, <1>8 DEF EvidenceMet

LEMMA ThreeFails ==
  ASSUME IInv, CaseInv, Conducted("AT-3")
  PROVE  status[1] = "FAILED" /\ Begun = {1} /\ Classes = {"CONFIRMED_FAILURE"} /\ EvidenceMet("AT-3")
<1> USE DEF IInv, CaseInv
<1>1. Compared /\ fault = "fail_before_effect" /\ Begun = {1} /\ write[1]
  BY CaseGiven DEF SeqInv
<1>2. status[1] = "FAILED"
  BY <1>1, FirstReport
<1>3. \E i \in By("rejected", 1) : log[i].note = "fault" /\ By("rejected", 1) = {i}
  <2>1. PICK i \in DOMAIN log : log[i].note = "fault" /\ By("rejected", 1) = {i}
    BY <1>2 DEF FaultInv
  <2>2. i \in By("rejected", 1)
    BY <2>1
  <2> QED
    BY <2>1, <2>2
<1>4. Writes(log) = {}
  BY <1>1, <1>2, ByFirst, AtTheEnd DEF WroteInv, Wrote
<1>5. Unknown = {} /\ Retried = {} /\ heldWrite # "released at end" /\ Last = 1
  BY <1>1, <1>2, NoneUnknown, ByFirst
<1>6. "CONFIRMED_FAILURE" \in Classes
  BY <1>1, <1>2, <1>4, <1>5, InClasses
<1>7. \A c \in {"AUTHORIZED_COMPLETION", "UNKNOWN_RECONCILED_RETRY", "UNKNOWN_UNRESOLVED_RETRY", "UNKNOWN_HELD",
                "LATE_WRITE_UNFENCED"} : c \notin Classes
  BY <1>4, <1>5, InClasses, Completion
<1>8. Classes = {"CONFIRMED_FAILURE"}
  BY <1>6, <1>7, OtherClasses
<1> QED
  BY <1>1, <1>2, <1>3, <1>4, <1>8 DEF EvidenceMet

LEMMA FourHolds ==
  ASSUME IInv, CaseInv, Conducted("AT-4")
  PROVE  /\ status[1] = "UNKNOWN" /\ status[2] = "HELD" /\ Begun = {1, 2}
         /\ Classes = {"AUTHORIZED_COMPLETION", "UNKNOWN_HELD"} /\ EvidenceMet("AT-4")
<1> USE DEF IInv, CaseInv
<1>1. Compared /\ fault = "lose_ack_after_effect" /\ Begun = {1, 2} /\ write[1] /\ write[2] /\ ~readable[2]
  BY CaseGiven DEF SeqInv
<1>2. status[1] = "UNKNOWN"
  BY <1>1, FirstReport
<1>3. WritesOf(log, 1) # {} /\ heldWrite = "none"
  BY <1>1, <1>2 DEF FaultInv
<1>4. PICK w \in Writes(log) : Writes(log) = {w} /\ log[w].by = 1
  BY <1>3, AllAttributed DEF WritesOf
<1>5. WritesOf(log, 2) = {} /\ WritesOf(log, 1) = {w}
  BY <1>4 DEF WritesOf
<1>6. 2 \in Attempt /\ status[2] \in Statuses \ {"none"}
  BY <1>1, AtTheEnd
<1>7. claim[2] = NoClaim
  BY <1>1, <1>6 DEF PlaceInv, Placed
<1>8. status[2] = "HELD"
  <2>1. status[2] # "COMPLETED"
    BY <1>5, <1>6 DEF WroteInv, Wrote
  <2>2. status[2] \notin {"FAILED", "UNKNOWN"}
    <3>1. 2 # 1
      OBVIOUS
    <3> QED
      BY <1>6, <3>1 DEF PlaceInv, Placed
  <2>3. status[2] # "REFUSED"
    BY <1>1, <1>6 DEF PlaceInv, Placed
  <2>4. status[2] # "ALREADY_COMPLETED"
    <3>1. Done => status[2] = "COMPLETED"
      BY <1>1, <1>2, AtTheEnd DEF Done
    <3>2. status[2] = "ALREADY_COMPLETED" => Done
      BY <1>6, <1>7 DEF PlaceInv, Placed, HeldInv
    <3> QED
      BY <3>1, <3>2, <2>1
  <2> QED
    BY <1>6, <2>1, <2>2, <2>3, <2>4 DEF Statuses
<1>9. Unknown = {1} /\ Retries(1) = {} /\ Retried = {}
  <2>1. Unknown = {1}
    BY <1>1, <1>2, AtTheEnd DEF Unknown
  <2>2. Retries(1) = {}
    BY <1>4, AllAttributed DEF Retries
  <2> QED
    BY <2>1, <2>2 DEF Retried
<1>10. "AUTHORIZED_COMPLETION" \in Classes /\ "UNKNOWN_HELD" \in Classes
  BY <1>4, <1>9, InClasses, Completion
<1>11. \A c \in {"CONFIRMED_FAILURE", "UNKNOWN_RECONCILED_RETRY", "UNKNOWN_UNRESOLVED_RETRY", "LATE_WRITE_UNFENCED"} :
         c \notin Classes
  BY <1>3, <1>4, <1>9, InClasses
<1>12. Classes = {"AUTHORIZED_COMPLETION", "UNKNOWN_HELD"}
  BY <1>10, <1>11, OtherClasses
<1>13. Cardinality(By("write", 1)) = 1 /\ By("write", 2) = {}
  BY <1>5, Landed, FS_Singleton
<1>14. \A r \in By("read", 2) : log[r].note = "unavailable"
  BY <1>1 DEF By, StoreInv, EventOK
<1> QED
  BY <1>1, <1>2, <1>7, <1>8, <1>12, <1>13, <1>14 DEF EvidenceMet

LEMMA FiveReconciles ==
  ASSUME IInv, CaseInv, Conducted("AT-4-DW")
  PROVE  /\ status[1] = "UNKNOWN" /\ status[2] = "COMPLETED" /\ Begun = {1, 2}
         /\ Classes = {"AUTHORIZED_COMPLETION", "UNKNOWN_RECONCILED_RETRY"} /\ EvidenceMet("AT-4-DW")
<1> USE DEF IInv, CaseInv
<1>1. Compared /\ fault = "hold_write_until_fence" /\ Begun = {1, 2} /\ write[1] /\ write[2] /\ fence[2] /\ readable[2]
  BY CaseGiven DEF SeqInv
<1>2. status[1] = "UNKNOWN"
  BY <1>1, FirstReport
<1>3. 2 \in Attempt /\ status[2] \in Statuses \ {"none"} /\ at[2] = "reported" /\ 1 \in Attempt
  BY <1>1, AtTheEnd
<1>4. \A k \in Begun : write[k] = write[1]
  <2>1. write[2] = write[1]
    BY <1>1, <1>3 DEF CaseType
  <2> QED
    BY <1>1, <2>1
<1>5. ~Excused
  BY <1>1, <1>2, <1>4, NobodyExcused
<1>6. ASSUME NEW w \in Writes(log), log[w].by = 2
      PROVE  /\ RetryOK(w) /\ claim[2] # NoClaim /\ Backed(2, claim[2].seq)
             /\ Writes(log) = {w} /\ FencesOf(1, claim[2].seq) # {}
  <2>1. 2 # 1 /\ 1 \in 1..(2 - 1)
    OBVIOUS
  <2>2. RetryOK(w)
    BY <1>2, <1>5, <1>6, <2>1 DEF RetryInv
  <2>3. claim[2] # NoClaim
    BY <1>6, <2>2 DEF RetryOK
  <2>4. Backed(2, claim[2].seq)
    BY <1>3, <2>3 DEF ClaimInv
  <2>5. FencesOf(1, claim[2].seq) # {}
    BY <2>1, <2>4 DEF Backed
  <2> QED
    BY <1>6, <2>2, <2>3, <2>4, <2>5, AllAttributed
<1>7. 1 \in fenced
  <2>1. CASE status[2] = "COMPLETED"
    <3>1. PICK w \in Writes(log) : log[w].by = 2
      BY <1>3, <2>1 DEF WroteInv, Wrote, WritesOf
    <3>2. claim[2].seq \in DOMAIN log /\ FencesOf(1, claim[2].seq) # {}
      BY <1>6, <3>1 DEF Backed
    <3>3. 1..(claim[2].seq - 1) \subseteq DOMAIN log
      BY <3>2 DEF SeqInv, TypeInv
    <3>4. IsFenced(1)
      BY <3>2, <3>3 DEF FencesOf, IsFenced
    <3> QED
      BY <1>3, <3>4 DEF StoreInv
  <2>2. CASE status[2] # "COMPLETED"
    <3>1. ~Done
      BY <1>1, <1>2, <2>2, AtTheEnd DEF Done
    <3>2. 2 # 1 /\ at[2] \notin Early
      BY <1>3 DEF Early
    <3>3. FencedBy(2, 1)
      BY <1>1, <1>2, <1>3, <1>5, <3>1, <3>2 DEF RetryInv
    <3> QED
      BY <1>3, <3>3 DEF FencedBy, IsFenced, StoreInv
  <2> QED
    BY <2>1, <2>2
<1>8. heldWrite = "released at fence"
  <2>1. heldWrite # "none"
    BY <1>1, <1>2 DEF FaultInv
  <2>2. heldWrite \notin {"held", "released at end"}
    BY <1>1, <1>7 DEF EndInv, Compared
  <2> QED
    BY <2>1, <2>2 DEF CaseType
<1>9. WritesOf(log, 1) = {}
  BY <1>1, <1>8 DEF FaultInv
<1>10. \A i \in Writes(log) : log[i].by = 2
  BY <1>1, <1>9, AllAttributed DEF WritesOf
<1>11. status[2] = "COMPLETED"
  <2>1. status[2] \notin {"FAILED", "UNKNOWN"}
    <3>1. 2 # 1
      OBVIOUS
    <3> QED
      BY <1>3, <3>1 DEF PlaceInv, Placed
  <2>2. status[2] \notin {"REFUSED", "HELD"}
    BY <1>1, <1>3 DEF PlaceInv, Placed
  <2>3. status[2] # "ALREADY_COMPLETED"
    <3>1. ~(2 < 2)
      OBVIOUS
    <3>2. ~\E i \in Writes(log) : log[i].by < 2
      BY <1>10, <3>1
    <3> QED
      BY <1>3, <3>2 DEF PlaceInv, Placed, HeldInv
  <2> QED
    BY <1>3, <2>1, <2>2, <2>3 DEF Statuses
<1>12. PICK w \in Writes(log) : log[w].by = 2
  BY <1>3, <1>10, <1>11 DEF WroteInv, Wrote, WritesOf
<1>13. /\ RetryOK(w) /\ claim[2] # NoClaim /\ Backed(2, claim[2].seq)
       /\ Writes(log) = {w} /\ FencesOf(1, claim[2].seq) # {}
  BY <1>6, <1>12
<1>14. Unknown = {1} /\ Retries(1) = {w} /\ Retried = {w}
  <2>1. Unknown = {1}
    BY <1>1, <1>2, AtTheEnd DEF Unknown
  <2>2. log[w].by > 1
    BY <1>12
  <2>3. Retries(1) = {w}
    BY <1>13, <2>2, AllAttributed DEF Retries
  <2> QED
    BY <2>1, <2>3 DEF Retried
<1>15. Reconciled(w)
  <2>1. 1 < log[w].by
    BY <1>12
  <2> QED
    BY <1>13, <2>1, Reconciles
<1>16. "AUTHORIZED_COMPLETION" \in Classes /\ "UNKNOWN_RECONCILED_RETRY" \in Classes
  BY <1>12, <1>14, <1>15, InClasses, Completion
<1>17. \A c \in {"CONFIRMED_FAILURE", "UNKNOWN_UNRESOLVED_RETRY", "UNKNOWN_HELD", "LATE_WRITE_UNFENCED"} : c \notin Classes
  BY <1>8, <1>12, <1>14, <1>15, InClasses
<1>18. Classes = {"AUTHORIZED_COMPLETION", "UNKNOWN_RECONCILED_RETRY"}
  BY <1>16, <1>17, OtherClasses
<1>19. By("write", 1) = {} /\ By("write", 2) = {w}
  BY <1>9, <1>12, <1>13, Landed DEF WritesOf
<1>20. \E f \in By("fence", 2) : \E r \in By("read", 2) : \E x \in By("write", 2) :
         /\ log[f].target = 1 /\ f + 1 \in By("rejected", 1) /\ f + 1 < r /\ r < x /\ By("write", 2) = {x}
         /\ claim[2] = [fenced |-> {1}, seq |-> r, writes |-> 0]
  <2>1. PICK f \in DOMAIN log : log[f].kind = "fence" /\ log[f].target = 1 /\ f + 1 \in By("rejected", 1)
    BY <1>8 DEF FaultInv
  <2>2. log[f].by = 2
    <3>1. log[f].by \in {1, 2} /\ 1 < log[f].by
      BY <1>1, <2>1, AllAttributed DEF StoreInv, EventOK
    <3> QED
      BY <3>1
  <2>3. PICK r : r = claim[2].seq
    OBVIOUS
  <2>4. Backed(2, r)
    BY <1>13, <2>3
  <2>5. r \in By("read", 2) /\ f \in By("fence", 2)
    BY <2>1, <2>2, <2>4 DEF Backed, By
  <2>6. f < r /\ f + 1 # r
    <3>1. f < r
      BY <2>1, <2>2, <2>4 DEF Backed
    <3>2. log[f + 1].kind = "rejected" /\ log[r].kind = "read"
      BY <2>1, <2>4 DEF Backed, By
    <3> QED
      BY <3>1, <3>2
  <2>7. f \in Nat /\ r \in Nat
    BY <2>1, <2>4 DEF Backed, SeqInv, TypeInv
  <2>8. f + 1 < r
    BY <2>6, <2>7
  <2>9. r < w
    BY <1>12, <2>4 DEF Backed, WritesOf
  <2>10. claim[2] = [fenced |-> {1}, seq |-> r, writes |-> 0]
    <3>1. 1..(2 - 1) = {1}
      OBVIOUS
    <3>2. Seen(2, r) = {}
      BY <1>10, <3>1 DEF Seen
    <3>3. Cardinality(Seen(2, r)) = 0
      BY <3>2, FS_EmptySet
    <3> QED
      BY <2>4, <3>1, <3>3 DEF Backed
  <2> QED
    BY <1>19, <2>1, <2>5, <2>8, <2>9, <2>10
<1> QED
  BY <1>1, <1>2, <1>8, <1>11, <1>18, <1>19, <1>20 DEF EvidenceMet

LEMMA AsExpected ==
  ASSUME IInv, CaseInv, NEW c \in Cases, Conducted(c)
  PROVE  [k \in Begun |-> status[k]] = Expected(c).reports /\ Classes = Expected(c).classes /\ EvidenceMet(c)
<1>1. CASE c = "AT-1"
  <2>1. Expected("AT-1").reports = <<"COMPLETED">> /\ Expected("AT-1").classes = {"AUTHORIZED_COMPLETION"}
    BY DEF Expected
  <2> QED
    BY <1>1, <2>1, OneCompletes, ReportsOne
<1>2. CASE c = "AT-2"
  <2>1. Expected("AT-2").reports = <<"REFUSED">> /\ Expected("AT-2").classes = {"CONFIRMED_FAILURE"}
    BY DEF Expected
  <2> QED
    BY <1>2, <2>1, TwoIsRefused, ReportsOne
<1>3. CASE c = "AT-3"
  <2>1. Expected("AT-3").reports = <<"FAILED">> /\ Expected("AT-3").classes = {"CONFIRMED_FAILURE"}
    BY DEF Expected
  <2> QED
    BY <1>3, <2>1, ThreeFails, ReportsOne
<1>4. CASE c = "AT-4"
  <2>1. Expected("AT-4").reports = <<"UNKNOWN", "HELD">> /\ Expected("AT-4").classes = {"AUTHORIZED_COMPLETION", "UNKNOWN_HELD"}
    BY DEF Expected
  <2> QED
    BY <1>4, <2>1, FourHolds, ReportsTwo
<1>5. CASE c = "AT-4-DW"
  <2>1. /\ Expected("AT-4-DW").reports = <<"UNKNOWN", "COMPLETED">>
        /\ Expected("AT-4-DW").classes = {"AUTHORIZED_COMPLETION", "UNKNOWN_RECONCILED_RETRY"}
    BY DEF Expected
  <2> QED
    BY <1>5, <2>1, FiveReconciles, ReportsTwo
<1> QED
  BY <1>1, <1>2, <1>3, <1>4, <1>5 DEF Cases

(* Whatever is lost, held, rejected or crashed, of every case it compares  *)
(* the comparator (tools/obs1_compare.py) finds: a store without a defect, *)
(* reports the log bears out, no write or fence without its permission, no *)
(* effect doubled, some class; no unresolved retry where the write         *)
(* permission is the same throughout; and the five registered cases as     *)
(* they are expected, with their evidence, whatever the lease did.         *)
THEOREM ComparatorSatisfied == Spec => []ComparatorFindsNothing
<1>1. IInv /\ CaseInv => ComparatorFindsNothing
  <2> SUFFICES ASSUME IInv, CaseInv, Compared
               PROVE  /\ ~StoreDefect
                      /\ \A k \in Begun : ~Mismatched(k)
                      /\ Classes \cap {"UNATTRIBUTED_WRITE", "UNAUTHORIZED_EXECUTION", "UNAUTHORIZED_CONTROL", "DUPLICATE"} = {}
                      /\ Begun # {} => Classes # {}
                      /\ (\A k \in Begun : write[k] = write[1]) => "UNKNOWN_UNRESOLVED_RETRY" \notin Classes
                      /\ \A c \in Cases : Conducted(c) =>
                           [k \in Begun |-> status[k]] = Expected(c).reports /\ Classes = Expected(c).classes /\ EvidenceMet(c)
    BY DEF ComparatorFindsNothing
  <2>1. ~StoreDefect /\ \A k \in Begun : ~Mismatched(k)
    BY NoDefect, NoMismatch
  <2>2. Classes \cap {"UNATTRIBUTED_WRITE", "UNAUTHORIZED_EXECUTION", "UNAUTHORIZED_CONTROL", "DUPLICATE"} = {}
    BY NothingForbidden
  <2>3. Begun # {} => Classes # {}
    BY SomeClass
  <2>4. (\A k \in Begun : write[k] = write[1]) => "UNKNOWN_UNRESOLVED_RETRY" \notin Classes
    BY RetriesFound
  <2>5. \A c \in Cases : Conducted(c) =>
          [k \in Begun |-> status[k]] = Expected(c).reports /\ Classes = Expected(c).classes /\ EvidenceMet(c)
    BY AsExpected
  <2> QED
    BY <2>1, <2>2, <2>3, <2>4, <2>5
<1> QED
  BY <1>1, CaseInvariance, PTL

(* Not only of a case it compares: at no moment does the store have a      *)
(* defect, does a report contradict the log, is a write or a fence without *)
(* its permission, or an effect doubled, in a case given up neither.       *)
THEOREM NeverContradicted ==
  Spec => [](/\ ~StoreDefect
             /\ \A k \in Begun : ~Mismatched(k)
             /\ Classes \cap {"UNATTRIBUTED_WRITE", "UNAUTHORIZED_EXECUTION", "UNAUTHORIZED_CONTROL", "DUPLICATE"} = {})
<1>1. IInv /\ CaseInv =>
        /\ ~StoreDefect
        /\ \A k \in Begun : ~Mismatched(k)
        /\ Classes \cap {"UNATTRIBUTED_WRITE", "UNAUTHORIZED_EXECUTION", "UNAUTHORIZED_CONTROL", "DUPLICATE"} = {}
  BY NoDefect, NoMismatch, NothingForbidden
<1> QED
  BY <1>1, CaseInvariance, PTL
===============================================================================
