----------------------- MODULE FileReservationsProofs -----------------------
(* What the file store guarantees for every number of attempts and people. *)
EXTENDS FileReservations, TLAPS

USE ConstantAssumption

LEMMA EntryFacts ==
  /\ NoEntry.holder = NoToken /\ NoEntry.state = "NONE" /\ NoEntry.lease = "never" /\ NoEntry.token = NoToken
  /\ Unreadable.holder = NoToken /\ Unreadable.state = "UNREADABLE" /\ Unreadable.lease = "never"
  /\ Unreadable.token = NoToken
  /\ Unreadable \in Entries /\ NoEntry \notin Entries /\ Unreadable # NoEntry
BY DEF NoEntry, Unreadable, Entries, States, Leases, Marks

LEMMA InFlightFacts ==
  ASSUME NEW t \in Attempt \cup {NoToken}, NEW lease \in Leases
  PROVE  /\ InFlight(t, lease) \in Entries
         /\ InFlight(t, lease).holder = t /\ InFlight(t, lease).state = "IN_FLIGHT" /\ InFlight(t, lease).lease = lease
         /\ InFlight(t, lease).token = t /\ InFlight(t, lease).mark = "none"
BY DEF InFlight, Entries, States, Leases, Marks

LEMMA UnreadFacts ==
  ASSUME NEW e \in Entries \cup {NoEntry}
  PROVE  /\ Unread(e) \in Entries /\ Unread(e).holder = e.holder /\ Unread(e).state = "IN_FLIGHT"
         /\ Unread(e).lease = "never" /\ Unread(e).token = NoToken /\ Unread(e).mark = "none"
BY EntryFacts DEF Unread, Entries, States, Leases, Marks

LEMMA ReadFacts ==
  ASSUME NEW e \in Entries, e.state \notin {"NONE", "UNREADABLE"}
  PROVE  /\ Read(e) = e
         /\ \A f \in Readings(e) : f = e \/ (ReadErrors /\ f = Unread(e))
BY DEF Read, Readings

LEMMA WithFacts ==
  ASSUME NEW e \in Entries
  PROVE  /\ \A s \in States : /\ WithState(e, s) \in Entries
                               /\ WithState(e, s).holder = e.holder /\ WithState(e, s).state = s
                               /\ WithState(e, s).lease = e.lease /\ WithState(e, s).token = e.token
         /\ \A l \in Leases : /\ WithLease(e, l) \in Entries
                               /\ WithLease(e, l).holder = e.holder /\ WithLease(e, l).state = e.state
                               /\ WithLease(e, l).lease = l /\ WithLease(e, l).token = e.token
                               /\ WithLease(e, l).mark = e.mark
         /\ Marked(e) \in Entries /\ Marked(e).holder = e.holder /\ Marked(e).state = e.state
         /\ Marked(e).lease = e.lease /\ Marked(e).token = e.token /\ Marked(e).mark = "released"
BY DEF Entries, WithState, WithLease, Marked, Marks

LEMMA InitIInv == Init => IInv
BY EntryFacts DEF Init, IInv, TypeOK, Tails, LockInv, SectionInv, RecordInv, ReportInv, Granted, Late, NoReport,
  BeforeGrant, InMove, AfterGrant, Ended, AttemptPC, InSection, OpInSection, OperatorPC

(* One lemma per action, and in it one step per part of the invariant.     *)
USE EntryFacts DEF IInv, TypeOK, Tails, Marks, Kept, Reported, Goto, OpGoto, Acquire, Unlock, States, Leases, Reports, NoReport,
  BeforeGrant, InMove, AfterGrant, Ended, AttemptPC, InSection, OpInSection, OperatorPC

LEMMA CallReserveStep ==
  ASSUME IInv, NEW t \in Attempt, CallReserve(t)
  PROVE  IInv'
<1> USE DEF CallReserve
<1>1. TypeOK'
  BY DEF Late, SectionInv, ReportInv
<1>2. LockInv'
  BY DEF LockInv
<1>3. SectionInv'
  BY DEF LockInv, SectionInv, RecordInv, Effective
<1>4. RecordInv'
  BY DEF LockInv, SectionInv, RecordInv, Granted
<1>5. ReportInv'
  BY DEF LockInv, SectionInv, RecordInv, ReportInv, Granted
<1> QED
  BY <1>1, <1>2, <1>3, <1>4, <1>5 DEF IInv

LEMMA EnterReserveStep ==
  ASSUME IInv, NEW t \in Attempt, EnterReserve(t)
  PROVE  IInv'
<1> USE DEF EnterReserve
<1>1. TypeOK'
  BY DEF Late, SectionInv, ReportInv
<1>2. LockInv'
  BY DEF LockInv
<1>3. SectionInv'
  BY DEF LockInv, SectionInv, RecordInv, Effective
<1>4. RecordInv'
  BY DEF LockInv, SectionInv, RecordInv, Granted
<1>5. ReportInv'
  BY DEF LockInv, SectionInv, RecordInv, ReportInv, Granted
<1> QED
  BY <1>1, <1>2, <1>3, <1>4, <1>5 DEF IInv

LEMMA ClaimStep ==
  ASSUME IInv, NEW t \in Attempt, Claim(t)
  PROVE  IInv'
<1> USE DEF Claim
<1>1. TypeOK'
  BY DEF Late, SectionInv, ReportInv
<1>2. LockInv'
  BY DEF LockInv
<1>3. SectionInv'
  BY DEF LockInv, SectionInv, RecordInv, Effective
<1>4. RecordInv'
  BY DEF LockInv, SectionInv, RecordInv, Granted
<1>5. ReportInv'
  BY DEF LockInv, SectionInv, RecordInv, ReportInv, Granted
<1> QED
  BY <1>1, <1>2, <1>3, <1>4, <1>5 DEF IInv

LEMMA WriteClaimStep ==
  ASSUME IInv, NEW t \in Attempt, WriteClaim(t)
  PROVE  IInv'
<1> USE InFlightFacts DEF WriteClaim
<1>0. \A l \in {"running", "over"} : /\ InFlight(t, l) \in Entries /\ InFlight(t, l).lease = l
                                   /\ InFlight(t, l).holder = t /\ InFlight(t, l).state = "IN_FLIGHT"
                                   /\ InFlight(t, l).token = t
  OBVIOUS
<1>1. TypeOK'
  BY <1>0 DEF Late, SectionInv, ReportInv
<1>2. LockInv'
  BY <1>0 DEF LockInv
<1>3. SectionInv'
  BY <1>0 DEF LockInv, SectionInv, RecordInv, Effective
<1>4. RecordInv'
  BY <1>0 DEF LockInv, SectionInv, RecordInv, Granted
<1>5. ReportInv'
  BY <1>0 DEF LockInv, SectionInv, RecordInv, ReportInv, Granted
<1> QED
  BY <1>1, <1>2, <1>3, <1>4, <1>5 DEF IInv

LEMMA CallMoveStep ==
  ASSUME IInv, NEW t \in Attempt, NEW to \in Reports, CallMove(t, to)
  PROVE  IInv'
<1> USE DEF CallMove
<1>1. TypeOK'
  BY DEF Late, SectionInv, ReportInv
<1>2. LockInv'
  BY DEF LockInv
<1>3. SectionInv'
  BY DEF LockInv, SectionInv, RecordInv, Effective
<1>4. RecordInv'
  BY DEF LockInv, SectionInv, RecordInv, Granted
<1>5. ReportInv'
  BY DEF LockInv, SectionInv, RecordInv, ReportInv, Granted
<1> QED
  BY <1>1, <1>2, <1>3, <1>4, <1>5 DEF IInv

LEMMA EnterMoveStep ==
  ASSUME IInv, NEW t \in Attempt, EnterMove(t)
  PROVE  IInv'
<1> USE DEF EnterMove
<1>1. TypeOK'
  BY DEF Late, SectionInv, ReportInv
<1>2. LockInv'
  BY DEF LockInv
<1>3. SectionInv'
  BY DEF LockInv, SectionInv, RecordInv, Effective
<1>4. RecordInv'
  BY DEF LockInv, SectionInv, RecordInv, Granted
<1>5. ReportInv'
  BY DEF LockInv, SectionInv, RecordInv, ReportInv, Granted
<1> QED
  BY <1>1, <1>2, <1>3, <1>4, <1>5 DEF IInv

LEMMA CheckTokenStep ==
  ASSUME IInv, NEW t \in Attempt, CheckToken(t)
  PROVE  IInv'
<1> USE DEF CheckToken
<1>0. /\ pc' = [pc EXCEPT ![t] = "moving"] \/ pc' = [pc EXCEPT ![t] = "logging"]
      /\ pc'[t] = "moving" => entry.token = t
      /\ pc'[t] = "logging" => ReadErrors \/ entry.holder # t
  <2>1. PICK e \in Readings(entry) : pc' = [pc EXCEPT ![t] = IF e.token = t THEN "moving" ELSE "logging"]
    OBVIOUS
  <2>2. CASE entry.holder = NoToken
    <3>1. e = Unread(entry)
      BY <2>1, <2>2 DEF RecordInv, Readings, Read
    <3>2. e.token # t /\ entry.holder # t
      BY <2>2, <3>1, UnreadFacts
    <3> QED
      BY <2>1, <3>2
  <2>3. CASE entry.holder # NoToken
    <3>1. entry \in Entries /\ entry.state \notin {"NONE", "UNREADABLE"} /\ (entry.token = entry.holder \/ ReadErrors) /\ entry.token \in {NoToken, entry.holder}
      BY <2>3 DEF RecordInv
    <3>2. e = entry \/ (ReadErrors /\ e = Unread(entry))
      BY <2>1, <3>1, ReadFacts
    <3>3. e.token = t => entry.token = t
      BY <3>1, <3>2, UnreadFacts
    <3>4. e.token # t => ReadErrors \/ entry.holder # t
      BY <3>1, <3>2
    <3> QED
      BY <2>1, <3>3, <3>4
  <2> QED
    BY <2>2, <2>3
<1>1. TypeOK'
  BY <1>0 DEF Late, SectionInv, ReportInv
<1>2. LockInv'
  BY <1>0 DEF LockInv
<1>3. SectionInv'
  BY <1>0 DEF LockInv, SectionInv, RecordInv, Effective
<1>4. RecordInv'
  BY <1>0 DEF LockInv, SectionInv, RecordInv, Granted
<1>5. ReportInv'
  BY <1>0 DEF LockInv, SectionInv, RecordInv, ReportInv, Granted
<1> QED
  BY <1>1, <1>2, <1>3, <1>4, <1>5 DEF IInv

LEMMA MoveWriteStep ==
  ASSUME IInv, NEW t \in Attempt, MoveWrite(t)
  PROVE  IInv'
<1> USE DEF MoveWrite
<1>0. /\ entry.holder = t /\ entry.state = "IN_FLIGHT" /\ entry \in Entries /\ report[t] \in Reports
      /\ entry' \in Entries /\ entry'.holder = t /\ entry'.state = report[t]
      /\ entry'.lease = "never" <=> entry'.token = NoToken
      /\ entry'.token = entry'.holder \/ (ReadErrors /\ entry'.token = NoToken)
  <2>1. entry.holder = t /\ entry.state = "IN_FLIGHT" /\ entry \in Entries /\ report[t] \in Reports /\ entry.token = t
    BY DEF SectionInv, RecordInv, ReportInv
  <2>2. PICK e \in Readings(entry) : entry' = WithState(e, report[t])
    OBVIOUS
  <2>3. e = entry \/ (ReadErrors /\ e = Unread(entry))
    BY <2>1, <2>2, ReadFacts
  <2>4. e \in Entries /\ e.holder = t /\ (e.lease = "never" <=> e.token = NoToken) /\ (e.token = e.holder \/ (ReadErrors /\ e.token = NoToken))
    BY <2>1, <2>3, UnreadFacts DEF RecordInv
  <2> QED
    BY <2>1, <2>2, <2>4, WithFacts
<1>1. TypeOK'
  BY <1>0 DEF Late, SectionInv, ReportInv
<1>2. LockInv'
  BY <1>0 DEF LockInv
<1>3. SectionInv'
  BY <1>0 DEF LockInv, SectionInv, RecordInv, Effective
<1>4. RecordInv'
  BY <1>0 DEF LockInv, SectionInv, RecordInv, Granted
<1>5. ReportInv'
  BY <1>0 DEF LockInv, SectionInv, RecordInv, ReportInv, Granted
<1> QED
  BY <1>1, <1>2, <1>3, <1>4, <1>5 DEF IInv

LEMMA LogLateStep ==
  ASSUME IInv, NEW t \in Attempt, LogLate(t)
  PROVE  IInv'
<1> USE DEF LogLate
<1>1. TypeOK'
  BY DEF Late, SectionInv, ReportInv
<1>2. LockInv'
  BY DEF LockInv
<1>3. SectionInv'
  BY DEF LockInv, SectionInv, RecordInv, Effective
<1>4. RecordInv'
  BY DEF LockInv, SectionInv, RecordInv, Granted
<1>5. ReportInv'
  BY DEF LockInv, SectionInv, RecordInv, ReportInv, Granted
<1> QED
  BY <1>1, <1>2, <1>3, <1>4, <1>5 DEF IInv

LEMMA StopStep ==
  ASSUME IInv, NEW t \in Attempt, Stop(t)
  PROVE  IInv'
<1> USE DEF Stop
<1>1. TypeOK'
  BY DEF Late, SectionInv, ReportInv
<1>2. LockInv'
  BY DEF LockInv
<1>3. SectionInv'
  BY DEF LockInv, SectionInv, RecordInv, Effective
<1>4. RecordInv'
  BY DEF LockInv, SectionInv, RecordInv, Granted
<1>5. ReportInv'
  BY DEF LockInv, SectionInv, RecordInv, ReportInv, Granted
<1> QED
  BY <1>1, <1>2, <1>3, <1>4, <1>5 DEF IInv

LEMMA StopAppendingStep ==
  ASSUME IInv, NEW t \in Attempt, StopAppending(t)
  PROVE  IInv'
<1> USE DEF StopAppending
<1>1. TypeOK'
  BY DEF Late, SectionInv, ReportInv
<1>2. LockInv'
  BY DEF LockInv
<1>3. SectionInv'
  BY DEF LockInv, SectionInv, RecordInv, Effective
<1>4. RecordInv'
  BY DEF LockInv, SectionInv, RecordInv, Granted
<1>5. ReportInv'
  BY DEF LockInv, SectionInv, RecordInv, ReportInv, Granted
<1> QED
  BY <1>1, <1>2, <1>3, <1>4, <1>5 DEF IInv

LEMMA CallReleaseStep ==
  ASSUME IInv, NEW o \in Operator, CallRelease(o)
  PROVE  IInv'
<1> USE DEF CallRelease
<1>1. TypeOK'
  BY DEF Late, SectionInv, ReportInv
<1>2. LockInv'
  BY DEF LockInv
<1>3. SectionInv'
  BY DEF LockInv, SectionInv, RecordInv, Effective
<1>4. RecordInv'
  BY DEF LockInv, SectionInv, RecordInv, Granted
<1>5. ReportInv'
  BY DEF LockInv, SectionInv, RecordInv, ReportInv, Granted
<1> QED
  BY <1>1, <1>2, <1>3, <1>4, <1>5 DEF IInv

LEMMA EnterReleaseStep ==
  ASSUME IInv, NEW o \in Operator, EnterRelease(o)
  PROVE  IInv'
<1> USE DEF EnterRelease
<1>1. TypeOK'
  BY DEF Late, SectionInv, ReportInv
<1>2. LockInv'
  BY DEF LockInv
<1>3. SectionInv'
  BY DEF LockInv, SectionInv, RecordInv, Effective
<1>4. RecordInv'
  BY DEF LockInv, SectionInv, RecordInv, Granted
<1>5. ReportInv'
  BY DEF LockInv, SectionInv, RecordInv, ReportInv, Granted
<1> QED
  BY <1>1, <1>2, <1>3, <1>4, <1>5 DEF IInv

LEMMA CheckUnknownStep ==
  ASSUME IInv, NEW o \in Operator, CheckUnknown(o)
  PROVE  IInv'
<1> USE DEF CheckUnknown
<1>0. pc' = pc /\ entry' = entry /\ archive' = archive /\ late' = late /\ report' = report /\ tail' = tail
  OBVIOUS
<1>9. opc'[o] = "marking" => entry.holder # NoToken /\ entry.state \in {"IN_FLIGHT", "UNKNOWN"}
  <2>1. SUFFICES ASSUME opc'[o] = "marking" PROVE entry.holder # NoToken /\ entry.state \in {"IN_FLIGHT", "UNKNOWN"}
    OBVIOUS
  <2>2. PICK e \in Readings(entry) : Effective(e) = "UNKNOWN"
    BY <2>1
  <2>3. Unread(entry).state = "IN_FLIGHT" /\ Unread(entry).lease = "never"
    BY UnreadFacts
  <2>4. Effective(Unread(entry)) = "IN_FLIGHT"
    BY <2>3 DEF Effective
  <2>5. e # Unread(entry)
    BY <2>2, <2>4
  <2>6. e = entry /\ entry.state \notin {"NONE", "UNREADABLE"}
    BY <2>5 DEF Readings, Read
  <2> QED
    BY <2>2, <2>6 DEF RecordInv, Effective
<1>1. TypeOK'
  BY DEF Late, SectionInv, ReportInv
<1>2. LockInv'
  BY DEF LockInv
<1>3. SectionInv'
  BY <1>0, <1>9 DEF LockInv, SectionInv, RecordInv, Effective
<1>4. RecordInv'
  BY DEF LockInv, SectionInv, RecordInv, Granted
<1>5. ReportInv'
  BY DEF LockInv, SectionInv, RecordInv, ReportInv, Granted
<1> QED
  BY <1>1, <1>2, <1>3, <1>4, <1>5 DEF IInv

LEMMA MarkReleasedStep ==
  ASSUME IInv, NEW o \in Operator, MarkReleased(o)
  PROVE  IInv'
<1> USE DEF MarkReleased
<1>0. /\ entry \in Entries /\ entry.state \in {"IN_FLIGHT", "UNKNOWN"} /\ entry.holder # NoToken
      /\ entry' \in Entries /\ entry'.holder = entry.holder /\ entry'.mark = "released"
      /\ entry'.lease = "never" <=> entry'.token = NoToken
      /\ entry'.token = entry'.holder \/ (ReadErrors /\ entry'.token = NoToken)
      /\ entry.token = NoToken => entry'.token = NoToken
      /\ entry'.state = entry.state \/ (entry'.state = "IN_FLIGHT" /\ entry'.token = NoToken)
  <2>1. entry \in Entries /\ entry.state \in {"IN_FLIGHT", "UNKNOWN"} /\ entry.holder # NoToken
    BY DEF SectionInv, RecordInv
  <2>2. PICK e \in Readings(entry) : entry' = Marked(e)
    OBVIOUS
  <2>3. e = entry \/ (ReadErrors /\ e = Unread(entry))
    BY <2>1, <2>2, ReadFacts
  <2>4. /\ e \in Entries /\ e.holder = entry.holder /\ (e.lease = "never" <=> e.token = NoToken) /\ (e.token = e.holder \/ (ReadErrors /\ e.token = NoToken))
        /\ entry.token = NoToken => e.token = NoToken
        /\ e.state = entry.state \/ (e.state = "IN_FLIGHT" /\ e.token = NoToken)
    BY <2>1, <2>3, UnreadFacts DEF RecordInv
  <2> QED
    BY <2>1, <2>2, <2>4, WithFacts
<1>1. TypeOK'
  BY <1>0 DEF Late, SectionInv, ReportInv
<1>2. LockInv'
  BY <1>0 DEF LockInv
<1>3. SectionInv'
  BY <1>0 DEF LockInv, SectionInv, RecordInv, Effective
<1>4. RecordInv'
  BY <1>0 DEF LockInv, SectionInv, RecordInv, Granted
<1>5. ReportInv'
  <2>1. pc' = pc /\ archive' = archive /\ late' = late /\ report' = report /\ tail' = tail
    OBVIOUS
  <2>2. ASSUME NEW t \in Attempt, pc[t] = "reported", entry.holder = t PROVE Reported(t)'
    <3>1. Reported(t) /\ report[t] \in Reports
      BY <2>2 DEF ReportInv
    <3>2. CASE entry'.token = NoToken /\ report[t] = "UNKNOWN"
      BY <1>0, <2>1, <2>2, <3>2
    <3>3. CASE entry.state = report[t]
      BY <1>0, <2>1, <2>2, <3>2, <3>3
    <3>4. CASE entry.state # report[t]
      BY <1>0, <2>1, <2>2, <3>1, <3>2, <3>4 DEF RecordInv
    <3> QED
      BY <3>3, <3>4
  <2>3. ASSUME NEW t \in Attempt, pc[t] = "reported", entry.holder # t PROVE Reported(t)'
    BY <1>0, <2>1, <2>3 DEF ReportInv
  <2> HIDE DEF Reported
  <2> QED
    BY <1>0, <2>1, <2>2, <2>3 DEF ReportInv
<1> QED
  BY <1>1, <1>2, <1>3, <1>4, <1>5 DEF IInv

LEMMA RenameReleasedStep ==
  ASSUME IInv, DistinctStamps, NEW o \in Operator, RenameReleased(o)
  PROVE  IInv'
<1> USE DEF RenameReleased
<1>1. TypeOK'
  BY DEF Late, SectionInv, ReportInv
<1>2. LockInv'
  BY DEF LockInv
<1>3. SectionInv'
  BY DEF LockInv, SectionInv, RecordInv, Effective
<1>4. RecordInv'
  BY DEF LockInv, SectionInv, RecordInv, Granted
<1>5. ReportInv'
  BY DEF LockInv, SectionInv, RecordInv, ReportInv, Granted
<1> QED
  BY <1>1, <1>2, <1>3, <1>4, <1>5 DEF IInv

LEMMA StopReleaseStep ==
  ASSUME IInv, NEW o \in Operator, StopRelease(o)
  PROVE  IInv'
<1> USE DEF StopRelease
<1>1. TypeOK'
  BY DEF Late, SectionInv, ReportInv
<1>2. LockInv'
  BY DEF LockInv
<1>3. SectionInv'
  BY DEF LockInv, SectionInv, RecordInv, Effective
<1>4. RecordInv'
  BY DEF LockInv, SectionInv, RecordInv, Granted
<1>5. ReportInv'
  BY DEF LockInv, SectionInv, RecordInv, ReportInv, Granted
<1> QED
  BY <1>1, <1>2, <1>3, <1>4, <1>5 DEF IInv

LEMMA ClockMovesStep ==
  ASSUME IInv, ClockMoves
  PROVE  IInv'
<1> USE DEF ClockMoves
<1>0. /\ entry \in Entries /\ entry.holder # NoToken
      /\ entry' \in Entries /\ entry'.holder = entry.holder /\ entry'.state = entry.state
      /\ entry'.token = entry.token /\ entry'.mark = entry.mark
      /\ entry'.lease \in {"running", "over"} /\ entry.lease # "never"
  <2>1. entry \in Entries /\ entry.holder # NoToken /\ entry.lease # "never"
    BY DEF RecordInv
  <2>2. PICK l \in {"running", "over"} : entry' = WithLease(entry, l)
    OBVIOUS
  <2> QED
    BY <2>1, <2>2, WithFacts
<1>1. TypeOK'
  BY <1>0 DEF Late, SectionInv, ReportInv
<1>2. LockInv'
  BY <1>0 DEF LockInv
<1>3. SectionInv'
  BY <1>0 DEF LockInv, SectionInv, RecordInv, Effective
<1>4. RecordInv'
  BY <1>0 DEF LockInv, SectionInv, RecordInv, Granted
<1>5. ReportInv'
  BY <1>0 DEF LockInv, SectionInv, RecordInv, ReportInv, Granted
<1> QED
  BY <1>1, <1>2, <1>3, <1>4, <1>5 DEF IInv

LEMMA NextStep == DistinctStamps /\ IInv /\ [Next]_vars => IInv'
<1> SUFFICES ASSUME DistinctStamps, IInv, [Next]_vars PROVE IInv'
  OBVIOUS
<1>1. ASSUME NEW t \in Attempt, AttemptStep(t) PROVE IInv'
  BY <1>1, CallReserveStep, EnterReserveStep, ClaimStep, WriteClaimStep, CallMoveStep, EnterMoveStep,
     CheckTokenStep, MoveWriteStep, LogLateStep DEF AttemptStep
<1>2. ASSUME NEW o \in Operator, OperatorStep(o) PROVE IInv'
  BY <1>2, EnterReleaseStep, CheckUnknownStep, MarkReleasedStep, RenameReleasedStep DEF OperatorStep
<1>3. CASE UNCHANGED vars
  BY <1>3 DEF vars, LockInv, SectionInv, RecordInv, ReportInv, Granted
<1> QED
  BY <1>1, <1>2, <1>3, StopStep, StopAppendingStep, CallReleaseStep, StopReleaseStep, ClockMovesStep DEF Next

(* In every reachable state of the file store the whole inductive          *)
(* invariant holds, whatever the number of attempts and of people          *)
(* releasing and whichever reads of a good file fail, provided two         *)
(* releases never see the same time_ns().                                  *)
THEOREM Invariance == ASSUME DistinctStamps PROVE Spec => []IInv
<1>1. IInv /\ [Next]_vars => IInv'
  BY NextStep
<1> QED
  BY <1>1, InitIInv, PTL DEF Spec

(* Type correctness of the file store.                                     *)
THEOREM TypeCorrect == ASSUME DistinctStamps PROVE Spec => []TypeOK
<1>1. IInv => TypeOK
  OBVIOUS
<1> QED
  BY <1>1, Invariance, PTL

(* docs/SEC006_PREREG.md I1, for every schedule: reserve(), complete(),    *)
(* unknown() and release() by any number of processes, dying anywhere and  *)
(* failing to read anywhere, leave every granted reservation exactly one   *)
(* file, and that file names its holder until its outcome is written or a  *)
(* person releases it.                                                     *)
THEOREM GrantsRecordedOnce == ASSUME DistinctStamps PROVE Spec => []EveryGrantRecordedOnce
<1>1. IInv => EveryGrantRecordedOnce
  <2> SUFFICES ASSUME IInv, NEW t \in Granted
               PROVE  /\ entry.holder = t => ReleasedOf(t) = {}
                      /\ \E e \in RecordOf(t) : RecordOf(t) = {e} /\ Kept(e)
    BY DEF EveryGrantRecordedOnce
  <2>0. t \in Attempt
    BY DEF Granted
  <2>1. CASE entry.holder = t
    BY <2>0, <2>1 DEF RecordInv, ReleasedOf, RecordOf
  <2>2. CASE entry.holder # t
    <3>1. PICK e \in archive : e.holder = t
      BY <2>2 DEF RecordInv
    <3>2. ReleasedOf(t) = {e} /\ Kept(e)
      BY <3>1 DEF RecordInv, ReleasedOf
    <3> QED
      BY <2>2, <3>2 DEF RecordOf
  <2> QED
    BY <2>1, <2>2
<1> QED
  BY <1>1, Invariance, PTL

(* No report of an outcome is lost but one of UNKNOWN that a release()     *)
(* could not read; the late events can be read unless a call was cut off   *)
(* while it appended one; and no key is COMPLETED but by the report of the *)
(* holder whose reservation it is (SEC-004, RK-3).                         *)
THEOREM ReportsNotLost == ASSUME DistinctStamps PROVE Spec => []ReportNotLost
<1>1. IInv => ReportNotLost
  <2> SUFFICES ASSUME IInv PROVE ReportNotLost
    OBVIOUS
  <2>1. ASSUME NEW t \in Attempt, pc[t] = "reported"
        PROVE  \/ \E e \in RecordOf(t) : e.state = report[t]
               \/ [token |-> t, to |-> report[t]] \in late /\ (entry.holder = t => ReadErrors)
               \/ /\ ReadErrors /\ report[t] = "UNKNOWN"
                  /\ \E e \in RecordOf(t) : e.mark = "released" /\ e.token = NoToken
    <3>1. ASSUME NEW e \in {entry} \cup archive, e.holder = t PROVE e \in RecordOf(t)
      BY <3>1 DEF RecordInv, RecordOf, ReleasedOf
    <3> QED
      BY <2>1, <3>1 DEF ReportInv
  <2>2. entry.state = "COMPLETED" => entry.holder \in Attempt /\ report[entry.holder] = "COMPLETED"
    BY DEF RecordInv, ReportInv, Granted
  <2>3. \A e \in archive : e.state # "COMPLETED"
    BY DEF RecordInv
  <2>4. tail # "whole" => \E t \in Attempt : pc[t] = "cut"
    BY DEF ReportInv
  <2> QED
    BY <2>1, <2>2, <2>3, <2>4 DEF ReportNotLost
<1> QED
  BY <1>1, Invariance, PTL

(* A claim whose writer died keeps the key closed for ever.                *)
THEOREM FailsClosed == ASSUME DistinctStamps PROVE Spec => []FailClosed
<1>1. IInv => FailClosed
  BY DEF FailClosed, SectionInv
<1> QED
  BY <1>1, Invariance, PTL

(* COMPLETED is final: no step of anyone reopens or reassigns the key.     *)
THEOREM CompletedFinal == ASSUME DistinctStamps PROVE Spec => CompletedIsFinal
<1> DEFINE Stays == entry.state = "COMPLETED" => entry'.state = "COMPLETED" /\ entry'.holder = entry.holder
<1>1. IInv /\ [Next]_vars => [Stays]_vars
  <2> SUFFICES ASSUME IInv, Next, entry.state = "COMPLETED"
               PROVE  entry'.state = "COMPLETED" /\ entry'.holder = entry.holder
    BY DEF vars
  <2>1. /\ entry # NoEntry /\ entry # Unreadable /\ entry \in Entries
        /\ pc[entry.holder] = "reported" /\ entry.holder \in Attempt
    BY DEF RecordInv, ReportInv, Granted
  <2>2. ASSUME NEW t \in Attempt, AttemptStep(t) PROVE entry' = entry
    <3>1. pc[t] # "writing" /\ pc[t] # "moving"
      <4>1. entry.token = t => entry.holder = t
        BY <2>1 DEF RecordInv
      <4> QED
        BY <2>1, <4>1 DEF SectionInv
    <3> QED
      BY <2>1, <2>2, <3>1 DEF AttemptStep, CallReserve, EnterReserve, Claim, WriteClaim, CallMove, EnterMove,
         CheckToken, MoveWrite, LogLate
  <2>3. ASSUME NEW o \in Operator, OperatorStep(o) PROVE entry' = entry
    <3>1. opc[o] # "marking" /\ opc[o] # "renaming"
      BY DEF SectionInv
    <3> QED
      BY <2>3, <3>1 DEF OperatorStep, EnterRelease, CheckUnknown, MarkReleased, RenameReleased
  <2>4. CASE ClockMoves
    BY <2>1, <2>4, WithFacts DEF ClockMoves
  <2> QED
    BY <2>2, <2>3, <2>4 DEF Next, Stop, StopAppending, CallRelease, StopRelease
<1> QED
  BY <1>1, Invariance, PTL DEF Spec, CompletedIsFinal
---------------------------------------------------------------------------
(* The file store implements the contract of the store: every file-system  *)
(* step is one step of MemoryReservations or leaves its state alone.       *)
(* The entry the contract sees, in each of the four situations.            *)
LEMMA AbstractEntryFacts ==
  IInv => /\ entry = NoEntry => AbstractEntry = Contract!NoEntry
          /\ entry = Unreadable /\ Claiming => AbstractEntry = Contract!NoEntry
          /\ entry = Unreadable /\ ~Claiming => AbstractEntry = Contract!Unread(Contract!NoEntry)
          /\ entry.holder # NoToken =>
               AbstractEntry = Abstract(entry, IF Releasing THEN SeenLease(entry) ELSE entry.lease)
<1> SUFFICES ASSUME IInv
             PROVE  /\ entry = NoEntry => AbstractEntry = Contract!NoEntry
                    /\ entry = Unreadable /\ Claiming => AbstractEntry = Contract!NoEntry
                    /\ entry = Unreadable /\ ~Claiming => AbstractEntry = Contract!Unread(Contract!NoEntry)
                    /\ entry.holder # NoToken =>
                         AbstractEntry = Abstract(entry, IF Releasing THEN SeenLease(entry) ELSE entry.lease)
  OBVIOUS
<1>1. Abstract(NoEntry, "never") = Contract!NoEntry
  BY DEF Abstract, NoEntry, Contract!NoEntry
<1>2. Abstract(Read(Unreadable), "never") = Contract!Unread(Contract!NoEntry)
  BY EntryFacts, UnreadFacts DEF Abstract, Read, Contract!Unread, Contract!NoEntry
<1>3. entry = Unreadable => ~Releasing
  BY DEF SectionInv, Releasing
<1>4. entry.holder # NoToken => Read(entry) = entry /\ entry # NoEntry /\ entry # Unreadable
  BY DEF RecordInv, Read
<1> QED
  BY <1>1, <1>2, <1>3, <1>4, EntryFacts DEF AbstractEntry

LEMMA AbstractEntryFactsNext ==
  IInv' => (/\ entry = NoEntry => AbstractEntry = Contract!NoEntry
            /\ entry = Unreadable /\ Claiming => AbstractEntry = Contract!NoEntry
            /\ entry = Unreadable /\ ~Claiming => AbstractEntry = Contract!Unread(Contract!NoEntry)
            /\ entry.holder # NoToken =>
                 AbstractEntry = Abstract(entry, IF Releasing THEN SeenLease(entry) ELSE entry.lease))'
BY AbstractEntryFacts, PTL

LEMMA AbstractFacts ==
  ASSUME NEW e, NEW l
  PROVE  /\ Abstract(e, l).state = e.state /\ Abstract(e, l).lease = l
         /\ Abstract(e, l).token = e.token /\ Abstract(e, l).holder = e.holder
BY DEF Abstract

(* The entry an attempt or an operator works on is a good file.            *)
LEMMA GoodFile ==
  ASSUME IInv, entry.holder # NoToken
  PROVE  /\ entry \in Entries /\ entry.state \notin {"NONE", "UNREADABLE"}
         /\ entry.lease = "never" <=> entry.token = NoToken
         /\ Kept(entry)
BY DEF RecordInv

(* What the sections exclude: one process at a time, so nobody claims or   *)
(* releases while an attempt is in its own section.                        *)
LEMMA Exclusion ==
  ASSUME IInv
  PROVE  /\ \A t \in Attempt : pc[t] \in InSection => ~Releasing /\ (Claiming => pc[t] = "writing")
         /\ \A o \in Operator : opc[o] \in OpInSection => ~Claiming
BY DEF LockInv, Releasing, Claiming

LEMMA UseMoves ==
  ASSUME NEW t \in Attempt, NEW l, DOMAIN pc = Attempt, pc' = [pc EXCEPT ![t] = l]
  PROVE  AbstractUse' = [AbstractUse EXCEPT ![t] = UseOf(l)]
BY DEF AbstractUse

AbstractArchive == {Abstract(e, SeenLease(e)) : e \in archive}
AbstractVars == <<AbstractEntry, AbstractArchive, late, AbstractUse>>

LEMMA RefinesInit == Init => Contract!Init
<1> SUFFICES ASSUME Init PROVE Contract!Init
  OBVIOUS
<1>1. AbstractEntry = Contract!NoEntry
  BY InitIInv, AbstractEntryFacts DEF Init
<1> QED
  BY <1>1 DEF Init, Contract!Init, AbstractUse, UseOf

LEMMA QuietAttempt ==
  ASSUME IInv, IInv', NEW t \in Attempt,
         CallReserve(t) \/ EnterReserve(t) \/ EnterMove(t) \/ CheckToken(t) \/ \E to \in Reports : CallMove(t, to)
  PROVE  UNCHANGED AbstractVars
<1>1. UNCHANGED <<entry, archive, late, opc>>
  BY DEF CallReserve, EnterReserve, EnterMove, CheckToken, CallMove
<1>2. AbstractUse' = AbstractUse
  BY DEF AbstractUse, UseOf, CallReserve, EnterReserve, EnterMove, CheckToken, CallMove
<1>3. Claiming' = Claiming /\ Releasing' = Releasing
  BY <1>1 DEF Claiming, Releasing, CallReserve, EnterReserve, EnterMove, CheckToken, CallMove
<1> QED
  BY <1>1, <1>2, <1>3 DEF AbstractVars, AbstractEntry, AbstractArchive

LEMMA ClaimRefines ==
  ASSUME IInv, IInv', NEW t \in Attempt, Claim(t)
  PROVE  Contract!ReserveRefused(t) \/ UNCHANGED AbstractVars
<1>1. CASE entry # NoEntry
  <2>1. /\ UNCHANGED <<entry, archive, late, opc>> /\ ~Claiming /\ ~Claiming' /\ Releasing' = Releasing
    BY <1>1, Exclusion DEF Claim, Claiming, Releasing
  <2>2. AbstractEntry' = AbstractEntry /\ AbstractEntry # Contract!NoEntry
    <3>1. AbstractEntry.state # "NONE"
      BY <1>1, <2>1, AbstractEntryFacts, AbstractFacts DEF RecordInv, Contract!Unread
    <3> QED
      BY <2>1, <3>1 DEF AbstractEntry, Contract!NoEntry
  <2>3. AbstractUse[t] = "fresh" /\ AbstractUse' = [AbstractUse EXCEPT ![t] = "refused"]
    BY <1>1, UseMoves DEF Claim, AbstractUse, UseOf
  <2> QED
    BY <2>1, <2>2, <2>3 DEF Contract!ReserveRefused, Contract!storeVars
<1>2. CASE entry = NoEntry
  <2>1. entry' = Unreadable /\ Claiming' /\ UNCHANGED <<archive, late>>
    BY <1>2 DEF Claim, Claiming
  <2>2. AbstractEntry = Contract!NoEntry /\ AbstractEntry' = Contract!NoEntry
    BY <1>2, <2>1, AbstractEntryFacts, EntryFacts DEF AbstractEntry
  <2>3. AbstractUse' = AbstractUse
    BY <1>2 DEF Claim, AbstractUse, UseOf
  <2> QED
    BY <2>1, <2>2, <2>3 DEF AbstractVars, AbstractArchive
<1> QED
  BY <1>1, <1>2

LEMMA WriteClaimRefines ==
  ASSUME IInv, IInv', NEW t \in Attempt, WriteClaim(t)
  PROVE  Contract!Reserve(t)
<1>1. AbstractEntry = Contract!NoEntry
  BY AbstractEntryFacts DEF WriteClaim, SectionInv, Claiming
<1>2. PICK lease \in {"running", "over"} : entry' = InFlight(t, lease)
  BY DEF WriteClaim
<1>3. ~Releasing'
  BY Exclusion DEF WriteClaim, Releasing
<1>4. AbstractEntry' = Contract!InFlight(t, lease)
  <2>1. entry'.holder = t /\ entry'.lease = lease /\ entry'.state = "IN_FLIGHT" /\ entry' # NoEntry /\ entry' # Unreadable
    BY <1>2, InFlightFacts
  <2>2. Read(entry') = entry' /\ entry'.token = t
    BY <1>2, <2>1, InFlightFacts DEF Read
  <2>3. AbstractEntry' = Abstract(entry', lease)
    BY <1>3, <2>1, <2>2 DEF AbstractEntry
  <2> QED
    BY <2>1, <2>2, <2>3 DEF Abstract, Contract!InFlight
<1>5. AbstractUse[t] = "fresh" /\ AbstractUse' = [AbstractUse EXCEPT ![t] = "holding"]
  BY UseMoves DEF WriteClaim, AbstractUse, UseOf
<1> QED
  BY <1>1, <1>4, <1>5 DEF Contract!Reserve, WriteClaim

LEMMA MoveWriteRefines ==
  ASSUME IInv, IInv', NEW t \in Attempt, MoveWrite(t)
  PROVE  Contract!Move(t, report[t])
<1>1. entry.token = t /\ entry.holder = t /\ report[t] \in Reports
  BY DEF MoveWrite, SectionInv, RecordInv, ReportInv
<1>2. ~Releasing /\ ~Releasing'
  BY Exclusion DEF MoveWrite, Releasing
<1>3. AbstractEntry = Abstract(entry, entry.lease)
  BY <1>1, <1>2, AbstractEntryFacts
<1>4. PICK e \in {entry} \cup (IF ReadErrors THEN {Unread(entry)} ELSE {}) : entry' = WithState(e, report[t])
  <2>1. PICK e \in Readings(entry) : entry' = WithState(e, report[t])
    BY DEF MoveWrite
  <2> QED
    BY <1>1, <2>1, GoodFile, ReadFacts
<1>5. /\ e \in Entries /\ e.holder = t
      /\ entry'.state = report[t] /\ entry'.token = e.token /\ entry'.holder = t /\ entry'.lease = e.lease
  <2>1. e \in Entries /\ e.holder = t
    BY <1>1, <1>4, GoodFile, UnreadFacts
  <2> QED
    BY <1>1, <1>4, <2>1, WithFacts
<1>6. AbstractEntry' = [Abstract(e, e.lease) EXCEPT !.state = report[t]]
  <2>1. AbstractEntry' = Abstract(entry', entry'.lease)
    BY <1>2, <1>5, AbstractEntryFactsNext
  <2> QED
    BY <1>5, <2>1 DEF Abstract
<1>7. Abstract(e, e.lease) \in Contract!Readings(AbstractEntry)
  <2>1. CASE e = entry
    BY <1>3, <2>1 DEF Contract!Readings
  <2>2. CASE ReadErrors /\ e = Unread(entry)
    <3>1. Abstract(e, e.lease) = Contract!Unread(AbstractEntry)
      BY <1>3, <2>2 DEF Abstract, Unread, Contract!Unread
    <3> QED
      BY <2>2, <3>1 DEF Contract!Readings
  <2> QED
    BY <1>4, <2>1, <2>2
<1>8. AbstractUse[t] = "holding" /\ AbstractUse' = [AbstractUse EXCEPT ![t] = "reported"]
  <2>1. UseOf("reported") = "reported"
    BY DEF UseOf
  <2>2. pc' = [pc EXCEPT ![t] = "reported"]
    BY DEF MoveWrite
  <2>3. AbstractUse[t] = "holding"
    BY DEF MoveWrite, AbstractUse, UseOf
  <2>4. AbstractUse' = [AbstractUse EXCEPT ![t] = UseOf("reported")]
    <3>1. DOMAIN pc = Attempt
      OBVIOUS
    <3> HIDE DEF IInv, UseOf
    <3> QED
      BY <2>2, <3>1, UseMoves
  <2> QED
    BY <2>1, <2>3, <2>4
<1>9. AbstractEntry.token = t
  BY <1>1, <1>3 DEF Abstract
<1>10. UNCHANGED <<archive, late>>
  BY DEF MoveWrite
<1> QED
  BY <1>6, <1>7, <1>8, <1>9, <1>10 DEF Contract!Move

LEMMA LogLateRefines ==
  ASSUME IInv, IInv', NEW t \in Attempt, LogLate(t)
  PROVE  Contract!Move(t, report[t])
<1>1. AbstractEntry.token = t => ReadErrors
  <2>1. entry.holder = NoToken => AbstractEntry.token = NoToken
    BY AbstractEntryFacts DEF RecordInv, Contract!NoEntry, Contract!Unread
  <2>2. entry.holder # NoToken => AbstractEntry.token = entry.token
    BY AbstractEntryFacts, AbstractFacts
  <2> QED
    BY <2>1, <2>2, GoodFile DEF LogLate, SectionInv
<1>2. /\ UNCHANGED <<entry, archive, opc>> /\ ~Claiming /\ ~Claiming' /\ Releasing' = Releasing
  BY Exclusion DEF LogLate, Claiming, Releasing
<1>3. AbstractEntry' = AbstractEntry
  BY <1>2 DEF AbstractEntry
<1>4. AbstractUse[t] = "holding" /\ AbstractUse' = [AbstractUse EXCEPT ![t] = "reported"]
  <2>1. UseOf("reported") = "reported"
    BY DEF UseOf
  <2>2. pc' = [pc EXCEPT ![t] = "reported"]
    BY DEF LogLate
  <2>3. AbstractUse[t] = "holding"
    BY DEF LogLate, AbstractUse, UseOf
  <2>4. AbstractUse' = [AbstractUse EXCEPT ![t] = UseOf("reported")]
    <3>1. DOMAIN pc = Attempt
      OBVIOUS
    <3> HIDE DEF IInv, UseOf
    <3> QED
      BY <2>2, <3>1, UseMoves
  <2> QED
    BY <2>1, <2>3, <2>4
<1> QED
  BY <1>1, <1>2, <1>3, <1>4 DEF Contract!Move, LogLate

LEMMA StopAppendingRefines ==
  ASSUME IInv, IInv', NEW t \in Attempt, StopAppending(t)
  PROVE  Contract!Abandon(t)
<1>1. /\ UNCHANGED <<entry, archive, late, opc>> /\ Claiming' = Claiming /\ Releasing' = Releasing
  BY DEF StopAppending, Claiming, Releasing
<1>2. AbstractEntry' = AbstractEntry
  BY <1>1 DEF AbstractEntry
<1>3. AbstractUse[t] = "holding" /\ AbstractUse' = [AbstractUse EXCEPT ![t] = "gone"]
  <2>1. UseOf("cut") = "gone"
    BY DEF UseOf
  <2>2. pc' = [pc EXCEPT ![t] = "cut"]
    BY DEF StopAppending
  <2>3. AbstractUse[t] = "holding"
    BY DEF StopAppending, AbstractUse, UseOf
  <2>4. AbstractUse' = [AbstractUse EXCEPT ![t] = UseOf("cut")]
    <3>1. DOMAIN pc = Attempt
      OBVIOUS
    <3> HIDE DEF IInv, UseOf
    <3> QED
      BY <2>2, <3>1, UseMoves
  <2> QED
    BY <2>1, <2>3, <2>4
<1> QED
  BY <1>1, <1>2, <1>3 DEF Contract!Abandon, Contract!storeVars

LEMMA StopRefines ==
  ASSUME IInv, IInv', NEW t \in Attempt, Stop(t)
  PROVE  Contract!Poison(t) \/ Contract!Abandon(t) \/ UNCHANGED AbstractVars
<1>1. UNCHANGED <<entry, archive, late, report, opc>> /\ Releasing' = Releasing
  BY DEF Stop, Releasing
<1>2. CASE pc[t] = "writing"
  <2>1. entry = Unreadable /\ Claiming /\ ~Claiming' /\ ~Releasing
    BY <1>2, Exclusion DEF Stop, SectionInv, Claiming, LockInv
  <2>2. AbstractEntry = Contract!NoEntry /\ AbstractEntry' = Contract!Unread(Contract!NoEntry)
    BY <1>1, <2>1, AbstractEntryFacts, AbstractEntryFactsNext
  <2>3. AbstractUse[t] = "fresh" /\ AbstractUse' = [AbstractUse EXCEPT ![t] = "failed"]
    <3>1. UseOf("failed") = "failed"
      BY DEF UseOf
    <3>2. pc' = [pc EXCEPT ![t] = "failed"]
      BY <1>2 DEF Stop
    <3>3. AbstractUse[t] = "fresh"
      BY <1>2 DEF Stop, AbstractUse, UseOf
    <3>4. AbstractUse' = [AbstractUse EXCEPT ![t] = UseOf("failed")]
      <4>1. DOMAIN pc = Attempt
        OBVIOUS
      <4> HIDE DEF IInv, UseOf
      <4> QED
        BY <3>2, <4>1, UseMoves
    <3> QED
      BY <3>1, <3>3, <3>4
  <2> QED
    BY <1>1, <2>2, <2>3 DEF Contract!Poison
<1>3. CASE pc[t] \in BeforeGrant \ {"writing"}
  <2>1. Claiming' = Claiming /\ AbstractUse' = AbstractUse
    BY <1>3 DEF Stop, Claiming, AbstractUse, UseOf
  <2> QED
    BY <1>1, <2>1 DEF AbstractVars, AbstractEntry, AbstractArchive
<1>4. CASE pc[t] \in AfterGrant
  <2>1. Claiming' = Claiming
    BY <1>4 DEF Stop, Claiming
  <2>2. AbstractEntry' = AbstractEntry
    BY <1>1, <2>1 DEF AbstractEntry
  <2>3. AbstractUse[t] = "holding" /\ AbstractUse' = [AbstractUse EXCEPT ![t] = "gone"]
    BY <1>4, UseMoves DEF Stop, AbstractUse, UseOf
  <2> QED
    BY <1>1, <2>2, <2>3 DEF Contract!Abandon, Contract!storeVars
<1> QED
  BY <1>2, <1>3, <1>4 DEF Stop

(* Steps that change at most whether somebody is releasing: the contract   *)
(* sees a lease move, or a release() that fails on a file it cannot read.  *)
LEMMA ReleasingRefines ==
  ASSUME IInv, IInv', UNCHANGED <<entry, archive, late, pc>>,
         ~Releasing /\ Releasing' => Effective(entry) = "UNKNOWN"
  PROVE  Contract!ClockMoves \/ Contract!Forget \/ UNCHANGED AbstractVars
<1>1. AbstractUse' = AbstractUse /\ Claiming' = Claiming /\ AbstractArchive' = AbstractArchive
  BY DEF AbstractUse, Claiming, AbstractArchive
<1>2. CASE entry.holder = NoToken
  <2>1. AbstractEntry' = AbstractEntry
    BY <1>1, <1>2, AbstractEntryFacts, AbstractEntryFactsNext DEF RecordInv
  <2> QED
    BY <1>1, <2>1 DEF AbstractVars
<1>3. CASE entry.holder # NoToken /\ Releasing' = Releasing
  <2>1. AbstractEntry' = AbstractEntry
    BY <1>1, <1>3, AbstractEntryFacts, AbstractEntryFactsNext
  <2> QED
    BY <1>1, <2>1 DEF AbstractVars
<1>4. CASE entry.holder # NoToken /\ ~Releasing /\ Releasing'
  <2>1. SeenLease(entry) = entry.lease
    BY <1>4, GoodFile DEF Effective, SeenLease
  <2>2. AbstractEntry' = AbstractEntry
    BY <1>4, <2>1, AbstractEntryFacts, AbstractEntryFactsNext
  <2> QED
    BY <1>1, <2>2 DEF AbstractVars
<1>5. CASE entry.holder # NoToken /\ Releasing /\ ~Releasing'
  <2>1. AbstractEntry = Abstract(entry, SeenLease(entry)) /\ AbstractEntry' = Abstract(entry, entry.lease)
    BY <1>5, AbstractEntryFacts, AbstractEntryFactsNext
  <2>2. CASE entry.state # "IN_FLIGHT"
    BY <1>1, <2>1, <2>2 DEF AbstractVars, SeenLease
  <2>3. CASE entry.state = "IN_FLIGHT" /\ entry.lease # "never"
    <3>1. AbstractEntry' = [AbstractEntry EXCEPT !.lease = entry.lease] /\ AbstractEntry.lease = "over"
      BY <2>1, <2>3 DEF Abstract, SeenLease
    <3>2. entry.lease \in {"running", "over"}
      BY <1>5, <2>3, GoodFile DEF Entries
    <3> QED
      BY <1>1, <3>1, <3>2 DEF Contract!ClockMoves, AbstractArchive
  <2>4. CASE entry.state = "IN_FLIGHT" /\ entry.lease = "never"
    <3>1. entry.token = NoToken /\ ReadErrors
      BY <1>5, <2>4, GoodFile
    <3>2. AbstractEntry' = [Contract!Unread(AbstractEntry) EXCEPT !.lease = "never"]
      BY <2>1, <2>4, <3>1 DEF Abstract, Contract!Unread
    <3>3. Contract!Effective(AbstractEntry) = "UNKNOWN"
      BY <2>1, <2>4, AbstractFacts DEF Contract!Effective, SeenLease
    <3> QED
      BY <1>1, <3>1, <3>2, <3>3 DEF Contract!Forget, AbstractArchive
  <2> QED
    BY <2>2, <2>3, <2>4
<1> QED
  BY <1>2, <1>3, <1>4, <1>5 DEF Releasing

LEMMA ClockRefines ==
  ASSUME IInv, IInv', ClockMoves
  PROVE  Contract!ClockMoves \/ UNCHANGED AbstractVars
<1>1. entry.holder # NoToken /\ entry \in Entries
  BY DEF ClockMoves, RecordInv
<1>2. PICK l \in {"running", "over"} : entry' = WithLease(entry, l)
  BY DEF ClockMoves
<1>3. /\ entry'.holder = entry.holder /\ entry'.state = entry.state
      /\ entry'.token = entry.token /\ entry'.lease = l
  BY <1>1, <1>2, WithFacts
<1>4. AbstractUse' = AbstractUse /\ Releasing' = Releasing /\ AbstractArchive' = AbstractArchive
  BY DEF ClockMoves, AbstractUse, Releasing, AbstractArchive
<1> DEFINE old == IF Releasing THEN SeenLease(entry) ELSE entry.lease
           new == IF Releasing THEN SeenLease(entry') ELSE l
<1>5. AbstractEntry = Abstract(entry, old) /\ AbstractEntry' = Abstract(entry', new)
  BY <1>1, <1>3, <1>4, AbstractEntryFacts, AbstractEntryFactsNext
<1>6. old \in {"running", "over"} /\ new \in {"running", "over"}
  BY <1>3 DEF ClockMoves, SeenLease
<1>7. AbstractEntry' = [AbstractEntry EXCEPT !.lease = new] /\ AbstractEntry.lease = old
  BY <1>3, <1>5 DEF Abstract
<1> QED
  BY <1>4, <1>6, <1>7 DEF Contract!ClockMoves, AbstractArchive, ClockMoves

LEMMA QuietOperator ==
  ASSUME IInv, IInv', NEW o \in Operator,
         CallRelease(o) \/ EnterRelease(o) \/ CheckUnknown(o) \/ StopRelease(o)
  PROVE  Contract!ClockMoves \/ Contract!Forget \/ UNCHANGED AbstractVars
<1>1. UNCHANGED <<entry, archive, late, pc>>
  BY DEF CallRelease, EnterRelease, CheckUnknown, StopRelease
<1>2. CASE CheckUnknown(o)
  <2>1. PICK e \in Readings(entry) : \/ Effective(e) = "UNKNOWN"
                                     \/ Effective(e) # "UNKNOWN" /\ OpGoto(o, "idle")
    BY <1>2 DEF CheckUnknown
  <2>2. Effective(Unread(entry)) # "UNKNOWN"
    BY DEF Unread, Effective
  <2>3. Effective(e) = "UNKNOWN" => Effective(entry) = "UNKNOWN"
    BY <2>1, <2>2 DEF Readings, Read
  <2>4. OpGoto(o, "idle") => (Releasing' => Releasing)
    BY DEF Releasing
  <2> QED
    BY <1>1, <2>1, <2>3, <2>4, ReleasingRefines
<1>3. CASE CallRelease(o) \/ EnterRelease(o) \/ StopRelease(o)
  <2>1. Releasing' => Releasing
    BY <1>3 DEF Releasing, CallRelease, EnterRelease, StopRelease
  <2> QED
    BY <1>1, <2>1, ReleasingRefines
<1> QED
  BY <1>2, <1>3

LEMMA MarkRefines ==
  ASSUME IInv, IInv', NEW o \in Operator, MarkReleased(o)
  PROVE  Contract!Forget \/ UNCHANGED AbstractVars
<1>1. entry.holder # NoToken /\ entry \in Entries /\ entry.state \in {"IN_FLIGHT", "UNKNOWN"}
  BY DEF MarkReleased, RecordInv, SectionInv
<1>2. /\ Releasing /\ Releasing' /\ AbstractUse' = AbstractUse /\ AbstractArchive' = AbstractArchive
      /\ UNCHANGED <<archive, late>>
  BY DEF MarkReleased, Releasing, AbstractUse, AbstractArchive
<1>3. PICK e \in Readings(entry) : entry' = Marked(e)
  BY DEF MarkReleased
<1>4. e \in Entries /\ e.holder = entry.holder /\ (e = entry \/ (ReadErrors /\ e = Unread(entry)))
  BY <1>1, <1>3, ReadFacts, UnreadFacts
<1>5. /\ entry'.holder = entry.holder /\ entry'.state = e.state
      /\ entry'.token = e.token /\ entry'.lease = e.lease
  BY <1>3, <1>4, WithFacts
<1>6. AbstractEntry = Abstract(entry, SeenLease(entry)) /\ AbstractEntry' = Abstract(entry', SeenLease(entry'))
  BY <1>1, <1>2, <1>5, AbstractEntryFacts, AbstractEntryFactsNext
<1>7. CASE e = entry
  <2>1. AbstractEntry' = AbstractEntry
    BY <1>5, <1>6, <1>7 DEF Abstract, SeenLease
  <2> QED
    BY <1>2, <2>1 DEF AbstractVars
<1>8. CASE ReadErrors /\ e = Unread(entry)
  <2>1. AbstractEntry' = [Contract!Unread(AbstractEntry) EXCEPT !.lease = "over"]
    BY <1>5, <1>6, <1>8 DEF Abstract, SeenLease, Unread, Contract!Unread
  <2>2. Contract!Effective(AbstractEntry) = "UNKNOWN"
    BY <1>1, <1>6, AbstractFacts DEF Contract!Effective, SeenLease
  <2> QED
    BY <1>2, <1>8, <2>1, <2>2 DEF Contract!Forget, AbstractArchive
<1> QED
  BY <1>4, <1>7, <1>8

LEMMA RenameRefines ==
  ASSUME IInv, IInv', DistinctStamps, NEW o \in Operator, RenameReleased(o)
  PROVE  Contract!Release
<1>1. /\ entry.holder # NoToken /\ entry.state \in {"IN_FLIGHT", "UNKNOWN"} /\ Releasing
      /\ entry' = NoEntry /\ archive' = archive \cup {entry} /\ UNCHANGED <<late, pc>>
  BY DEF RenameReleased, RecordInv, SectionInv, Releasing
<1>2. AbstractEntry = Abstract(entry, SeenLease(entry)) /\ AbstractEntry' = Contract!NoEntry
  BY <1>1, AbstractEntryFacts, AbstractEntryFactsNext
<1>3. Contract!Effective(AbstractEntry) = "UNKNOWN"
  BY <1>1, <1>2, AbstractFacts DEF Contract!Effective, SeenLease
<1>4. AbstractArchive' = AbstractArchive \cup {AbstractEntry}
  BY <1>1, <1>2 DEF AbstractArchive
<1>5. AbstractUse' = AbstractUse
  BY <1>1 DEF AbstractUse
<1> QED
  BY <1>1, <1>2, <1>3, <1>4, <1>5 DEF Contract!Release, AbstractArchive

LEMMA RefinesNext ==
  DistinctStamps /\ IInv /\ IInv' /\ [Next]_vars => [Contract!Next]_(Contract!vars)
<1> SUFFICES ASSUME DistinctStamps, IInv, IInv', [Next]_vars
             PROVE  Contract!Next \/ UNCHANGED AbstractVars
  BY DEF AbstractVars, AbstractArchive, Contract!vars
<1>1. ASSUME NEW t \in Attempt, AttemptStep(t) PROVE Contract!Next \/ UNCHANGED AbstractVars
  <2>1. CASE MoveWrite(t) \/ LogLate(t)
    <3>1. report[t] \in Reports
      BY <2>1 DEF MoveWrite, LogLate, ReportInv
    <3> QED
      BY <2>1, <3>1, MoveWriteRefines, LogLateRefines DEF Contract!Next, Contract!AttemptStep, Contract!Reports
  <2> QED
    BY <1>1, <2>1, QuietAttempt, ClaimRefines, WriteClaimRefines
       DEF AttemptStep, Contract!Next, Contract!AttemptStep
<1>2. ASSUME NEW t \in Attempt, Stop(t) \/ StopAppending(t) PROVE Contract!Next \/ UNCHANGED AbstractVars
  BY <1>2, StopRefines, StopAppendingRefines DEF Contract!Next, Contract!AttemptStep
<1>3. ASSUME NEW o \in Operator, CallRelease(o) \/ OperatorStep(o) \/ StopRelease(o)
      PROVE  Contract!Next \/ UNCHANGED AbstractVars
  BY <1>3, QuietOperator, MarkRefines, RenameRefines DEF OperatorStep, Contract!Next
<1>4. CASE ClockMoves
  BY <1>4, ClockRefines DEF Contract!Next
<1>5. CASE UNCHANGED vars
  BY <1>5 DEF vars, AbstractVars, AbstractEntry, AbstractUse, AbstractArchive, Claiming, Releasing
<1> QED
  BY <1>1, <1>2, <1>3, <1>4, <1>5 DEF Next

(* The file store, with its locks, partial writes, failed reads and dying  *)
(* processes, implements the contract of the store: whoever uses a key     *)
(* sees MemoryReservations, and with ~ReadErrors the atomic store that is  *)
(* kept in memory.                                                         *)
THEOREM FileImplementsMemory == ASSUME DistinctStamps PROVE Spec => ImplementsContract
<1>1. IInv /\ IInv' /\ [Next]_vars => [Contract!Next]_(Contract!vars)
  BY RefinesNext
<1> QED
  BY <1>1, RefinesInit, Invariance, PTL DEF Spec, ImplementsContract, Contract!Spec
=============================================================================
