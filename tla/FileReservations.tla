-------------------------- MODULE FileReservations --------------------------
(***************************************************************************)
(* One idempotency key of FileReservations (idempotency.py): a file in a   *)
(* directory shared by processes.  Every operation takes the key's OS lock *)
(* and then works in several file-system steps; a process can die between  *)
(* any two of them, and an I/O error can end an operation part way.        *)
(*                                                                         *)
(* The lock is dropped in the same step as the last file operation of a    *)
(* section, and a read that is followed by a write belongs to the step of  *)
(* the write: the lock lets nobody in between, and nothing the holder does *)
(* there is visible to another process.  An entry that cannot be read (a   *)
(* claim whose writer died) is "UNREADABLE"; the code reads it as          *)
(* IN_FLIGHT with an infinite lease, and takes a good entry for the same   *)
(* when the read of it fails.                                              *)
(*                                                                         *)
(* token is what the file says; holder is whose reservation it is, which   *)
(* the model remembers also when the file no longer does and which no step *)
(* reads.                                                                  *)
(***************************************************************************)
CONSTANTS Attempt,         \* the calls of reserve(), each with its own token
          Operator,        \* the people who release keys
          NoToken,         \* a file that is nobody's reservation
          Free,            \* the lock when nobody holds it
          DistinctStamps,  \* no two releases of the key see one time_ns()
          ReadErrors       \* the read of a good file may fail

ASSUME ConstantAssumption ==
  /\ NoToken \notin Attempt
  /\ Attempt \cap Operator = {}
  /\ Free \notin Attempt \cup Operator
  /\ DistinctStamps \in BOOLEAN /\ ReadErrors \in BOOLEAN

VARIABLES entry,     \* the key's active file
          archive,   \* the *.released-*.json files
          late,      \* the events appended to the *.late.jsonl file
          tail,      \* how that file ends
          lock,      \* who holds the OS lock of the key
          pc,        \* where each attempt is
          report,    \* the outcome each attempt reports or reported
          opc        \* where each operator is

vars == <<entry, archive, late, tail, lock, pc, report, opc>>

States  == {"IN_FLIGHT", "COMPLETED", "UNKNOWN", "UNREADABLE"}
Leases  == {"running", "over", "never"}
Marks   == {"none", "released"}
Reports == {"COMPLETED", "UNKNOWN"}
NoReport == "NONE"

NoEntry    == [state |-> "NONE", token |-> NoToken, holder |-> NoToken, lease |-> "never", mark |-> "none"]
Unreadable == [NoEntry EXCEPT !.state = "UNREADABLE"]
Entries == [state : States, token : Attempt \cup {NoToken}, holder : Attempt \cup {NoToken}, lease : Leases, mark : Marks]
Late    == [token : Attempt, to : Reports]

(* Every line is whole; or the last one lacks its newline, and the next is *)
(* glued to it; or some line is no event, and late_events() raises.        *)
Tails == {"whole", "unended", "broken"}

WithState(e, s) == [e EXCEPT !.state = s]
WithLease(e, l) == [e EXCEPT !.lease = l]
Marked(e)       == [e EXCEPT !.mark = "released"]
InFlight(t, lease) == [state |-> "IN_FLIGHT", token |-> t, holder |-> t, lease |-> lease, mark |-> "none"]

Effective(e) ==
  CASE e.state = "UNREADABLE"                       -> "IN_FLIGHT"
    [] e.state = "IN_FLIGHT" /\ e.lease = "over"    -> "UNKNOWN"
    [] OTHER                                        -> e.state

(* What _read() returns.  A file that is not readable JSON, and one the    *)
(* system fails to read (OSError), is an entry that is IN_FLIGHT for ever, *)
(* without a token and without a history.                                  *)
Unread(e)   == [state |-> "IN_FLIGHT", token |-> NoToken, holder |-> e.holder, lease |-> "never", mark |-> "none"]
Read(e)     == IF e.state \in {"NONE", "UNREADABLE"} THEN Unread(e) ELSE e
Readings(e) == {Read(e)} \cup (IF ReadErrors THEN {Unread(e)} ELSE {})

BeforeGrant  == {"start", "reserving", "claiming", "writing"}
InSection    == {"claiming", "writing", "checking", "moving", "logging"}
InMove       == {"moving_wait", "checking", "moving", "logging"}
AfterGrant   == {"granted"} \cup InMove
Ended        == {"refused", "failed", "dead", "reported", "unreported", "cut", "gone"}
AttemptPC    == BeforeGrant \cup AfterGrant \cup Ended
OpInSection  == {"check", "marking", "renaming"}
OperatorPC   == {"idle", "waiting"} \cup OpInSection

Goto(t, l)   == pc' = [pc EXCEPT ![t] = l]
OpGoto(o, l) == opc' = [opc EXCEPT ![o] = l]
Acquire(p)   == lock = Free /\ lock' = p
Unlock       == lock' = Free
---------------------------------------------------------------------------
Init ==
  /\ entry = NoEntry
  /\ archive = {}
  /\ late = {}
  /\ tail = "whole"
  /\ lock = Free
  /\ pc = [t \in Attempt |-> "start"]
  /\ report = [t \in Attempt |-> NoReport]
  /\ opc = [o \in Operator |-> "idle"]

(* reserve(): the clock and the token are taken before the lock.           *)
CallReserve(t) ==
  /\ pc[t] = "start"
  /\ Goto(t, "reserving")
  /\ UNCHANGED <<entry, archive, late, tail, lock, report, opc>>

EnterReserve(t) ==
  /\ pc[t] = "reserving"
  /\ Acquire(t)
  /\ Goto(t, "claiming")
  /\ UNCHANGED <<entry, archive, late, tail, report, opc>>

(* Mutant: an unreadable file is taken for a free key.                     *)
ClaimOverUnreadable(t) ==
  /\ pc[t] = "claiming"
  /\ \/ /\ entry \notin {NoEntry, Unreadable}
        /\ Unlock
        /\ Goto(t, "refused")
        /\ UNCHANGED entry
     \/ /\ entry \in {NoEntry, Unreadable}
        /\ entry' = Unreadable
        /\ Goto(t, "writing")
        /\ UNCHANGED lock
  /\ UNCHANGED <<archive, late, tail, report, opc>>

(* Mutant: an expired lease is taken as permission to run again.           *)
ClaimExpired(t) ==
  /\ pc[t] = "claiming"
  /\ \/ /\ entry # NoEntry /\ Effective(entry) # "UNKNOWN"
        /\ Unlock
        /\ Goto(t, "refused")
        /\ UNCHANGED entry
     \/ /\ entry = NoEntry \/ Effective(entry) = "UNKNOWN"
        /\ entry' = Unreadable
        /\ Goto(t, "writing")
        /\ UNCHANGED lock
  /\ UNCHANGED <<archive, late, tail, report, opc>>

(* os.open(O_CREAT | O_EXCL): an existing file in any state is a refusal;  *)
(* otherwise the file exists, empty, from here on.                         *)
Claim(t) ==
  /\ pc[t] = "claiming"
  /\ \/ /\ entry # NoEntry
        /\ Unlock
        /\ Goto(t, "refused")
        /\ UNCHANGED entry
     \/ /\ entry = NoEntry
        /\ entry' = Unreadable
        /\ Goto(t, "writing")
        /\ UNCHANGED lock
  /\ UNCHANGED <<archive, late, tail, report, opc>>

(* The lease was counted from before the wait for the lock, so it may be   *)
(* over when the entry is written.                                         *)
WriteClaim(t) ==
  /\ pc[t] = "writing"
  /\ \E lease \in {"running", "over"} : entry' = InFlight(t, lease)
  /\ Unlock
  /\ Goto(t, "granted")
  /\ UNCHANGED <<archive, late, tail, report, opc>>

(* complete() or unknown() with the caller's token.                        *)
CallMove(t, to) ==
  /\ pc[t] = "granted"
  /\ report' = [report EXCEPT ![t] = to]
  /\ Goto(t, "moving_wait")
  /\ UNCHANGED <<entry, archive, late, tail, lock, opc>>

(* Mutant: complete() and unknown() without the key's lock (SEC-004).      *)
EnterMoveUnlocked(t) ==
  /\ pc[t] = "moving_wait"
  /\ Goto(t, "checking")
  /\ UNCHANGED <<entry, archive, late, tail, lock, report, opc>>

EnterMove(t) ==
  /\ pc[t] = "moving_wait"
  /\ Acquire(t)
  /\ Goto(t, "checking")
  /\ UNCHANGED <<entry, archive, late, tail, report, opc>>

CheckToken(t) ==
  /\ pc[t] = "checking"
  /\ \E e \in Readings(entry) : Goto(t, IF e.token = t THEN "moving" ELSE "logging")
  /\ UNCHANGED <<entry, archive, late, tail, lock, report, opc>>

(* The entry is read again, not taken from the check, and replaced whole:  *)
(* by one without its token when this second read fails.                   *)
MoveWrite(t) ==
  /\ pc[t] = "moving"
  /\ \E e \in Readings(entry) : entry' = WithState(e, report[t])
  /\ Unlock
  /\ Goto(t, "reported")
  /\ UNCHANGED <<archive, late, tail, report, opc>>

(* Mutant: a late holder's report is dropped.                              *)
DropLate(t) ==
  /\ pc[t] = "logging"
  /\ Unlock
  /\ Goto(t, "reported")
  /\ UNCHANGED <<entry, archive, late, tail, report, opc>>

(* One line is appended, whatever the file ended with.  A call that dies   *)
(* or raises after its whole line (fsync) has reported, too.               *)
LogLate(t) ==
  /\ pc[t] = "logging"
  /\ late' = late \cup {[token |-> t, to |-> report[t]]}
  /\ tail' = IF tail = "whole" THEN "whole" ELSE "broken"
  /\ Unlock
  /\ Goto(t, "reported")
  /\ UNCHANGED <<entry, archive, report, opc>>

(* Mutant: a lock that outlives the process that took it.                  *)
StopKeepsLock(t) ==
  /\ pc[t] \in (BeforeGrant \cup AfterGrant)
  /\ Goto(t, CASE pc[t] = "writing"                                -> "failed"
               [] pc[t] \in BeforeGrant \ {"writing"}              -> "dead"
               [] pc[t] = "granted"                                -> "gone"
               [] OTHER                                            -> "unreported")
  /\ UNCHANGED <<entry, archive, late, tail, lock, report, opc>>

(* An I/O error or the death of the process ends the call where it is; the *)
(* operating system drops the lock.  The temporary file of a write that    *)
(* did not reach os.replace() is never read.  A claim that is written and  *)
(* then fails (fsync) was granted and is gone.                             *)
Stop(t) ==
  /\ pc[t] \in (BeforeGrant \cup AfterGrant)
  /\ Goto(t, CASE pc[t] = "writing"                                -> "failed"
               [] pc[t] \in BeforeGrant \ {"writing"}              -> "dead"
               [] pc[t] = "granted"                                -> "gone"
               [] OTHER                                            -> "unreported")
  /\ lock' = IF lock = t THEN Free ELSE lock
  /\ UNCHANGED <<entry, archive, late, tail, report, opc>>

(* Cut off while it appends its line: a part of the line is in the file,   *)
(* or all of it but the newline.                                           *)
StopAppending(t) ==
  /\ pc[t] = "logging"
  /\ tail' \in IF tail = "whole" THEN {"unended", "broken"} ELSE {"broken"}
  /\ Unlock
  /\ Goto(t, "cut")
  /\ UNCHANGED <<entry, archive, late, report, opc>>

(* release() by a person.                                                  *)
CallRelease(o) ==
  /\ opc[o] = "idle"
  /\ OpGoto(o, "waiting")
  /\ UNCHANGED <<entry, archive, late, tail, lock, pc, report>>

EnterRelease(o) ==
  /\ opc[o] = "waiting"
  /\ Acquire(o)
  /\ OpGoto(o, "check")
  /\ UNCHANGED <<entry, archive, late, tail, pc, report>>

CheckUnknown(o) ==
  /\ opc[o] = "check"
  /\ \E e \in Readings(entry) :
       \/ Effective(e) = "UNKNOWN" /\ OpGoto(o, "marking") /\ UNCHANGED lock
       \/ Effective(e) # "UNKNOWN" /\ OpGoto(o, "idle") /\ Unlock
  /\ UNCHANGED <<entry, archive, late, tail, pc, report>>

(* The history gets its RELEASED line; the state field is left as it is.   *)
(* When this read fails, the file loses its token, state and history.      *)
MarkReleased(o) ==
  /\ opc[o] = "marking"
  /\ \E e \in Readings(entry) : entry' = Marked(e)
  /\ OpGoto(o, "renaming")
  /\ UNCHANGED <<archive, late, tail, lock, pc, report>>

(* Mutant: one name for all released files of the key.                     *)
RenameOntoOne(o) ==
  /\ opc[o] = "renaming"
  /\ archive' = {entry}
  /\ entry' = NoEntry
  /\ Unlock
  /\ OpGoto(o, "idle")
  /\ UNCHANGED <<late, tail, pc, report>>

(* os.replace() of the active file onto a name made from time.time_ns().   *)
RenameReleased(o) ==
  /\ opc[o] = "renaming"
  /\ \/ archive' = archive \cup {entry}
     \/ /\ ~DistinctStamps
        /\ \E old \in archive : archive' = (archive \ {old}) \cup {entry}
  /\ entry' = NoEntry
  /\ Unlock
  /\ OpGoto(o, "idle")
  /\ UNCHANGED <<late, tail, pc, report>>

StopRelease(o) ==
  /\ opc[o] # "idle"
  /\ OpGoto(o, "idle")
  /\ lock' = IF lock = o THEN Free ELSE lock
  /\ UNCHANGED <<entry, archive, late, tail, pc, report>>

ClockMoves ==
  /\ entry.lease \in {"running", "over"}
  /\ \E lease \in {"running", "over"} : entry' = WithLease(entry, lease)
  /\ UNCHANGED <<archive, late, tail, lock, pc, report, opc>>
---------------------------------------------------------------------------
AttemptStep(t) ==
  \/ CallReserve(t) \/ EnterReserve(t) \/ Claim(t) \/ WriteClaim(t)
  \/ \E to \in Reports : CallMove(t, to)
  \/ EnterMove(t) \/ CheckToken(t) \/ MoveWrite(t) \/ LogLate(t)

OperatorStep(o) ==
  \/ EnterRelease(o) \/ CheckUnknown(o) \/ MarkReleased(o) \/ RenameReleased(o)

Next ==
  \/ \E t \in Attempt : AttemptStep(t) \/ Stop(t) \/ StopAppending(t)
  \/ \E o \in Operator : CallRelease(o) \/ OperatorStep(o) \/ StopRelease(o)
  \/ ClockMoves

Spec == Init /\ [][Next]_vars

(* A running process keeps running: the steps inside a critical section    *)
(* never wait.  Entering waits for the lock, which flock() grants to a     *)
(* waiter again and again asked for (strong fairness).                     *)
Fairness ==
  /\ \A t \in Attempt :
       /\ WF_vars(Claim(t)) /\ WF_vars(WriteClaim(t)) /\ WF_vars(CheckToken(t))
       /\ WF_vars(MoveWrite(t)) /\ WF_vars(LogLate(t))
       /\ SF_vars(EnterReserve(t)) /\ SF_vars(EnterMove(t))
  /\ \A o \in Operator :
       /\ WF_vars(CheckUnknown(o)) /\ WF_vars(MarkReleased(o)) /\ WF_vars(RenameReleased(o))

FairSpec == Spec /\ Fairness
---------------------------------------------------------------------------
TypeOK ==
  /\ entry \in Entries \cup {NoEntry}
  /\ archive \subseteq Entries
  /\ late \subseteq Late /\ tail \in Tails
  /\ lock \in Attempt \cup Operator \cup {Free}
  /\ pc \in [Attempt -> AttemptPC]
  /\ report \in [Attempt -> Reports \cup {NoReport}]
  /\ opc \in [Operator -> OperatorPC]

(* docs/SEC006_PREREG.md I1: every reservation that was granted has its    *)
(* file, the active one or exactly one released one, whatever the          *)
(* interleaving, wherever a process died and whichever read failed (SEC-004 *)
(* lost a fresh reservation to a stale holder's write).  Until its outcome *)
(* is written or a person releases it, the file names its holder; after    *)
(* that it may have lost the token, and only by a failed read.             *)
Granted == {t \in Attempt : pc[t] \in AfterGrant \cup {"reported", "unreported", "cut", "gone"}}
ReleasedOf(t) == {e \in archive : e.holder = t}
RecordOf(t) == IF entry.holder = t THEN {entry} ELSE ReleasedOf(t)
Kept(e) ==
  \/ e.token = e.holder
  \/ ReadErrors /\ e.token = NoToken /\ (e.state # "IN_FLIGHT" \/ e.mark = "released")
EveryGrantRecordedOnce ==
  \A t \in Granted :
    /\ entry.holder = t => ReleasedOf(t) = {}
    /\ \E e \in RecordOf(t) :
         /\ RecordOf(t) = {e}
         /\ Kept(e)

(* A report whose call returned is in the holder's own file, active or     *)
(* released, or else a late event names it (idempotency.py:13-17); what a  *)
(* release() that could not read the file throws away is a report of       *)
(* UNKNOWN, never one of COMPLETED.  The late events can be read unless a  *)
(* call was cut off while it appended one.  A COMPLETED entry was          *)
(* completed by its holder and is never among the released ones.           *)
ReportNotLost ==
  /\ \A t \in Attempt : pc[t] = "reported" =>
       \/ \E e \in RecordOf(t) : e.state = report[t]
       \/ [token |-> t, to |-> report[t]] \in late /\ (entry.holder = t => ReadErrors)
       \/ ReadErrors /\ report[t] = "UNKNOWN" /\ \E e \in RecordOf(t) : e.mark = "released" /\ e.token = NoToken
  /\ tail # "whole" => \E t \in Attempt : pc[t] = "cut"
  /\ entry.state = "COMPLETED" => /\ entry.holder \in Attempt
                                  /\ report[entry.holder] = "COMPLETED"
  /\ \A e \in archive : e.state # "COMPLETED"

(* The inductive invariant behind the three properties above and below.    *)
(* The lock names whoever is inside a section; what a section has checked  *)
(* still holds when it acts; every entry names an attempt that was granted *)
(* and no token is in two places.                                          *)
LockInv ==
  /\ \A t \in Attempt : pc[t] \in InSection <=> lock = t
  /\ \A o \in Operator : opc[o] \in OpInSection <=> lock = o

SectionInv ==
  /\ \A t \in Attempt : pc[t] = "writing" => entry = Unreadable
  /\ \A t \in Attempt : pc[t] = "moving" => entry.token = t
  /\ \A t \in Attempt : pc[t] = "logging" => ReadErrors \/ entry.holder # t
  /\ \A o \in Operator : opc[o] \in {"marking", "renaming"} =>
       entry.holder # NoToken /\ entry.state \in {"IN_FLIGHT", "UNKNOWN"}
  /\ \A t \in Attempt : pc[t] = "failed" => entry = Unreadable /\ \A u \in Attempt : pc[u] # "writing"

RecordInv ==
  /\ entry.holder = NoToken => entry \in {NoEntry, Unreadable}
  /\ entry.holder # NoToken => /\ entry.holder \in Granted
                               /\ entry.state \in {"IN_FLIGHT", "COMPLETED", "UNKNOWN"}
                               /\ entry.lease = "never" <=> entry.token = NoToken
                               /\ Kept(entry)
  /\ \A e \in archive : /\ e.holder \in Granted /\ e.holder # entry.holder
                        /\ e.state \in {"IN_FLIGHT", "UNKNOWN"}
                        /\ Kept(e)
                        /\ \A f \in archive : e.holder = f.holder => e = f
  /\ \A t \in Granted : entry.holder = t \/ \E e \in archive : e.holder = t

Reported(t) ==
  \/ \E e \in {entry} \cup archive : e.holder = t /\ e.state = report[t]
  \/ [token |-> t, to |-> report[t]] \in late /\ (entry.holder = t => ReadErrors)
  \/ /\ ReadErrors /\ report[t] = "UNKNOWN"
     /\ \E e \in {entry} \cup archive : e.holder = t /\ e.mark = "released" /\ e.token = NoToken
ReportInv ==
  /\ \A t \in Attempt : pc[t] \in BeforeGrant \cup {"granted", "gone"} => report[t] = NoReport
  /\ \A t \in Attempt : pc[t] \in InMove \cup {"reported"} => report[t] \in Reports
  /\ \A t \in Attempt : entry.holder = t /\ pc[t] \in AfterGrant \cup {"gone"} => entry.state = "IN_FLIGHT"
  /\ entry.holder # NoToken /\ entry.state # "IN_FLIGHT" =>
       pc[entry.holder] = "reported" /\ entry.state = report[entry.holder]
  /\ \A t \in Attempt : pc[t] = "reported" => Reported(t)
  /\ tail # "whole" => \E t \in Attempt : pc[t] = "cut"

IInv == TypeOK /\ LockInv /\ SectionInv /\ RecordInv /\ ReportInv

(* Fail closed: once a claim's writer has died before writing, the file is *)
(* unreadable for ever; no operator and no other attempt gets past it.     *)
FailClosed == (\E t \in Attempt : pc[t] = "failed") => entry = Unreadable

(* What idempotency.py:13-17 says of a late event: its holder's key was    *)
(* released.  A failed read of a good file makes one of a report by the    *)
(* holder that still has the key.                                          *)
LateOnlyAfterRelease == \A event \in late : ReleasedOf(event.token) # {}

(* COMPLETED is final: no late holder and no operator reopens a key whose  *)
(* effect is known to have happened.                                       *)
CompletedIsFinal ==
  [][entry.state = "COMPLETED" => entry'.state = "COMPLETED" /\ entry'.holder = entry.holder]_vars

(* Every call returns or is cut off, also when the holder of the lock dies *)
(* inside its section: no lock outlives its process (docs/SEC005 P5).      *)
InCall(t) == pc[t] \in {"reserving", "claiming", "writing", "moving_wait", "checking", "moving", "logging"}
CallsReturn == \A t \in Attempt : InCall(t) ~> ~InCall(t)

(* The file store implements the contract of the store, and with no failed *)
(* read that of the atomic one.  A claim that is still being written is    *)
(* not yet a reservation (its writer holds the lock); while release() is   *)
(* under way an entry in flight counts as over, as its check saw it; a     *)
(* caller that died before its claim never called.  The contract speaks of *)
(* the late events that were written, not of whether a line can be read.   *)
Releasing == \E o \in Operator : opc[o] \in {"marking", "renaming"}
Claiming  == \E t \in Attempt : pc[t] = "writing"

Abstract(e, lease) == [state |-> e.state, token |-> e.token, holder |-> e.holder, lease |-> lease]
SeenLease(e) == IF e.state = "IN_FLIGHT" THEN "over" ELSE e.lease
AbstractEntry ==
  IF entry = NoEntry \/ (entry = Unreadable /\ Claiming) THEN Abstract(NoEntry, "never")
  ELSE IF Releasing THEN Abstract(entry, SeenLease(entry))
  ELSE Abstract(Read(entry), entry.lease)
UseOf(l) == CASE l \in BeforeGrant \cup {"dead"}       -> "fresh"
              [] l \in AfterGrant                      -> "holding"
              [] l \in {"unreported", "cut", "gone"}   -> "gone"
              [] OTHER                                 -> l
AbstractUse == [t \in Attempt |-> UseOf(pc[t])]

Contract == INSTANCE MemoryReservations WITH
  entry   <- AbstractEntry,
  archive <- {Abstract(e, SeenLease(e)) : e \in archive},
  use     <- AbstractUse

ImplementsContract == Contract!Spec
===========================================================================
