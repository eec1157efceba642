---------------------------------- MODULE Obs1 ----------------------------------
(***************************************************************************)
(* OBS-1: one intent tried several times against a store that can fence    *)
(* (tools/obs1_store.py, tools/obs1_system.py, run by tools/obs1_run.py).  *)
(*                                                                         *)
(* Attempts are numbered and run one after the other; a number is the      *)
(* attempt's token.  Each store call is atomic under the store's lock and  *)
(* leaves one event in its log.  The system's idempotency key is kept by   *)
(* the reservation store (MemoryReservations).  The first attempt's write  *)
(* may be hit by a fault; the system may die between any two steps; the    *)
(* harness may give up on an attempt, which then runs on by itself.        *)
(***************************************************************************)
EXTENDS Naturals, Sequences, FiniteSets

CONSTANTS Attempts,   \* how often the intent is tried
          NoToken,
          ReadErrors    \* a read of the reservation store, which is on disk, may fail

ASSUME Obs1Assumption == Attempts \in Nat \ {0} /\ NoToken \notin 1..Attempts /\ ReadErrors \in BOOLEAN

Attempt == 1..Attempts

VARIABLES entry, archive, late, use,   \* the reservation store
          log, fenced, version,        \* the sandbox store: its events, fences and record
          fault, faultUsed, heldWrite, \* its fault layer
          journal,                     \* tokens written ahead
          write, fence, readable,      \* what each attempt is allowed, and can see
          toFence,                     \* the tokens each attempt still has to fence
          resolved, already,           \* what reconciliation found
          claim,                       \* what each says it reconciled
          at, status,                  \* place and report of each attempt
          over                         \* how the harness ended the case: compared, given up

Reservations == INSTANCE MemoryReservations

keyVars  == <<entry, archive, late, use>>
obsStore == <<log, fenced, version, faultUsed, heldWrite>>
given    == <<fault, write, fence, readable>>
found    == <<toFence, resolved, already, claim>>
vars == <<keyVars, obsStore, given, journal, found, at, status, over>>

Faults   == {"none", "fail_before_effect", "lose_ack_after_effect", "hold_write_until_fence"}
Statuses == {"none", "COMPLETED", "FAILED", "UNKNOWN", "REFUSED", "ALREADY_COMPLETED", "HELD"}
NoClaim  == [fenced |-> {}, seq |-> 0, writes |-> 0]
Over(k)  == at[k] \in {"reported", "raised", "crashed"}
Running  == {k \in Attempt : at[k] # "waiting" /\ ~Over(k)}

Goto(k, p) == at' = [at EXCEPT ![k] = p]
Report(k, s) == status' = [status EXCEPT ![k] = s] /\ Goto(k, "reported")
Ev(kind, k, t, note) == [kind |-> kind, by |-> k, target |-> t, note |-> note, version |-> 0]
Writes(l) == {i \in DOMAIN l : l[i].kind = "write"}
WritesOf(l, k) == {i \in Writes(l) : l[i].by = k}
---------------------------------------------------------------------------
Init ==
  /\ Reservations!Init
  /\ log = <<>> /\ fenced = {} /\ version = 0 /\ faultUsed = FALSE /\ heldWrite = "none"
  /\ fault \in Faults
  /\ write \in [Attempt -> BOOLEAN] /\ fence \in [Attempt -> BOOLEAN] /\ readable \in [Attempt -> BOOLEAN]
  /\ journal = {}
  /\ toFence = [k \in Attempt |-> {}]
  /\ resolved = [k \in Attempt |-> TRUE] /\ already = [k \in Attempt |-> FALSE]
  /\ claim = [k \in Attempt |-> NoClaim]
  /\ at = [k \in Attempt |-> "waiting"] /\ status = [k \in Attempt |-> "none"]
  /\ over = "no"

(* The attempt's token is journalled before any store call.                *)
Begin(k) ==
  /\ at[k] = "waiting" /\ over = "no"
  /\ \A j \in 1..(k - 1) : Over(j)
  /\ journal' = journal \cup {k}
  /\ Goto(k, "begun")
  /\ UNCHANGED <<keyVars, obsStore, given, found, status, over>>

(* What state() may answer: an entry that cannot be read is in flight.     *)
KeyReads == IF entry = Reservations!NoEntry THEN {"NONE"} ELSE {Reservations!Effective(e) : e \in Reservations!Readings(entry)}

(* Mutant: an earlier attempt is not reconciled, its key just released.    *)
CheckKeyNoReconcile(k) ==
  /\ at[k] = "begun"
  /\ \/ "NONE" \in KeyReads /\ Goto(k, "gate") /\ UNCHANGED already
     \/ "COMPLETED" \in KeyReads /\ already' = [already EXCEPT ![k] = TRUE] /\ Goto(k, "gate")
     \/ KeyReads \cap {"IN_FLIGHT", "UNKNOWN"} # {} /\ Goto(k, "releasing") /\ UNCHANGED already
  /\ UNCHANGED <<keyVars, obsStore, given, journal, toFence, resolved, claim, status, over>>

(* What the key says of earlier attempts decides what has to be found out. *)
CheckKey(k) ==
  /\ at[k] = "begun"
  /\ \/ /\ "NONE" \in KeyReads
        /\ Goto(k, "gate") /\ UNCHANGED found
     \/ /\ "COMPLETED" \in KeyReads
        /\ already' = [already EXCEPT ![k] = TRUE]
        /\ Goto(k, "gate") /\ UNCHANGED <<toFence, resolved, claim>>
     \/ /\ KeyReads \cap {"IN_FLIGHT", "UNKNOWN"} # {}
        /\ \/ /\ ~fence[k]
              /\ resolved' = [resolved EXCEPT ![k] = FALSE]
              /\ Goto(k, "gate") /\ UNCHANGED <<toFence, already, claim>>
           \/ /\ fence[k]
              /\ toFence' = [toFence EXCEPT ![k] = journal \ {k}]
              /\ Goto(k, "fencing") /\ UNCHANGED <<resolved, already, claim>>
  /\ UNCHANGED <<keyVars, obsStore, given, journal, status, over>>

(* _apply_set(): what a set_value of token t does to the record and the    *)
(* log l.                                                                  *)
Apply(fences, t, l) ==
  IF t \in fences THEN log' = Append(l, Ev("rejected", t, t, "fenced")) /\ UNCHANGED version
  ELSE /\ version' = version + 1
       /\ log' = Append(l, [Ev("write", t, t, "-") EXCEPT !.version = version'])

(* Fencing releases the held write in the same locked step.                *)
Fence(k, t) ==
  /\ at[k] = "fencing" /\ t \in toFence[k]
  /\ fenced' = fenced \cup {t}
  /\ LET l == Append(log, Ev("fence", k, t, "-"))
     IN  IF heldWrite = "held" /\ t = 1
         THEN Apply(fenced', t, l) /\ heldWrite' = "released at fence"
         ELSE log' = l /\ UNCHANGED <<version, heldWrite>>
  /\ toFence' = [toFence EXCEPT ![k] = @ \ {t}]
  /\ UNCHANGED <<keyVars, faultUsed, given, journal, resolved, already, claim, at, status, over>>

Earlier(k) == journal \ {k}
StoreRead(k) == log' = Append(log, Ev("read", k, k, IF readable[k] THEN "ok" ELSE "unavailable"))

(* Mutant: the read is made before the fences.                             *)
ReadEarly(k) ==
  /\ at[k] = "fencing"
  /\ StoreRead(k)
  /\ LET wrote == UNION {WritesOf(log, t) : t \in Earlier(k)}
     IN  IF readable[k]
         THEN /\ claim' = [claim EXCEPT ![k] = [fenced |-> Earlier(k), seq |-> Len(log'), writes |-> Cardinality(wrote)]]
              /\ IF wrote # {} THEN already' = [already EXCEPT ![k] = TRUE] /\ Goto(k, "gate")
                 ELSE UNCHANGED already /\ Goto(k, "releasing")
              /\ UNCHANGED resolved
         ELSE resolved' = [resolved EXCEPT ![k] = FALSE] /\ Goto(k, "gate") /\ UNCHANGED <<already, claim>>
  /\ UNCHANGED <<keyVars, fenced, version, faultUsed, heldWrite, given, journal, toFence, status, over>>

(* The read that follows the fences shows whether one of the earlier       *)
(* attempts wrote.                                                         *)
Read(k) ==
  /\ at[k] = "fencing" /\ toFence[k] = {}
  /\ StoreRead(k)
  /\ LET wrote == UNION {WritesOf(log, t) : t \in Earlier(k)}
     IN  IF readable[k]
         THEN /\ claim' = [claim EXCEPT ![k] = [fenced |-> Earlier(k), seq |-> Len(log'), writes |-> Cardinality(wrote)]]
              /\ IF wrote # {} THEN already' = [already EXCEPT ![k] = TRUE] /\ Goto(k, "gate")
                 ELSE UNCHANGED already /\ Goto(k, "releasing")
              /\ UNCHANGED resolved
         ELSE resolved' = [resolved EXCEPT ![k] = FALSE] /\ Goto(k, "gate") /\ UNCHANGED <<already, claim>>
  /\ UNCHANGED <<keyVars, fenced, version, faultUsed, heldWrite, given, journal, toFence, status, over>>

(* release() refuses a key whose lease still runs, or that it cannot read; *)
(* that ends the attempt.                                                  *)
ReleaseRefused(k) == KeyReads # {"UNKNOWN"} /\ Goto(k, "raised") /\ UNCHANGED keyVars
ReleaseKey(k) ==
  /\ at[k] = "releasing"
  /\ (Reservations!Release /\ Goto(k, "gate")) \/ ReleaseRefused(k)
  /\ UNCHANGED <<obsStore, given, journal, found, status, over>>

(* REFUSE without write permission, DEFER while an earlier attempt is not  *)
(* resolved, else ALLOW.                                                   *)
Gate(k) ==
  /\ at[k] = "gate"
  /\ \/ ~write[k] /\ Report(k, "REFUSED")
     \/ write[k] /\ ~resolved[k] /\ Report(k, "HELD")
     \/ write[k] /\ resolved[k] /\ already[k] /\ Report(k, "ALREADY_COMPLETED")
     \/ write[k] /\ resolved[k] /\ ~already[k] /\ Goto(k, "reserving") /\ UNCHANGED status
  /\ UNCHANGED <<keyVars, obsStore, given, journal, found, over>>

ReserveKey(k) ==
  /\ at[k] = "reserving"
  /\ Reservations!Reserve(k)
  /\ Goto(k, "writing")
  /\ UNCHANGED <<obsStore, given, journal, found, status, over>>

(* set_value(), with the fault of the case if it is the first attempt's.    *)
SetValue(k) ==
  /\ at[k] = "writing"
  /\ LET hit == k = 1 /\ ~faultUsed
     IN  \/ /\ hit /\ fault = "hold_write_until_fence"
            /\ heldWrite' = "held" /\ faultUsed' = TRUE
            /\ Goto(k, "lost") /\ UNCHANGED <<log, version>>
         \/ /\ hit /\ fault = "fail_before_effect"
            /\ log' = Append(log, Ev("rejected", k, k, "fault")) /\ faultUsed' = TRUE
            /\ Goto(k, "rejected") /\ UNCHANGED <<version, heldWrite>>
         \/ /\ hit /\ fault = "lose_ack_after_effect"
            /\ Apply(fenced, k, log) /\ faultUsed' = TRUE
            /\ Goto(k, "lost") /\ UNCHANGED heldWrite
         \/ /\ ~(hit /\ fault # "none")
            /\ Apply(fenced, k, log)
            /\ Goto(k, IF k \in fenced THEN "rejected" ELSE "written")
            /\ UNCHANGED <<faultUsed, heldWrite>>
  /\ UNCHANGED <<keyVars, fenced, given, journal, found, status, over>>

(* Mutant: a lost reply is taken for a failure.                            *)
ReportLostAsFailed(k) ==
  /\ at[k] = "lost"
  /\ Reservations!Move(k, "UNKNOWN")
  /\ Report(k, "FAILED")
  /\ UNCHANGED <<obsStore, given, journal, found, over>>

ReportLost(k) ==
  /\ at[k] = "lost"
  /\ Reservations!Move(k, "UNKNOWN")
  /\ Report(k, "UNKNOWN")
  /\ UNCHANGED <<obsStore, given, journal, found, over>>

ReportWritten(k) ==
  /\ at[k] = "written"
  /\ Reservations!Move(k, "COMPLETED")
  /\ Report(k, "COMPLETED")
  /\ UNCHANGED <<obsStore, given, journal, found, over>>

(* A rejected write frees the key: first unknown(), then release().         *)
ReportRejected(k) ==
  /\ at[k] = "rejected"
  /\ Reservations!Move(k, "UNKNOWN")
  /\ Goto(k, "retracting")
  /\ UNCHANGED <<obsStore, given, journal, found, status, over>>
Retract(k) ==
  /\ at[k] = "retracting"
  /\ (Reservations!Release /\ Report(k, "FAILED")) \/ (ReleaseRefused(k) /\ UNCHANGED status)
  /\ UNCHANGED <<obsStore, given, journal, found, over>>

(* It dies, or a call of the reservation store fails: before or after what *)
(* it changes, or half way through a claim or a release.                   *)
Crash(k) ==
  /\ k \in Running
  /\ Goto(k, "crashed")
  /\ \/ IF use[k] = "holding" THEN Reservations!Abandon(k) ELSE UNCHANGED keyVars
     \/ at[k] = "reserving" /\ Reservations!Poison(k)
     \/ at[k] = "written" /\ Reservations!Move(k, "COMPLETED")
     \/ at[k] = "lost" /\ Reservations!Move(k, "UNKNOWN")
     \/ at[k] \in {"releasing", "retracting"} /\ (Reservations!Release \/ Reservations!Forget)
  /\ UNCHANGED <<obsStore, given, journal, found, status, over>>

(* The last attempt has reported, or the harness has waited long enough    *)
(* for one, which it does not compare then: no more attempts, and a write  *)
(* still held is released.                                                 *)
EndCase ==
  /\ over = "no"
  /\ over' = IF \A k \in Attempt : at[k] \in {"waiting", "reported"} THEN "compared" ELSE "given up"
  /\ IF heldWrite = "held" THEN Apply(fenced, 1, log) /\ heldWrite' = "released at end"
     ELSE UNCHANGED <<log, version, heldWrite>>
  /\ UNCHANGED <<keyVars, fenced, faultUsed, given, journal, found, at, status>>

LeaseMoves ==
  /\ Reservations!ClockMoves
  /\ UNCHANGED <<obsStore, given, journal, found, at, status, over>>

AttemptStep(k) ==
  \/ CheckKey(k) \/ (\E t \in Attempt : Fence(k, t)) \/ Read(k) \/ ReleaseKey(k) \/ Gate(k) \/ ReserveKey(k)
  \/ SetValue(k) \/ ReportLost(k) \/ ReportWritten(k) \/ ReportRejected(k) \/ Retract(k)

Next ==
  \/ \E k \in Attempt : Begin(k) \/ AttemptStep(k) \/ Crash(k)
  \/ EndCase \/ LeaseMoves

Spec == Init /\ [][Next]_vars
---------------------------------------------------------------------------
(* The intent lands at most once, whatever was lost, held, rejected or      *)
(* crashed, and however often it is tried (class DUPLICATE never occurs).   *)
LandsAtMostOnce == Cardinality(Writes(log)) <= 1

(* A write after an attempt that reported UNKNOWN comes after a permitted   *)
(* fence of that attempt and a later read that could see its outcome.       *)
RetriesAreReconciled ==
  \A i \in Writes(log) : \A u \in 1..(log[i].by - 1) : status[u] = "UNKNOWN" =>
    \E f \in 1..(i - 1) : \E r \in (f + 1)..(i - 1) :
      /\ log[f].kind = "fence" /\ log[f].target = u /\ fence[log[f].by]
      /\ log[r].kind = "read" /\ log[r].by = log[f].by /\ readable[log[r].by]
===========================================================================
