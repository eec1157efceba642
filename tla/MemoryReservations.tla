------------------------ MODULE MemoryReservations ------------------------
(***************************************************************************)
(* One idempotency key of MemoryReservations (idempotency.py), the         *)
(* in-process reservation store whose operations are atomic under one      *)
(* lock.  It is also the contract of the reservation store: the file       *)
(* store, whose operations are sequences of file-system steps, implements  *)
(* it (FileReservations).                                                  *)
(*                                                                         *)
(* Keys never interact, so one key is modelled.  An attempt is one caller  *)
(* of reserve(); the random holder token it gets is identified with the    *)
(* attempt.  Time is reduced to what the code asks of it: whether the      *)
(* lease of the entry is over.  A wall clock may step back, so a lease     *)
(* that is over may be running again.                                      *)
(*                                                                         *)
(* token is what the entry says; holder is whose reservation it is, which  *)
(* no step reads.  In this store they never part.  A store on disk may     *)
(* fail to read a good entry, and then takes it for one without a token:   *)
(* ReadErrors adds what the users of a key may see of that.                *)
(***************************************************************************)
CONSTANTS Attempt,     \* the calls of reserve() that are ever made
          NoToken,     \* an entry that is nobody's reservation
          ReadErrors   \* the store is on disk, and a read of it may fail

VARIABLES entry,     \* the key's entry, or NoEntry
          archive,   \* the entries release() has retired
          late,      \* the late events: reports by holders that had lost the key
          use        \* where each attempt is in its use of the key

storeVars == <<entry, archive, late>>
vars == <<entry, archive, late, use>>

States  == {"IN_FLIGHT", "COMPLETED", "UNKNOWN"}
Leases  == {"running", "over", "never"}
Reports == {"COMPLETED", "UNKNOWN"}
NoEntry == [state |-> "NONE", token |-> NoToken, holder |-> NoToken, lease |-> "never"]
Entries == [state : States, token : Attempt \cup {NoToken}, holder : Attempt \cup {NoToken}, lease : Leases]
Late    == [token : Attempt, to : Reports]

(* A lease that is over turns IN_FLIGHT into UNKNOWN for every reader; the *)
(* stored state is not touched.                                            *)
Effective(e) == IF e.state = "IN_FLIGHT" /\ e.lease = "over" THEN "UNKNOWN" ELSE e.state

InFlight(t, lease) == [state |-> "IN_FLIGHT", token |-> t, holder |-> t, lease |-> lease]

(* What the file store takes an entry for that it cannot read.             *)
Unread(e)   == [state |-> "IN_FLIGHT", token |-> NoToken, holder |-> e.holder, lease |-> "never"]
Readings(e) == {e} \cup (IF ReadErrors THEN {Unread(e)} ELSE {})
---------------------------------------------------------------------------
Init ==
  /\ entry = NoEntry
  /\ archive = {}
  /\ late = {}
  /\ use = [t \in Attempt |-> "fresh"]

Reserve(t) ==
  /\ use[t] = "fresh"
  /\ entry = NoEntry
  /\ \E lease \in {"running", "over"} : entry' = InFlight(t, lease)
  /\ use' = [use EXCEPT ![t] = "holding"]
  /\ UNCHANGED <<archive, late>>

ReserveRefused(t) ==
  /\ use[t] = "fresh"
  /\ entry # NoEntry
  /\ use' = [use EXCEPT ![t] = "refused"]
  /\ UNCHANGED storeVars

(* complete() and unknown(), called with the token reserve() returned.     *)
Move(t, to) ==
  /\ use[t] = "holding"
  /\ use' = [use EXCEPT ![t] = "reported"]
  /\ \/ /\ entry.token = t
        /\ \E e \in Readings(entry) : entry' = [e EXCEPT !.state = to]
        /\ UNCHANGED <<archive, late>>
     \/ /\ entry.token = t => ReadErrors
        /\ late' = late \cup {[token |-> t, to |-> to]}
        /\ UNCHANGED <<entry, archive>>

Release ==
  /\ Effective(entry) = "UNKNOWN"
  /\ archive' = archive \cup {entry}
  /\ entry' = NoEntry
  /\ UNCHANGED <<late, use>>

(* The caller never reports: its process died, hung or raised elsewhere.   *)
Abandon(t) ==
  /\ use[t] = "holding"
  /\ use' = [use EXCEPT ![t] = "gone"]
  /\ UNCHANGED storeVars

(* What only a store on disk can show.  A release() that cannot read the   *)
(* entry again leaves it as one without a token and without its state: it  *)
(* goes on to retire it, or fails and leaves it in flight for ever.        *)
Forget ==
  /\ ReadErrors
  /\ Effective(entry) = "UNKNOWN"
  /\ \E lease \in {"over", "never"} : entry' = [Unread(entry) EXCEPT !.lease = lease]
  /\ UNCHANGED <<archive, late, use>>

(* And the claim of a caller that died before it could write its entry.    *)
Poison(t) ==
  /\ use[t] = "fresh"
  /\ entry = NoEntry
  /\ entry' = Unread(entry)
  /\ use' = [use EXCEPT ![t] = "failed"]
  /\ UNCHANGED <<archive, late>>

ClockMoves ==
  /\ entry.lease \in {"running", "over"}
  /\ \E lease \in {"running", "over"} : entry' = [entry EXCEPT !.lease = lease]
  /\ UNCHANGED <<archive, late, use>>

AttemptStep(t) ==
  \/ Reserve(t)
  \/ ReserveRefused(t)
  \/ \E to \in Reports : Move(t, to)
  \/ Abandon(t)
  \/ Poison(t)

Next == Release \/ Forget \/ ClockMoves \/ \E t \in Attempt : AttemptStep(t)

Spec == Init /\ [][Next]_vars
---------------------------------------------------------------------------
(* The retired entries of an attempt, which is how a lost key is told.     *)
RetiredOf(t) == {e \in archive : e.holder = t}
===========================================================================
