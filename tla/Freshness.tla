------------------------------- MODULE Freshness -------------------------------
(***************************************************************************)
(* The witness log and a consumer that pulls it: runs of witness.py append *)
(* (module Witness) and of consumer.py accept (module Consumer).  What a   *)
(* consumer reads is a copy of the log, perhaps of some time ago, or       *)
(* whatever a mirror of it has become.                                     *)
(***************************************************************************)
EXTENDS Consumer

CONSTANT Append1     \* the runs of witness.py append

VARIABLES file, log, given, wpc, saw, met,  \* of Witness
          faithful    \* every log a consumer read was the witness's (history)

W == INSTANCE Witness

freshVars == <<vars, file, log, given, wpc, saw, met, faithful>>

(* The entries of the log, as its readers see them.                        *)
Entries == IF W!Readable THEN [i \in DOMAIN log |-> log[i].digest] ELSE <<>>

FreshInit == Init /\ W!WitnessInit /\ faithful = TRUE

Witnessing == InProgress = {} /\ (\E a \in Append1 : W!WitnessStep(a)) /\ UNCHANGED <<vars, faithful>>

Pull(c) ==
  /\ W!UnderWay = {}
  /\ ReadWitnessLog(c)
  /\ faithful' = (faithful /\ IsPrefixOf(entries'[c], Entries))
  /\ UNCHANGED <<file, log, given, wpc, saw, met>>

Accepting(c) ==
  /\ Check(c) \/ WriteState(c) \/ Crash(c)
  /\ UNCHANGED <<file, log, given, wpc, saw, met, faithful>>

FreshNext == Witnessing \/ \E c \in Accept : Pull(c) \/ Accepting(c)

FreshSpec == FreshInit /\ [][FreshNext]_freshVars
---------------------------------------------------------------------------
WitnessedStays == W!WitnessedStays

(* A consumer that was shown nothing but the log, or a part of its         *)
(* beginning, is never left holding a log that the witness's does not      *)
(* extend (consumer.py would refuse every package after it as a rollback), *)
(* and holds nothing the witness has not; as long as appends follow one    *)
(* another and none died, and no two accepts met.                          *)
NeverCutOff ==
  faithful /\ ~met /\ ~overlapped /\ (\A a \in Append1 : wpc[a] # "crashed") => IsPrefixOf(anchor, Entries)
================================================================================
