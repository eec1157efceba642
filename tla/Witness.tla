-------------------------------- MODULE Witness --------------------------------
(***************************************************************************)
(* The freshness witness log: witness.py append, run several times and     *)
(* perhaps at the same time, and read_witness_log (verify_package.py),     *)
(* which accepts only a canonical log: 1, 2, 3, ... with no digest twice   *)
(* and a newline at the end.                                               *)
(*                                                                         *)
(* A line is the sequence number it carries, a package (its digest) and    *)
(* whether its newline is there.  The package verifies.                    *)
(***************************************************************************)
EXTENDS Naturals, Sequences

CONSTANTS Append1,    \* the runs of witness.py append
          Package

VARIABLES file,     \* "none", "headless" (there, without its whole header) or "log"
          log,      \* its entry lines
          given,    \* the package of each run
          wpc, saw, \* each run's place, and the entries it has read
          met       \* a run began while another was under way (history)

witnessVars == <<file, log, given, wpc, saw, met>>

Digests(l) == {l[i].digest : i \in DOMAIN l}
IsPrefixOf(s, t) == Len(s) <= Len(t) /\ SubSeq(t, 1, Len(s)) = s

Canonical(l) ==
  /\ \A i \in DOMAIN l : l[i].seq = i /\ l[i].ended
  /\ \A i, j \in DOMAIN l : l[i].digest = l[j].digest => i = j
Readable == file = "log" /\ Canonical(log)
---------------------------------------------------------------------------
WitnessInit ==
  /\ file = "none" /\ log = <<>>
  /\ given \in [Append1 -> Package]
  /\ wpc = [a \in Append1 |-> "start"]
  /\ saw = [a \in Append1 |-> <<>>]
  /\ met = FALSE

UnderWay == {a \in Append1 : wpc[a] \in {"creating", "appending"}}
Exit(a, l) == wpc' = [wpc EXCEPT ![a] = l] /\ saw' = [saw EXCEPT ![a] = <<>>]
Meets == met' = (met \/ UnderWay # {})

(* The log is read, if it is there; an entry for the package refuses it.   *)
Look(a) ==
  /\ wpc[a] = "start" /\ Meets
  /\ \/ file = "none" /\ wpc' = [wpc EXCEPT ![a] = "creating"] /\ UNCHANGED saw
     \/ /\ Readable
        /\ IF given[a] \in Digests(log) THEN Exit(a, "refused")
           ELSE wpc' = [wpc EXCEPT ![a] = "appending"] /\ saw' = [saw EXCEPT ![a] = log]
     \/ file # "none" /\ ~Readable /\ wpc' = [wpc EXCEPT ![a] = "unusable"] /\ UNCHANGED saw
  /\ UNCHANGED <<file, log, given>>

(* A log that was not there is opened for writing, which empties it.       *)
Create(a) ==
  /\ wpc[a] = "creating"
  /\ file' = "log" /\ log' = <<>>
  /\ wpc' = [wpc EXCEPT ![a] = "appending"]
  /\ UNCHANGED <<given, saw, met>>

(* Mutant: the first entry is numbered 0.                                  *)
AppendFromZero(a) ==
  /\ wpc[a] = "appending"
  /\ log' = Append(log, [seq |-> Len(saw[a]), digest |-> given[a], ended |-> TRUE])
  /\ Exit(a, "witnessed")
  /\ UNCHANGED <<file, given, met>>

AppendLine(a) ==
  /\ wpc[a] = "appending"
  /\ log' = Append(log, [seq |-> Len(saw[a]) + 1, digest |-> given[a], ended |-> TRUE])
  /\ Exit(a, "witnessed")
  /\ UNCHANGED <<file, given, met>>

(* The run dies.  The header or the line it was writing may be cut off, or *)
(* the line may be there and the run not have said so.                     *)
WitnessCrash(a) ==
  /\ wpc[a] \in {"creating", "appending"}
  /\ Exit(a, "crashed")
  /\ \/ UNCHANGED <<file, log>>
     \/ wpc[a] = "creating" /\ file' = "headless" /\ log' = <<>>
     \/ /\ wpc[a] = "appending"
        /\ \E whole \in BOOLEAN : log' = Append(log, [seq |-> Len(saw[a]) + 1, digest |-> given[a], ended |-> whole])
        /\ UNCHANGED file
  /\ UNCHANGED <<given, met>>

WitnessStep(a) == Look(a) \/ Create(a) \/ AppendLine(a) \/ WitnessCrash(a)

WitnessNext == \E a \in Append1 : WitnessStep(a)

WitnessSpec == WitnessInit /\ [][WitnessNext]_witnessVars
---------------------------------------------------------------------------
(* As long as runs follow one another, what an appender called witnessed    *)
(* stays in the log, at its number, and the log can be read unless a run    *)
(* died while it wrote.                                                     *)
WitnessedStays == ~met =>
  /\ \A a \in Append1 : wpc[a] = "witnessed" => \E i \in DOMAIN log : log[i].digest = given[a] /\ log[i].seq = i
  /\ (\A a \in Append1 : wpc[a] # "crashed") => file = "none" \/ Readable

===============================================================================
