------------------------------- MODULE Consumer -------------------------------
(***************************************************************************)
(* consumer.py accept: the consumer's memory.  A package is acted on once, *)
(* only if it is the newest entry of the witness log, and the log must     *)
(* extend the longest log accepted before.  The log the consumer reads is  *)
(* its own pulled copy of what module Witness writes, which may lag        *)
(* behind, be rolled back or rewritten between any two runs, or be         *)
(* unreadable: every run may read any log.                                 *)
(* The state file is replaced atomically.                                  *)
(*                                                                         *)
(* Runs that share a state file are not serialised by the code             *)
(* (docs/P001_SIGNED_WORKFLOW.md says so), and what it promises is said of *)
(* runs that follow one another: overlapped remembers whether two met.     *)
(* A state file's anchor is a length and a hash of that many entries: here *)
(* the entries themselves.                                                 *)
(***************************************************************************)
EXTENDS Naturals, Sequences, FiniteSets, Functions

CONSTANTS Accept,       \* the runs of consumer.py accept
          Package

ASSUME ConsumerAssumption == IsFiniteSet(Package)

VARIABLES consumed, anchor, \* the state file
          pkg,              \* the package of each run
          cpc, entries,     \* each run's place, and the entries it read
          st,               \* the state it loaded
          overlapped        \* a run began while another was under way (history)

vars == <<consumed, anchor, pkg, cpc, entries, st, overlapped>>

Fresh == [consumed |-> <<>>, anchor |-> <<>>]
Members(s) == {s[i] : i \in DOMAIN s}
IsPrefixOf(s, t) == Len(s) <= Len(t) /\ SubSeq(t, 1, Len(s)) = s
InProgress == {c \in Accept : cpc[c] \in {"read", "checked"}}

(* The logs read_witness_log accepts: no digest twice.                     *)
Logs == UNION {Injection(1..n, Package) : n \in 0..Cardinality(Package)}

Init ==
  /\ consumed = <<>> /\ anchor = <<>>
  /\ pkg \in [Accept -> Package]
  /\ cpc = [c \in Accept |-> "start"]
  /\ entries = [c \in Accept |-> <<>>]
  /\ st = [c \in Accept |-> Fresh]
  /\ overlapped = FALSE

Goto(c, l) == cpc' = [cpc EXCEPT ![c] = l]
Exit(c, l) == Goto(c, l) /\ entries' = [entries EXCEPT ![c] = <<>>] /\ st' = [st EXCEPT ![c] = Fresh]
Meets      == overlapped' = (overlapped \/ InProgress # {})

(* The copy has whatever log it has been left with since the last run.     *)
ReadWitnessLog(c) ==
  /\ cpc[c] = "start" /\ Meets
  /\ \/ \E l \in Logs : entries' = [entries EXCEPT ![c] = l] /\ Goto(c, "read")
     \/ Goto(c, "could not look") /\ UNCHANGED entries
  /\ UNCHANGED <<consumed, anchor, pkg, st>>

Latest(c)   == entries[c] # <<>> /\ entries[c][Len(entries[c])] = pkg[c]
Extends(c)  == IsPrefixOf(anchor, entries[c])
FirstUse(c) == pkg[c] \notin Members(consumed)
Load(c)     == Goto(c, "checked") /\ st' = [st EXCEPT ![c] = [consumed |-> consumed, anchor |-> anchor]] /\ UNCHANGED entries

(* Mutant: a log shorter than the anchor is taken for a slow mirror.       *)
CheckIgnoringRollback(c) ==
  /\ cpc[c] = "read"
  /\ \/ Latest(c) /\ FirstUse(c) /\ (Extends(c) \/ Len(entries[c]) < Len(anchor)) /\ Load(c)
     \/ Exit(c, "refused")
  /\ UNCHANGED <<consumed, anchor, pkg, overlapped>>

(* Mutant: a package is not looked up among those acted on, and the log    *)
(* only has to hold it.                                                    *)
CheckIgnoringReplay(c) ==
  /\ cpc[c] = "read"
  /\ \/ Latest(c) /\ Extends(c) /\ Load(c)
     \/ Exit(c, "refused")
  /\ UNCHANGED <<consumed, anchor, pkg, overlapped>>

(* The state is loaded after the log was read, and every check is made on  *)
(* the two; the package, its signature and its contract may fail as well.  *)
Check(c) ==
  /\ cpc[c] = "read"
  /\ \/ Latest(c) /\ Extends(c) /\ FirstUse(c) /\ Load(c)
     \/ Exit(c, "refused")
  /\ UNCHANGED <<consumed, anchor, pkg, overlapped>>

(* Mutant: what is anchored is what was acted on, not the log.             *)
NewStateOfConsumed(c) ==
  /\ consumed' = Append(st[c].consumed, pkg[c])
  /\ anchor' = consumed'

NewState(c) ==
  /\ consumed' = Append(st[c].consumed, pkg[c])
  /\ anchor' = entries[c]

(* Mutant: the state file is written in place, and may be left half new.   *)
WriteInPlace(c) ==
  /\ cpc[c] = "checked"
  /\ \/ NewState(c) /\ Exit(c, "accepted")
     \/ /\ consumed' = Append(st[c].consumed, pkg[c]) /\ UNCHANGED anchor
        /\ Exit(c, "could not look")
  /\ UNCHANGED <<pkg, overlapped>>

(* The new state replaces the old one (the run may die before it says so), *)
(* or nothing changes.                                                     *)
WriteState(c) ==
  /\ cpc[c] = "checked"
  /\ \/ NewState(c) /\ (Exit(c, "accepted") \/ Exit(c, "crashed"))
     \/ UNCHANGED <<consumed, anchor>> /\ Exit(c, "could not look")
  /\ UNCHANGED <<pkg, overlapped>>

Crash(c) ==
  /\ c \in InProgress
  /\ Exit(c, "crashed")
  /\ UNCHANGED <<consumed, anchor, pkg, overlapped>>

Next ==
  \E c \in Accept : ReadWitnessLog(c) \/ Check(c) \/ WriteState(c) \/ Crash(c)

Spec == Init /\ [][Next]_vars
---------------------------------------------------------------------------
(* "Act once": as long as runs follow one another no package is accepted by *)
(* two, whatever is rolled back, rewritten, interrupted or not written in   *)
(* between.                                                                 *)
ActsOnce == ~overlapped => \A c, d \in Accept : cpc[c] = "accepted" /\ cpc[d] = "accepted" /\ pkg[c] = pkg[d] => c = d

(* "Never go backwards": the log the state file holds is only extended, as  *)
(* long as runs follow one another.                                         *)
NeverBackwards == [][~overlapped' => IsPrefixOf(anchor, anchor')]_vars

(* The state file agrees with itself, also when runs overlap: what was      *)
(* acted on was acted on in the order its log has it, and the last of it is *)
(* the newest entry of that log.                                            *)
ActedInWitnessOrder ==
  /\ \E f \in [DOMAIN consumed -> DOMAIN anchor] :
       /\ \A i \in DOMAIN consumed : anchor[f[i]] = consumed[i]
       /\ \A i, j \in DOMAIN consumed : i < j => f[i] < f[j]
  /\ consumed # <<>> => consumed[Len(consumed)] = anchor[Len(anchor)]
===============================================================================
