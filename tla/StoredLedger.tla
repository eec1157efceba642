----------------------------- MODULE StoredLedger -----------------------------
(***************************************************************************)
(* What a ledger file says when it is read again.  FileLedger supports one *)
(* writer and promises of anything else only that it is detected; four     *)
(* programs measure that: several processes append to one file without a   *)
(* lock (concurrency.py), a writer is killed (durability.py,               *)
(* physical_durability.py), and the file is changed on the disk            *)
(* (validation.py, fault_injection.py), also under AnchoredFileLedger.     *)
(*                                                                         *)
(* A line is the record it shows, the chain it was appended to, whether    *)
(* the digest stored beside the record is its digest, and how it ends      *)
(* (whole, without its newline, or torn).  One record is one write(2).     *)
(***************************************************************************)
EXTENDS Naturals, Sequences, FiniteSets

CONSTANTS Worker, PerWorker,  \* process_count, records_per_process
          Damages             \* how often the file is damaged

ASSUME StoredAssumption == PerWorker \in Nat \ {0} /\ Damages \in Nat

VARIABLES ledger,    \* the class: plain or anchored (one writer)
          lines, kept,   \* the file, and its anchor
          known,     \* each writer's _records
          at, tried, \* its place, and how many records it has tried
          succeeded, \* the records whose append returned
          was,       \* history: what a reload read before the file was damaged
          damage     \* history: how the file was damaged

storedVars == <<ledger, lines, kept, known, at, tried, succeeded, was, damage>>

Record(w, i) == [id |-> <<w, i>>, input |-> "as given"]
IdsIn(s) == {s[i].id : i \in DOMAIN s}
Line(rec, chain, end) == [rec |-> rec, prev |-> chain, sealed |-> TRUE, end |-> end]
ChainOf(f) == [i \in DOMAIN f |-> f[i].rec]
Starts(s, t) == Len(s) <= Len(t) /\ SubSeq(t, 1, Len(s)) = s

(* Mutant: the digest is taken from the file instead of recomputed.        *)
ReadableUnsealed(f, i) ==
  /\ f[i].end # "torn"
  /\ f[i].prev = ChainOf(SubSeq(f, 1, i - 1))
  /\ f[i].rec.id \notin IdsIn(f[i].prev)

(* _load(): the line parses, its digest is its record's, it continues the  *)
(* chain, and its id is new.                                               *)
Readable(f, i) ==
  /\ f[i].end # "torn"
  /\ f[i].sealed
  /\ f[i].prev = ChainOf(SubSeq(f, 1, i - 1))
  /\ f[i].rec.id \notin IdsIn(f[i].prev)

FileLoads(f) == \A i \in DOMAIN f : Readable(f, i)
Opens(f, a) == FileLoads(f) /\ Starts(a, ChainOf(f))
Reloads == IF ledger = "plain" THEN FileLoads(lines) ELSE Opens(lines, kept)

(* A line that begins after a newline, or continues one without.           *)
AppendTo(f, line) ==
  IF f # <<>> /\ f[Len(f)].end # "whole" THEN [f EXCEPT ![Len(f)].end = "torn"] ELSE Append(f, line)
---------------------------------------------------------------------------
StoredInit ==
  /\ ledger \in {"plain", "anchored"}
  /\ lines = <<>> /\ kept = <<>> /\ known = [w \in Worker |-> <<>>]
  /\ at = [w \in Worker |-> "started"] /\ tried = [w \in Worker |-> 0]
  /\ succeeded = {} /\ was = <<>> /\ damage = <<>>

Move(w, place) == at' = [at EXCEPT ![w] = place]
OthersAtRest(w) == ledger = "plain" \/ \A v \in Worker \ {w} : at[v] \in {"started", "ended"}

(* FileLedger(path): a file that does not load ends the worker.            *)
Open(w) ==
  /\ at[w] = "started" /\ OthersAtRest(w)
  /\ IF Reloads THEN known' = [known EXCEPT ![w] = ChainOf(lines)] /\ Move(w, "ready")
                ELSE UNCHANGED known /\ Move(w, "ended")
  /\ UNCHANGED <<ledger, lines, kept, tried, succeeded, was, damage>>

(* append(): the worker's next record,                                     *)
Begin(w) ==
  /\ at[w] = "ready" /\ tried[w] < PerWorker
  /\ tried' = [tried EXCEPT ![w] = @ + 1]
  /\ Record(w, tried'[w]).id \notin IdsIn(known[w])
  /\ Move(w, "writing")
  /\ UNCHANGED <<ledger, lines, kept, known, succeeded, was, damage>>

(* or one with the id of a record it has loaded or appended: refused.      *)
Repeat(w) ==
  /\ at[w] = "ready" /\ tried[w] < PerWorker /\ known[w] # <<>>
  /\ tried' = [tried EXCEPT ![w] = @ + 1]
  /\ UNCHANGED <<ledger, lines, kept, known, at, succeeded, was, damage>>

(* The chain is the one in the writer's memory, whatever the file holds.   *)
Write(w) ==
  /\ at[w] = "writing"
  /\ lines' = AppendTo(lines, Line(Record(w, tried[w]), known[w], "whole"))
  /\ Move(w, "written")
  /\ UNCHANGED <<ledger, kept, known, tried, succeeded, was, damage>>

Returns(w) ==
  /\ at[w] = "written"
  /\ known' = [known EXCEPT ![w] = Append(@, Record(w, tried[w]))]
  /\ kept' = IF ledger = "anchored" THEN known'[w] ELSE kept
  /\ succeeded' = succeeded \cup {Record(w, tried[w])}
  /\ Move(w, "ready")
  /\ UNCHANGED <<ledger, lines, tried, was, damage>>

(* What is left of a line whose write was cut off.                         *)
Partly(w) == {lines} \cup {AppendTo(lines, Line(Record(w, tried[w]), known[w], end)) : end \in {"torn", "unended"}}

(* The write, or its fsync(), raises: the worker notes the error and goes  *)
(* on with the memory it has (a plain one; an anchored one reloads).       *)
WriteRaises(w) ==
  /\ at[w] \in {"writing", "written"} /\ ledger = "plain"
  /\ lines' \in IF at[w] = "writing" THEN Partly(w) ELSE {lines}
  /\ Move(w, "ready")
  /\ UNCHANGED <<ledger, kept, known, tried, succeeded, was, damage>>

(* The process is terminated, killed, or loses its power.                  *)
Killed(w) ==
  /\ at[w] \in {"ready", "writing", "written"}
  /\ lines' \in IF at[w] = "writing" THEN Partly(w) ELSE {lines}
  /\ Move(w, "ended")
  /\ UNCHANGED <<ledger, kept, known, tried, succeeded, was, damage>>

Finish(w) ==
  /\ at[w] = "ready" /\ tried[w] = PerWorker /\ Move(w, "ended")
  /\ UNCHANGED <<ledger, lines, kept, known, tried, succeeded, was, damage>>
---------------------------------------------------------------------------
(* The file is damaged when every writer has ended.                        *)
TornAt(n)     == Append(SubSeq(lines, 1, n - 1), [lines[n] EXCEPT !.end = "torn"])
UnendedAt(n)  == Append(SubSeq(lines, 1, n - 1), [lines[n] EXCEPT !.end = IF @ = "whole" THEN "unended" ELSE @])
MutatedAt(n)  == [lines EXCEPT ![n].rec.input = "changed", ![n].sealed = FALSE]
ForgedAt(n)   == [lines EXCEPT ![n].sealed = FALSE]
Another     == [id |-> <<"another", 1>>, input |-> "as given"]

(* check_torn_persistence: the file is cut at some byte.                   *)
Cut(n)     == {<<"cut", TornAt(n)>>, <<"cut", UnendedAt(n)>>, <<"cut", SubSeq(lines, 1, n - 1)>>}
(* DurabilityProbe: the beginning of one more line.                        *)
HalfLine   == <<"half a line", AppendTo(lines, Line(Another, <<>>, "torn"))>>
(* check_hostile_persistence.                                              *)
Hostile(n) == {<<"mutated", MutatedAt(n)>>, <<"forged", ForgedAt(n)>>}
(* apply_fault: S6 repeats the last line, S5 writes the history on from    *)
(* some point in another way, with all its digests.                        *)
Faults(n)  == {<<"repeated", AppendTo(lines, lines[Len(lines)])>>,
               <<"rewritten", AppendTo(SubSeq(lines, 1, n - 1), Line(Another, ChainOf(SubSeq(lines, 1, n - 1)), "whole"))>>}

Noted(kind) ==
  /\ damage' = Append(damage, kind)
  /\ was' = IF damage = <<>> THEN (IF FileLoads(lines) THEN ChainOf(lines) ELSE <<>>) ELSE was

Damage ==
  /\ \A w \in Worker : at[w] = "ended"
  /\ Len(damage) < Damages
  /\ \/ \E n \in DOMAIN lines : \E d \in Cut(n) \cup Hostile(n) \cup Faults(n) :
          Noted(d[1]) /\ lines' = d[2] /\ UNCHANGED kept
     \/ Noted(HalfLine[1]) /\ lines' = HalfLine[2] /\ UNCHANGED kept
     \/ Noted("anchor lost") /\ kept' = <<>> /\ UNCHANGED lines
  /\ UNCHANGED <<ledger, known, at, tried, succeeded>>

StoredNext ==
  \/ \E w \in Worker : Open(w) \/ Begin(w) \/ Repeat(w) \/ Write(w) \/ Returns(w) \/ WriteRaises(w) \/ Killed(w) \/ Finish(w)
  \/ Damage

StoredSpec == StoredInit /\ [][StoredNext]_storedVars
---------------------------------------------------------------------------
Damaged == {damage[i] : i \in DOMAIN damage}

(* ConcurrencyReport: what a reload says of the file once the writers have *)
(* ended; and RecoveryReport, of one that was interrupted.                 *)
Report ==
  [reload_ok |-> FileLoads(lines), final_record_count |-> Len(lines),
   unique_ids_on_disk |-> Cardinality({lines[i].rec.id : i \in {j \in DOMAIN lines : lines[j].end # "torn"}}),
   total_succeeded |-> Cardinality(succeeded)]
Recovery == [recovered_ok |-> Reloads, recovered_count |-> Len(lines)]

(* "Integrity checks detect corruption; they do not serialize writers"     *)
(* (file_ledger.py): whatever writers met, failed or were killed, a file   *)
(* that loads shows every record whose append returned, once, in the order *)
(* each writer made them, and at most one more of each writer.  A changed  *)
(* file that loads is a prefix of what was there, unless all its digests   *)
(* were made anew; and one whose anchor was kept is not missing its end.   *)
ReloadTellsAll ==
  LET loaded == ChainOf(lines)
      told   == \A rec \in succeeded : \E i \in DOMAIN loaded : loaded[i] = rec
  IN  /\ damage = <<>> /\ Report.reload_ok =>
           /\ told /\ Report.final_record_count = Report.unique_ids_on_disk
           /\ \A i, j \in DOMAIN loaded : i < j /\ loaded[i].id[1] = loaded[j].id[1] => loaded[i].id[2] < loaded[j].id[2]
           /\ Report.final_record_count <= Report.total_succeeded + Cardinality({w \in Worker : tried[w] > 0})
      /\ damage # <<>> /\ was # <<>> /\ Report.reload_ok /\ "rewritten" \notin Damaged => Starts(loaded, was)
      /\ ledger = "anchored" /\ Recovery.recovered_ok /\ "anchor lost" \notin Damaged =>
           told /\ Recovery.recovered_count >= Cardinality(succeeded)
===============================================================================
