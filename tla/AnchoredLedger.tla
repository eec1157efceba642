---------------------------- MODULE AnchoredLedger ----------------------------
(***************************************************************************)
(* AnchoredFileLedger (anchored_file_ledger.py over file_ledger.py): the   *)
(* evidence chain in a JSONL file that several processes append to, each   *)
(* with several threads, under flock(), with an anchor file that repeats   *)
(* the accepted history.                                                   *)
(*                                                                         *)
(* A line of the file is a record and how its write ended:                 *)
(*   whole     the record and its newline are there;                       *)
(*   unended   the record is complete, its newline is missing;             *)
(*   torn      anything else: cut off, or two records on one line.         *)
(* A line being written is torn to whoever reads it.  A write that fails   *)
(* or whose process dies leaves its line in one of the ways of Tears, or   *)
(* whole, or leaves nothing.                                               *)
(***************************************************************************)
EXTENDS Naturals, Sequences

CONSTANTS Process, Writer,  \* processes, and the threads that append
          ProcessOf,        \* the process a thread belongs to
          RecordId, NoRecord,
          Free,             \* nobody holds the lock
          Tears             \* how an unfinished write can leave its line

ASSUME LedgerAssumption ==
  /\ ProcessOf \in [Writer -> Process]
  /\ NoRecord \notin RecordId
  /\ Free \notin Writer
  /\ Tears \subseteq {"unended", "torn"}

VARIABLES file,      \* the lines of the ledger
          anchor,    \* the history in the anchor file
          lock,      \* who holds the flock
          mem,       \* each process's _records, as ids
          seen,      \* the anchor each process loaded when it opened the ledger
          up,        \* the state of each process
          pc, arg,   \* each thread's place in append(), and its record
          accepted   \* the records whose append() returned

disk == <<file, anchor>>
vars == <<file, anchor, lock, mem, seen, up, pc, arg, accepted>>

PCs   == {"idle", "waiting", "locked", "reloading", "loaded", "writing", "written",
          "anchored", "failing", "alarmed"}

Ids(s) == {s[i] : i \in DOMAIN s}
History(f) == [i \in DOMAIN f |-> f[i].id]
IsPrefixOf(s, t) == Len(s) <= Len(t) /\ SubSeq(t, 1, Len(s)) = s

(* _load(): a line that parses, continues the chain and repeats no id.      *)
GoodLine(f, i) ==
  /\ f[i].end # "torn"
  /\ f[i].prev = History(SubSeq(f, 1, i - 1))
  /\ f[i].id \notin Ids(f[i].prev)
Loads(f) == \A i \in DOMAIN f : GoodLine(f, i)
Loaded(f) ==
  LET n == CHOOSE n \in 0..Len(f) :
             (\A i \in 1..n : GoodLine(f, i)) /\ (n = Len(f) \/ ~GoodLine(f, n + 1))
  IN  History(SubSeq(f, 1, n))

InWrite  == {w \in Writer : pc[w] = "writing"}
Goto(w, l) == pc' = [pc EXCEPT ![w] = l]
ReplaceEnd(f, end) == [f EXCEPT ![Len(f)].end = end]

(* What an unfinished write leaves behind.  A write that began on an        *)
(* unended line has spoilt it; otherwise the new line is the last.          *)
LeftBehind(f, before) ==
  IF Len(f) = before THEN {f}
  ELSE {ReplaceEnd(f, end) : end \in Tears \cup {"whole"}} \cup {SubSeq(f, 1, Len(f) - 1)}
---------------------------------------------------------------------------
Init ==
  /\ file = <<>> /\ anchor = <<>> /\ lock = Free
  /\ mem = [p \in Process |-> <<>>] /\ seen = [p \in Process |-> <<>>]
  /\ up = [p \in Process |-> "down"]
  /\ pc = [w \in Writer |-> "idle"] /\ arg = [w \in Writer |-> NoRecord]
  /\ accepted = {}

(* __init__ takes no lock: first the anchor is read, then the ledger.       *)
LoadAnchor(p) ==
  /\ up[p] \in {"down", "alarmed"}
  /\ up' = [up EXCEPT ![p] = "opening"]
  /\ seen' = [seen EXCEPT ![p] = anchor]
  /\ UNCHANGED <<disk, lock, mem, pc, arg, accepted>>

OpenFile(p) ==
  /\ up[p] = "opening"
  /\ \/ /\ ~Loads(file)
        /\ up' = [up EXCEPT ![p] = "down"]
        /\ UNCHANGED mem
     \/ /\ Loads(file) /\ ~IsPrefixOf(seen[p], History(file))
        /\ up' = [up EXCEPT ![p] = "alarmed"]
        /\ UNCHANGED mem
     \/ /\ Loads(file) /\ IsPrefixOf(seen[p], History(file))
        /\ up' = [up EXCEPT ![p] = "open"]
        /\ mem' = [mem EXCEPT ![p] = History(file)]
  /\ UNCHANGED <<disk, lock, seen, pc, arg, accepted>>

CallAppend(w) ==
  /\ pc[w] = "idle" /\ up[ProcessOf[w]] = "open"
  /\ \E id \in RecordId : arg' = [arg EXCEPT ![w] = id]
  /\ Goto(w, "waiting")
  /\ UNCHANGED <<disk, lock, mem, seen, up, accepted>>

(* Mutant: the lock is opened but not waited for.                           *)
LockUnheld(w) ==
  /\ pc[w] = "waiting"
  /\ lock' = w
  /\ Goto(w, "locked")
  /\ UNCHANGED <<disk, mem, seen, up, arg, accepted>>

Lock(w) ==
  /\ pc[w] = "waiting"
  /\ lock = Free
  /\ lock' = w
  /\ Goto(w, "locked")
  /\ UNCHANGED <<disk, mem, seen, up, arg, accepted>>

(* _reload_locked() empties the process's records, then reads them again.   *)
ForgetRecords(w) ==
  /\ pc[w] = "locked"
  /\ mem' = [mem EXCEPT ![ProcessOf[w]] = <<>>]
  /\ Goto(w, "reloading")
  /\ UNCHANGED <<disk, lock, seen, up, arg, accepted>>

(* Mutant: an append does not fail on a file that does not load.            *)
ReloadUnchecked(w) ==
  /\ pc[w] = "reloading"
  /\ mem' = [mem EXCEPT ![ProcessOf[w]] = Loaded(file)]
  /\ Goto(w, "loaded")
  /\ UNCHANGED <<disk, lock, seen, up, arg, accepted>>

(* Mutant: what is read again is not compared with the anchor.             *)
ReloadUnverified(w) ==
  /\ pc[w] = "reloading"
  /\ mem' = [mem EXCEPT ![ProcessOf[w]] = Loaded(file)]
  /\ Goto(w, IF Loads(file) THEN "loaded" ELSE "failing")
  /\ UNCHANGED <<disk, lock, seen, up, arg, accepted>>

Reload(w) ==
  /\ pc[w] = "reloading"
  /\ mem' = [mem EXCEPT ![ProcessOf[w]] = Loaded(file)]
  /\ \/ ~Loads(file) /\ Goto(w, "failing")
     \/ Loads(file) /\ ~IsPrefixOf(seen[ProcessOf[w]], History(file)) /\ Goto(w, "alarmed")
     \/ Loads(file) /\ IsPrefixOf(seen[ProcessOf[w]], History(file)) /\ Goto(w, "loaded")
  /\ UNCHANGED <<disk, lock, seen, up, arg, accepted>>

(* The line starts to appear.  On a line without its newline the two become *)
(* one line that is no record.                                              *)
WriteOn(f, id, chain) ==
  IF f # <<>> /\ f[Len(f)].end # "whole" THEN ReplaceEnd(f, "torn")
  ELSE Append(f, [id |-> id, prev |-> chain, end |-> "torn"])

(* Mutant: the anchor is advanced before the ledger.                        *)
AnchorFirst(w) ==
  /\ pc[w] = "loaded"
  /\ arg[w] \notin Ids(mem[ProcessOf[w]])
  /\ anchor' = Append(mem[ProcessOf[w]], arg[w])
  /\ file' = WriteOn(file, arg[w], mem[ProcessOf[w]])
  /\ Goto(w, "writing")
  /\ UNCHANGED <<lock, mem, seen, up, arg, accepted>>

StartWrite(w) ==
  /\ pc[w] = "loaded"
  /\ \/ /\ arg[w] \notin Ids(mem[ProcessOf[w]])
        /\ file' = WriteOn(file, arg[w], mem[ProcessOf[w]])
        /\ Goto(w, "writing")
     \/ /\ Goto(w, "failing")    \* a duplicate, or the file cannot be opened
        /\ UNCHANGED file
  /\ UNCHANGED <<anchor, lock, mem, seen, up, arg, accepted>>

FinishWrite(w) ==
  /\ pc[w] = "writing"
  /\ file' = IF Len(file) > Len(mem[ProcessOf[w]]) THEN ReplaceEnd(file, "whole") ELSE file
  /\ mem' = [mem EXCEPT ![ProcessOf[w]] = Append(@, arg[w])]
  /\ Goto(w, "written")
  /\ UNCHANGED <<anchor, lock, seen, up, arg, accepted>>

WriteFails(w) ==
  /\ pc[w] = "writing"
  /\ file' \in LeftBehind(file, Len(mem[ProcessOf[w]]))
  /\ Goto(w, "failing")
  /\ UNCHANGED <<anchor, lock, mem, seen, up, arg, accepted>>

(* Mutant: a failure to write the anchor is swallowed.                      *)
AnchorBestEffort(w) ==
  /\ pc[w] = "written"
  /\ anchor' \in {anchor, mem[ProcessOf[w]]}
  /\ Goto(w, "anchored")
  /\ UNCHANGED <<file, lock, mem, seen, up, arg, accepted>>

(* A new file, synced, then renamed over the anchor.                        *)
WriteAnchor(w) ==
  /\ pc[w] = "written"
  /\ \/ anchor' = mem[ProcessOf[w]] /\ Goto(w, "anchored")
     \/ UNCHANGED anchor /\ Goto(w, "failing")
  /\ UNCHANGED <<file, lock, mem, seen, up, arg, accepted>>

Return(w) ==
  /\ pc[w] = "anchored"
  /\ lock' = Free
  /\ accepted' = accepted \cup {arg[w]}
  /\ Goto(w, "idle")
  /\ arg' = [arg EXCEPT ![w] = NoRecord]
  /\ UNCHANGED <<disk, mem, seen, up>>

(* Mutant: the lock is not released when append() raises.                   *)
RaiseLocked(w) ==
  /\ pc[w] \in {"failing", "alarmed"}
  /\ Goto(w, "idle")
  /\ arg' = [arg EXCEPT ![w] = NoRecord]
  /\ UNCHANGED <<disk, lock, mem, seen, up, accepted>>

Raise(w) ==
  /\ pc[w] \in {"failing", "alarmed"}
  /\ lock' = Free
  /\ Goto(w, "idle")
  /\ arg' = [arg EXCEPT ![w] = NoRecord]
  /\ UNCHANGED <<disk, mem, seen, up, accepted>>

(* The process dies; the kernel gives its flock back.                       *)
Crash(p) ==
  LET mine == {w \in Writer : ProcessOf[w] = p}
  IN  /\ up[p] = "open"
      /\ IF InWrite \cap mine = {} THEN UNCHANGED file
         ELSE file' \in LeftBehind(file, Len(mem[p]))
      /\ lock' = IF lock \in mine THEN Free ELSE lock
      /\ mem' = [mem EXCEPT ![p] = <<>>]
      /\ seen' = [seen EXCEPT ![p] = <<>>]
      /\ up' = [up EXCEPT ![p] = "down"]
      /\ pc' = [w \in Writer |-> IF w \in mine THEN "idle" ELSE pc[w]]
      /\ arg' = [w \in Writer |-> IF w \in mine THEN NoRecord ELSE arg[w]]
      /\ UNCHANGED <<anchor, accepted>>

AppendStep(w) ==
  \/ ForgetRecords(w) \/ Reload(w) \/ StartWrite(w) \/ FinishWrite(w) \/ WriteFails(w)
  \/ WriteAnchor(w) \/ Return(w) \/ Raise(w)

Next ==
  \/ \E p \in Process : LoadAnchor(p) \/ OpenFile(p) \/ Crash(p)
  \/ \E w \in Writer : CallAppend(w) \/ Lock(w) \/ AppendStep(w)

Spec == Init /\ [][Next]_vars

(* flock() does not starve a waiter, and a thread inside append() runs on.  *)
FairSpec == Spec /\ \A w \in Writer : SF_vars(Lock(w)) /\ WF_vars(AppendStep(w))
---------------------------------------------------------------------------
(* "Durably append": a record whose append() returned can be read back from *)
(* the file at any later time, also after failed writes and crashes of      *)
(* other writers.                                                           *)
AcceptedReadable == accepted \subseteq Ids(Loaded(file))

(* "The anchor records the accepted ledger prefix": every record whose      *)
(* append() returned is in the anchor, and the anchor is a prefix of what   *)
(* the ledger holds.                                                        *)
AcceptedAnchored == accepted \subseteq Ids(anchor) /\ IsPrefixOf(anchor, Loaded(file))

(* The anchor never accuses a ledger nobody tampered with: __init__ reads   *)
(* the two files without the lock, while other processes append, and after  *)
(* crashes between the two writes.                                          *)
NoFalseAlarm ==
  /\ \A p \in Process : up[p] # "alarmed"
  /\ \A w \in Writer : pc[w] # "alarmed"

(* Also when an older copy of the ledger is restored under running          *)
(* processes: no process replaces the anchor by a history without the       *)
(* records that were anchored when it opened the ledger.                    *)
SeenIsKept ==
  [][anchor' # anchor => \E w \in Writer : pc[w] = "written" /\ IsPrefixOf(seen[ProcessOf[w]], anchor')]_vars

(* The ledger in the file implements the in-memory one: what can be loaded  *)
(* from it only grows, by one record of a new id at a time.                 *)
InMemory == INSTANCE Ledger WITH log <- Loaded(file)
ImplementsLedger == InMemory!Spec

(* An append ends, with its record or with an error.                        *)
AppendsEnd == \A w \in Writer : pc[w] = "waiting" ~> pc[w] = "idle"
===========================================================================
