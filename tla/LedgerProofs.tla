----------------------------- MODULE LedgerProofs -----------------------------
(* What the anchored ledger keeps, for any processes, threads and records; *)
(* and, at the end, what a file that is read again tells of its writers.   *)
EXTENDS AnchoredLedger, StoredLedger, SequenceTheorems, FiniteSetTheorems, TLAPS

USE LedgerAssumption

(* The lock's holder is the one thread inside append(), and its process is *)
(* open.  None of this depends on what the file holds.                     *)
FileLines == [id : RecordId, prev : Seq(RecordId), end : {"whole", "unended", "torn"}]
Inside == PCs \ {"idle", "waiting"}

TypeInv ==
  /\ file \in Seq(FileLines) /\ anchor \in Seq(RecordId)
  /\ lock \in Writer \cup {Free}
  /\ mem = [p \in Process |-> mem[p]] /\ seen \in [Process -> Seq(RecordId)]
  /\ up \in [Process -> {"down", "opening", "open", "alarmed"}]
  /\ pc \in [Writer -> PCs] /\ arg \in [Writer -> RecordId \cup {NoRecord}]
  /\ accepted \subseteq RecordId

LockInv == \A w \in Writer : pc[w] \in Inside => lock = w
OpenInv == \A w \in Writer : pc[w] # "idle" => up[ProcessOf[w]] = "open" /\ arg[w] \in RecordId
SeenInv ==
  \A w \in Writer : pc[w] \in {"loaded", "writing", "written"} =>
    /\ mem[ProcessOf[w]] \in Seq(RecordId)
    /\ IsPrefixOf(seen[ProcessOf[w]], mem[ProcessOf[w]])

CtlInv == TypeInv /\ LockInv /\ OpenInv /\ SeenInv

(* The file is put back, cut or rewritten under the processes.             *)
Replaced == file' \in Seq(FileLines) /\ UNCHANGED <<anchor, lock, mem, seen, up, pc, arg, accepted>>
DamagedSpec == Init /\ [][Next \/ Replaced]_vars

LEMMA PrefixFacts ==
  ASSUME NEW S, NEW s \in Seq(S), NEW t \in Seq(S)
  PROVE  IsPrefixOf(s, t) <=> Len(s) <= Len(t) /\ \A i \in 1..Len(s) : s[i] = t[i]
<1>1. CASE Len(s) <= Len(t)
  <2>1. /\ SubSeq(t, 1, Len(s)) \in Seq(S) /\ Len(SubSeq(t, 1, Len(s))) = Len(s)
        /\ \A i \in 1..Len(s) : SubSeq(t, 1, Len(s))[i] = t[i]
    BY <1>1
  <2>2. (\A i \in 1..Len(s) : s[i] = t[i]) => SubSeq(t, 1, Len(s)) = s
    BY <2>1, SeqEqual
  <2> QED
    BY <1>1, <2>1, <2>2 DEF IsPrefixOf
<1>2. CASE ~(Len(s) <= Len(t))
  BY <1>2 DEF IsPrefixOf
<1> QED
  BY <1>1, <1>2

LEMMA PrefixSelf ==
  ASSUME NEW S, NEW s \in Seq(S)
  PROVE  IsPrefixOf(s, s) /\ IsPrefixOf(<<>>, s)
<1>1. Len(s) \in Nat
  OBVIOUS
<1>2. IsPrefixOf(s, s)
  BY <1>1, SubSeqFull DEF IsPrefixOf
<1>3. SubSeq(s, 1, 0) = <<>> /\ Len(<<>>) = 0
  BY SubSeqEmpty
<1>4. IsPrefixOf(<<>>, s)
  BY <1>1, <1>3 DEF IsPrefixOf
<1> QED
  BY <1>2, <1>4

LEMMA PrefixAppend ==
  ASSUME NEW S, NEW s \in Seq(S), NEW t \in Seq(S), NEW x \in S, IsPrefixOf(s, t)
  PROVE  IsPrefixOf(s, Append(t, x))
<1> DEFINE l == Append(t, x)
<1>1. l \in Seq(S) /\ Len(l) = Len(t) + 1 /\ \A i \in 1..Len(t) : l[i] = t[i]
  BY AppendProperties
<1> HIDE DEF l
<1>2. Len(s) <= Len(t) /\ \A i \in 1..Len(s) : s[i] = t[i]
  BY PrefixFacts
<1>3. IsPrefixOf(s, l) <=> Len(s) <= Len(l) /\ \A i \in 1..Len(s) : s[i] = l[i]
  BY <1>1, PrefixFacts
<1>4. Len(s) \in Nat /\ Len(t) \in Nat
  OBVIOUS
<1> QED
  BY <1>1, <1>2, <1>3, <1>4 DEF l

(* What the history of a file is, and of one that loads.                   *)
LEMMA HistoryFacts ==
  ASSUME NEW f \in Seq(FileLines)
  PROVE  /\ History(f) \in Seq(RecordId) /\ Len(History(f)) = Len(f) /\ DOMAIN History(f) = DOMAIN f
         /\ \A i \in DOMAIN f : History(f)[i] = f[i].id
<1>1. Len(f) \in Nat /\ DOMAIN f = 1..Len(f)
  OBVIOUS
<1>1a. \A l \in FileLines : l.id \in RecordId
  BY DEF FileLines
<1>2a. \A i \in DOMAIN f : f[i].id \in RecordId
  BY <1>1a, <1>1, ElementOfSeq
<1>2. History(f) \in [1..Len(f) -> RecordId]
  BY <1>1, <1>2a DEF History
<1>3. History(f) \in Seq(RecordId)
  BY <1>1, <1>2, SeqDef
<1> QED
  BY <1>1, <1>2, <1>3 DEF History

LEMMA LoadedWhenLoads ==
  ASSUME NEW f \in Seq(FileLines), Loads(f)
  PROVE  Loaded(f) = History(f)
<1> DEFINE Stops(n) == (\A i \in 1..n : GoodLine(f, i)) /\ (n = Len(f) \/ ~GoodLine(f, n + 1))
<1>1. Len(f) \in Nat /\ DOMAIN f = 1..Len(f)
  OBVIOUS
<1>1a. \A k \in Nat : \A n \in 0..k : n # k => n + 1 \in 1..k
  OBVIOUS
<1>2. \A i \in 1..Len(f) : GoodLine(f, i)
  BY <1>1 DEF Loads
<1>3. Stops(Len(f))
  BY <1>2
<1>4. ASSUME NEW n \in 0..Len(f), Stops(n) PROVE n = Len(f)
  <2> HIDE DEF Stops
  <2>1. n # Len(f) => n + 1 \in 1..Len(f)
    BY <1>1, <1>1a
  <2>2. n = Len(f) \/ ~GoodLine(f, n + 1)
    BY <1>4 DEF Stops
  <2> QED
    BY <1>2, <2>1, <2>2
<1> HIDE DEF Stops
<1> DEFINE m == CHOOSE n \in 0..Len(f) : Stops(n)
<1>5. Len(f) \in 0..Len(f)
  BY <1>1
<1>6. m \in 0..Len(f) /\ Stops(m)
  BY <1>3, <1>5, Zenon
<1>7. m = Len(f)
  BY <1>4, <1>6, Zenon
<1>8. SubSeq(f, 1, Len(f)) = f
  BY SubSeqFull
<1> QED
  BY <1>7, <1>8 DEF Loaded, Stops

LEMMA FileTypes ==
  ASSUME NEW f \in Seq(FileLines)
  PROVE  /\ \A end \in {"whole", "unended", "torn"} : ReplaceEnd(f, end) \in Seq(FileLines)
         /\ \A n \in 0..Len(f) : SubSeq(f, 1, n) \in Seq(FileLines)
         /\ \A n : LeftBehind(f, n) \subseteq Seq(FileLines)
         /\ \A id \in RecordId, chain \in Seq(RecordId) : WriteOn(f, id, chain) \in Seq(FileLines)
<1>1. ASSUME NEW e \in {"whole", "unended", "torn"} PROVE ReplaceEnd(f, e) \in Seq(FileLines)
  <2>1. CASE f = <<>>
    <3>1. Len(f) \notin DOMAIN f
      BY <2>1
    <3>2. ReplaceEnd(f, e) = f
      BY <3>1 DEF ReplaceEnd
    <3> QED
      BY <3>2
  <2>2. CASE f # <<>>
    <3>1. Len(f) \in 1..Len(f) /\ f[Len(f)] \in FileLines
      BY <2>2, EmptySeq, ElementOfSeq
    <3>2. [f[Len(f)] EXCEPT !.end = e] \in FileLines
      BY <3>1 DEF FileLines
    <3>3. [f EXCEPT ![Len(f)] = [f[Len(f)] EXCEPT !.end = e]] \in Seq(FileLines)
      BY <3>1, <3>2, ExceptSeq
    <3>4. ReplaceEnd(f, e) = [f EXCEPT ![Len(f)] = [f[Len(f)] EXCEPT !.end = e]]
      BY DEF ReplaceEnd
    <3> QED
      BY <3>3, <3>4
  <2> QED
    BY <2>1, <2>2
<1>2. \A n \in 0..Len(f) : SubSeq(f, 1, n) \in Seq(FileLines)
  OBVIOUS
<1>3. SubSeq(f, 1, Len(f) - 1) \in Seq(FileLines)
  OBVIOUS
<1>4. ASSUME NEW n PROVE LeftBehind(f, n) \subseteq Seq(FileLines)
  BY <1>1, <1>3 DEF LeftBehind
<1>5. ASSUME NEW id \in RecordId, NEW chain \in Seq(RecordId) PROVE WriteOn(f, id, chain) \in Seq(FileLines)
  <2>1. [id |-> id, prev |-> chain, end |-> "torn"] \in FileLines
    BY DEF FileLines
  <2>2. Append(f, [id |-> id, prev |-> chain, end |-> "torn"]) \in Seq(FileLines)
    BY <2>1
  <2> QED
    BY <1>1, <2>2 DEF WriteOn
<1> QED
  BY <1>1, <1>2, <1>4, <1>5

(* The control invariant, one lemma for each part.                         *)
LEMMA TypeNext ==
  ASSUME CtlInv, [Next \/ Replaced]_vars
  PROVE  TypeInv'
<1> USE DEF CtlInv, TypeInv, PCs, Goto, disk
<1>1. ASSUME NEW p \in Process, LoadAnchor(p) PROVE TypeInv'
  BY <1>1 DEF LoadAnchor
<1>2. ASSUME NEW p \in Process, OpenFile(p) PROVE TypeInv'
  BY <1>2 DEF OpenFile
<1>3. ASSUME NEW p \in Process, Crash(p) PROVE TypeInv'
  <2>1. LeftBehind(file, Len(mem[p])) \subseteq Seq(FileLines)
    BY FileTypes
  <2>2. file' \in Seq(FileLines)
    BY <1>3, <2>1 DEF Crash
  <2>3. pc' \in [Writer -> PCs] /\ arg' \in [Writer -> RecordId \cup {NoRecord}]
    BY <1>3 DEF Crash
  <2>4. /\ lock' \in Writer \cup {Free} /\ up' \in [Process -> {"down", "opening", "open", "alarmed"}]
        /\ anchor' = anchor /\ accepted' = accepted
    BY <1>3 DEF Crash
  <2>5. mem' = [q \in Process |-> mem'[q]]
    BY <1>3 DEF Crash
  <2>6. seen' \in [Process -> Seq(RecordId)]
    BY <1>3, EmptySeq DEF Crash
  <2> QED
    BY <2>2, <2>3, <2>4, <2>5, <2>6
<1>4. ASSUME NEW w \in Writer, CallAppend(w) PROVE TypeInv'
  BY <1>4 DEF CallAppend
<1>5. ASSUME NEW w \in Writer, Lock(w) PROVE TypeInv'
  BY <1>5 DEF Lock
<1>6. ASSUME NEW w \in Writer, ForgetRecords(w) PROVE TypeInv'
  BY <1>6 DEF ForgetRecords
<1>7. ASSUME NEW w \in Writer, Reload(w) PROVE TypeInv'
  BY <1>7 DEF Reload
<1>8. ASSUME NEW w \in Writer, StartWrite(w) PROVE TypeInv'
  <2>1. pc[w] = "loaded" => arg[w] \in RecordId /\ mem[ProcessOf[w]] \in Seq(RecordId)
    BY DEF OpenInv, SeenInv
  <2>2. file' \in Seq(FileLines)
    <3>1. pc[w] = "loaded" => WriteOn(file, arg[w], mem[ProcessOf[w]]) \in Seq(FileLines)
      BY <2>1, FileTypes
    <3> QED
      BY <1>8, <3>1 DEF StartWrite
  <2> QED
    BY <1>8, <2>2 DEF StartWrite
<1>9. ASSUME NEW w \in Writer, FinishWrite(w) PROVE TypeInv'
  <2>1. ReplaceEnd(file, "whole") \in Seq(FileLines)
    BY FileTypes
  <2> QED
    BY <1>9, <2>1 DEF FinishWrite
<1>10. ASSUME NEW w \in Writer, WriteFails(w) PROVE TypeInv'
  <2>1. LeftBehind(file, Len(mem[ProcessOf[w]])) \subseteq Seq(FileLines)
    BY FileTypes
  <2> QED
    BY <1>10, <2>1 DEF WriteFails
<1>11. ASSUME NEW w \in Writer, WriteAnchor(w) PROVE TypeInv'
  BY <1>11 DEF WriteAnchor, SeenInv
<1>12. ASSUME NEW w \in Writer, Return(w) PROVE TypeInv'
  BY <1>12 DEF Return, OpenInv
<1>13. ASSUME NEW w \in Writer, Raise(w) PROVE TypeInv'
  BY <1>13 DEF Raise
<1>14. CASE Replaced
  BY <1>14 DEF Replaced
<1>15. CASE UNCHANGED vars
  BY <1>15 DEF vars
<1> QED
  BY <1>1, <1>2, <1>3, <1>4, <1>5, <1>6, <1>7, <1>8, <1>9, <1>10, <1>11, <1>12, <1>13, <1>14, <1>15
  DEF Next, AppendStep

LEMMA LockNext ==
  ASSUME CtlInv, [Next \/ Replaced]_vars
  PROVE  LockInv'
<1> USE DEF CtlInv, TypeInv, LockInv, Inside, PCs, Goto
<1>1. ASSUME NEW p \in Process, LoadAnchor(p) \/ OpenFile(p) PROVE LockInv'
  BY <1>1 DEF LoadAnchor, OpenFile
<1>2. ASSUME NEW p \in Process, Crash(p) PROVE LockInv'
  BY <1>2 DEF Crash
<1>3. ASSUME NEW w \in Writer, CallAppend(w) PROVE LockInv'
  BY <1>3 DEF CallAppend
<1>4. ASSUME NEW w \in Writer, Lock(w) PROVE LockInv'
  BY <1>4 DEF Lock
<1>5. ASSUME NEW w \in Writer, ForgetRecords(w) \/ Reload(w) \/ StartWrite(w) \/ FinishWrite(w) PROVE LockInv'
  BY <1>5 DEF ForgetRecords, Reload, StartWrite, FinishWrite
<1>6. ASSUME NEW w \in Writer, WriteFails(w) \/ WriteAnchor(w) PROVE LockInv'
  BY <1>6 DEF WriteFails, WriteAnchor
<1>7. ASSUME NEW w \in Writer, Return(w) \/ Raise(w) PROVE LockInv'
  BY <1>7 DEF Return, Raise
<1>8. CASE Replaced \/ UNCHANGED vars
  BY <1>8 DEF Replaced, vars
<1> QED
  BY <1>1, <1>2, <1>3, <1>4, <1>5, <1>6, <1>7, <1>8 DEF Next, AppendStep

LEMMA OpenNext ==
  ASSUME CtlInv, [Next \/ Replaced]_vars
  PROVE  OpenInv'
<1> USE DEF CtlInv, TypeInv, OpenInv, PCs, Goto
<1>1. ASSUME NEW p \in Process, LoadAnchor(p) \/ OpenFile(p) PROVE OpenInv'
  BY <1>1 DEF LoadAnchor, OpenFile
<1>2. ASSUME NEW p \in Process, Crash(p) PROVE OpenInv'
  BY <1>2 DEF Crash
<1>3. ASSUME NEW w \in Writer, CallAppend(w) PROVE OpenInv'
  BY <1>3 DEF CallAppend
<1>4. ASSUME NEW w \in Writer, Lock(w) \/ ForgetRecords(w) \/ Reload(w) \/ StartWrite(w) \/ FinishWrite(w) PROVE OpenInv'
  BY <1>4 DEF Lock, ForgetRecords, Reload, StartWrite, FinishWrite
<1>5. ASSUME NEW w \in Writer, WriteFails(w) \/ WriteAnchor(w) \/ Return(w) \/ Raise(w) PROVE OpenInv'
  BY <1>5 DEF WriteFails, WriteAnchor, Return, Raise
<1>6. CASE Replaced \/ UNCHANGED vars
  BY <1>6 DEF Replaced, vars
<1> QED
  BY <1>1, <1>2, <1>3, <1>4, <1>5, <1>6 DEF Next, AppendStep

(* Nobody but the lock's holder changes the memory of its process, and an  *)
(* open process keeps the anchor it was opened with.                       *)
LEMMA SeenNext ==
  ASSUME CtlInv, [Next \/ Replaced]_vars
  PROVE  SeenInv'
<1> SUFFICES ASSUME NEW v \in Writer, (pc[v] \in {"loaded", "writing", "written"})'
             PROVE  (/\ mem[ProcessOf[v]] \in Seq(RecordId)
                     /\ IsPrefixOf(seen[ProcessOf[v]], mem[ProcessOf[v]]))'
  BY DEF SeenInv
<1> DEFINE q == ProcessOf[v]
<1>q. q \in Process
  OBVIOUS
<1> HIDE DEF q
<1> SUFFICES /\ mem'[q] \in Seq(RecordId)
             /\ IsPrefixOf(seen'[q], mem'[q])
  BY DEF q
<1> DEFINE Kept == pc[v] \in {"loaded", "writing", "written"} /\ mem'[q] = mem[q] /\ seen'[q] = seen[q]
<1>k. SUFFICES ASSUME ~Kept PROVE mem'[q] \in Seq(RecordId) /\ IsPrefixOf(seen'[q], mem'[q])
  BY DEF CtlInv, SeenInv, q
<1>v. pc'[v] \in {"loaded", "writing", "written"}
  OBVIOUS
<1> USE DEF CtlInv, TypeInv, PCs, Goto
<1>1. ASSUME NEW p \in Process, LoadAnchor(p) \/ OpenFile(p) PROVE Kept
  <2>1. pc' = pc /\ up[q] = "open" /\ up[p] # "open"
    BY <1>1, <1>v DEF LoadAnchor, OpenFile, OpenInv, q
  <2> QED
    BY <1>1, <1>v, <2>1, <1>q DEF LoadAnchor, OpenFile
<1>2. ASSUME NEW p \in Process, Crash(p) PROVE Kept
  <2>1. q # p /\ pc'[v] = pc[v]
    BY <1>2, <1>v DEF Crash, q
  <2> QED
    BY <1>2, <1>v, <2>1, <1>q DEF Crash
<1>3. ASSUME NEW w \in Writer, CallAppend(w) \/ Lock(w) PROVE Kept
  BY <1>3, <1>v, <1>q DEF CallAppend, Lock
<1>4. ASSUME NEW w \in Writer, w # v, ForgetRecords(w) \/ Reload(w) \/ FinishWrite(w) PROVE FALSE
  <2>1. pc[w] \in Inside /\ pc[v] \in Inside
    BY <1>4, <1>v DEF ForgetRecords, Reload, FinishWrite, Inside
  <2> QED
    BY <1>4, <2>1 DEF LockInv
<1>5. CASE ForgetRecords(v)
  BY <1>5, <1>v DEF ForgetRecords
<1>6. CASE Reload(v)
  <2>1. Loads(file) /\ IsPrefixOf(seen[q], History(file)) /\ mem'[q] = Loaded(file) /\ seen' = seen
    BY <1>6, <1>v, <1>q DEF Reload, q
  <2>2. Loaded(file) = History(file) /\ History(file) \in Seq(RecordId)
    BY <2>1, LoadedWhenLoads, HistoryFacts
  <2> QED
    BY <2>1, <2>2
<1>7. CASE FinishWrite(v)
  <2>1. mem'[q] = Append(mem[q], arg[v]) /\ seen' = seen
    BY <1>7, <1>q DEF FinishWrite, q
  <2>2. mem[q] \in Seq(RecordId) /\ IsPrefixOf(seen[q], mem[q]) /\ arg[v] \in RecordId /\ seen[q] \in Seq(RecordId)
    BY <1>7, <1>q DEF FinishWrite, q, SeenInv, OpenInv
  <2>3. IsPrefixOf(seen[q], Append(mem[q], arg[v])) /\ Append(mem[q], arg[v]) \in Seq(RecordId)
    BY <2>2, PrefixAppend, AppendProperties
  <2> QED
    BY <2>1, <2>3
<1>8. ASSUME NEW w \in Writer, StartWrite(w) \/ WriteFails(w) \/ WriteAnchor(w) PROVE Kept
  BY <1>8, <1>v, <1>q DEF StartWrite, WriteFails, WriteAnchor
<1>9. ASSUME NEW w \in Writer, Return(w) \/ Raise(w) PROVE Kept
  BY <1>9, <1>v, <1>q DEF Return, Raise
<1>10. ASSUME Replaced \/ UNCHANGED vars PROVE Kept
  BY <1>10, <1>v DEF Replaced, vars
<1> QED
  BY <1>k, <1>1, <1>2, <1>3, <1>4, <1>5, <1>6, <1>7, <1>8, <1>9, <1>10 DEF Next, AppendStep

LEMMA CtlInit == Init => CtlInv
<1> SUFFICES ASSUME Init PROVE CtlInv
  OBVIOUS
<1>1. TypeInv
  BY EmptySeq DEF Init, TypeInv, PCs
<1> QED
  BY <1>1 DEF Init, CtlInv, LockInv, OpenInv, SeenInv, Inside, PCs

LEMMA CtlNext == CtlInv /\ [Next \/ Replaced]_vars => CtlInv'
BY TypeNext, LockNext, OpenNext, SeenNext DEF CtlInv

(* The anchor is never replaced by a history that lacks a record the       *)
(* writing process saw anchored when it opened the ledger, whatever        *)
(* happens to the file under it, at any time.                              *)
THEOREM AnchoredIsKeptUnderDamage == DamagedSpec => SeenIsKept
<1>1. CtlInv /\ [Next \/ Replaced]_vars =>
        [anchor' # anchor => \E w \in Writer : pc[w] = "written" /\ IsPrefixOf(seen[ProcessOf[w]], anchor')]_vars
  <2> SUFFICES ASSUME CtlInv, Next \/ Replaced, anchor' # anchor
               PROVE  \E w \in Writer : pc[w] = "written" /\ IsPrefixOf(seen[ProcessOf[w]], anchor')
    BY DEF vars, disk
  <2>1. PICK w \in Writer : WriteAnchor(w)
    BY DEF Next, Replaced, AppendStep, LoadAnchor, OpenFile, Crash, CallAppend, Lock, ForgetRecords, Reload,
           StartWrite, FinishWrite, WriteFails, Return, Raise, disk
  <2>2. pc[w] = "written" /\ anchor' = mem[ProcessOf[w]]
    BY <2>1 DEF WriteAnchor
  <2> QED
    BY <2>2 DEF CtlInv, SeenInv
<1> QED
  BY <1>1, CtlInit, CtlNext, PTL DEF DamagedSpec, SeenIsKept

---------------------------------------------------------------------------
(* A file nobody damaged, whose unfinished writes leave torn lines: every  *)
(* line continues the chain with a new record, and is whole but the last.  *)
Sound(f) ==
  \A i \in DOMAIN f :
    /\ f[i].end \in {"whole", "torn"} /\ (i < Len(f) => f[i].end = "whole")
    /\ f[i].prev = History(SubSeq(f, 1, i - 1)) /\ f[i].id \notin Ids(f[i].prev)
Ended(f) == f # <<>> => f[Len(f)].end = "whole"
NextLine(f, id, end) == [id |-> id, prev |-> History(f), end |-> end]

LEMMA SoundLoads ==
  ASSUME NEW f \in Seq(FileLines), Sound(f)
  PROVE  /\ Loads(f) <=> Ended(f)
         /\ Ended(f) => Loaded(f) = History(f)
         /\ ~Ended(f) => Loaded(f) = History(SubSeq(f, 1, Len(f) - 1))
<1>1. Len(f) \in Nat /\ DOMAIN f = 1..Len(f) /\ (f # <<>> => Len(f) \in DOMAIN f)
  BY EmptySeq
<1>2. \A i \in DOMAIN f : GoodLine(f, i) <=> f[i].end # "torn"
  BY DEF Sound, GoodLine
<1>3. \A i \in DOMAIN f : i < Len(f) => GoodLine(f, i)
  BY <1>2 DEF Sound
<1>4. Loads(f) => Ended(f)
  BY <1>1, <1>2 DEF Loads, Ended, Sound
<1>5. Ended(f) => Loads(f)
  <2> SUFFICES ASSUME Ended(f), NEW i \in DOMAIN f PROVE GoodLine(f, i)
    BY DEF Loads
  <2>1. CASE i = Len(f)
    <3>1. f # <<>>
      BY <1>1
    <3> QED
      BY <1>2, <2>1, <3>1 DEF Ended
  <2>2. CASE i < Len(f)
    BY <1>3, <2>2
  <2> QED
    BY <1>1, <2>1, <2>2
<1>6. Ended(f) => Loaded(f) = History(f)
  BY <1>5, LoadedWhenLoads
<1>7. ASSUME ~Ended(f) PROVE Loaded(f) = History(SubSeq(f, 1, Len(f) - 1))
  <2> DEFINE Stops(n) == (\A i \in 1..n : GoodLine(f, i)) /\ (n = Len(f) \/ ~GoodLine(f, n + 1))
             k == Len(f) - 1
  <2>1. f # <<>> /\ f[Len(f)].end = "torn" /\ Len(f) \in DOMAIN f
    BY <1>1, <1>7 DEF Ended, Sound
  <2>2. k \in 0..Len(f) /\ k + 1 = Len(f) /\ k \in Nat
    BY <1>1, <2>1
  <2>3. ~GoodLine(f, Len(f))
    BY <1>2, <2>1
  <2>4. Stops(k)
    <3>1. \A i \in 1..k : i \in DOMAIN f /\ i < Len(f)
      BY <1>1, <2>2
    <3> QED
      BY <1>3, <2>2, <2>3, <3>1
  <2>5. ASSUME NEW n \in 0..Len(f), Stops(n) PROVE n = k
    <3>1. n # Len(f)
      <4>1. n = Len(f) => Len(f) \in 1..n
        BY <1>1, <2>1
      <4> QED
        BY <2>3, <2>5, <4>1
    <3>2. ~GoodLine(f, n + 1)
      BY <2>5, <3>1
    <3> HIDE DEF Stops
    <3>3. \A a \in Nat : \A b \in 0..a : b # a /\ b # a - 1 => b + 1 \in 1..a /\ b + 1 < a
      OBVIOUS
    <3>4. n # k => n + 1 \in DOMAIN f /\ n + 1 < Len(f)
      BY <1>1, <3>1, <3>3
    <3> QED
      BY <1>3, <3>2, <3>4
  <2> HIDE DEF Stops, k
  <2> DEFINE m == CHOOSE n \in 0..Len(f) : Stops(n)
  <2>6. m \in 0..Len(f) /\ Stops(m)
    BY <2>2, <2>4, Zenon
  <2>7. m = k
    BY <2>5, <2>6, Zenon
  <2> QED
    BY <2>7 DEF Loaded, Stops, k
<1> QED
  BY <1>4, <1>5, <1>6, <1>7

(* One more line on a sound file that ends.                                *)
LEMMA SoundAppend ==
  ASSUME NEW f \in Seq(FileLines), Sound(f), Ended(f),
         NEW id \in RecordId, id \notin Ids(History(f)), NEW end \in {"whole", "torn"}
  PROVE  /\ Append(f, NextLine(f, id, end)) \in Seq(FileLines)
         /\ Sound(Append(f, NextLine(f, id, end)))
         /\ Ended(Append(f, NextLine(f, id, end))) <=> end = "whole"
         /\ end = "whole" => History(Append(f, NextLine(f, id, end))) = Append(History(f), id)
         /\ Loaded(f) = History(f)
         /\ Loaded(Append(f, NextLine(f, id, end))) = IF end = "whole" THEN Append(History(f), id) ELSE History(f)
<1> DEFINE l == NextLine(f, id, end)
           g == Append(f, l)
<1>1. History(f) \in Seq(RecordId) /\ Len(History(f)) = Len(f) /\ DOMAIN History(f) = DOMAIN f
      /\ \A i \in DOMAIN f : History(f)[i] = f[i].id
  BY HistoryFacts
<1>2. l \in FileLines /\ l.id = id /\ l.prev = History(f) /\ l.end = end
  BY <1>1 DEF FileLines, NextLine
<1> HIDE DEF l
<1>3. g \in Seq(FileLines) /\ g # <<>> /\ Len(g) = Len(f) + 1 /\ g[Len(f) + 1] = l /\ \A i \in 1..Len(f) : g[i] = f[i]
  BY <1>2, AppendProperties
<1>4. DOMAIN g = 1..(Len(f) + 1) /\ DOMAIN f = 1..Len(f) /\ Len(f) \in Nat
  BY <1>3
<1> HIDE DEF g
<1>5. \A n \in 0..Len(f) : SubSeq(g, 1, n) = SubSeq(f, 1, n)
  <2> SUFFICES ASSUME NEW n \in 0..Len(f) PROVE SubSeq(g, 1, n) = SubSeq(f, 1, n)
    OBVIOUS
  <2>1. SubSeq(f, 1, n) \in Seq(FileLines) /\ Len(SubSeq(f, 1, n)) = n /\ \A i \in 1..n : SubSeq(f, 1, n)[i] = f[i]
    BY <1>4
  <2>2. SubSeq(g, 1, n) \in Seq(FileLines) /\ Len(SubSeq(g, 1, n)) = n /\ \A i \in 1..n : SubSeq(g, 1, n)[i] = g[i]
    BY <1>3, <1>4
  <2>3. \A i \in 1..n : g[i] = f[i]
    BY <1>3, <1>4
  <2> QED
    BY <2>1, <2>2, <2>3, SeqEqual
<1>6. SubSeq(g, 1, Len(f)) = f
  BY <1>4, <1>5, SubSeqFull
<1>7. Sound(g)
  <2> SUFFICES ASSUME NEW i \in DOMAIN g
               PROVE  /\ g[i].end \in {"whole", "torn"} /\ (i < Len(g) => g[i].end = "whole")
                      /\ g[i].prev = History(SubSeq(g, 1, i - 1)) /\ g[i].id \notin Ids(g[i].prev)
    BY DEF Sound
  <2>1. CASE i = Len(f) + 1
    <3>1. i - 1 = Len(f) /\ ~(i < Len(g)) /\ g[i] = l
      BY <1>3, <1>4, <2>1
    <3> QED
      BY <1>2, <1>6, <3>1
  <2>2. CASE i # Len(f) + 1
    <3>1. i \in DOMAIN f /\ g[i] = f[i] /\ i - 1 \in 0..Len(f)
      BY <1>3, <1>4, <2>2
    <3>2. f[i].end = "whole"
      <4>1. CASE i < Len(f)
        BY <3>1, <4>1 DEF Sound
      <4>2. CASE i = Len(f)
        <5>1. f # <<>>
          BY <3>1
        <5> QED
          BY <4>2, <5>1 DEF Ended
      <4> QED
        BY <1>4, <3>1, <4>1, <4>2
    <3>3. SubSeq(g, 1, i - 1) = SubSeq(f, 1, i - 1)
      BY <1>5, <3>1
    <3> QED
      BY <3>1, <3>2, <3>3 DEF Sound
  <2> QED
    BY <2>1, <2>2
<1>8. Ended(g) <=> end = "whole"
  BY <1>2, <1>3 DEF Ended
<1>9. History(g) = Append(History(f), id)
  <2> DEFINE h == Append(History(f), id)
  <2>1. h \in Seq(RecordId) /\ Len(h) = Len(f) + 1 /\ h[Len(f) + 1] = id /\ \A i \in 1..Len(f) : h[i] = History(f)[i]
    BY <1>1, AppendProperties
  <2>2. History(g) \in Seq(RecordId) /\ Len(History(g)) = Len(f) + 1 /\ \A i \in DOMAIN g : History(g)[i] = g[i].id
    BY <1>3, HistoryFacts
  <2> HIDE DEF h
  <2>3. \A i \in 1..(Len(f) + 1) : History(g)[i] = h[i]
    <3> SUFFICES ASSUME NEW i \in 1..(Len(f) + 1) PROVE History(g)[i] = h[i]
      OBVIOUS
    <3>1. CASE i = Len(f) + 1
      BY <1>2, <1>3, <1>4, <2>1, <2>2, <3>1
    <3>2. CASE i # Len(f) + 1
      <4>1. i \in 1..Len(f)
        BY <1>4, <3>2
      <4> QED
        BY <1>1, <1>3, <1>4, <2>1, <2>2, <4>1
    <3> QED
      BY <3>1, <3>2
  <2>4. History(g) = h
    BY <2>1, <2>2, <2>3, SeqEqual
  <2> QED
    BY <2>4 DEF h
<1>10. Loaded(f) = History(f)
  BY SoundLoads
<1>11. Loaded(g) = IF end = "whole" THEN History(g) ELSE History(f)
  <2>1. Len(g) - 1 = Len(f)
    BY <1>3, <1>4
  <2> QED
    BY <1>3, <1>6, <1>7, <1>8, <2>1, SoundLoads
<1> QED
  BY <1>3, <1>7, <1>8, <1>9, <1>10, <1>11 DEF g, l

(* The last line is finished, or left unfinished, or never appeared.       *)
LEMMA LastLine ==
  ASSUME NEW f \in Seq(FileLines), NEW id \in RecordId, NEW end \in {"whole", "torn"}, NEW to \in {"whole", "torn"}
  PROVE  /\ ReplaceEnd(Append(f, NextLine(f, id, end)), to) = Append(f, NextLine(f, id, to))
         /\ Len(Append(f, NextLine(f, id, end))) = Len(f) + 1
         /\ SubSeq(Append(f, NextLine(f, id, end)), 1, Len(f)) = f
<1> DEFINE l == NextLine(f, id, end)
           m == NextLine(f, id, to)
           g == Append(f, l)
           h == Append(f, m)
           n == Len(f) + 1
<1>0. History(f) \in Seq(RecordId)
  BY HistoryFacts
<1>1. l \in FileLines /\ m \in FileLines /\ [l EXCEPT !.end = to] = m
  BY <1>0 DEF FileLines, NextLine
<1> HIDE DEF l, m
<1>2. /\ g \in Seq(FileLines) /\ Len(g) = n /\ g[n] = l /\ \A i \in 1..Len(f) : g[i] = f[i]
      /\ h \in Seq(FileLines) /\ Len(h) = n /\ h[n] = m /\ \A i \in 1..Len(f) : h[i] = f[i]
  BY <1>1, AppendProperties
<1> HIDE DEF g, h
<1>3. Len(f) \in Nat /\ n \in 1..Len(g)
  BY <1>2
<1>4. ReplaceEnd(g, to) = [g EXCEPT ![n] = m]
  BY <1>1, <1>2, <1>3 DEF ReplaceEnd
<1>5. /\ [g EXCEPT ![n] = m] \in Seq(FileLines) /\ Len([g EXCEPT ![n] = m]) = Len(g)
      /\ \A j \in 1..Len(g) : [g EXCEPT ![n] = m][j] = IF j = n THEN m ELSE g[j]
  BY <1>1, <1>2, <1>3, ExceptSeq
<1> DEFINE e == [g EXCEPT ![n] = m]
<1> HIDE DEF e
<1>6. e \in Seq(FileLines) /\ Len(e) = n /\ \A j \in 1..n : e[j] = IF j = n THEN m ELSE g[j]
  BY <1>2, <1>5 DEF e
<1>7. \A j \in 1..n : j # n => j \in 1..Len(f)
  BY <1>3
<1>8. \A j \in 1..n : e[j] = h[j]
  BY <1>2, <1>6, <1>7
<1>9. e = h
  BY <1>2, <1>6, <1>8, SeqEqual
<1>10. SubSeq(g, 1, Len(f)) = f
  <2>1. /\ SubSeq(g, 1, Len(f)) \in Seq(FileLines) /\ Len(SubSeq(g, 1, Len(f))) = Len(f)
        /\ \A i \in 1..Len(f) : SubSeq(g, 1, Len(f))[i] = g[i]
    BY <1>2, <1>3
  <2> QED
    BY <1>2, <2>1, SeqEqual
<1> QED
  BY <1>2, <1>4, <1>9, <1>10 DEF e, g, h, l, m

(* The file while a record is being written: a sound one that ends, and    *)
(* the torn beginning of the next line.                                    *)
Appending(f, chain, id) ==
  \E g \in Seq(FileLines) :
    /\ Sound(g) /\ Ended(g) /\ chain = History(g) /\ id \notin Ids(History(g))
    /\ f = Append(g, NextLine(g, id, "torn"))

Grown(s, t) == s = t \/ \E id \in RecordId : id \notin Ids(s) /\ t = Append(s, id)

LEMMA WriteOnSound ==
  ASSUME NEW f \in Seq(FileLines), Sound(f), Ended(f), NEW id \in RecordId, id \notin Ids(History(f))
  PROVE  /\ Appending(WriteOn(f, id, History(f)), History(f), id)
         /\ Sound(WriteOn(f, id, History(f))) /\ Loaded(WriteOn(f, id, History(f))) = Loaded(f)
<1>1. WriteOn(f, id, History(f)) = Append(f, NextLine(f, id, "torn"))
  BY DEF WriteOn, Ended, NextLine
<1>2. Sound(Append(f, NextLine(f, id, "torn"))) /\ Loaded(Append(f, NextLine(f, id, "torn"))) = Loaded(f)
  BY SoundAppend
<1> QED
  BY <1>1, <1>2 DEF Appending

(* What comes of the line: whole, or torn, or gone.                        *)
LEMMA WriteEnds ==
  ASSUME NEW f \in Seq(FileLines), NEW chain, NEW id \in RecordId, Appending(f, chain, id), Tears \subseteq {"torn"}
  PROVE  /\ Len(f) > Len(chain)
         /\ LET h == ReplaceEnd(f, "whole")
            IN  Sound(h) /\ Ended(h) /\ History(h) = Append(chain, id) /\ Grown(Loaded(f), Loaded(h))
         /\ \A h \in LeftBehind(f, Len(chain)) : Sound(h) /\ Grown(Loaded(f), Loaded(h))
<1>1. PICK g \in Seq(FileLines) :
        /\ Sound(g) /\ Ended(g) /\ chain = History(g) /\ id \notin Ids(History(g))
        /\ f = Append(g, NextLine(g, id, "torn"))
  BY DEF Appending
<1>2. Loaded(f) = History(g) /\ Loaded(g) = History(g) /\ Sound(f)
  BY <1>1, SoundAppend
<1>3. Len(chain) = Len(g) /\ Len(f) = Len(g) + 1 /\ Len(g) \in Nat
  BY <1>1, HistoryFacts, LastLine
<1>4. ReplaceEnd(f, "torn") = f
  BY <1>1, LastLine
<1>5. /\ Sound(ReplaceEnd(f, "whole")) /\ Ended(ReplaceEnd(f, "whole"))
      /\ History(ReplaceEnd(f, "whole")) = Append(History(g), id)
      /\ Loaded(ReplaceEnd(f, "whole")) = Append(History(g), id)
  <2>1. ReplaceEnd(f, "whole") = Append(g, NextLine(g, id, "whole"))
    BY <1>1, LastLine
  <2>2. /\ Sound(Append(g, NextLine(g, id, "whole"))) /\ Ended(Append(g, NextLine(g, id, "whole")))
        /\ History(Append(g, NextLine(g, id, "whole"))) = Append(History(g), id)
    BY <1>1, SoundAppend
  <2>3. Loaded(Append(g, NextLine(g, id, "whole"))) = Append(History(g), id)
    BY <1>1, SoundAppend
  <2> QED
    BY <2>1, <2>2, <2>3
<1>6. Grown(Loaded(f), Loaded(ReplaceEnd(f, "whole")))
  BY <1>1, <1>2, <1>5 DEF Grown
<1>7. SubSeq(f, 1, Len(f) - 1) = g
  <2>1. Len(f) - 1 = Len(g)
    BY <1>3
  <2>2. SubSeq(f, 1, Len(g)) = g
    BY <1>1, LastLine
  <2> QED
    BY <2>1, <2>2
<1>8. ASSUME NEW h \in LeftBehind(f, Len(chain)) PROVE Sound(h) /\ Grown(Loaded(f), Loaded(h))
  <2>1. h = ReplaceEnd(f, "torn") \/ h = ReplaceEnd(f, "whole") \/ h = g
    BY <1>3, <1>7, <1>8 DEF LeftBehind
  <2> QED
    BY <1>1, <1>2, <1>4, <1>5, <1>6, <2>1 DEF Grown
<1> QED
  BY <1>1, <1>3, <1>5, <1>6, <1>8

(* What the lock's holder knows of the file at each place of append().     *)
FileInv == Sound(file)
HeldBy(w) ==
  /\ pc[w] = "loaded" => Ended(file) /\ mem[ProcessOf[w]] = History(file)
  /\ pc[w] = "writing" => Appending(file, mem[ProcessOf[w]], arg[w])
  /\ pc[w] \in {"written", "anchored"} =>
       Ended(file) /\ mem[ProcessOf[w]] = History(file) /\ arg[w] \in Ids(History(file))
  /\ pc[w] = "anchored" => anchor = History(file)
HoldInv == \A w \in Writer : HeldBy(w)

(* A step leaves the file sound, and what loads from it at most grows.     *)
LEMMA FileNext ==
  ASSUME CtlInv, FileInv, HoldInv, Tears \subseteq {"torn"}, [Next]_vars
  PROVE  FileInv' /\ Grown(Loaded(file), Loaded(file'))
<1> DEFINE Goal == Sound(file') /\ Grown(Loaded(file), Loaded(file'))
<1>t. file \in Seq(FileLines) /\ \A w \in Writer : pc[w] # "idle" => arg[w] \in RecordId
  BY DEF CtlInv, TypeInv, OpenInv
<1>u. file' = file => Goal
  BY DEF FileInv, Grown
<1> HIDE DEF Goal
<1>1. ASSUME NEW p \in Process, Crash(p) PROVE Goal
  <2>1. CASE InWrite \cap {w \in Writer : ProcessOf[w] = p} = {}
    BY <1>1, <1>u, <2>1 DEF Crash
  <2>2. CASE InWrite \cap {w \in Writer : ProcessOf[w] = p} # {}
    <3>1. PICK w \in Writer : pc[w] = "writing" /\ ProcessOf[w] = p
      BY <2>2 DEF InWrite
    <3>2. Appending(file, mem[p], arg[w]) /\ arg[w] \in RecordId
      BY <1>t, <3>1 DEF HoldInv, HeldBy
    <3>3. file' \in LeftBehind(file, Len(mem[p]))
      BY <1>1, <2>2 DEF Crash
    <3> QED
      BY <1>t, <3>2, <3>3, WriteEnds DEF Goal
  <2> QED
    BY <2>1, <2>2
<1>2. ASSUME NEW w \in Writer, StartWrite(w) PROVE Goal
  <2>1. CASE file' = file
    BY <1>u, <2>1
  <2>2. CASE file' # file
    <3>1. /\ pc[w] = "loaded" /\ arg[w] \notin Ids(mem[ProcessOf[w]])
          /\ file' = WriteOn(file, arg[w], mem[ProcessOf[w]])
      BY <1>2, <2>2 DEF StartWrite
    <3>2. Ended(file) /\ mem[ProcessOf[w]] = History(file) /\ arg[w] \in RecordId
      BY <1>t, <3>1 DEF HoldInv, HeldBy
    <3> QED
      BY <1>t, <3>1, <3>2, WriteOnSound DEF FileInv, Goal, Grown
  <2> QED
    BY <2>1, <2>2
<1>3. ASSUME NEW w \in Writer, FinishWrite(w) PROVE Goal
  <2>1. Appending(file, mem[ProcessOf[w]], arg[w]) /\ arg[w] \in RecordId
    BY <1>3, <1>t DEF FinishWrite, HoldInv, HeldBy
  <2>2. file' = ReplaceEnd(file, "whole")
    BY <1>3, <1>t, <2>1, WriteEnds DEF FinishWrite
  <2> QED
    BY <1>t, <2>1, <2>2, WriteEnds DEF Goal
<1>4. ASSUME NEW w \in Writer, WriteFails(w) PROVE Goal
  <2>1. Appending(file, mem[ProcessOf[w]], arg[w]) /\ arg[w] \in RecordId
    BY <1>4, <1>t DEF WriteFails, HoldInv, HeldBy
  <2>2. file' \in LeftBehind(file, Len(mem[ProcessOf[w]]))
    BY <1>4 DEF WriteFails
  <2> QED
    BY <1>t, <2>1, <2>2, WriteEnds DEF Goal
<1>5. ASSUME NEW p \in Process, LoadAnchor(p) \/ OpenFile(p) PROVE file' = file
  BY <1>5 DEF LoadAnchor, OpenFile, disk
<1>6. ASSUME NEW w \in Writer, CallAppend(w) \/ Lock(w) \/ ForgetRecords(w) \/ Reload(w) PROVE file' = file
  BY <1>6 DEF CallAppend, Lock, ForgetRecords, Reload, disk
<1>7. ASSUME NEW w \in Writer, WriteAnchor(w) \/ Return(w) \/ Raise(w) PROVE file' = file
  BY <1>7 DEF WriteAnchor, Return, Raise, disk
<1>8. ASSUME UNCHANGED vars PROVE file' = file
  BY <1>8 DEF vars, disk
<1>9. Goal
  BY <1>1, <1>2, <1>3, <1>4, <1>5, <1>6, <1>7, <1>8, <1>u DEF Next, AppendStep
<1> QED
  BY <1>9 DEF FileInv, Goal

LEMMA HoldNext ==
  ASSUME CtlInv, FileInv, HoldInv, Tears \subseteq {"torn"}, [Next]_vars
  PROVE  HoldInv'
<1> SUFFICES ASSUME NEW v \in Writer PROVE HeldBy(v)'
  BY DEF HoldInv
<1> DEFINE q == ProcessOf[v]
           At == {"loaded", "writing", "written", "anchored"}
           Kept == /\ pc'[v] = pc[v] /\ arg'[v] = arg[v] /\ mem'[q] = mem[q]
                   /\ file' = file /\ anchor' = anchor
<1>q. q \in Process /\ file \in Seq(FileLines)
  BY DEF CtlInv, TypeInv
<1>k. Kept => HeldBy(v)'
  BY DEF HoldInv, HeldBy
<1>v. SUFFICES ASSUME pc'[v] \in At PROVE HeldBy(v)'
  BY DEF HeldBy
<1>o. \A w \in Writer : pc[w] \in Inside /\ pc[v] \in Inside => w = v
  BY DEF CtlInv, LockInv
<1> HIDE DEF q, Kept
<1> USE DEF CtlInv, TypeInv, PCs, Goto, disk
<1>1. ASSUME NEW p \in Process, LoadAnchor(p) \/ OpenFile(p) PROVE Kept
  <2>1. pc' = pc /\ up[q] = "open" /\ up[p] # "open"
    BY <1>1, <1>v DEF LoadAnchor, OpenFile, OpenInv, q
  <2> QED
    BY <1>1, <2>1, <1>q DEF LoadAnchor, OpenFile, Kept
<1>2. ASSUME NEW p \in Process, Crash(p) PROVE Kept
  <2>1. q # p /\ pc'[v] = pc[v] /\ arg'[v] = arg[v] /\ anchor' = anchor
    BY <1>2, <1>v DEF Crash, q
  <2>2. mem'[q] = mem[q]
    BY <1>2, <1>q, <2>1 DEF Crash
  <2>3. InWrite \cap {w \in Writer : ProcessOf[w] = p} = {}
    BY <1>o, <1>v, <2>1 DEF InWrite, Inside, q
  <2> QED
    BY <1>2, <2>1, <2>2, <2>3 DEF Crash, Kept
<1>3. ASSUME NEW w \in Writer, CallAppend(w) \/ Lock(w) PROVE Kept
  BY <1>3, <1>v DEF CallAppend, Lock, Kept
<1>4. ASSUME NEW w \in Writer, AppendStep(w), w # v PROVE FALSE
  <2>1. pc[w] \in Inside /\ pc'[v] = pc[v]
    BY <1>4 DEF AppendStep, ForgetRecords, Reload, StartWrite, FinishWrite, WriteFails, WriteAnchor, Return, Raise, Inside
  <2> QED
    BY <1>4, <1>o, <1>v, <2>1 DEF Inside
<1>5. ASSUME ForgetRecords(v) \/ WriteFails(v) \/ Return(v) \/ Raise(v) PROVE FALSE
  BY <1>5, <1>v DEF ForgetRecords, WriteFails, Return, Raise
<1>6. CASE Reload(v)
  <2>1. pc'[v] = "loaded" /\ Loads(file) /\ mem'[q] = Loaded(file) /\ file' = file
    BY <1>6, <1>v, <1>q DEF Reload, q
  <2>2. Ended(file) /\ Loaded(file) = History(file)
    BY <1>q, <2>1, SoundLoads DEF FileInv
  <2> QED
    BY <2>1, <2>2 DEF HeldBy, q
<1>7. CASE StartWrite(v)
  <2>1. /\ pc[v] = "loaded" /\ pc'[v] = "writing" /\ arg[v] \notin Ids(mem[q]) /\ arg' = arg /\ mem' = mem
        /\ file' = WriteOn(file, arg[v], mem[q])
    BY <1>7, <1>v DEF StartWrite, q
  <2>2. Ended(file) /\ mem[q] = History(file) /\ arg[v] \in RecordId
    BY <2>1 DEF HoldInv, HeldBy, OpenInv, q
  <2>3. Appending(file', mem[q], arg[v])
    BY <1>q, <2>1, <2>2, WriteOnSound DEF FileInv
  <2> QED
    BY <2>1, <2>3 DEF HeldBy, q
<1>8. CASE FinishWrite(v)
  <2>1. pc[v] = "writing" /\ pc'[v] = "written" /\ mem'[q] = Append(mem[q], arg[v]) /\ arg' = arg
    BY <1>8, <1>q DEF FinishWrite, q
  <2>2. Appending(file, mem[q], arg[v]) /\ arg[v] \in RecordId
    BY <2>1 DEF HoldInv, HeldBy, OpenInv, q
  <2>3. file' = ReplaceEnd(file, "whole")
    BY <1>8, <1>q, <2>2, WriteEnds DEF FinishWrite, q
  <2>4. Ended(file') /\ History(file') = Append(mem[q], arg[v])
    BY <1>q, <2>2, <2>3, WriteEnds
  <2>5. arg[v] \in Ids(Append(mem[q], arg[v]))
    <3>1. mem[q] \in Seq(RecordId)
      BY <2>1 DEF SeenInv, q
    <3>2. /\ Append(mem[q], arg[v]) \in Seq(RecordId) /\ Len(Append(mem[q], arg[v])) = Len(mem[q]) + 1
          /\ Append(mem[q], arg[v])[Len(mem[q]) + 1] = arg[v]
      BY <2>2, <3>1, AppendProperties
    <3>3. Len(mem[q]) + 1 \in DOMAIN Append(mem[q], arg[v])
      BY <3>1, <3>2
    <3> QED
      BY <3>2, <3>3 DEF Ids
  <2> QED
    BY <2>1, <2>4, <2>5 DEF HeldBy, q
<1>9. CASE WriteAnchor(v)
  <2>1. /\ pc[v] = "written" /\ pc'[v] = "anchored" /\ anchor' = mem[q]
        /\ file' = file /\ mem' = mem /\ arg' = arg
    BY <1>9, <1>v DEF WriteAnchor, q
  <2> QED
    BY <2>1 DEF HoldInv, HeldBy, q
<1>10. ASSUME UNCHANGED vars PROVE Kept
  BY <1>10 DEF vars, Kept
<1>11. ASSUME AppendStep(v) PROVE HeldBy(v)'
  BY <1>5, <1>6, <1>7, <1>8, <1>9, <1>11 DEF AppendStep
<1> QED
  BY <1>k, <1>1, <1>2, <1>3, <1>4, <1>10, <1>11 DEF Next

(* The anchor, and every anchor a process has read, is a beginning of what *)
(* loads from the file; what was accepted is in the anchor.                *)
AnchorInv ==
  /\ Loaded(file) \in Seq(RecordId)
  /\ IsPrefixOf(anchor, Loaded(file)) /\ accepted \subseteq Ids(anchor)
  /\ \A p \in Process : IsPrefixOf(seen[p], Loaded(file))

LEMMA AnchorNext ==
  ASSUME CtlInv, FileInv, HoldInv, AnchorInv, Tears \subseteq {"torn"}, [Next]_vars
  PROVE  AnchorInv'
<1> DEFINE now == Loaded(file)
           then == Loaded(file')
<1>t. /\ file \in Seq(FileLines) /\ anchor \in Seq(RecordId) /\ anchor' \in Seq(RecordId)
      /\ \A p \in Process : seen[p] \in Seq(RecordId)
  BY CtlNext DEF CtlInv, TypeInv
<1>n. now \in Seq(RecordId) /\ Grown(now, then)
  BY FileNext DEF AnchorInv
<1> HIDE DEF now, then
<1>g. then \in Seq(RecordId) /\ \A s \in Seq(RecordId) : IsPrefixOf(s, now) => IsPrefixOf(s, then)
  <2>1. CASE now = then
    BY <1>n, <2>1
  <2>2. CASE now # then
    <3>1. PICK id \in RecordId : then = Append(now, id)
      BY <1>n, <2>2 DEF Grown
    <3> QED
      BY <1>n, <3>1, PrefixAppend, AppendProperties
  <2> QED
    BY <2>1, <2>2
<1>s. \A p \in Process : IsPrefixOf(seen[p], then)
  BY <1>t, <1>g DEF AnchorInv, now
<1>a. IsPrefixOf(anchor, then)
  BY <1>t, <1>g DEF AnchorInv, now
<1>e. IsPrefixOf(<<>>, then)
  BY <1>g, PrefixSelf
<1>1. \A p \in Process : IsPrefixOf(seen'[p], then)
  <2>1. seen' = seen \/ \E p \in Process : seen' = [seen EXCEPT ![p] = anchor] \/ seen' = [seen EXCEPT ![p] = <<>>]
    BY DEF Next, LoadAnchor, OpenFile, Crash, CallAppend, Lock, AppendStep, ForgetRecords, Reload, StartWrite,
           FinishWrite, WriteFails, WriteAnchor, Return, Raise, vars
  <2> QED
    BY <1>s, <1>a, <1>e, <2>1 DEF CtlInv, TypeInv
<1>2. CASE \E w \in Writer : WriteAnchor(w) /\ anchor' # anchor
  <2>1. PICK w \in Writer : pc[w] = "written" /\ anchor' = mem[ProcessOf[w]] /\ file' = file /\ accepted' = accepted
    BY <1>2 DEF WriteAnchor
  <2>2. anchor' = History(file) /\ Ended(file)
    BY <2>1 DEF HoldInv, HeldBy
  <2>3. anchor' = now /\ now = then
    BY <1>t, <2>1, <2>2, SoundLoads DEF FileInv, now, then
  <2>4. IsPrefixOf(anchor', then)
    BY <1>n, <2>3, PrefixSelf
  <2>5. Ids(anchor) \subseteq Ids(now)
    <3>1. Len(anchor) <= Len(now) /\ \A i \in 1..Len(anchor) : anchor[i] = now[i]
      BY <1>t, <1>n, PrefixFacts DEF AnchorInv, now
    <3>2. DOMAIN anchor = 1..Len(anchor) /\ DOMAIN now = 1..Len(now) /\ Len(anchor) \in Nat /\ Len(now) \in Nat
      BY <1>t, <1>n
    <3>3. \A i \in DOMAIN anchor : i \in DOMAIN now /\ anchor[i] = now[i]
      BY <3>1, <3>2
    <3> QED
      BY <3>3 DEF Ids
  <2>6. accepted' \subseteq Ids(anchor')
    BY <2>1, <2>3, <2>5 DEF AnchorInv
  <2> QED
    BY <1>g, <1>1, <2>4, <2>6 DEF AnchorInv, then
<1>3. CASE \E w \in Writer : Return(w)
  <2>1. PICK w \in Writer : pc[w] = "anchored" /\ accepted' = accepted \cup {arg[w]} /\ anchor' = anchor
    BY <1>3 DEF Return, disk
  <2>2. arg[w] \in Ids(anchor)
    BY <2>1 DEF HoldInv, HeldBy
  <2> QED
    BY <1>g, <1>1, <1>a, <2>1, <2>2 DEF AnchorInv, then
<1>4. CASE anchor' = anchor /\ accepted' = accepted
  BY <1>g, <1>1, <1>a, <1>4 DEF AnchorInv, then
<1>5. \/ \E w \in Writer : WriteAnchor(w) /\ anchor' # anchor
      \/ \E w \in Writer : Return(w)
      \/ anchor' = anchor /\ accepted' = accepted
  BY DEF Next, LoadAnchor, OpenFile, Crash, CallAppend, Lock, AppendStep, ForgetRecords, Reload, StartWrite,
         FinishWrite, WriteFails, WriteAnchor, Raise, vars, disk
<1> QED
  BY <1>2, <1>3, <1>4, <1>5

LEMMA AlarmNext ==
  ASSUME CtlInv, FileInv, HoldInv, AnchorInv, NoFalseAlarm, [Next]_vars
  PROVE  NoFalseAlarm'
<1> USE DEF CtlInv, TypeInv, NoFalseAlarm, PCs, Goto
<1>1. Loads(file) => Loaded(file) = History(file)
  BY LoadedWhenLoads
<1>2. ASSUME NEW p \in Process, OpenFile(p) PROVE NoFalseAlarm'
  BY <1>1, <1>2 DEF OpenFile, AnchorInv
<1>3. ASSUME NEW w \in Writer, Reload(w) PROVE NoFalseAlarm'
  BY <1>1, <1>3 DEF Reload, AnchorInv
<1>4. ASSUME NEW p \in Process, LoadAnchor(p) \/ Crash(p) PROVE NoFalseAlarm'
  BY <1>4 DEF LoadAnchor, Crash
<1>5. ASSUME NEW w \in Writer, CallAppend(w) \/ Lock(w) \/ ForgetRecords(w) \/ StartWrite(w) PROVE NoFalseAlarm'
  BY <1>5 DEF CallAppend, Lock, ForgetRecords, StartWrite
<1>6. ASSUME NEW w \in Writer, FinishWrite(w) \/ WriteFails(w) \/ WriteAnchor(w) \/ Return(w) \/ Raise(w)
      PROVE  NoFalseAlarm'
  BY <1>6 DEF FinishWrite, WriteFails, WriteAnchor, Return, Raise
<1>7. CASE UNCHANGED vars
  BY <1>7 DEF vars
<1> QED
  BY <1>2, <1>3, <1>4, <1>5, <1>6, <1>7 DEF Next, AppendStep

IInv == CtlInv /\ FileInv /\ HoldInv /\ AnchorInv /\ NoFalseAlarm

LEMMA EmptyFile == Sound(<<>>) /\ Ended(<<>>) /\ Loaded(<<>>) = <<>>
<1>1. <<>> \in Seq(FileLines) /\ DOMAIN <<>> = {} /\ Len(<<>>) = 0 /\ <<>> \in Seq(RecordId)
  OBVIOUS
<1>2. Sound(<<>>) /\ Ended(<<>>)
  BY <1>1 DEF Sound, Ended
<1>3. Loaded(<<>>) = History(<<>>)
  BY <1>1, <1>2, SoundLoads
<1>4. History(<<>>) \in Seq(RecordId) /\ Len(History(<<>>)) = 0
  BY <1>1, HistoryFacts
<1>5. History(<<>>) = <<>>
  BY <1>1, <1>4, EmptySeq
<1> QED
  BY <1>2, <1>3, <1>5

LEMMA InitInv == Init => IInv
<1> SUFFICES ASSUME Init PROVE IInv
  OBVIOUS
<1>0. <<>> \in Seq(RecordId)
  OBVIOUS
<1>1. IsPrefixOf(<<>>, <<>>)
  BY <1>0, PrefixSelf
<1>2. FileInv /\ AnchorInv
  BY <1>0, <1>1, EmptyFile DEF Init, FileInv, AnchorInv
<1>3. HoldInv /\ NoFalseAlarm
  BY DEF Init, HoldInv, HeldBy, NoFalseAlarm
<1> QED
  BY <1>2, <1>3, CtlInit DEF IInv

LEMMA NextInv ==
  ASSUME Tears \subseteq {"torn"}
  PROVE  IInv /\ [Next]_vars => IInv'
<1> SUFFICES ASSUME IInv, [Next]_vars PROVE IInv'
  OBVIOUS
<1>1. CtlInv'
  BY CtlNext DEF IInv
<1>2. FileInv' /\ HoldInv' /\ AnchorInv' /\ NoFalseAlarm'
  BY FileNext, HoldNext, AnchorNext, AlarmNext DEF IInv
<1> QED
  BY <1>1, <1>2 DEF IInv

(* Where an unfinished write leaves its line torn or whole or not at all,  *)
(* a record whose append() returned can be read back at any later time,    *)
(* whatever processes and threads append, fail and die.                    *)
THEOREM AcceptedStaysReadable ==
  ASSUME Tears \subseteq {"torn"}
  PROVE  Spec => []AcceptedReadable
<1>1. IInv => AcceptedReadable
  <2> SUFFICES ASSUME IInv PROVE AcceptedReadable
    OBVIOUS
  <2>1. anchor \in Seq(RecordId) /\ Loaded(file) \in Seq(RecordId) /\ accepted \subseteq Ids(anchor)
    BY DEF IInv, CtlInv, TypeInv, AnchorInv
  <2>2. Len(anchor) <= Len(Loaded(file)) /\ \A i \in 1..Len(anchor) : anchor[i] = Loaded(file)[i]
    BY <2>1, PrefixFacts DEF IInv, AnchorInv
  <2>3. \A i \in DOMAIN anchor : i \in DOMAIN Loaded(file) /\ anchor[i] = Loaded(file)[i]
    BY <2>1, <2>2
  <2> QED
    BY <2>1, <2>3 DEF AcceptedReadable, Ids
<1> QED
  BY <1>1, InitInv, NextInv, PTL DEF Spec

(* There, what was accepted is in the anchor, and the anchor is a prefix   *)
(* of what loads from the file, at every moment of every append.           *)
THEOREM AcceptedStaysAnchored ==
  ASSUME Tears \subseteq {"torn"}
  PROVE  Spec => []AcceptedAnchored
<1>1. IInv => AcceptedAnchored
  BY DEF IInv, AnchorInv, AcceptedAnchored
<1> QED
  BY <1>1, InitInv, NextInv, PTL DEF Spec

(* There, no process is ever told that the ledger was tampered with.       *)
THEOREM NeverAFalseAlarm ==
  ASSUME Tears \subseteq {"torn"}
  PROVE  Spec => []NoFalseAlarm
<1>1. IInv => NoFalseAlarm
  BY DEF IInv
<1> QED
  BY <1>1, InitInv, NextInv, PTL DEF Spec

(* There, the file that several processes write is the in-memory ledger:   *)
(* what loads from it starts empty and grows by one new record at a time.  *)
THEOREM FileIsALedger ==
  ASSUME Tears \subseteq {"torn"}
  PROVE  Spec => ImplementsLedger
<1>1. Init => InMemory!Init
  BY EmptyFile DEF Init, InMemory!Init
<1>2. IInv /\ [Next]_vars => [InMemory!Next]_(Loaded(file))
  <2> SUFFICES ASSUME IInv, [Next]_vars, Loaded(file') # Loaded(file) PROVE InMemory!Next
    OBVIOUS
  <2>1. PICK id \in RecordId : id \notin Ids(Loaded(file)) /\ Loaded(file') = Append(Loaded(file), id)
    BY FileNext DEF IInv, Grown
  <2> QED
    BY <2>1 DEF InMemory!Next, InMemory!AppendRecord, InMemory!Ids, Ids
<1> QED
  BY <1>1, <1>2, InitInv, NextInv, PTL DEF Spec, ImplementsLedger, InMemory!Spec
---------------------------------------------------------------------------
(* Files that are read back (StoredLedger), for any number of workers,     *)
(* records and damages.                                                    *)
HIDE LedgerAssumption

Records     == [id : (Worker \cup {"another"}) \X Nat, input : {"as given", "changed"}]
StoredLines == [rec : Records, prev : Seq(Records), sealed : BOOLEAN, end : {"whole", "unended", "torn"}]
Active      == {"ready", "writing", "written"}
Kinds       == {"cut", "half a line", "mutated", "forged", "repeated", "rewritten", "anchor lost"}

StoredTypes ==
  /\ ledger \in {"plain", "anchored"}
  /\ lines \in Seq(StoredLines) /\ kept \in Seq(Records) /\ known \in [Worker -> Seq(Records)]
  /\ at \in [Worker -> {"started", "ended"} \cup Active] /\ tried \in [Worker -> Nat]
  /\ was \in Seq(Records) /\ damage \in Seq(Kinds)
  /\ damage # <<>> => \A w \in Worker : at[w] = "ended"

(* A worker knows of its own records only those whose append returned.     *)
WorkersInv ==
  \A w \in Worker :
    /\ at[w] = "started" => tried[w] = 0
    /\ at[w] \in {"writing", "written"} => tried[w] > 0
    /\ \A m \in DOMAIN known[w] : known[w][m].id[1] = w => known[w][m] \in succeeded

CountInv ==
  /\ IsFiniteSet(succeeded) /\ IsFiniteSet({w \in Worker : tried[w] > 0})
  /\ \A rec \in succeeded : \E w \in Worker : \E k \in 1..tried[w] : rec = Record(w, k)

(* What is written is of a worker's records up to the one it is at, in     *)
(* their order, and continues a chain that shows of its own records only   *)
(* what succeeded.                                                         *)
Of(l) == l.rec.id[1]
Nr(l) == l.rec.id[2]
RecordsInv ==
  damage = <<>> => \A i \in DOMAIN lines : \E w \in Worker : \E k \in 1..tried[w] :
    lines[i].rec = Record(w, k) /\ (at[w] = "writing" => k < tried[w])
SequenceInv ==
  damage = <<>> => \A i, j \in DOMAIN lines : i < j /\ Of(lines[i]) = Of(lines[j]) => Nr(lines[i]) < Nr(lines[j])
ChainInv ==
  damage = <<>> =>
    \A i \in DOMAIN lines : \A m \in DOMAIN lines[i].prev : lines[i].prev[m].id[1] = Of(lines[i]) => lines[i].prev[m] \in succeeded

(* What has been written whole stays, unless a later line was put behind   *)
(* one without its newline: then no line behind it counts, and the file    *)
(* does not load.                                                          *)
HasTorn == \E i \in DOMAIN lines : lines[i].end = "torn"
Due     == succeeded \cup {Record(w, tried[w]) : w \in {v \in Worker : at[v] = "written"}}
ToldInv ==
  damage = <<>> => HasTorn \/ \A rec \in Due : \E i \in DOMAIN lines : lines[i].rec = rec /\ lines[i].end = "whole"

(* Under an anchor one worker writes at a time, and both the anchor and    *)
(* whoever is at work show everything that succeeded.                      *)
Shows(chain) == \A rec \in succeeded : \E m \in DOMAIN chain : chain[m] = rec
OneAtWork == ledger = "anchored" => \A v, w \in Worker : at[v] \in Active /\ at[w] \in Active => v = w
KeptInv   == ledger = "anchored" /\ "anchor lost" \notin Damaged => Shows(kept)
KnownInv  == ledger = "anchored" => \A w \in Worker : at[w] \in Active => Shows(known[w])

(* Whatever is done to a file but writing it anew: each line is visibly    *)
(* damaged, or is one of those there were, with the chain it was written   *)
(* to, wherever it is now.                                                 *)
Bad(l) == l.end = "torn" \/ ~l.sealed
Copies(f, s) == \A i \in DOMAIN f : Bad(f[i]) \/ \E k \in 1..Len(s) : f[i].rec = s[k] /\ f[i].prev = SubSeq(s, 1, k - 1)
CopiesInv == damage # <<>> /\ was # <<>> /\ "rewritten" \notin Damaged => Copies(lines, was)

StoredInv ==
  /\ StoredTypes /\ WorkersInv /\ CountInv /\ RecordsInv /\ SequenceInv /\ ChainInv /\ ToldInv
  /\ OneAtWork /\ KeptInv /\ KnownInv /\ CopiesInv

(* What a write may leave of a file: nothing new, a line more, or a last   *)
(* line that was cut off and is now torn.                                  *)
Added(f, l, g) == Len(g) = Len(f) + 1 /\ g[Len(f) + 1] = l /\ \A i \in 1..Len(f) : g[i] = f[i]
Glued(f, g) ==
  /\ Len(f) > 0 /\ Len(g) = Len(f) /\ g[Len(f)].end = "torn"
  /\ \A i \in 1..Len(f) : g[i].rec = f[i].rec /\ g[i].prev = f[i].prev /\ (g[i] = f[i] \/ (g[i].end = "torn" /\ f[i].end # "whole"))

LEMMA LineFacts ==
  ASSUME NEW f \in Seq(StoredLines)
  PROVE  /\ Len(f) \in Nat /\ DOMAIN f = 1..Len(f)
         /\ \A i \in 1..Len(f) : /\ f[i] \in StoredLines /\ f[i].rec \in Records /\ f[i].prev \in Seq(Records)
                                 /\ f[i].end \in {"whole", "unended", "torn"}
<1>1. \A l \in StoredLines : l.rec \in Records /\ l.prev \in Seq(Records) /\ l.end \in {"whole", "unended", "torn"}
  BY DEF StoredLines
<1>2. Len(f) \in Nat /\ DOMAIN f = 1..Len(f) /\ \A i \in 1..Len(f) : f[i] \in StoredLines
  BY ElementOfSeq
<1> QED
  BY <1>1, <1>2

LEMMA RecordFacts ==
  /\ \A w \in Worker, k \in Nat : Record(w, k) \in Records /\ Record(w, k).id = <<w, k>>
  /\ \A w, v \in Worker, k, n \in Nat : Record(w, k) = Record(v, n) => w = v /\ k = n
BY DEF Record, Records

LEMMA ChainFacts ==
  ASSUME NEW f \in Seq(StoredLines)
  PROVE  /\ ChainOf(f) \in Seq(Records) /\ Len(ChainOf(f)) = Len(f) /\ DOMAIN ChainOf(f) = 1..Len(f)
         /\ \A i \in 1..Len(f) : ChainOf(f)[i] = f[i].rec
<1>1. DOMAIN f = 1..Len(f) /\ Len(f) \in Nat /\ \A i \in 1..Len(f) : f[i].rec \in Records
  BY LineFacts
<1>2. ChainOf(f) \in [1..Len(f) -> Records]
  BY <1>1 DEF ChainOf
<1>3. ChainOf(f) \in Seq(Records)
  BY <1>1, <1>2, SeqDef
<1> QED
  BY <1>1, <1>2, <1>3 DEF ChainOf

(* The chain before a line, as a reload computes it.                       *)
LEMMA ChainBefore ==
  ASSUME NEW f \in Seq(StoredLines), NEW i \in 1..Len(f)
  PROVE  /\ ChainOf(SubSeq(f, 1, i - 1)) = SubSeq(ChainOf(f), 1, i - 1)
         /\ ChainOf(SubSeq(f, 1, i - 1)) \in Seq(Records) /\ Len(ChainOf(SubSeq(f, 1, i - 1))) = i - 1
         /\ \A m \in 1..(i - 1) : ChainOf(SubSeq(f, 1, i - 1))[m] = f[m].rec
<1> DEFINE g == SubSeq(f, 1, i - 1)
           c == SubSeq(ChainOf(f), 1, i - 1)
<1>1. Len(f) \in Nat /\ i - 1 \in Nat /\ 1..(i - 1) \subseteq 1..Len(f) /\ \A m \in 1..Len(f) : f[m] \in StoredLines
  BY LineFacts
<1>2. g \in Seq(StoredLines) /\ Len(g) = i - 1 /\ \A m \in 1..(i - 1) : g[m] = f[m]
  BY <1>1, SubSeqProperties
<1>3. ChainOf(f) \in Seq(Records) /\ \A m \in 1..Len(f) : ChainOf(f)[m] = f[m].rec /\ f[m].rec \in Records
  BY ChainFacts, LineFacts
<1>4. c \in Seq(Records) /\ Len(c) = i - 1 /\ \A m \in 1..(i - 1) : c[m] = f[m].rec
  BY <1>1, <1>3, SubSeqProperties
<1> HIDE DEF g, c
<1>5. ChainOf(g) \in Seq(Records) /\ Len(ChainOf(g)) = i - 1 /\ \A m \in 1..(i - 1) : ChainOf(g)[m] = f[m].rec
  BY <1>2, ChainFacts
<1>6. ChainOf(g) = c
  BY <1>4, <1>5, SeqEqual
<1> QED
  BY <1>5, <1>6 DEF g, c

LEMMA PutFacts ==
  ASSUME NEW f \in Seq(StoredLines), NEW l \in StoredLines
  PROVE  /\ AppendTo(f, l) \in Seq(StoredLines)
         /\ Added(f, l, AppendTo(f, l)) \/ Glued(f, AppendTo(f, l))
<1>1. Len(f) \in Nat /\ \A i \in 1..Len(f) : f[i] \in StoredLines
  BY LineFacts
<1>2. CASE f # <<>> /\ f[Len(f)].end # "whole"
  <2> DEFINE n == Len(f)
             e == [f[n] EXCEPT !.end = "torn"]
             g == [f EXCEPT ![n] = e]
  <2>1. n \in 1..Len(f) /\ f[n] \in StoredLines
    BY <1>1, <1>2, EmptySeq
  <2>2. e \in StoredLines /\ e.rec = f[n].rec /\ e.prev = f[n].prev /\ e.end = "torn"
    BY <2>1 DEF StoredLines
  <2>3. AppendTo(f, l) = g
    BY <1>2 DEF AppendTo
  <2> HIDE DEF e
  <2>4. g \in Seq(StoredLines) /\ Len(g) = Len(f) /\ \A j \in 1..Len(f) : g[j] = IF j = n THEN e ELSE f[j]
    BY <2>1, <2>2, ExceptSeq
  <2> HIDE DEF g
  <2>5. Len(f) > 0 /\ f[n].end # "whole"
    BY <1>2, <2>1
  <2>6. \A j \in 1..Len(f) : g[j].rec = f[j].rec /\ g[j].prev = f[j].prev /\ (g[j] = f[j] \/ (g[j].end = "torn" /\ f[j].end # "whole"))
    BY <2>2, <2>4, <2>5
  <2>7. Glued(f, g)
    BY <2>1, <2>2, <2>4, <2>5, <2>6 DEF Glued
  <2> QED
    BY <2>3, <2>4, <2>7
<1>3. CASE ~(f # <<>> /\ f[Len(f)].end # "whole")
  <2>1. AppendTo(f, l) = Append(f, l)
    BY <1>3 DEF AppendTo
  <2>2. Append(f, l) \in Seq(StoredLines) /\ Added(f, l, Append(f, l))
    BY <1>1, AppendProperties DEF Added
  <2> QED
    BY <2>1, <2>2
<1> QED
  BY <1>2, <1>3

LEMMA StartsFacts ==
  ASSUME NEW s \in Seq(Records), NEW t \in Seq(Records)
  PROVE  Starts(s, t) <=> Len(s) <= Len(t) /\ \A i \in DOMAIN s : i \in DOMAIN t /\ t[i] = s[i]
<1>1. Len(s) \in Nat /\ Len(t) \in Nat /\ DOMAIN s = 1..Len(s) /\ DOMAIN t = 1..Len(t)
  OBVIOUS
<1>2. CASE Len(s) <= Len(t)
  <2>1. /\ SubSeq(t, 1, Len(s)) \in Seq(Records) /\ Len(SubSeq(t, 1, Len(s))) = Len(s)
        /\ \A i \in 1..Len(s) : SubSeq(t, 1, Len(s))[i] = t[i]
    BY <1>1, <1>2, SubSeqProperties
  <2>2. (\A i \in 1..Len(s) : s[i] = t[i]) => SubSeq(t, 1, Len(s)) = s
    BY <2>1, SeqEqual
  <2>3. 1..Len(s) \subseteq 1..Len(t)
    BY <1>1, <1>2
  <2> QED
    BY <1>1, <1>2, <2>1, <2>2, <2>3 DEF Starts
<1> QED
  BY <1>2 DEF Starts

LEMMA GluedLast ==
  ASSUME NEW f \in Seq(StoredLines), NEW g \in Seq(StoredLines), Glued(f, g)
  PROVE  \E i \in DOMAIN g : g[i].end = "torn"
<1>1. Len(f) \in Nat /\ DOMAIN g = 1..Len(f) /\ Len(f) \in 1..Len(f)
  BY LineFacts DEF Glued
<1> QED
  BY <1>1 DEF Glued

(* What every step of a worker has in common.                              *)
Worked(w) ==
  /\ at[w] # "ended" /\ damage' = damage /\ was' = was /\ ledger' = ledger
  /\ \A v \in Worker \ {w} : at'[v] = at[v] /\ tried'[v] = tried[v] /\ known'[v] = known[v]
  /\ at'[w] \in {"ended"} \cup Active /\ tried'[w] \in {tried[w], tried[w] + 1}
  /\ \/ at'[w] = "writing" /\ at[w] = "ready" /\ tried'[w] = tried[w] + 1
     \/ at'[w] # "writing" /\ (at[w] = "ready" \/ tried'[w] = tried[w])
  /\ at[w] \notin Active => OthersAtRest(w)

(* and the line a write leaves.                                            *)
Wrote(w) ==
  /\ at[w] = "writing" /\ at'[w] # "writing" /\ tried' = tried /\ succeeded' = succeeded /\ known' = known
  /\ \E end \in {"whole", "unended", "torn"} :
       /\ lines' = AppendTo(lines, Line(Record(w, tried[w]), known[w], end))
       /\ at'[w] = "written" => end = "whole"

Acts(w) == Open(w) \/ Begin(w) \/ Repeat(w) \/ Write(w) \/ Returns(w) \/ WriteRaises(w) \/ Killed(w) \/ Finish(w)

LEMMA StepWorks ==
  ASSUME StoredTypes, NEW w \in Worker, Acts(w)
  PROVE  /\ Worked(w) /\ damage = <<>>
         /\ lines' = lines \/ Wrote(w)
         /\ at'[w] = "written" => at[w] = "writing" /\ Wrote(w)
         /\ \/ Returns(w)
            \/ succeeded' = succeeded /\ kept' = kept /\ (known' = known \/ Open(w))
<1>1. /\ at \in [Worker -> {"started", "ended"} \cup Active] /\ tried \in [Worker -> Nat] /\ known \in [Worker -> Seq(Records)]
      /\ damage # <<>> => at[w] = "ended"
  BY DEF StoredTypes
<1>2. CASE Open(w)
  BY <1>1, <1>2 DEF Open, Move, Worked, Active
<1>3. CASE Begin(w)
  BY <1>1, <1>3 DEF Begin, Move, Worked, Active
<1>4. CASE Repeat(w)
  BY <1>1, <1>4 DEF Repeat, Worked, Active
<1>5. CASE Write(w)
  BY <1>1, <1>5 DEF Write, Move, Worked, Wrote, Active
<1>6. CASE Returns(w)
  BY <1>1, <1>6 DEF Returns, Move, Worked, Active
<1>7. CASE WriteRaises(w)
  BY <1>1, <1>7 DEF WriteRaises, Partly, Move, Worked, Wrote, Active
<1>8. CASE Killed(w)
  BY <1>1, <1>8 DEF Killed, Partly, Move, Worked, Wrote, Active
<1>9. CASE Finish(w)
  BY <1>1, <1>9 DEF Finish, Move, Worked, Active
<1> QED
  BY <1>2, <1>3, <1>4, <1>5, <1>6, <1>7, <1>8, <1>9 DEF Acts

LEMMA LineType ==
  ASSUME NEW w \in Worker, NEW k \in Nat, NEW c \in Seq(Records), NEW end \in {"whole", "unended", "torn"}
  PROVE  /\ Line(Record(w, k), c, end) \in StoredLines
         /\ Line(Record(w, k), c, end).rec = Record(w, k) /\ Line(Record(w, k), c, end).prev = c
         /\ Line(Record(w, k), c, end).end = end
BY RecordFacts DEF Line, StoredLines

(* What is in the file after a worker's step.                              *)
LEMMA LinesAfter ==
  ASSUME StoredTypes, NEW w \in Worker, Acts(w)
  PROVE  /\ lines' \in Seq(StoredLines)
         /\ \/ lines' = lines /\ at'[w] # "written"
            \/ Wrote(w) /\ Glued(lines, lines')
            \/ Wrote(w) /\ \E l \in StoredLines : Added(lines, l, lines') /\ l.rec = Record(w, tried[w]) /\ l.prev = known[w] /\ (at'[w] = "written" => l.end = "whole")
<1>1. lines \in Seq(StoredLines) /\ tried[w] \in Nat /\ known[w] \in Seq(Records)
  BY DEF StoredTypes
<1>2. CASE ~Wrote(w)
  BY <1>1, <1>2, StepWorks
<1>3. CASE Wrote(w)
  <2>1. PICK end \in {"whole", "unended", "torn"} :
           lines' = AppendTo(lines, Line(Record(w, tried[w]), known[w], end)) /\ (at'[w] = "written" => end = "whole")
    BY <1>3 DEF Wrote
  <2> DEFINE l == Line(Record(w, tried[w]), known[w], end)
  <2>2. l \in StoredLines /\ l.rec = Record(w, tried[w]) /\ l.prev = known[w] /\ l.end = end
    BY <1>1, LineType
  <2> HIDE DEF l
  <2>3. lines' \in Seq(StoredLines) /\ (Added(lines, l, lines') \/ Glued(lines, lines'))
    <3>1. lines' = AppendTo(lines, l)
      BY <2>1 DEF l
    <3> QED
      BY <1>1, <2>2, <3>1, PutFacts
  <2> QED
    BY <1>3, <2>1, <2>2, <2>3
<1> QED
  BY <1>2, <1>3, StepWorks

LEMMA TypesStep ==
  ASSUME StoredTypes, NEW w \in Worker, Acts(w)
  PROVE  StoredTypes'
<1>1. /\ lines \in Seq(StoredLines) /\ kept \in Seq(Records) /\ known \in [Worker -> Seq(Records)]
      /\ at \in [Worker -> {"started", "ended"} \cup Active] /\ tried \in [Worker -> Nat] /\ damage \in Seq(Kinds) /\ was \in Seq(Records)
      /\ ledger \in {"plain", "anchored"}
  BY DEF StoredTypes
<1>2. Worked(w) /\ damage = <<>> /\ lines' \in Seq(StoredLines)
  BY StepWorks, LinesAfter
<1>3. at' \in [Worker -> {"started", "ended"} \cup Active] /\ tried' \in [Worker -> Nat]
  <2>1. at' = at \/ \E place \in {"ended"} \cup Active : at' = [at EXCEPT ![w] = place]
    BY Zenon DEF Acts, Open, Begin, Repeat, Write, Returns, WriteRaises, Killed, Finish, Move, Active
  <2>2. tried' = tried \/ tried' = [tried EXCEPT ![w] = tried[w] + 1]
    BY DEF Acts, Open, Begin, Repeat, Write, Returns, WriteRaises, Killed, Finish
  <2>3. at' \in [Worker -> {"started", "ended"} \cup Active]
    BY <1>1, <2>1
  <2>4. \A v \in Worker : tried[v] + 1 \in Nat
    BY <1>1
  <2>5. tried' \in [Worker -> Nat]
    BY <1>1, <2>2, <2>4
  <2> QED
    BY <2>3, <2>5
<1>4. known' \in [Worker -> Seq(Records)] /\ kept' \in Seq(Records)
  <2>1. ChainOf(lines) \in Seq(Records)
    BY <1>1, ChainFacts
  <2>2. CASE Open(w)
    BY <1>1, <2>1, <2>2 DEF Open
  <2>3. CASE Returns(w)
    <3>1. Record(w, tried[w]) \in Records
      BY <1>1, RecordFacts
    <3> DEFINE r == Record(w, tried[w])
    <3> HIDE DEF r
    <3>2. known[w] \in Seq(Records) /\ Append(known[w], r) \in Seq(Records)
      BY <1>1, <3>1 DEF r
    <3>3. known' = [known EXCEPT ![w] = Append(known[w], r)] /\ kept' \in {known'[w], kept}
      BY <2>3 DEF Returns, r
    <3> QED
      BY <1>1, <3>2, <3>3
  <2> QED
    BY <1>1, <2>2, <2>3, StepWorks
<1> QED
  BY <1>1, <1>2, <1>3, <1>4 DEF StoredTypes, Worked

LEMMA WorkersStep ==
  ASSUME StoredTypes, WorkersInv, RecordsInv, NEW w \in Worker, Acts(w)
  PROVE  WorkersInv'
<1>1. /\ lines \in Seq(StoredLines) /\ known \in [Worker -> Seq(Records)] /\ at \in [Worker -> {"started", "ended"} \cup Active]
      /\ tried \in [Worker -> Nat]
  BY DEF StoredTypes
<1>2. Worked(w) /\ damage = <<>>
  BY StepWorks
<1> SUFFICES ASSUME NEW v \in Worker
             PROVE  /\ at'[v] = "started" => tried'[v] = 0
                    /\ at'[v] \in {"writing", "written"} => tried'[v] > 0
                    /\ \A m \in DOMAIN known'[v] : known'[v][m].id[1] = v => known'[v][m] \in succeeded'
  BY DEF WorkersInv
<1>3. at'[v] = "started" => tried'[v] = 0
  BY <1>1, <1>2 DEF WorkersInv, Worked, Active
<1>4. at'[v] \in {"writing", "written"} => tried'[v] > 0
  <2>1. CASE v # w
    BY <1>1, <1>2, <2>1 DEF WorkersInv, Worked
  <2>2. at'[w] = "writing" => tried'[w] > 0
    BY <1>1, <1>2 DEF Worked
  <2>3. at'[w] = "written" => tried'[w] > 0
    BY <1>1, StepWorks DEF WorkersInv, Wrote
  <2> QED
    BY <2>1, <2>2, <2>3
<1>5. ASSUME NEW m \in DOMAIN known'[v], known'[v][m].id[1] = v
      PROVE  known'[v][m] \in succeeded'
  <2>1. succeeded \subseteq succeeded'
    BY StepWorks DEF Returns
  <2>2. CASE known'[v] = known[v]
    BY <1>5, <2>1, <2>2 DEF WorkersInv
  <2>3. CASE Open(w) /\ v = w
    <3>1. tried[w] = 0
      BY <2>3 DEF Open, WorkersInv
    <3>2. known'[w] = known[w] \/ known'[w] = ChainOf(lines)
      BY <1>1, <2>3 DEF Open
    <3>3. CASE known'[w] = ChainOf(lines)
      <4>1. m \in DOMAIN lines /\ ChainOf(lines)[m] = lines[m].rec
        BY <1>1, <1>5, <2>3, <3>3, ChainFacts, LineFacts
      <4>2. PICK u \in Worker : \E k \in 1..tried[u] : lines[m].rec = Record(u, k)
        BY <1>2, <4>1 DEF RecordsInv
      <4>3. PICK k \in 1..tried[u] : lines[m].rec = Record(u, k)
        BY <4>2
      <4>4. k \in Nat /\ Record(u, k).id[1] = u
        BY <1>1, <4>3, RecordFacts
      <4>5. u = w
        BY <1>5, <2>3, <3>3, <4>1, <4>3, <4>4
      <4> QED
        BY <3>1, <4>3, <4>5
    <3> QED
      BY <2>2, <2>3, <3>2, <3>3
  <2>4. CASE Returns(w) /\ v = w
    <3> DEFINE r == Record(w, tried[w])
    <3>1. known'[w] = Append(known[w], r) /\ succeeded' = succeeded \cup {r}
      BY <1>1, <2>4 DEF Returns
    <3> HIDE DEF r
    <3>2. known[w] \in Seq(Records) /\ Len(known[w]) \in Nat /\ DOMAIN known[w] = 1..Len(known[w])
      BY <1>1
    <3>3. m \in 1..(Len(known[w]) + 1)
      BY <1>5, <2>4, <3>1, <3>2
    <3>4. CASE m = Len(known[w]) + 1
      BY <2>4, <3>1, <3>2, <3>4
    <3>5. CASE m \in 1..Len(known[w])
      <4>1. known'[w][m] = known[w][m]
        BY <3>1, <3>2, <3>5
      <4> QED
        BY <1>5, <2>1, <2>4, <3>2, <3>5, <4>1 DEF WorkersInv
    <3> QED
      BY <3>2, <3>3, <3>4, <3>5
  <2>5. known'[v] = known[v] \/ (v = w /\ (Open(w) \/ Returns(w)))
    BY <1>2, StepWorks DEF Worked
  <2> QED
    BY <2>2, <2>3, <2>4, <2>5
<1> QED
  BY <1>3, <1>4, <1>5

LEMMA CountStep ==
  ASSUME StoredTypes, WorkersInv, CountInv, NEW w \in Worker, Acts(w)
  PROVE  CountInv'
<1> DEFINE T == {v \in Worker : tried[v] > 0}
           U == {v \in Worker : tried'[v] > 0}
<1>1. tried \in [Worker -> Nat] /\ at \in [Worker -> {"started", "ended"} \cup Active]
  BY DEF StoredTypes
<1>2. Worked(w)
  BY StepWorks
<1>3. \A v \in Worker : tried'[v] \in Nat /\ tried[v] <= tried'[v]
  BY <1>1, <1>2 DEF Worked
<1>4. IsFiniteSet(U)
  <2>1. U \subseteq T \cup {w}
    BY <1>1, <1>2 DEF Worked
  <2>2. IsFiniteSet(T)
    BY DEF CountInv
  <2> HIDE DEF T, U
  <2> QED
    BY <2>1, <2>2, FS_AddElement, FS_Subset
<1>5. IsFiniteSet(succeeded')
  <2>1. IsFiniteSet(succeeded)
    BY DEF CountInv
  <2>2. succeeded' = succeeded \/ succeeded' = succeeded \cup {Record(w, tried[w])}
    BY StepWorks DEF Returns
  <2> QED
    BY <2>1, <2>2, FS_AddElement
<1>6. \A rec \in succeeded' : \E v \in Worker : \E k \in 1..tried'[v] : rec = Record(v, k)
  <2> TAKE rec \in succeeded'
  <2>1. CASE rec \in succeeded
    <3>0. PICK v \in Worker : \E k \in 1..tried[v] : rec = Record(v, k)
      BY <2>1 DEF CountInv
    <3>1. PICK k \in 1..tried[v] : rec = Record(v, k)
      BY <3>0
    <3>2. k \in 1..tried'[v]
      BY <1>1, <1>3
    <3> QED
      BY <3>1, <3>2
  <2>2. CASE rec \notin succeeded
    <3>1. rec = Record(w, tried[w]) /\ at[w] = "written"
      BY <2>2, StepWorks DEF Returns
    <3>2. tried[w] \in 1..tried'[w]
      BY <1>1, <1>3, <3>1 DEF WorkersInv
    <3> QED
      BY <3>1, <3>2
  <2> QED
    BY <2>1, <2>2
<1> QED
  BY <1>4, <1>5, <1>6 DEF CountInv

LEMMA RecordsStep ==
  ASSUME StoredTypes, WorkersInv, RecordsInv, NEW w \in Worker, Acts(w)
  PROVE  RecordsInv'
<1>1. /\ lines \in Seq(StoredLines) /\ tried \in [Worker -> Nat] /\ Len(lines) \in Nat /\ DOMAIN lines = 1..Len(lines)
      /\ at \in [Worker -> {"started", "ended"} \cup Active]
  BY LineFacts DEF StoredTypes
<1>2. Worked(w) /\ damage = <<>>
  BY StepWorks
<1>3. lines' \in Seq(StoredLines) /\ DOMAIN lines' = 1..Len(lines') /\ Len(lines') \in Nat
  BY LinesAfter, LineFacts
<1>4. \A v \in Worker : \A k \in 1..tried[v] : (at[v] = "writing" => k < tried[v]) => k \in 1..tried'[v] /\ (at'[v] = "writing" => k < tried'[v])
  <2> TAKE v \in Worker
  <2> TAKE k \in 1..tried[v]
  <2>1. CASE v # w
    BY <1>1, <1>2, <2>1 DEF Worked
  <2>2. CASE v = w
    BY <1>1, <1>2, <2>2 DEF Worked
  <2> QED
    BY <2>1, <2>2
<1>5. \A i \in DOMAIN lines : \E v \in Worker : \E k \in 1..tried'[v] : lines[i].rec = Record(v, k) /\ (at'[v] = "writing" => k < tried'[v])
  <2> TAKE i \in DOMAIN lines
  <2>0. PICK v \in Worker : \E k \in 1..tried[v] : lines[i].rec = Record(v, k) /\ (at[v] = "writing" => k < tried[v])
    BY <1>2 DEF RecordsInv
  <2>1. PICK k \in 1..tried[v] : lines[i].rec = Record(v, k) /\ (at[v] = "writing" => k < tried[v])
    BY <2>0
  <2> QED
    BY <1>4, <2>1
<1>6. \A i \in DOMAIN lines' : \E v \in Worker : \E k \in 1..tried'[v] : lines'[i].rec = Record(v, k) /\ (at'[v] = "writing" => k < tried'[v])
  <2>1. CASE lines' = lines
    BY <1>5, <2>1
  <2>2. CASE Glued(lines, lines')
    BY <1>1, <1>3, <1>5, <2>2 DEF Glued
  <2>3. ASSUME Wrote(w), NEW l \in StoredLines, Added(lines, l, lines'), l.rec = Record(w, tried[w])
        PROVE  \A i \in DOMAIN lines' : \E v \in Worker : \E k \in 1..tried'[v] : lines'[i].rec = Record(v, k) /\ (at'[v] = "writing" => k < tried'[v])
    <3> TAKE i \in DOMAIN lines'
    <3>1. i \in 1..Len(lines) \/ i = Len(lines) + 1
      BY <1>1, <1>3, <2>3 DEF Added
    <3>2. CASE i \in 1..Len(lines)
      BY <1>1, <1>5, <2>3, <3>2 DEF Added
    <3>3. CASE i = Len(lines) + 1
      <4>1. lines'[i].rec = Record(w, tried[w])
        BY <2>3, <3>3 DEF Added
      <4>2. tried[w] \in 1..tried'[w] /\ at'[w] # "writing"
        BY <1>1, <2>3 DEF Wrote, WorkersInv
      <4> QED
        BY <4>1, <4>2
    <3> QED
      BY <3>1, <3>2, <3>3
  <2> QED
    BY <2>1, <2>2, <2>3, LinesAfter
<1> QED
  BY <1>6 DEF RecordsInv

LEMMA SequenceStep ==
  ASSUME StoredTypes, RecordsInv, SequenceInv, NEW w \in Worker, Acts(w)
  PROVE  SequenceInv'
<1>1. /\ lines \in Seq(StoredLines) /\ tried \in [Worker -> Nat] /\ Len(lines) \in Nat /\ DOMAIN lines = 1..Len(lines)
  BY LineFacts DEF StoredTypes
<1>2. Worked(w) /\ damage = <<>>
  BY StepWorks
<1>3. lines' \in Seq(StoredLines) /\ DOMAIN lines' = 1..Len(lines') /\ Len(lines') \in Nat
  BY LinesAfter, LineFacts
<1>4. \A i, j \in DOMAIN lines : i < j /\ Of(lines[i]) = Of(lines[j]) => Nr(lines[i]) < Nr(lines[j])
  BY <1>2 DEF SequenceInv
<1> SUFFICES ASSUME NEW i \in DOMAIN lines', NEW j \in DOMAIN lines', i < j, Of(lines'[i]) = Of(lines'[j])
             PROVE  Nr(lines'[i]) < Nr(lines'[j])
  BY DEF SequenceInv, Of, Nr
<1>5. CASE lines' = lines
  BY <1>4, <1>5
<1>6. CASE Glued(lines, lines')
  <2>1. i \in DOMAIN lines /\ j \in DOMAIN lines /\ lines'[i].rec = lines[i].rec /\ lines'[j].rec = lines[j].rec
    BY <1>1, <1>3, <1>6 DEF Glued
  <2> QED
    BY <1>4, <2>1 DEF Of, Nr
<1>7. ASSUME Wrote(w), NEW l \in StoredLines, Added(lines, l, lines'), l.rec = Record(w, tried[w])
      PROVE  Nr(lines'[i]) < Nr(lines'[j])
  <2>1. i \in DOMAIN lines /\ lines'[i] = lines[i]
    BY <1>1, <1>3, <1>7 DEF Added
  <2>2. CASE j \in DOMAIN lines
    BY <1>1, <1>4, <1>7, <2>1, <2>2 DEF Added
  <2>3. CASE j \notin DOMAIN lines
    <3>1. lines'[j] = l
      BY <1>1, <1>3, <1>7, <2>3 DEF Added
    <3>2. tried[w] \in Nat /\ Of(lines'[j]) = w /\ Nr(lines'[j]) = tried[w]
      BY <1>1, <1>7, <3>1, RecordFacts DEF Of, Nr
    <3>3. PICK v \in Worker : \E k \in 1..tried[v] : lines[i].rec = Record(v, k) /\ (at[v] = "writing" => k < tried[v])
      BY <1>2, <2>1 DEF RecordsInv
    <3>4. PICK k \in 1..tried[v] : lines[i].rec = Record(v, k) /\ (at[v] = "writing" => k < tried[v])
      BY <3>3
    <3>5. k \in Nat /\ Of(lines[i]) = v /\ Nr(lines[i]) = k
      BY <1>1, <3>4, RecordFacts DEF Of, Nr
    <3>6. v = w /\ at[w] = "writing"
      BY <1>7, <2>1, <3>2, <3>5 DEF Wrote
    <3> QED
      BY <2>1, <3>2, <3>4, <3>5, <3>6
  <2> QED
    BY <2>2, <2>3
<1> QED
  BY <1>5, <1>6, <1>7, LinesAfter

LEMMA ChainStep ==
  ASSUME StoredTypes, WorkersInv, ChainInv, NEW w \in Worker, Acts(w)
  PROVE  ChainInv'
<1>1. /\ lines \in Seq(StoredLines) /\ tried \in [Worker -> Nat] /\ Len(lines) \in Nat /\ DOMAIN lines = 1..Len(lines)
  BY LineFacts DEF StoredTypes
<1>2. Worked(w) /\ damage = <<>> /\ succeeded \subseteq succeeded'
  BY StepWorks DEF Returns
<1>3. lines' \in Seq(StoredLines) /\ DOMAIN lines' = 1..Len(lines') /\ Len(lines') \in Nat
  BY LinesAfter, LineFacts
<1>4. \A i \in DOMAIN lines : \A m \in DOMAIN lines[i].prev : lines[i].prev[m].id[1] = Of(lines[i]) => lines[i].prev[m] \in succeeded
  BY <1>2 DEF ChainInv
<1> SUFFICES ASSUME NEW i \in DOMAIN lines', NEW m \in DOMAIN lines'[i].prev, lines'[i].prev[m].id[1] = Of(lines'[i])
             PROVE  lines'[i].prev[m] \in succeeded'
  BY DEF ChainInv, Of
<1>5. CASE lines' = lines
  BY <1>2, <1>4, <1>5
<1>6. CASE Glued(lines, lines')
  <2>1. i \in DOMAIN lines /\ lines'[i].rec = lines[i].rec /\ lines'[i].prev = lines[i].prev
    BY <1>1, <1>3, <1>6 DEF Glued
  <2> QED
    BY <1>2, <1>4, <2>1 DEF Of
<1>7. ASSUME Wrote(w), NEW l \in StoredLines, Added(lines, l, lines'), l.rec = Record(w, tried[w]), l.prev = known[w]
      PROVE  lines'[i].prev[m] \in succeeded'
  <2>1. CASE i \in DOMAIN lines
    BY <1>1, <1>2, <1>4, <1>7, <2>1 DEF Added
  <2>2. CASE i \notin DOMAIN lines
    <3>1. lines'[i] = l
      BY <1>1, <1>3, <1>7, <2>2 DEF Added
    <3>2. Of(lines'[i]) = w
      BY <1>1, <1>7, <3>1, RecordFacts DEF Of
    <3> QED
      BY <1>2, <1>7, <3>1, <3>2 DEF WorkersInv
  <2> QED
    BY <2>1, <2>2
<1> QED
  BY <1>5, <1>6, <1>7, LinesAfter

LEMMA ToldStep ==
  ASSUME StoredTypes, ToldInv, NEW w \in Worker, Acts(w)
  PROVE  ToldInv'
<1>1. /\ lines \in Seq(StoredLines) /\ tried \in [Worker -> Nat] /\ Len(lines) \in Nat /\ DOMAIN lines = 1..Len(lines)
      /\ at \in [Worker -> {"started", "ended"} \cup Active]
  BY LineFacts DEF StoredTypes
<1>2. Worked(w) /\ damage = <<>>
  BY StepWorks
<1>3. lines' \in Seq(StoredLines) /\ DOMAIN lines' = 1..Len(lines') /\ Len(lines') \in Nat
  BY LinesAfter, LineFacts
<1> DEFINE Whole(f, rec) == \E i \in DOMAIN f : f[i].rec = rec /\ f[i].end = "whole"
<1>4. CASE Glued(lines, lines')
  BY <1>1, <1>3, <1>4, GluedLast DEF ToldInv, HasTorn
<1>5. ASSUME NEW rec \in Due'
      PROVE  rec \in Due \/ (at'[w] = "written" /\ rec = Record(w, tried[w]))
  <2>1. succeeded' = succeeded \/ (at[w] = "written" /\ succeeded' = succeeded \cup {Record(w, tried[w])})
    BY StepWorks DEF Returns
  <2>2. CASE rec \in succeeded'
    BY <2>1, <2>2 DEF Due
  <2>3. CASE rec \notin succeeded'
    <3>1. PICK v \in Worker : at'[v] = "written" /\ rec = Record(v, tried'[v])
      BY <2>3 DEF Due
    <3>2. CASE v = w
      <4>1. at'[w] = "written" /\ tried' = tried
        BY <3>1, <3>2, StepWorks DEF Wrote
      <4> QED
        BY <3>1, <3>2, <4>1
    <3>3. CASE v # w
      <4>1. at[v] = "written" /\ tried'[v] = tried[v]
        BY <1>2, <3>1, <3>3 DEF Worked
      <4> QED
        BY <3>1, <4>1 DEF Due
    <3> QED
      BY <3>2, <3>3
  <2> QED
    BY <2>2, <2>3
<1>6. CASE lines' = lines /\ at'[w] # "written"
  BY <1>2, <1>5, <1>6 DEF ToldInv, HasTorn
<1>7. ASSUME Wrote(w), NEW l \in StoredLines, Added(lines, l, lines'), l.rec = Record(w, tried[w]), at'[w] = "written" => l.end = "whole"
      PROVE  HasTorn' \/ \A rec \in Due' : Whole(lines', rec)
  <2>1. \A i \in DOMAIN lines : i \in DOMAIN lines' /\ lines'[i] = lines[i]
    BY <1>1, <1>3, <1>7 DEF Added
  <2>2. HasTorn => HasTorn'
    BY <2>1 DEF HasTorn
  <2>3. Len(lines) + 1 \in DOMAIN lines' /\ lines'[Len(lines) + 1] = l
    BY <1>1, <1>3, <1>7 DEF Added
  <2>4. ASSUME NEW rec \in Due', ~HasTorn PROVE Whole(lines', rec)
    <3>1. CASE rec \in Due
      <4>1. PICK i \in DOMAIN lines : lines[i].rec = rec /\ lines[i].end = "whole"
        BY <1>2, <2>4, <3>1 DEF ToldInv
      <4> QED
        BY <2>1, <4>1
    <3>2. CASE at'[w] = "written" /\ rec = Record(w, tried[w])
      BY <1>7, <2>3, <3>2
    <3> QED
      BY <1>5, <3>1, <3>2
  <2> QED
    BY <2>2, <2>4
<1> QED
  BY <1>4, <1>6, <1>7, LinesAfter DEF ToldInv

LEMMA AnchoredStep ==
  ASSUME StoredTypes, OneAtWork, KeptInv, KnownInv, NEW w \in Worker, Acts(w)
  PROVE  OneAtWork' /\ KeptInv' /\ KnownInv'
<1>1. /\ lines \in Seq(StoredLines) /\ kept \in Seq(Records) /\ known \in [Worker -> Seq(Records)]
      /\ tried \in [Worker -> Nat] /\ at \in [Worker -> {"started", "ended"} \cup Active]
  BY DEF StoredTypes
<1>2. Worked(w) /\ damage = <<>>
  BY StepWorks
<1>3. "anchor lost" \notin Damaged /\ Damaged' = Damaged
  <2>1. DOMAIN damage = {}
    BY <1>2
  <2> QED
    BY <1>2, <2>1 DEF Damaged, Worked
<1> SUFFICES ASSUME ledger = "anchored"
             PROVE  OneAtWork' /\ Shows(kept)' /\ \A v \in Worker : at'[v] \in Active => Shows(known[v])'
  BY <1>2, <1>3 DEF OneAtWork, KeptInv, KnownInv, Worked
<1>4. \A v \in Worker : at'[v] \in Active => v = w
  <2> TAKE v \in Worker
  <2> SUFFICES ASSUME at'[v] \in Active, v # w PROVE FALSE
    OBVIOUS
  <2>1. at[v] \in Active
    BY <1>2 DEF Worked
  <2>2. CASE at[w] \in Active
    BY <2>1, <2>2 DEF OneAtWork
  <2>3. CASE at[w] \notin Active
    <3>1. at[v] \in {"started", "ended"}
      BY <1>2, <2>3 DEF Worked, OthersAtRest
    <3> QED
      BY <2>1, <3>1 DEF Active
  <2> QED
    BY <2>2, <2>3
<1>5. OneAtWork'
  BY <1>4 DEF OneAtWork
<1>6. Shows(kept)
  BY <1>3 DEF KeptInv
<1>7. CASE Returns(w)
  <2> DEFINE r == Record(w, tried[w])
  <2>1. known'[w] = Append(known[w], r) /\ kept' = known'[w] /\ succeeded' = succeeded \cup {r} /\ at[w] \in Active
    BY <1>1, <1>7 DEF Returns, Active
  <2>2. Shows(known[w])
    BY <2>1 DEF KnownInv
  <2> HIDE DEF r
  <2>3. \A rec \in succeeded' : \E m \in DOMAIN known'[w] : known'[w][m] = rec
    <3>1. known[w] \in Seq(Records) /\ Len(known[w]) \in Nat /\ DOMAIN known[w] = 1..Len(known[w])
      BY <1>1
    <3>2. DOMAIN known'[w] = 1..(Len(known[w]) + 1) /\ known'[w][Len(known[w]) + 1] = r /\ \A m \in 1..Len(known[w]) : known'[w][m] = known[w][m]
      BY <2>1, <3>1
    <3> QED
      BY <2>1, <2>2, <3>1, <3>2 DEF Shows
  <2> QED
    BY <1>4, <1>5, <2>1, <2>3 DEF Shows
<1>8. CASE ~Returns(w)
  <2>1. succeeded' = succeeded /\ kept' = kept /\ (known' = known \/ Open(w))
    BY <1>8, StepWorks
  <2>2. Shows(kept)'
    BY <1>6, <2>1 DEF Shows
  <2>3. ASSUME at'[w] \in Active PROVE Shows(known[w])'
    <3>1. CASE Open(w)
      <4>1. Reloads /\ known'[w] = ChainOf(lines)
        BY <1>1, <2>3, <3>1 DEF Open, Move, Active
      <4>2. Starts(kept, ChainOf(lines))
        BY <4>1 DEF Reloads, Opens
      <4>3. ChainOf(lines) \in Seq(Records)
        BY <1>1, ChainFacts
      <4>4. \A m \in DOMAIN kept : m \in DOMAIN ChainOf(lines) /\ ChainOf(lines)[m] = kept[m]
        BY <1>1, <4>2, <4>3, StartsFacts
      <4> QED
        BY <1>6, <2>1, <4>1, <4>4 DEF Shows
    <3>2. CASE known' = known /\ ~Open(w)
      <4>1. at[w] \in Active
        BY <3>2 DEF Acts, Begin, Repeat, Write, Returns, WriteRaises, Killed, Finish, Active
      <4> QED
        BY <2>1, <3>2, <4>1 DEF Shows, KnownInv
    <3> QED
      BY <2>1, <3>1, <3>2
  <2> QED
    BY <1>4, <1>5, <2>2, <2>3
<1> QED
  BY <1>7, <1>8

LEMMA LoadedCopies ==
  ASSUME NEW f \in Seq(StoredLines), FileLoads(f)
  PROVE  Copies(f, ChainOf(f))
<1> SUFFICES ASSUME NEW i \in DOMAIN f
             PROVE  \E k \in 1..Len(ChainOf(f)) : f[i].rec = ChainOf(f)[k] /\ f[i].prev = SubSeq(ChainOf(f), 1, k - 1)
  BY DEF Copies
<1>1. i \in 1..Len(f) /\ i \in 1..Len(ChainOf(f)) /\ ChainOf(f)[i] = f[i].rec
  BY LineFacts, ChainFacts
<1>2. f[i].prev = ChainOf(SubSeq(f, 1, i - 1))
  BY DEF FileLoads, Readable
<1>3. f[i].prev = SubSeq(ChainOf(f), 1, i - 1)
  BY <1>1, <1>2, ChainBefore
<1> QED
  BY <1>1, <1>3

(* A file that takes its lines, but for the visibly damaged, from another. *)
Takes(f, g) ==
  \A i \in DOMAIN g : Bad(g[i]) \/ \E j \in DOMAIN f : f[j].rec = g[i].rec /\ f[j].prev = g[i].prev /\ (Bad(f[j]) => Bad(g[i]))

LEMMA TakesCopies ==
  ASSUME NEW f, NEW g, NEW s, Takes(f, g), Copies(f, s)
  PROVE  Copies(g, s)
<1> SUFFICES ASSUME NEW i \in DOMAIN g, ~Bad(g[i])
             PROVE  \E k \in 1..Len(s) : g[i].rec = s[k] /\ g[i].prev = SubSeq(s, 1, k - 1)
  BY DEF Copies
<1>1. PICK j \in DOMAIN f : f[j].rec = g[i].rec /\ f[j].prev = g[i].prev /\ ~Bad(f[j])
  BY DEF Takes
<1> QED
  BY <1>1 DEF Copies

LEMMA SubTakes ==
  ASSUME NEW f \in Seq(StoredLines), NEW n \in 1..Len(f)
  PROVE  /\ SubSeq(f, 1, n - 1) \in Seq(StoredLines) /\ Takes(f, SubSeq(f, 1, n - 1))
         /\ \A l \in StoredLines :
              (Bad(l) \/ (f[n].rec = l.rec /\ f[n].prev = l.prev /\ (Bad(f[n]) => Bad(l)))) =>
                Append(SubSeq(f, 1, n - 1), l) \in Seq(StoredLines) /\ Takes(f, Append(SubSeq(f, 1, n - 1), l))
<1> DEFINE g == SubSeq(f, 1, n - 1)
<1>1. Len(f) \in Nat /\ DOMAIN f = 1..Len(f) /\ n - 1 \in Nat /\ 1..(n - 1) \subseteq 1..Len(f) /\ \A m \in 1..Len(f) : f[m] \in StoredLines
  BY LineFacts
<1>2. g \in Seq(StoredLines) /\ Len(g) = n - 1 /\ \A m \in 1..(n - 1) : g[m] = f[m]
  BY <1>1, SubSeqProperties
<1> HIDE DEF g
<1>3. DOMAIN g = 1..(n - 1)
  BY <1>2, LineFacts
<1>4. Takes(f, g)
  BY <1>1, <1>2, <1>3 DEF Takes
<1>5. ASSUME NEW l \in StoredLines, Bad(l) \/ (f[n].rec = l.rec /\ f[n].prev = l.prev /\ (Bad(f[n]) => Bad(l)))
      PROVE  Append(g, l) \in Seq(StoredLines) /\ Takes(f, Append(g, l))
  <2> DEFINE h == Append(g, l)
  <2>1. h \in Seq(StoredLines) /\ Len(h) = n /\ h[n] = l /\ \A m \in 1..(n - 1) : h[m] = g[m]
    BY <1>1, <1>2, AppendProperties
  <2> HIDE DEF h
  <2>2. DOMAIN h = 1..n /\ \A m \in 1..n : m \in 1..(n - 1) \/ m = n
    BY <1>1, <2>1, LineFacts
  <2>3. \A m \in 1..(n - 1) : m \in DOMAIN f /\ h[m] = f[m]
    BY <1>1, <1>2, <2>1
  <2>4. Takes(f, h)
    BY <1>1, <1>5, <2>1, <2>2, <2>3 DEF Takes
  <2> QED
    BY <2>1, <2>4 DEF h
<1> QED
  BY <1>2, <1>4, <1>5 DEF g

LEMMA PutTakes ==
  ASSUME NEW f \in Seq(StoredLines), NEW l \in StoredLines,
         Bad(l) \/ \E j \in DOMAIN f : l = f[j]
  PROVE  AppendTo(f, l) \in Seq(StoredLines) /\ Takes(f, AppendTo(f, l))
<1> DEFINE g == AppendTo(f, l)
<1>1. g \in Seq(StoredLines) /\ (Added(f, l, g) \/ Glued(f, g))
  BY PutFacts
<1> HIDE DEF g
<1>2. Len(f) \in Nat /\ DOMAIN f = 1..Len(f) /\ DOMAIN g = 1..Len(g)
  BY <1>1, LineFacts
<1>3. ASSUME NEW i \in DOMAIN g, ~Bad(g[i])
      PROVE  \E j \in DOMAIN f : f[j].rec = g[i].rec /\ f[j].prev = g[i].prev /\ (Bad(f[j]) => Bad(g[i]))
  <2>1. \E j \in DOMAIN f : g[i] = f[j]
    <3>1. CASE Added(f, l, g) /\ i \in DOMAIN f
      BY <1>2, <3>1 DEF Added
    <3>2. CASE Added(f, l, g) /\ i \notin DOMAIN f
      <4>1. g[i] = l
        BY <1>2, <1>3, <3>2 DEF Added
      <4> QED
        BY <1>3, <4>1
    <3>3. CASE Glued(f, g)
      <4>1. i \in DOMAIN f /\ (g[i] = f[i] \/ g[i].end = "torn")
        BY <1>2, <1>3, <3>3 DEF Glued
      <4> QED
        BY <1>3, <4>1 DEF Bad
    <3> QED
      BY <1>1, <3>1, <3>2, <3>3
  <2> QED
    BY <2>1
<1>4. Takes(f, g)
  BY <1>3 DEF Takes
<1> QED
  BY <1>1, <1>4 DEF g

LEMMA SealTakes ==
  ASSUME NEW f \in Seq(StoredLines), NEW n \in DOMAIN f, NEW l \in StoredLines, ~l.sealed
  PROVE  [f EXCEPT ![n] = l] \in Seq(StoredLines) /\ Takes(f, [f EXCEPT ![n] = l])
<1> DEFINE g == [f EXCEPT ![n] = l]
<1>1. n \in 1..Len(f) /\ DOMAIN f = 1..Len(f)
  BY LineFacts
<1>2. g \in Seq(StoredLines) /\ DOMAIN g = DOMAIN f /\ \A j \in DOMAIN f : g[j] = IF j = n THEN l ELSE f[j]
  <2>1. g \in Seq(StoredLines) /\ Len(g) = Len(f) /\ \A j \in 1..Len(f) : g[j] = IF j = n THEN l ELSE f[j]
    BY <1>1, ExceptSeq
  <2> HIDE DEF g
  <2> QED
    BY <1>1, <2>1, LineFacts
<1> HIDE DEF g
<1>3. Takes(f, g)
  BY <1>2 DEF Takes, Bad
<1> QED
  BY <1>2, <1>3 DEF g

LEMMA DamagedLines ==
  ASSUME StoredTypes, NEW n \in DOMAIN lines
  PROVE  /\ TornAt(n) \in Seq(StoredLines) /\ Takes(lines, TornAt(n))
         /\ UnendedAt(n) \in Seq(StoredLines) /\ Takes(lines, UnendedAt(n))
         /\ SubSeq(lines, 1, n - 1) \in Seq(StoredLines) /\ Takes(lines, SubSeq(lines, 1, n - 1))
         /\ MutatedAt(n) \in Seq(StoredLines) /\ Takes(lines, MutatedAt(n))
         /\ ForgedAt(n) \in Seq(StoredLines) /\ Takes(lines, ForgedAt(n))
         /\ AppendTo(lines, lines[Len(lines)]) \in Seq(StoredLines) /\ Takes(lines, AppendTo(lines, lines[Len(lines)]))
         /\ AppendTo(SubSeq(lines, 1, n - 1), Line(Another, ChainOf(SubSeq(lines, 1, n - 1)), "whole")) \in Seq(StoredLines)
<1>1. lines \in Seq(StoredLines) /\ n \in 1..Len(lines) /\ DOMAIN lines = 1..Len(lines) /\ Len(lines) \in DOMAIN lines
      /\ lines[n] \in StoredLines /\ lines[Len(lines)] \in StoredLines
  BY LineFacts DEF StoredTypes
<1>2. TornAt(n) \in Seq(StoredLines) /\ Takes(lines, TornAt(n))
  <2> DEFINE l == [lines[n] EXCEPT !.end = "torn"]
  <2>1. l \in StoredLines /\ l.end = "torn"
    BY <1>1 DEF StoredLines
  <2> HIDE DEF l
  <2> QED
    BY <1>1, <2>1, SubTakes DEF TornAt, l, Bad
<1>3. UnendedAt(n) \in Seq(StoredLines) /\ Takes(lines, UnendedAt(n))
  <2> DEFINE l == [lines[n] EXCEPT !.end = IF @ = "whole" THEN "unended" ELSE @]
  <2>1. l \in StoredLines /\ l.rec = lines[n].rec /\ l.prev = lines[n].prev /\ l.sealed = lines[n].sealed
        /\ (lines[n].end = "torn" => l.end = "torn")
    BY <1>1 DEF StoredLines
  <2>2. UnendedAt(n) = Append(SubSeq(lines, 1, n - 1), l)
    BY DEF UnendedAt
  <2> HIDE DEF l
  <2> QED
    BY <1>1, <2>1, <2>2, SubTakes DEF Bad
<1>4. SubSeq(lines, 1, n - 1) \in Seq(StoredLines) /\ Takes(lines, SubSeq(lines, 1, n - 1))
  BY <1>1, SubTakes
<1>5. MutatedAt(n) \in Seq(StoredLines) /\ Takes(lines, MutatedAt(n))
  <2> DEFINE l == [lines[n] EXCEPT !.rec.input = "changed", !.sealed = FALSE]
  <2>1. l \in StoredLines /\ ~l.sealed
    BY <1>1 DEF StoredLines, Records
  <2>2. MutatedAt(n) = [lines EXCEPT ![n] = l]
    BY <1>1 DEF MutatedAt
  <2> HIDE DEF l
  <2> QED
    BY <1>1, <2>1, <2>2, SealTakes
<1>6. ForgedAt(n) \in Seq(StoredLines) /\ Takes(lines, ForgedAt(n))
  <2> DEFINE l == [lines[n] EXCEPT !.sealed = FALSE]
  <2>1. l \in StoredLines /\ ~l.sealed
    BY <1>1 DEF StoredLines
  <2>2. ForgedAt(n) = [lines EXCEPT ![n] = l]
    BY <1>1 DEF ForgedAt
  <2> HIDE DEF l
  <2> QED
    BY <1>1, <2>1, <2>2, SealTakes
<1>7. AppendTo(lines, lines[Len(lines)]) \in Seq(StoredLines) /\ Takes(lines, AppendTo(lines, lines[Len(lines)]))
  BY <1>1, PutTakes
<1>8. AppendTo(SubSeq(lines, 1, n - 1), Line(Another, ChainOf(SubSeq(lines, 1, n - 1)), "whole")) \in Seq(StoredLines)
  <2> DEFINE c == ChainOf(SubSeq(lines, 1, n - 1))
  <2>1. c \in Seq(Records)
    BY <1>1, ChainBefore
  <2> HIDE DEF c
  <2>2. Line(Another, c, "whole") \in StoredLines
    BY <2>1 DEF Line, Another, StoredLines, Records
  <2> QED
    BY <1>4, <2>2, PutFacts DEF c
<1> QED
  BY <1>2, <1>3, <1>4, <1>5, <1>6, <1>7, <1>8

LEMMA HalfLineFacts ==
  ASSUME StoredTypes
  PROVE  HalfLine[2] \in Seq(StoredLines) /\ Takes(lines, HalfLine[2])
<1> DEFINE l == Line(Another, <<>>, "torn")
<1>1. l \in StoredLines /\ Bad(l)
  <2>1. <<>> \in Seq(Records)
    OBVIOUS
  <2> QED
    BY <2>1 DEF Line, Another, StoredLines, Records, Bad
<1>2. HalfLine[2] = AppendTo(lines, l)
  BY DEF HalfLine
<1> HIDE DEF l
<1> QED
  BY <1>1, <1>2, PutTakes DEF StoredTypes

LEMMA DamageFacts ==
  ASSUME StoredTypes, Damage
  PROVE  /\ UNCHANGED <<ledger, known, at, tried, succeeded>>
         /\ lines' \in Seq(StoredLines)
         /\ \E kind \in Kinds : /\ Noted(kind)
                                /\ kept' = kept \/ (kept' = <<>> /\ kind = "anchor lost")
                                /\ kind # "rewritten" => Takes(lines, lines')
<1>1. lines \in Seq(StoredLines) /\ Takes(lines, lines)
  BY DEF StoredTypes, Takes
<1>2. UNCHANGED <<ledger, known, at, tried, succeeded>>
  BY DEF Damage
<1>3. ASSUME NEW n \in DOMAIN lines, NEW d \in Cut(n) \cup Hostile(n) \cup Faults(n), Noted(d[1]), lines' = d[2], kept' = kept
      PROVE  lines' \in Seq(StoredLines) /\ d[1] \in Kinds /\ (d[1] # "rewritten" => Takes(lines, lines'))
  <2> DEFINE rewritten == AppendTo(SubSeq(lines, 1, n - 1), Line(Another, ChainOf(SubSeq(lines, 1, n - 1)), "whole"))
             repeated  == AppendTo(lines, lines[Len(lines)])
  <2>1. \/ d \in {<<"cut", TornAt(n)>>, <<"cut", UnendedAt(n)>>, <<"cut", SubSeq(lines, 1, n - 1)>>}
        \/ d \in {<<"mutated", MutatedAt(n)>>, <<"forged", ForgedAt(n)>>, <<"repeated", repeated>>}
        \/ d = <<"rewritten", rewritten>>
    BY DEF Cut, Hostile, Faults
  <2>2. lines' \in {TornAt(n), UnendedAt(n), SubSeq(lines, 1, n - 1), MutatedAt(n), ForgedAt(n), repeated} =>
          lines' \in Seq(StoredLines) /\ Takes(lines, lines')
    BY DamagedLines
  <2>3. rewritten \in Seq(StoredLines)
    BY DamagedLines
  <2> HIDE DEF rewritten, repeated
  <2>4. CASE d \in {<<"cut", TornAt(n)>>, <<"cut", UnendedAt(n)>>, <<"cut", SubSeq(lines, 1, n - 1)>>}
    <3>1. d[1] = "cut" /\ lines' \in {TornAt(n), UnendedAt(n), SubSeq(lines, 1, n - 1)}
      BY <1>3, <2>4
    <3> QED
      BY <2>2, <3>1 DEF Kinds
  <2>5. CASE d \in {<<"mutated", MutatedAt(n)>>, <<"forged", ForgedAt(n)>>, <<"repeated", repeated>>}
    <3>1. d[1] \in {"mutated", "forged", "repeated"} /\ lines' \in {MutatedAt(n), ForgedAt(n), repeated}
      BY <1>3, <2>5
    <3> QED
      BY <2>2, <3>1 DEF Kinds
  <2>6. CASE d = <<"rewritten", rewritten>>
    <3>1. d[1] = "rewritten" /\ lines' = rewritten
      BY <1>3, <2>6
    <3> QED
      BY <2>3, <3>1 DEF Kinds
  <2> QED
    BY <2>1, <2>4, <2>5, <2>6
<1>4. CASE \E n \in DOMAIN lines : \E d \in Cut(n) \cup Hostile(n) \cup Faults(n) : Noted(d[1]) /\ lines' = d[2] /\ UNCHANGED kept
  <2>1. PICK n \in DOMAIN lines : \E d \in Cut(n) \cup Hostile(n) \cup Faults(n) : Noted(d[1]) /\ lines' = d[2] /\ UNCHANGED kept
    BY <1>4
  <2>2. PICK d \in Cut(n) \cup Hostile(n) \cup Faults(n) : Noted(d[1]) /\ lines' = d[2] /\ UNCHANGED kept
    BY <2>1
  <2> QED
    BY <1>2, <1>3, <2>2
<1>5. CASE Noted(HalfLine[1]) /\ lines' = HalfLine[2] /\ UNCHANGED kept
  <2>1. Noted("half a line") /\ lines' \in Seq(StoredLines) /\ Takes(lines, lines') /\ kept' = kept
    <3>1. HalfLine[1] = "half a line"
      BY DEF HalfLine
    <3>2. HalfLine[2] \in Seq(StoredLines) /\ Takes(lines, HalfLine[2])
      BY HalfLineFacts
    <3> QED
      BY <1>5, <3>1, <3>2
  <2> QED
    BY <1>2, <2>1 DEF Kinds
<1>6. CASE Noted("anchor lost") /\ kept' = <<>> /\ UNCHANGED lines
  <2>1. Noted("anchor lost") /\ lines' \in Seq(StoredLines) /\ Takes(lines, lines') /\ kept' = <<>>
    BY <1>1, <1>6
  <2> QED
    BY <1>2, <2>1 DEF Kinds
<1> QED
  BY <1>4, <1>5, <1>6 DEF Damage

LEMMA DamageStep ==
  ASSUME StoredInv, Damage
  PROVE  StoredInv'
<1>1. /\ lines \in Seq(StoredLines) /\ kept \in Seq(Records) /\ was \in Seq(Records) /\ damage \in Seq(Kinds)
      /\ StoredTypes /\ Len(damage) \in Nat /\ DOMAIN damage = 1..Len(damage)
  BY DEF StoredInv, StoredTypes
<1>2. PICK kind \in Kinds : Noted(kind) /\ (kept' = kept \/ (kept' = <<>> /\ kind = "anchor lost")) /\ (kind # "rewritten" => Takes(lines, lines'))
  BY <1>1, DamageFacts, Zenon
<1>3. UNCHANGED <<ledger, known, at, tried, succeeded>> /\ lines' \in Seq(StoredLines) /\ \A w \in Worker : at[w] = "ended"
  BY <1>1, DamageFacts DEF Damage
<1>4. /\ damage' \in Seq(Kinds) /\ damage' # <<>> /\ Len(damage') = Len(damage) + 1 /\ damage'[Len(damage) + 1] = kind
      /\ \A i \in 1..Len(damage) : damage'[i] = damage[i]
  <2>1. damage' = Append(damage, kind)
    BY <1>2 DEF Noted
  <2> QED
    BY <1>1, <2>1
<1>5. Damaged \subseteq Damaged' /\ kind \in Damaged'
  <2>1. DOMAIN damage' = 1..(Len(damage) + 1)
    BY <1>1, <1>4
  <2> QED
    BY <1>1, <1>4, <2>1 DEF Damaged
<1>6. was' \in Seq(Records)
  <2>1. was' = ChainOf(lines) \/ was' = <<>> \/ was' = was
    BY <1>2 DEF Noted
  <2>2. ChainOf(lines) \in Seq(Records) /\ <<>> \in Seq(Records)
    BY <1>1, ChainFacts
  <2> QED
    BY <1>1, <2>1, <2>2
<1>7. StoredTypes'
  <2>1. kept' \in Seq(Records)
    <3>1. kept' = kept \/ kept' = <<>>
      BY <1>2
    <3>2. <<>> \in Seq(Records)
      OBVIOUS
    <3> QED
      BY <1>1, <3>1, <3>2
  <2> QED
    BY <1>3, <1>4, <1>6, <2>1 DEF StoredTypes, StoredInv
<1>8. WorkersInv' /\ CountInv'
  BY <1>3 DEF WorkersInv, CountInv, StoredInv
<1>9. RecordsInv' /\ SequenceInv' /\ ChainInv' /\ ToldInv'
  BY <1>4 DEF RecordsInv, SequenceInv, ChainInv, ToldInv
<1>10. OneAtWork' /\ KnownInv'
  BY <1>3 DEF OneAtWork, KnownInv, StoredInv, Shows
<1>11. KeptInv'
  BY <1>2, <1>3, <1>5 DEF KeptInv, StoredInv, Shows
<1>12. CopiesInv'
  <2> SUFFICES ASSUME was' # <<>>, "rewritten" \notin Damaged'
               PROVE  Copies(lines', was')
    BY DEF CopiesInv
  <2>1. Takes(lines, lines') /\ "rewritten" \notin Damaged
    BY <1>2, <1>5
  <2>2. Copies(lines, was')
    <3>1. CASE damage = <<>>
      <4>1. was' = ChainOf(lines) /\ FileLoads(lines)
        BY <1>2, <3>1 DEF Noted
      <4> QED
        BY <1>1, <4>1, LoadedCopies
    <3>2. CASE damage # <<>>
      <4>1. was' = was
        BY <1>2, <3>2 DEF Noted
      <4> QED
        BY <2>1, <3>2, <4>1 DEF CopiesInv, StoredInv
    <3> QED
      BY <3>1, <3>2
  <2> QED
    BY <2>1, <2>2, TakesCopies
<1> QED
  BY <1>7, <1>8, <1>9, <1>10, <1>11, <1>12 DEF StoredInv

LEMMA StoredStarts == StoredInit => StoredInv
<1> SUFFICES ASSUME StoredInit PROVE StoredInv
  OBVIOUS
<1>1. /\ ledger \in {"plain", "anchored"} /\ lines = <<>> /\ kept = <<>> /\ was = <<>> /\ damage = <<>> /\ succeeded = {}
      /\ \A w \in Worker : known[w] = <<>> /\ at[w] = "started" /\ tried[w] = 0
  BY DEF StoredInit
<1>2. StoredTypes
  <2>1. <<>> \in Seq(Records) /\ <<>> \in Seq(StoredLines) /\ <<>> \in Seq(Kinds)
    OBVIOUS
  <2> QED
    BY <1>1, <2>1 DEF StoredInit, StoredTypes
<1>3. WorkersInv
  BY <1>1 DEF WorkersInv
<1>4. CountInv
  <2>1. {w \in Worker : tried[w] > 0} = {}
    BY <1>1
  <2> QED
    BY <1>1, <2>1, FS_EmptySet DEF CountInv
<1>5. RecordsInv /\ SequenceInv /\ ChainInv
  <2>1. DOMAIN lines = {}
    BY <1>1
  <2> QED
    BY <2>1 DEF RecordsInv, SequenceInv, ChainInv
<1>6. ToldInv
  BY <1>1 DEF ToldInv, Due
<1>7. OneAtWork /\ KeptInv /\ KnownInv
  BY <1>1 DEF OneAtWork, KeptInv, KnownInv, Shows, Active
<1>8. CopiesInv
  BY <1>1 DEF CopiesInv
<1> QED
  BY <1>2, <1>3, <1>4, <1>5, <1>6, <1>7, <1>8 DEF StoredInv

LEMMA StoredStep == StoredInv /\ [StoredNext]_storedVars => StoredInv'
<1> SUFFICES ASSUME StoredInv, [StoredNext]_storedVars PROVE StoredInv'
  OBVIOUS
<1>1. ASSUME NEW w \in Worker, Acts(w) PROVE StoredInv'
  <2>1. StoredTypes' /\ WorkersInv' /\ CountInv'
    BY <1>1, TypesStep, WorkersStep, CountStep DEF StoredInv
  <2>2. RecordsInv' /\ SequenceInv' /\ ChainInv' /\ ToldInv'
    BY <1>1, RecordsStep, SequenceStep, ChainStep, ToldStep DEF StoredInv
  <2>3. OneAtWork' /\ KeptInv' /\ KnownInv'
    BY <1>1, AnchoredStep DEF StoredInv
  <2>4. CopiesInv'
    <3>1. damage' = <<>>
      BY <1>1, StepWorks DEF StoredInv, Worked
    <3> QED
      BY <3>1 DEF CopiesInv
  <2> QED
    BY <2>1, <2>2, <2>3, <2>4 DEF StoredInv
<1>2. CASE Damage
  BY <1>2, DamageStep
<1>3. CASE UNCHANGED storedVars
  <2>1. /\ ledger' = ledger /\ lines' = lines /\ kept' = kept /\ known' = known /\ at' = at /\ tried' = tried
        /\ succeeded' = succeeded /\ was' = was /\ damage' = damage
    BY <1>3 DEF storedVars
  <2>2. StoredTypes' /\ WorkersInv' /\ CountInv'
    BY <2>1 DEF StoredInv, StoredTypes, WorkersInv, CountInv
  <2>3. RecordsInv' /\ SequenceInv' /\ ChainInv' /\ ToldInv'
    BY <2>1 DEF StoredInv, RecordsInv, SequenceInv, ChainInv, ToldInv, HasTorn, Due
  <2>4. OneAtWork' /\ KeptInv' /\ KnownInv' /\ CopiesInv'
    BY <2>1 DEF StoredInv, OneAtWork, KeptInv, KnownInv, CopiesInv, Shows, Damaged
  <2> QED
    BY <2>2, <2>3, <2>4 DEF StoredInv
<1>4. StoredNext => Damage \/ \E w \in Worker : Acts(w)
  BY DEF StoredNext, Acts
<1> QED
  BY <1>1, <1>2, <1>3, <1>4

LEMMA StoredStays == StoredSpec => []StoredInv
BY StoredStarts, StoredStep, PTL DEF StoredSpec

LEMMA UpTo == \A n \in Nat : IsFiniteSet(1..n) /\ Cardinality(1..n) = n
<1> TAKE n \in Nat
<1>1. n \in Int /\ 1 \in Int
  OBVIOUS
<1>2. IsFiniteSet(1..n) /\ Cardinality(1..n) = IF 1 > n THEN 0 ELSE n - 1 + 1
  BY <1>1, FS_Interval
<1> QED
  BY <1>2

(* A file that loads shows every id once.                                  *)
LEMMA LoadedIds ==
  ASSUME NEW f \in Seq(StoredLines), FileLoads(f)
  PROVE  /\ \A i \in DOMAIN f : f[i].end # "torn" /\ f[i].sealed
         /\ \A i, j \in DOMAIN f : i < j => f[i].rec.id # f[j].rec.id /\ i \in DOMAIN f[j].prev /\ f[j].prev[i] = f[i].rec
<1>1. DOMAIN f = 1..Len(f) /\ Len(f) \in Nat
  BY LineFacts
<1>2. \A i \in DOMAIN f : Readable(f, i)
  BY DEF FileLoads
<1>3. ASSUME NEW i \in DOMAIN f, NEW j \in DOMAIN f, i < j
      PROVE  f[i].rec.id # f[j].rec.id /\ i \in DOMAIN f[j].prev /\ f[j].prev[i] = f[i].rec
  <2> DEFINE c == ChainOf(SubSeq(f, 1, j - 1))
  <2>1. i \in 1..(j - 1) /\ j \in 1..Len(f)
    BY <1>1, <1>3
  <2>2. f[j].prev = c /\ f[j].rec.id \notin IdsIn(f[j].prev)
    BY <1>2 DEF Readable
  <2>3. c \in Seq(Records) /\ Len(c) = j - 1 /\ \A m \in 1..(j - 1) : c[m] = f[m].rec
    BY <2>1, ChainBefore
  <2> HIDE DEF c
  <2>4. i \in DOMAIN c /\ c[i] = f[i].rec
    BY <2>1, <2>3
  <2> QED
    BY <2>2, <2>4 DEF IdsIn
<1> QED
  BY <1>2, <1>3 DEF Readable

LEMMA LinesCounted ==
  ASSUME NEW f \in Seq(StoredLines), FileLoads(f)
  PROVE  Cardinality({f[i].rec.id : i \in {j \in DOMAIN f : f[j].end # "torn"}}) = Len(f)
<1> DEFINE Shown == {f[i].rec.id : i \in DOMAIN f}
           g   == [i \in DOMAIN f |-> f[i].rec.id]
<1>1. DOMAIN f = 1..Len(f) /\ Len(f) \in Nat
  BY LineFacts
<1>2. {f[i].rec.id : i \in {j \in DOMAIN f : f[j].end # "torn"}} = Shown
  BY LoadedIds
<1>3. g \in Surjection(DOMAIN f, Shown)
  BY DEF Surjection
<1>4. \A i, j \in DOMAIN f : g[i] = g[j] => i = j
  BY <1>1, LoadedIds
<1>5. g \in Injection(DOMAIN f, Shown)
  BY <1>3, <1>4 DEF Injection, IsInjective, Surjection
<1>6. IsFiniteSet(DOMAIN f) /\ Cardinality(DOMAIN f) = Len(f)
  BY <1>1, UpTo
<1> HIDE DEF g, Shown
<1>7. Cardinality(Shown) = Cardinality(DOMAIN f)
  BY <1>3, <1>5, <1>6, FS_Surjection
<1> QED
  BY <1>2, <1>6, <1>7

(* All but one line of each worker is a record whose append returned.      *)
LEMMA LinesBounded ==
  ASSUME StoredInv, damage = <<>>, FileLoads(lines)
  PROVE  Len(lines) <= Cardinality(succeeded) + Cardinality({w \in Worker : tried[w] > 0})
<1> DEFINE T == {w \in Worker : tried[w] > 0}
           D == DOMAIN lines
           S == {i \in D : lines[i].rec \in succeeded}
           U == D \ S
<1>1. /\ lines \in Seq(StoredLines) /\ D = 1..Len(lines) /\ Len(lines) \in Nat /\ tried \in [Worker -> Nat]
      /\ IsFiniteSet(succeeded) /\ IsFiniteSet(T)
  BY LineFacts DEF StoredInv, StoredTypes, CountInv
<1>2. IsFiniteSet(D) /\ Cardinality(D) = Len(lines)
  BY <1>1, UpTo
<1>3. S \subseteq D /\ U \subseteq D /\ S \cup U = D /\ S \cap U = {}
  OBVIOUS
<1>4. IsFiniteSet(S) /\ IsFiniteSet(U)
  <2> HIDE DEF S, U, D
  <2> QED
    BY <1>2, <1>3, FS_Subset
<1>5. Cardinality(S) <= Cardinality(succeeded)
  <2> DEFINE g == [i \in S |-> lines[i].rec]
  <2>1. \A i, j \in S : lines[i].rec = lines[j].rec => i = j
    BY <1>1, LoadedIds
  <2>2. g \in [S -> succeeded] /\ \A i, j \in S : g[i] = g[j] => i = j
    BY <2>1
  <2>3. g \in Injection(S, succeeded)
    BY <2>2 DEF Injection, IsInjective
  <2> HIDE DEF g, S
  <2> QED
    BY <1>1, <2>3, FS_Injection
<1>6. Cardinality(U) <= Cardinality(T)
  <2> DEFINE g == [i \in U |-> Of(lines[i])]
  <2>1. \A i \in D : Of(lines[i]) \in T
    <3> TAKE i \in D
    <3>1. PICK w \in Worker : \E k \in 1..tried[w] : lines[i].rec = Record(w, k)
      BY DEF StoredInv, RecordsInv
    <3>2. PICK k \in 1..tried[w] : lines[i].rec = Record(w, k)
      BY <3>1
    <3>3. k \in Nat /\ tried[w] > 0 /\ Of(lines[i]) = w
      BY <1>1, <3>2, RecordFacts DEF Of
    <3> QED
      BY <3>3
  <2>2. ASSUME NEW i \in D, NEW j \in U, i < j, Of(lines[i]) = Of(lines[j]) PROVE i \in S
    <3>1. i \in DOMAIN lines[j].prev /\ lines[j].prev[i] = lines[i].rec
      BY <1>1, <2>2, LoadedIds
    <3>2. lines[j].prev[i].id[1] = Of(lines[j])
      BY <2>2, <3>1 DEF Of
    <3> QED
      BY <2>2, <3>1, <3>2 DEF StoredInv, ChainInv
  <2>3. \A i, j \in U : Of(lines[i]) = Of(lines[j]) => i = j
    <3> TAKE i, j \in U
    <3>1. i \in Nat /\ j \in Nat /\ i \in D /\ j \in D /\ i \notin S /\ j \notin S
      BY <1>1
    <3> QED
      BY <2>2, <3>1
  <2>4. g \in [U -> T] /\ \A i, j \in U : g[i] = g[j] => i = j
    BY <2>1, <2>3
  <2>5. g \in Injection(U, T)
    BY <2>4 DEF Injection, IsInjective
  <2> HIDE DEF g, U, T
  <2> QED
    BY <1>1, <2>5, FS_Injection
<1>7. Cardinality(D) = Cardinality(S) + Cardinality(U)
  <2> HIDE DEF S, U, D
  <2>1. Cardinality(S \cup U) = Cardinality(S) + Cardinality(U) - Cardinality(S \cap U)
    BY <1>4, FS_Union
  <2>2. Cardinality({}) = 0 /\ Cardinality(S) \in Nat /\ Cardinality(U) \in Nat
    BY <1>4, FS_EmptySet, FS_CardinalityType
  <2>3. Cardinality(D) = Cardinality(S) + Cardinality(U) - Cardinality({})
    BY <1>3, <2>1
  <2> QED
    BY <2>2, <2>3
<1>8. Cardinality(S) \in Nat /\ Cardinality(U) \in Nat /\ Cardinality(succeeded) \in Nat /\ Cardinality(T) \in Nat
  <2> HIDE DEF S, U, D, T
  <2> QED
    BY <1>1, <1>4, FS_CardinalityType
<1> HIDE DEF S, U, D, T
<1>9. Len(lines) <= Cardinality(succeeded) + Cardinality(T)
  BY <1>2, <1>5, <1>6, <1>7, <1>8
<1> QED
  BY <1>9 DEF T

LEMMA CopiesStart ==
  ASSUME NEW f \in Seq(StoredLines), NEW s \in Seq(Records), FileLoads(f), Copies(f, s)
  PROVE  Starts(ChainOf(f), s)
<1>1. /\ DOMAIN f = 1..Len(f) /\ Len(f) \in Nat /\ Len(s) \in Nat /\ DOMAIN s = 1..Len(s)
      /\ ChainOf(f) \in Seq(Records) /\ Len(ChainOf(f)) = Len(f) /\ DOMAIN ChainOf(f) = DOMAIN f
      /\ \A i \in DOMAIN f : ChainOf(f)[i] = f[i].rec
  <2>1. DOMAIN f = 1..Len(f) /\ Len(f) \in Nat
    BY LineFacts
  <2>2. Len(s) \in Nat /\ DOMAIN s = 1..Len(s)
    OBVIOUS
  <2>3. ChainOf(f) \in Seq(Records) /\ Len(ChainOf(f)) = Len(f) /\ DOMAIN ChainOf(f) = 1..Len(f) /\ \A i \in 1..Len(f) : ChainOf(f)[i] = f[i].rec
    BY ChainFacts
  <2> QED
    BY <2>1, <2>2, <2>3
<1>2. ASSUME NEW i \in DOMAIN f PROVE i \in DOMAIN s /\ s[i] = f[i].rec
  <2>1. ~Bad(f[i])
    BY LoadedIds DEF Bad
  <2>2. PICK k \in 1..Len(s) : f[i].rec = s[k] /\ f[i].prev = SubSeq(s, 1, k - 1)
    BY <2>1 DEF Copies
  <2>3. Len(f[i].prev) = k - 1
    BY <1>1, <2>2, SubSeqProperties
  <2>4. Len(f[i].prev) = i - 1
    <3>1. f[i].prev = ChainOf(SubSeq(f, 1, i - 1))
      BY DEF FileLoads, Readable
    <3>2. Len(ChainOf(SubSeq(f, 1, i - 1))) = i - 1
      BY <1>1, ChainBefore
    <3> QED
      BY <3>1, <3>2
  <2>5. i = k
    BY <1>1, <2>3, <2>4
  <2> QED
    BY <1>1, <2>2, <2>5
<1>3. Len(f) <= Len(s)
  <2>1. CASE Len(f) = 0
    BY <1>1, <2>1
  <2>2. CASE Len(f) # 0
    <3>1. Len(f) \in DOMAIN f
      BY <1>1, <2>2
    <3> QED
      BY <1>1, <1>2, <3>1
  <2> QED
    BY <2>1, <2>2
<1> QED
  BY <1>1, <1>2, <1>3, StartsFacts

LEMMA AnchorTells ==
  ASSUME StoredInv, ledger = "anchored", Opens(lines, kept), "anchor lost" \notin Damaged
  PROVE  /\ \A rec \in succeeded : \E i \in DOMAIN ChainOf(lines) : ChainOf(lines)[i] = rec
         /\ Len(lines) >= Cardinality(succeeded)
<1>1. /\ lines \in Seq(StoredLines) /\ kept \in Seq(Records) /\ IsFiniteSet(succeeded)
  BY DEF StoredInv, StoredTypes, CountInv
<1>2. ChainOf(lines) \in Seq(Records) /\ Len(ChainOf(lines)) = Len(lines) /\ DOMAIN ChainOf(lines) = 1..Len(lines) /\ Len(lines) \in Nat
  BY <1>1, ChainFacts, LineFacts
<1>3. \A i \in DOMAIN kept : i \in DOMAIN ChainOf(lines) /\ ChainOf(lines)[i] = kept[i]
  BY <1>1, <1>2, StartsFacts DEF Opens
<1>4. \A rec \in succeeded : \E i \in DOMAIN ChainOf(lines) : ChainOf(lines)[i] = rec
  BY <1>3 DEF StoredInv, KeptInv, Shows
<1> DEFINE g == [rec \in succeeded |-> CHOOSE i \in 1..Len(lines) : ChainOf(lines)[i] = rec]
<1>5. \A rec \in succeeded : g[rec] \in 1..Len(lines) /\ ChainOf(lines)[g[rec]] = rec
  BY <1>2, <1>4
<1>6. g \in Injection(succeeded, 1..Len(lines))
  <2>1. g \in [succeeded -> 1..Len(lines)]
    BY <1>5
  <2>2. \A r, q \in succeeded : g[r] = g[q] => r = q
    BY <1>5
  <2> HIDE DEF g
  <2> QED
    BY <2>1, <2>2 DEF Injection, IsInjective
<1> HIDE DEF g
<1>7. IsFiniteSet(1..Len(lines)) /\ Cardinality(1..Len(lines)) = Len(lines)
  BY <1>2, UpTo
<1>8. Cardinality(succeeded) <= Cardinality(1..Len(lines)) /\ Cardinality(succeeded) \in Nat
  BY <1>1, <1>6, <1>7, FS_Injection, FS_CardinalityType
<1> QED
  BY <1>2, <1>4, <1>7, <1>8

(* What a reload says of a file is what was appended: of one nobody        *)
(* damaged every record whose append returned, once, in each writer's      *)
(* order, and at most one line more of each; of one damaged but not        *)
(* written anew, a beginning of it; and of one with its anchor, all that   *)
(* succeeded.                                                              *)
THEOREM ReloadsTellAll == StoredSpec => []ReloadTellsAll
<1>1. StoredInv => ReloadTellsAll
  <2> SUFFICES ASSUME StoredInv PROVE ReloadTellsAll
    OBVIOUS
  <2>1. /\ lines \in Seq(StoredLines) /\ was \in Seq(Records) /\ ChainOf(lines) \in Seq(Records) /\ DOMAIN ChainOf(lines) = DOMAIN lines
        /\ \A i \in DOMAIN lines : ChainOf(lines)[i] = lines[i].rec
    <3>1. lines \in Seq(StoredLines) /\ was \in Seq(Records)
      BY DEF StoredInv, StoredTypes
    <3> QED
      BY <3>1, ChainFacts, LineFacts
  <2>2. ASSUME damage = <<>>, FileLoads(lines)
        PROVE  /\ \A rec \in succeeded : \E i \in DOMAIN ChainOf(lines) : ChainOf(lines)[i] = rec
               /\ Report.final_record_count = Report.unique_ids_on_disk
               /\ \A i, j \in DOMAIN ChainOf(lines) : i < j /\ ChainOf(lines)[i].id[1] = ChainOf(lines)[j].id[1] => ChainOf(lines)[i].id[2] < ChainOf(lines)[j].id[2]
               /\ Report.final_record_count <= Report.total_succeeded + Cardinality({w \in Worker : tried[w] > 0})
    <3>1. ~HasTorn
      BY <2>1, <2>2, LoadedIds DEF HasTorn
    <3>2. \A rec \in succeeded : \E i \in DOMAIN ChainOf(lines) : ChainOf(lines)[i] = rec
      BY <2>1, <2>2, <3>1 DEF StoredInv, ToldInv, Due
    <3>3. Report.final_record_count = Report.unique_ids_on_disk
      BY <2>1, <2>2, LinesCounted DEF Report
    <3>4. Report.final_record_count <= Report.total_succeeded + Cardinality({w \in Worker : tried[w] > 0})
      BY <2>2, LinesBounded DEF Report
    <3>5. \A i, j \in DOMAIN ChainOf(lines) : i < j /\ ChainOf(lines)[i].id[1] = ChainOf(lines)[j].id[1] => ChainOf(lines)[i].id[2] < ChainOf(lines)[j].id[2]
      BY <2>1, <2>2 DEF StoredInv, SequenceInv, Of, Nr
    <3> QED
      BY <3>2, <3>3, <3>4, <3>5
  <2>3. ASSUME damage # <<>>, was # <<>>, FileLoads(lines), "rewritten" \notin Damaged
        PROVE  Starts(ChainOf(lines), was)
    BY <2>1, <2>3, CopiesStart DEF StoredInv, CopiesInv
  <2>4. ASSUME ledger = "anchored", Recovery.recovered_ok, "anchor lost" \notin Damaged
        PROVE  /\ \A rec \in succeeded : \E i \in DOMAIN ChainOf(lines) : ChainOf(lines)[i] = rec
               /\ Recovery.recovered_count >= Cardinality(succeeded)
    <3>1. Opens(lines, kept) /\ Recovery.recovered_count = Len(lines)
      BY <2>4 DEF Recovery, Reloads
    <3> QED
      BY <2>4, <3>1, AnchorTells
  <2>5. Report.reload_ok = FileLoads(lines)
    BY DEF Report
  <2> QED
    BY <2>2, <2>3, <2>4, <2>5, Zenon DEF ReloadTellsAll
<1> QED
  BY <1>1, StoredStays, PTL
===============================================================================
