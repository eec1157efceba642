---------------------------- MODULE FreshnessProofs ----------------------------
(* What the witness log and the consumer's memory guarantee for any        *)
(* numbers of appends, accepts and packages.                               *)
EXTENDS Freshness, FiniteSetTheorems, SequenceTheorems, TLAPS

USE ConsumerAssumption

(* The consumer.                                                           *)
Memory == [consumed : Seq(Package), anchor : Seq(Package)]

ConsumerType ==
  /\ consumed \in Seq(Package) /\ anchor \in Seq(Package)
  /\ pkg \in [Accept -> Package]
  /\ cpc \in [Accept -> {"start", "read", "checked", "could not look", "refused", "accepted", "crashed"}]
  /\ entries \in [Accept -> Seq(Package)] /\ st \in [Accept -> Memory]
  /\ overlapped \in BOOLEAN

(* Each of what was acted on has its place in the log, in the same order.  *)
Ordered(cs, an) ==
  /\ \E f \in [DOMAIN cs -> DOMAIN an] :
       /\ \A i \in DOMAIN cs : an[f[i]] = cs[i]
       /\ \A i, j \in DOMAIN cs : i < j => f[i] < f[j]
  /\ cs # <<>> => cs[Len(cs)] = an[Len(an)]

CheckedInv ==
  \A c \in Accept : cpc[c] = "checked" =>
    /\ Ordered(st[c].consumed, st[c].anchor) /\ IsPrefixOf(st[c].anchor, entries[c])
    /\ Latest(c) /\ pkg[c] \notin Members(st[c].consumed)
    /\ ~overlapped => st[c].consumed = consumed /\ st[c].anchor = anchor

AloneInv == ~overlapped => \A c, d \in InProgress : c = d

AcceptedInv ==
  ~overlapped => \A c \in Accept : cpc[c] = "accepted" =>
    /\ pkg[c] \in Members(consumed)
    /\ \A d \in Accept : cpc[d] = "accepted" /\ pkg[d] = pkg[c] => c = d

ConsumerInv == ConsumerType /\ Ordered(consumed, anchor) /\ CheckedInv /\ AloneInv /\ AcceptedInv

(* The witness.                                                            *)
Lines == [seq : Nat, digest : Package, ended : BOOLEAN]

WitnessType ==
  /\ file \in {"none", "headless", "log"} /\ log \in Seq(Lines)
  /\ given \in [Append1 -> Package] /\ saw \in [Append1 -> Seq(Lines)]
  /\ wpc \in [Append1 -> {"start", "creating", "appending", "refused", "unusable", "witnessed", "crashed"}]
  /\ met \in BOOLEAN

NoneDied == \A a \in Append1 : wpc[a] # "crashed"
LogInv ==
  ~met =>
    /\ \A a, b \in W!UnderWay : a = b
    /\ file = "none" => log = <<>> /\ \A a \in Append1 : wpc[a] \notin {"witnessed", "appending"}
    /\ \A a \in Append1 :
         /\ wpc[a] \in {"start", "creating"} => saw[a] = <<>>
         /\ wpc[a] = "creating" => file = "none"
         /\ wpc[a] = "appending" => W!Readable /\ saw[a] = log /\ given[a] \notin W!Digests(log)
         /\ wpc[a] = "witnessed" => \E i \in DOMAIN log : log[i].digest = given[a] /\ log[i].seq = i
    /\ NoneDied => file = "none" \/ W!Readable

WitnessInv == WitnessType /\ LogInv

(* The two together: what the consumer holds is a beginning of the log.    *)
Orderly == faithful /\ ~met /\ ~overlapped /\ NoneDied
PulledInv ==
  Orderly => IsPrefixOf(anchor, Entries) /\ \A c \in InProgress : IsPrefixOf(entries[c], Entries)

FaithfulType == faithful \in BOOLEAN

IInv == ConsumerInv /\ WitnessInv /\ PulledInv /\ FaithfulType

LEMMA PrefixFacts ==
  ASSUME NEW S, NEW s \in Seq(S), NEW t \in Seq(S)
  PROVE  IsPrefixOf(s, t) <=> Len(s) <= Len(t) /\ \A i \in 1..Len(s) : s[i] = t[i]
<1>1. CASE Len(s) <= Len(t)
  <2>1. /\ SubSeq(t, 1, Len(s)) \in Seq(S) /\ Len(SubSeq(t, 1, Len(s))) = Len(s)
        /\ \A i \in 1..Len(s) : SubSeq(t, 1, Len(s))[i] = t[i]
    BY <1>1
  <2>2. (\A i \in 1..Len(s) : s[i] = t[i]) => SubSeq(t, 1, Len(s)) = s
    BY <2>1, SeqEqual
  <2> QED
    BY <1>1, <2>1, <2>2 DEF IsPrefixOf
<1>2. CASE ~(Len(s) <= Len(t))
  BY <1>2 DEF IsPrefixOf
<1> QED
  BY <1>1, <1>2

LEMMA PrefixOrder ==
  ASSUME NEW S, NEW s \in Seq(S), NEW t \in Seq(S), NEW u \in Seq(S)
  PROVE  /\ IsPrefixOf(s, s)
         /\ IsPrefixOf(s, t) /\ IsPrefixOf(t, u) => IsPrefixOf(s, u)
         /\ \A x \in S : IsPrefixOf(s, t) => IsPrefixOf(s, Append(t, x))
<1>1. IsPrefixOf(s, s)
  BY PrefixFacts
<1>2. IsPrefixOf(s, t) /\ IsPrefixOf(t, u) => IsPrefixOf(s, u)
  BY PrefixFacts
<1>3. ASSUME NEW x \in S, IsPrefixOf(s, t) PROVE IsPrefixOf(s, Append(t, x))
  <2> DEFINE l == Append(t, x)
  <2>1. l \in Seq(S) /\ Len(l) = Len(t) + 1 /\ \A i \in 1..Len(t) : l[i] = t[i]
    BY AppendProperties
  <2> HIDE DEF l
  <2>2. Len(s) <= Len(t) /\ \A i \in 1..Len(s) : s[i] = t[i]
    BY <1>3, PrefixFacts
  <2>3. Len(s) \in Nat /\ Len(t) \in Nat /\ Len(l) \in Nat
    BY <2>1
  <2>4. Len(s) <= Len(l) /\ \A i \in 1..Len(s) : s[i] = l[i]
    BY <2>1, <2>2, <2>3
  <2>5. IsPrefixOf(s, l) <=> Len(s) <= Len(l) /\ \A i \in 1..Len(s) : s[i] = l[i]
    BY <2>1, PrefixFacts
  <2> QED
    BY <2>4, <2>5 DEF l
<1> QED
  BY <1>1, <1>2, <1>3

LEMMA LogsAreSequences == Logs \subseteq Seq(Package)
<1> SUFFICES ASSUME NEW n \in 0..Cardinality(Package), NEW l \in Injection(1..n, Package) PROVE l \in Seq(Package)
  BY DEF Logs
<1>1. n \in Nat /\ l \in [1..n -> Package]
  BY FS_CardinalityType DEF Injection
<1> QED
  BY <1>1

(* What an accept makes of an ordered memory is ordered again.             *)
LEMMA OrderedGrows ==
  ASSUME NEW cs \in Seq(Package), NEW an \in Seq(Package), NEW l \in Seq(Package), NEW p \in Package,
         Ordered(cs, an), IsPrefixOf(an, l), l # <<>>, l[Len(l)] = p, p \notin Members(cs)
  PROVE  Ordered(Append(cs, p), l)
<1> DEFINE new == Append(cs, p)
<1>1. /\ new \in Seq(Package) /\ Len(new) = Len(cs) + 1 /\ new[Len(cs) + 1] = p
      /\ \A i \in 1..Len(cs) : new[i] = cs[i]
  BY AppendProperties
<1>2. PICK f \in [DOMAIN cs -> DOMAIN an] :
        (\A i \in DOMAIN cs : an[f[i]] = cs[i]) /\ (\A i, j \in DOMAIN cs : i < j => f[i] < f[j])
  BY DEF Ordered
<1>3. DOMAIN cs = 1..Len(cs) /\ DOMAIN an = 1..Len(an) /\ DOMAIN l = 1..Len(l) /\ DOMAIN new = 1..(Len(cs) + 1)
      /\ Len(cs) \in Nat /\ Len(an) \in Nat /\ Len(l) \in Nat
  BY <1>1
<1>4. Len(an) <= Len(l) /\ \A i \in 1..Len(an) : an[i] = l[i]
  BY PrefixFacts
<1>5. Len(l) >= 1
  BY <1>3
<1>6. \A i \in DOMAIN cs : f[i] \in 1..Len(l) /\ l[f[i]] = cs[i] /\ f[i] < Len(l)
  <2> SUFFICES ASSUME NEW i \in DOMAIN cs PROVE f[i] \in 1..Len(l) /\ l[f[i]] = cs[i] /\ f[i] < Len(l)
    OBVIOUS
  <2>1. f[i] \in 1..Len(an) /\ an[f[i]] = cs[i]
    BY <1>2, <1>3
  <2>2. l[f[i]] = cs[i] /\ f[i] \in 1..Len(l)
    BY <1>3, <1>4, <2>1
  <2>3. cs[i] # p
    BY DEF Members
  <2> QED
    BY <1>3, <2>2, <2>3
<1> DEFINE g == [i \in 1..(Len(cs) + 1) |-> IF i = Len(cs) + 1 THEN Len(l) ELSE f[i]]
<1>7. g \in [DOMAIN new -> DOMAIN l]
  BY <1>3, <1>5, <1>6
<1>8. \A i \in DOMAIN new : l[g[i]] = new[i]
  BY <1>1, <1>3, <1>6
<1>9. \A i, j \in DOMAIN new : i < j => g[i] < g[j]
  BY <1>2, <1>3, <1>6
<1>10. new[Len(new)] = l[Len(l)]
  BY <1>1
<1> HIDE DEF g, new
<1> QED
  BY <1>7, <1>8, <1>9, <1>10 DEF Ordered, new

LEMMA Empty == \A S : <<>> \in Seq(S) /\ Len(<<>>) = 0 /\ DOMAIN <<>> = {}
OBVIOUS

LEMMA FreshFacts == Fresh \in Memory /\ Fresh.consumed = <<>> /\ Fresh.anchor = <<>>
BY Empty DEF Fresh, Memory

LEMMA MembersAppend ==
  ASSUME NEW s \in Seq(Package), NEW p \in Package
  PROVE  Append(s, p) \in Seq(Package) /\ Members(Append(s, p)) = Members(s) \cup {p}
<1> DEFINE t == Append(s, p)
<1>1. /\ t \in Seq(Package) /\ Len(t) = Len(s) + 1 /\ t[Len(s) + 1] = p
      /\ \A i \in 1..Len(s) : t[i] = s[i]
  BY AppendProperties
<1>2. Len(s) \in Nat /\ DOMAIN s = 1..Len(s) /\ DOMAIN t = 1..(Len(s) + 1)
  BY <1>1
<1> HIDE DEF t
<1>3. DOMAIN t = DOMAIN s \cup {Len(s) + 1}
  BY <1>2
<1>4. Members(t) = Members(s) \cup {p}
  BY <1>1, <1>2, <1>3 DEF Members
<1> QED
  BY <1>1, <1>4 DEF t

LEMMA Cleared ==
  ASSUME ConsumerType, NEW c \in Accept
  PROVE  [entries EXCEPT ![c] = <<>>] \in [Accept -> Seq(Package)] /\ [st EXCEPT ![c] = Fresh] \in [Accept -> Memory]
<1> DEFINE none == <<>>
<1>1. none \in Seq(Package)
  BY Empty
<1> HIDE DEF none
<1>2. [entries EXCEPT ![c] = none] \in [Accept -> Seq(Package)]
  BY <1>1 DEF ConsumerType
<1> QED
  BY <1>2, FreshFacts DEF ConsumerType, none

LEMMA InitConsumer == Init => ConsumerInv
<1> SUFFICES ASSUME Init PROVE ConsumerInv
  OBVIOUS
<1>1. ConsumerType
  BY Empty, FreshFacts DEF Init, ConsumerType
<1>2. Ordered(<<>>, <<>>)
  <2>1. [i \in {} |-> i] \in [DOMAIN <<>> -> DOMAIN <<>>] /\ DOMAIN <<>> = {}
    OBVIOUS
  <2> QED
    BY <2>1 DEF Ordered
<1>3. CheckedInv /\ AloneInv /\ AcceptedInv
  BY DEF Init, CheckedInv, AloneInv, AcceptedInv, InProgress
<1> QED
  BY <1>1, <1>2, <1>3 DEF Init, ConsumerInv

LEMMA ReadStep == ASSUME ConsumerInv, NEW c \in Accept, ReadWitnessLog(c) PROVE ConsumerInv'
<1> USE DEF ConsumerInv, ReadWitnessLog, Goto
<1>1. ConsumerType'
  BY LogsAreSequences DEF ConsumerType, Meets
<1>2. CheckedInv'
  BY DEF ConsumerType, CheckedInv, Latest, Meets
<1>3. AloneInv'
  BY DEF ConsumerType, AloneInv, InProgress, Meets
<1>4. AcceptedInv'
  BY DEF ConsumerType, AcceptedInv, Meets
<1> QED
  BY <1>1, <1>2, <1>3, <1>4

LEMMA CheckStep == ASSUME ConsumerInv, NEW c \in Accept, Check(c) PROVE ConsumerInv'
<1> USE DEF ConsumerInv, Check, Goto, Exit, Load
<1>0. [consumed |-> consumed, anchor |-> anchor] \in Memory
  BY DEF ConsumerType, Memory
<1>1. ConsumerType'
  <2>1. /\ entries' \in {entries, [entries EXCEPT ![c] = <<>>]}
        /\ st' \in {[st EXCEPT ![c] = [consumed |-> consumed, anchor |-> anchor]], [st EXCEPT ![c] = Fresh]}
        /\ cpc' \in {[cpc EXCEPT ![c] = "checked"], [cpc EXCEPT ![c] = "refused"]}
        /\ UNCHANGED <<consumed, anchor, pkg, overlapped>>
    OBVIOUS
  <2>2. entries' \in [Accept -> Seq(Package)]
    <3>1. [entries EXCEPT ![c] = <<>>] \in [Accept -> Seq(Package)]
      BY Cleared
    <3>2. entries \in [Accept -> Seq(Package)]
      BY DEF ConsumerType
    <3> QED
      BY <2>1, <3>1, <3>2, Zenon
  <2>3. st' \in [Accept -> Memory]
    BY <1>0, <2>1, FreshFacts DEF ConsumerType
  <2> QED
    BY <2>1, <2>2, <2>3 DEF ConsumerType
<1>2. CheckedInv'
  <2>1. ASSUME NEW d \in Accept \ {c} PROVE cpc'[d] = cpc[d] /\ st'[d] = st[d] /\ entries'[d] = entries[d]
    BY DEF ConsumerType
  <2>2. cpc'[c] = "checked" =>
          /\ st'[c] = [consumed |-> consumed, anchor |-> anchor] /\ entries'[c] = entries[c]
          /\ Latest(c) /\ Extends(c) /\ FirstUse(c)
    BY DEF ConsumerType
  <2> QED
    BY <2>1, <2>2 DEF CheckedInv, Latest, Extends, FirstUse
<1>3. AloneInv'
  BY DEF ConsumerType, AloneInv, InProgress
<1>4. AcceptedInv'
  BY DEF ConsumerType, AcceptedInv
<1> QED
  BY <1>1, <1>2, <1>3, <1>4

LEMMA WriteStateStep == ASSUME ConsumerInv, NEW c \in Accept, WriteState(c) PROVE ConsumerInv'
<1> USE DEF ConsumerInv, WriteState, Goto, Exit
<1>0. /\ st[c].consumed \in Seq(Package) /\ st[c].anchor \in Seq(Package) /\ entries[c] \in Seq(Package) /\ pkg[c] \in Package
  BY DEF ConsumerType, Memory
<1>1. ConsumerType'
  <2>1. Append(st[c].consumed, pkg[c]) \in Seq(Package)
    BY <1>0, MembersAppend
  <2>2. entries' \in [Accept -> Seq(Package)] /\ st' \in [Accept -> Memory]
    BY Cleared
  <2>3. consumed' \in Seq(Package) /\ anchor' \in Seq(Package)
    BY <1>0, <2>1 DEF ConsumerType, NewState
  <2> QED
    BY <2>2, <2>3 DEF ConsumerType
<1>2. Ordered(consumed, anchor)'
  <2>1. Ordered(Append(st[c].consumed, pkg[c]), entries[c])
    BY <1>0, OrderedGrows DEF CheckedInv, Latest
  <2> QED
    BY <2>1 DEF NewState
<1>3. AloneInv'
  BY DEF ConsumerType, AloneInv, InProgress
<1>4. CheckedInv'
  <2> SUFFICES ASSUME NEW d \in Accept, cpc'[d] = "checked"
               PROVE  /\ Ordered(st'[d].consumed, st'[d].anchor) /\ IsPrefixOf(st'[d].anchor, entries'[d])
                      /\ Latest(d)' /\ pkg'[d] \notin Members(st'[d].consumed)
                      /\ ~overlapped' => st'[d].consumed = consumed' /\ st'[d].anchor = anchor'
    BY DEF CheckedInv
  <2>1. d # c /\ cpc[d] = "checked" /\ st'[d] = st[d] /\ entries'[d] = entries[d]
    BY DEF ConsumerType
  <2>2. overlapped
    BY <2>1 DEF AloneInv, InProgress
  <2> QED
    BY <2>1, <2>2 DEF CheckedInv, Latest
<1>5. AcceptedInv'
  <2> SUFFICES ASSUME ~overlapped PROVE AcceptedInv'
    BY DEF AcceptedInv
  <2>1. st[c].consumed = consumed /\ pkg[c] \notin Members(consumed)
    BY DEF CheckedInv
  <2>2. CASE NewState(c)
    <3>1. consumed' = Append(consumed, pkg[c])
      BY <2>1, <2>2 DEF NewState
    <3>2. Members(consumed') = Members(consumed) \cup {pkg[c]}
      BY <1>0, <3>1, MembersAppend DEF ConsumerType
    <3>3. \A d \in Accept : cpc'[d] = "accepted" => cpc[d] = "accepted" \/ d = c
      BY DEF ConsumerType
    <3> QED
      BY <2>1, <3>2, <3>3 DEF AcceptedInv
  <2>3. CASE UNCHANGED <<consumed, anchor>> /\ Exit(c, "could not look")
    <3>1. \A d \in Accept : cpc'[d] = "accepted" => cpc[d] = "accepted"
      BY <2>3 DEF ConsumerType
    <3> QED
      BY <2>3, <3>1 DEF AcceptedInv
  <2> QED
    BY <2>2, <2>3
<1> QED
  BY <1>1, <1>2, <1>3, <1>4, <1>5

LEMMA CrashStep == ASSUME ConsumerInv, NEW c \in Accept, Crash(c) PROVE ConsumerInv'
<1> USE DEF ConsumerInv, Crash, Goto, Exit
<1>1. ConsumerType'
  BY Empty, FreshFacts DEF ConsumerType
<1>2. CheckedInv'
  BY DEF ConsumerType, CheckedInv, Latest
<1>3. AloneInv'
  BY DEF ConsumerType, AloneInv, InProgress
<1>4. AcceptedInv'
  BY DEF ConsumerType, AcceptedInv
<1> QED
  BY <1>1, <1>2, <1>3, <1>4

LEMMA ConsumerNextStep == ConsumerInv /\ [Next]_vars => ConsumerInv'
<1> SUFFICES ASSUME ConsumerInv, [Next]_vars PROVE ConsumerInv'
  OBVIOUS
<1>1. CASE UNCHANGED vars
  BY <1>1 DEF vars, ConsumerInv, ConsumerType, CheckedInv, AloneInv, AcceptedInv, Latest, InProgress
<1> QED
  BY <1>1, ReadStep, CheckStep, WriteStateStep, CrashStep DEF Next

(* Appends and pulls do nothing to a consumer but what module Consumer     *)
(* has.                                                                    *)
LEMMA ComposedStep == [FreshNext]_freshVars => [Next]_vars
<1> SUFFICES ASSUME FreshNext PROVE [Next]_vars
  BY DEF freshVars, vars
<1>1. CASE Witnessing
  BY <1>1 DEF Witnessing
<1>2. ASSUME NEW c \in Accept, Pull(c) \/ Accepting(c) PROVE Next
  BY <1>2 DEF Pull, Accepting, Next
<1> QED
  BY <1>1, <1>2 DEF FreshNext

LEMMA ConsumerInvariance == FreshSpec => []ConsumerInv
<1>1. FreshInit => ConsumerInv
  BY InitConsumer DEF FreshInit
<1> QED
  BY <1>1, ConsumerNextStep, ComposedStep, PTL DEF FreshSpec

(* "Act once" for any numbers of accepts and packages: as long as runs     *)
(* follow one another no package is accepted twice, whatever logs are read *)
(* and wherever a run dies (consumer.py 124).                              *)
THEOREM ActsAtMostOnce == FreshSpec => []ActsOnce
<1>1. ConsumerInv => ActsOnce
  BY DEF ConsumerInv, AcceptedInv, ActsOnce
<1> QED
  BY <1>1, ConsumerInvariance, PTL

(* What was acted on was acted on in the order of the log that is kept     *)
(* with it, also when runs overlap.                                        *)
THEOREM ActsInOrder == FreshSpec => []ActedInWitnessOrder
<1>1. ConsumerInv => ActedInWitnessOrder
  BY DEF ConsumerInv, Ordered, ActedInWitnessOrder
<1> QED
  BY <1>1, ConsumerInvariance, PTL

(* "Never go backwards": the log that is kept is only extended, as long as *)
(* runs follow one another.                                                *)
THEOREM AnchorGrows == FreshSpec => NeverBackwards
<1>1. ConsumerInv /\ [FreshNext]_freshVars => [~overlapped' => IsPrefixOf(anchor, anchor')]_vars
  <2> SUFFICES ASSUME ConsumerInv, Next, ~overlapped' PROVE IsPrefixOf(anchor, anchor')
    BY ComposedStep
  <2>1. IsPrefixOf(anchor, anchor)
    BY PrefixOrder DEF ConsumerInv, ConsumerType
  <2>2. ASSUME NEW c \in Accept, WriteState(c) PROVE IsPrefixOf(anchor, anchor')
    BY <2>1, <2>2 DEF WriteState, NewState, ConsumerInv, CheckedInv
  <2>3. ASSUME NEW c \in Accept, ReadWitnessLog(c) \/ Check(c) \/ Crash(c) PROVE IsPrefixOf(anchor, anchor')
    BY <2>1, <2>3 DEF ReadWitnessLog, Check, Crash
  <2> QED
    BY <2>2, <2>3 DEF Next
<1> QED
  BY <1>1, ConsumerInvariance, PTL DEF FreshSpec, NeverBackwards

(* The witness, and what is pulled of it.                                  *)
LEMMA Line ==
  ASSUME WitnessType, NEW a \in Append1, NEW e \in BOOLEAN
  PROVE  LET line == [seq |-> Len(saw[a]) + 1, digest |-> given[a], ended |-> e]
         IN  /\ line \in Lines
             /\ Append(log, line) \in Seq(Lines) /\ Len(Append(log, line)) = Len(log) + 1
             /\ DOMAIN log = 1..Len(log) /\ DOMAIN Append(log, line) = 1..(Len(log) + 1) /\ Len(log) \in Nat
             /\ \A i \in 1..Len(log) : Append(log, line)[i] = log[i]
             /\ Append(log, line)[Len(log) + 1] = line
<1> DEFINE line == [seq |-> Len(saw[a]) + 1, digest |-> given[a], ended |-> e]
<1>1. log \in Seq(Lines) /\ line \in Lines
  BY DEF WitnessType, Lines
<1> HIDE DEF line
<1>2. /\ Append(log, line) \in Seq(Lines) /\ Len(Append(log, line)) = Len(log) + 1
      /\ \A i \in 1..Len(log) : Append(log, line)[i] = log[i]
      /\ Append(log, line)[Len(log) + 1] = line
  BY <1>1, AppendProperties
<1>3. DOMAIN log = 1..Len(log) /\ DOMAIN Append(log, line) = 1..(Len(log) + 1) /\ Len(log) \in Nat
  BY <1>1, <1>2
<1> QED
  BY <1>1, <1>2, <1>3 DEF line

LEMMA ClearedSaw ==
  ASSUME WitnessType, NEW a \in Append1
  PROVE  [saw EXCEPT ![a] = <<>>] \in [Append1 -> Seq(Lines)]
<1> DEFINE none == <<>>
<1>1. none \in Seq(Lines)
  BY Empty
<1> HIDE DEF none
<1>2. [saw EXCEPT ![a] = none] \in [Append1 -> Seq(Lines)]
  BY <1>1 DEF WitnessType
<1> QED
  BY <1>2 DEF none

LEMMA InitWitness == W!WitnessInit => WitnessInv
<1> SUFFICES ASSUME W!WitnessInit PROVE WitnessInv
  OBVIOUS
<1>1. WitnessType
  BY Empty DEF W!WitnessInit, WitnessType
<1>2. LogInv
  BY DEF W!WitnessInit, LogInv, W!UnderWay, NoneDied
<1> QED
  BY <1>1, <1>2 DEF WitnessInv

LEMMA LookStep == ASSUME WitnessInv, NEW a \in Append1, W!Look(a) PROVE WitnessInv'
<1> USE DEF WitnessInv, W!Look, W!Exit, W!Meets
<1>1. WitnessType'
  <2>1. saw' \in {saw, [saw EXCEPT ![a] = <<>>], [saw EXCEPT ![a] = log]}
    OBVIOUS
  <2>2. saw' \in [Append1 -> Seq(Lines)]
    BY <2>1, ClearedSaw DEF WitnessType
  <2>3. /\ UNCHANGED <<file, log, given>> /\ met' \in BOOLEAN
        /\ \E l \in {"creating", "refused", "appending", "unusable"} : wpc' = [wpc EXCEPT ![a] = l]
    BY DEF WitnessType
  <2> QED
    BY <2>2, <2>3 DEF WitnessType
<1>2. LogInv'
  <2> SUFFICES ASSUME ~met' PROVE LogInv'
    BY DEF LogInv
  <2>1. ~met /\ W!UnderWay = {} /\ UNCHANGED <<file, log, given>>
    BY DEF WitnessType
  <2>2. \A b \in Append1 \ {a} : wpc'[b] = wpc[b] /\ saw'[b] = saw[b] /\ wpc[b] \notin {"creating", "appending"}
    BY <2>1 DEF WitnessType, W!UnderWay
  <2>3. wpc[a] = "start" /\ wpc \in [Append1 -> {"start", "creating", "appending", "refused", "unusable", "witnessed", "crashed"}]
    BY DEF WitnessType
  <2>4. \/ wpc'[a] = "creating" /\ file = "none" /\ saw'[a] = saw[a]
        \/ wpc'[a] = "appending" /\ W!Readable /\ saw'[a] = log /\ given[a] \notin W!Digests(log)
        \/ wpc'[a] \in {"refused", "unusable"}
    BY DEF WitnessType
  <2>5. W!Readable' = W!Readable /\ (W!Readable => file = "log")
    BY <2>1 DEF W!Readable
  <2>6. NoneDied' => NoneDied
    BY <2>2, <2>3 DEF NoneDied
  <2>7. \A b, d \in W!UnderWay' : b = d
    BY <2>2 DEF W!UnderWay
  <2> QED
    BY <2>1, <2>2, <2>3, <2>4, <2>5, <2>6, <2>7 DEF LogInv
<1> QED
  BY <1>1, <1>2

LEMMA CreateStep == ASSUME WitnessInv, NEW a \in Append1, W!Create(a) PROVE WitnessInv'
<1> USE DEF WitnessInv, W!Create
<1>1. WitnessType'
  BY Empty DEF WitnessType
<1>2. LogInv'
  <2> SUFFICES ASSUME ~met PROVE LogInv'
    BY DEF LogInv
  <2>1. /\ wpc[a] = "creating" /\ file = "none" /\ saw[a] = <<>>
        /\ wpc' = [wpc EXCEPT ![a] = "appending"] /\ UNCHANGED <<given, saw, met>> /\ file' = "log" /\ log' = <<>>
    BY DEF LogInv
  <2>2. \A b \in Append1 \ {a} : wpc'[b] = wpc[b] /\ wpc[b] \notin {"creating", "appending", "witnessed"}
    BY <2>1 DEF WitnessType, LogInv, W!UnderWay
  <2>3. W!Readable' /\ given[a] \notin W!Digests(log')
    BY <2>1, Empty DEF W!Readable, W!Canonical, W!Digests
  <2>4. \A b, d \in W!UnderWay' : b = d
    BY <2>2 DEF W!UnderWay
  <2>5. wpc'[a] = "appending"
    BY <2>1 DEF WitnessType
  <2>6. \A b \in Append1 : wpc'[b] \in {"start", "creating"} => saw'[b] = <<>>
    BY <2>1, <2>2, <2>5 DEF LogInv
  <2> QED
    BY <2>1, <2>2, <2>3, <2>4, <2>5, <2>6 DEF LogInv
<1> QED
  BY <1>1, <1>2

(* The line goes behind the log it was read from.                          *)
LEMMA AppendedLog ==
  ASSUME WitnessInv, ~met, NEW a \in Append1, W!AppendLine(a)
  PROVE  /\ W!Readable /\ W!Readable' /\ file' = "log"
         /\ log' \in Seq(Lines) /\ Len(log') = Len(log) + 1 /\ Len(log) \in Nat
         /\ DOMAIN log = 1..Len(log) /\ DOMAIN log' = 1..(Len(log) + 1)
         /\ \A i \in 1..Len(log) : log'[i] = log[i]
         /\ log'[Len(log) + 1].digest = given[a] /\ log'[Len(log) + 1].seq = Len(log) + 1
<1> DEFINE line == [seq |-> Len(saw[a]) + 1, digest |-> given[a], ended |-> TRUE]
<1>1. WitnessType /\ W!Readable /\ saw[a] = log /\ given[a] \notin W!Digests(log) /\ file' = file /\ log' = Append(log, line)
  BY DEF WitnessInv, LogInv, W!AppendLine
<1>2. line.seq = Len(log) + 1 /\ line.digest = given[a] /\ line.ended
  BY <1>1
<1>3. /\ log' \in Seq(Lines) /\ Len(log') = Len(log) + 1 /\ Len(log) \in Nat
      /\ DOMAIN log = 1..Len(log) /\ DOMAIN log' = 1..(Len(log) + 1)
      /\ \A i \in 1..Len(log) : log'[i] = log[i]
      /\ log'[Len(log) + 1] = line
  BY <1>1, Line
<1> HIDE DEF line
<1>4. file = "log" /\ W!Canonical(log)
  BY <1>1 DEF W!Readable
<1>5. \A i \in DOMAIN log' : i \in DOMAIN log \/ i = Len(log) + 1
  BY <1>3
<1>6. \A i \in DOMAIN log' : log'[i].seq = i /\ log'[i].ended
  BY <1>2, <1>3, <1>4, <1>5 DEF W!Canonical
<1>7. \A i \in DOMAIN log : log'[i].digest = log[i].digest /\ log[i].digest # given[a]
  BY <1>1, <1>3 DEF W!Digests
<1>8. \A i, j \in DOMAIN log' : log'[i].digest = log'[j].digest => i = j
  BY <1>2, <1>3, <1>4, <1>5, <1>7 DEF W!Canonical
<1>9. W!Readable'
  BY <1>1, <1>4, <1>6, <1>8 DEF W!Readable, W!Canonical
<1> QED
  BY <1>1, <1>2, <1>3, <1>4, <1>9

LEMMA AppendLineStep == ASSUME WitnessInv, NEW a \in Append1, W!AppendLine(a) PROVE WitnessInv'
<1> USE DEF WitnessInv
<1>1. WitnessType'
  <2>1. log' \in Seq(Lines) /\ saw' \in [Append1 -> Seq(Lines)]
    BY Line, ClearedSaw DEF W!AppendLine, W!Exit
  <2> QED
    BY <2>1 DEF WitnessType, W!AppendLine, W!Exit
<1>2. LogInv'
  <2> SUFFICES ASSUME ~met PROVE LogInv'
    BY DEF LogInv, W!AppendLine
  <2>1. /\ wpc[a] = "appending" /\ wpc' = [wpc EXCEPT ![a] = "witnessed"] /\ UNCHANGED <<given, met>>
        /\ \A b \in Append1 \ {a} : saw'[b] = saw[b]
    BY DEF W!AppendLine, W!Exit, WitnessType
  <2>2. \A b \in Append1 \ {a} : wpc'[b] = wpc[b] /\ wpc[b] \notin {"creating", "appending"}
    BY <2>1 DEF WitnessType, LogInv, W!UnderWay
  <2>3. wpc'[a] = "witnessed"
    BY <2>1 DEF WitnessType
  <2>4. \A b, d \in W!UnderWay' : b = d
    BY <2>2, <2>3 DEF W!UnderWay
  <2>5. \A b \in Append1 : wpc'[b] = "witnessed" => \E i \in DOMAIN log' : log'[i].digest = given'[b] /\ log'[i].seq = i
    <3>1. \E i \in DOMAIN log' : log'[i].digest = given[a] /\ log'[i].seq = i
      BY AppendedLog
    <3>2. \A b \in Append1 \ {a} : wpc[b] = "witnessed" => \E i \in DOMAIN log' : log'[i].digest = given[b] /\ log'[i].seq = i
      BY AppendedLog DEF LogInv
    <3> QED
      BY <2>1, <2>2, <3>1, <3>2
  <2> QED
    BY <2>1, <2>2, <2>3, <2>4, <2>5, AppendedLog DEF LogInv
<1> QED
  BY <1>1, <1>2

LEMMA WitnessCrashStep == ASSUME WitnessInv, NEW a \in Append1, W!WitnessCrash(a) PROVE WitnessInv'
<1> USE DEF WitnessInv
<1>1. WitnessType'
  <2>1. log' \in Seq(Lines) /\ saw' \in [Append1 -> Seq(Lines)]
    BY Line, Empty, ClearedSaw DEF W!WitnessCrash, W!Exit, WitnessType
  <2> QED
    BY <2>1 DEF WitnessType, W!WitnessCrash, W!Exit
<1>2. LogInv'
  <2> SUFFICES ASSUME ~met PROVE LogInv'
    BY DEF LogInv, W!WitnessCrash
  <2>1. /\ wpc[a] \in {"creating", "appending"} /\ wpc' = [wpc EXCEPT ![a] = "crashed"] /\ UNCHANGED <<given, met>>
        /\ \A b \in Append1 \ {a} : saw'[b] = saw[b]
    BY DEF W!WitnessCrash, W!Exit, WitnessType
  <2>2. \A b \in Append1 \ {a} : wpc'[b] = wpc[b] /\ wpc[b] \notin {"creating", "appending"}
    BY <2>1 DEF WitnessType, LogInv, W!UnderWay
  <2>3. wpc'[a] = "crashed" /\ ~NoneDied'
    BY <2>1 DEF WitnessType, NoneDied
  <2>4. \A b, d \in W!UnderWay' : b = d
    BY <2>2, <2>3 DEF W!UnderWay
  <2>5. file' = "none" => file = "none" /\ log' = <<>>
    BY <2>1 DEF W!WitnessCrash, LogInv, W!Readable
  <2>6. \A b \in Append1 \ {a} : wpc[b] = "witnessed" => \E i \in DOMAIN log' : log'[i].digest = given[b] /\ log'[i].seq = i
    <3>1. CASE log' = log
      BY <3>1 DEF LogInv
    <3>2. CASE file = "none"
      BY <3>2 DEF LogInv
    <3>3. CASE wpc[a] = "appending" /\ log' # log
      <4>1. PICK whole \in BOOLEAN : log' = Append(log, [seq |-> Len(saw[a]) + 1, digest |-> given[a], ended |-> whole])
        BY <3>3 DEF W!WitnessCrash
      <4>2. DOMAIN log \subseteq DOMAIN log' /\ \A i \in DOMAIN log : log'[i] = log[i]
        BY <4>1, Line
      <4> QED
        BY <4>2 DEF LogInv
    <3> QED
      BY <2>1, <3>1, <3>2, <3>3 DEF LogInv
  <2> QED
    BY <2>1, <2>2, <2>3, <2>4, <2>5, <2>6 DEF LogInv
<1> QED
  BY <1>1, <1>2

LEMMA WitnessNextStep == WitnessInv /\ [FreshNext]_freshVars => WitnessInv'
<1> SUFFICES ASSUME WitnessInv, [FreshNext]_freshVars PROVE WitnessInv'
  OBVIOUS
<1>1. CASE UNCHANGED <<file, log, given, wpc, saw, met>>
  BY <1>1 DEF WitnessInv, WitnessType, LogInv, NoneDied, W!UnderWay, W!Readable, W!Canonical, W!Digests
<1>2. ASSUME NEW a \in Append1, W!WitnessStep(a) PROVE WitnessInv'
  BY <1>2, LookStep, CreateStep, AppendLineStep, WitnessCrashStep DEF W!WitnessStep
<1>3. CASE Witnessing
  BY <1>2, <1>3 DEF Witnessing
<1>4. ASSUME NEW c \in Accept, Pull(c) \/ Accepting(c) PROVE WitnessInv'
  BY <1>1, <1>4 DEF Pull, Accepting
<1> QED
  BY <1>1, <1>3, <1>4 DEF FreshNext, freshVars

LEMMA WitnessInvariance == FreshSpec => []WitnessInv
<1>1. FreshInit => WitnessInv
  BY InitWitness DEF FreshInit
<1> QED
  BY <1>1, WitnessNextStep, PTL DEF FreshSpec

(* As long as appends follow one another, for any number of them: what an  *)
(* appender called witnessed is in the log, at its number, and the log can *)
(* be read unless an appender died (witness.py 62, read_witness_log).      *)
THEOREM WitnessedIsKept == FreshSpec => []WitnessedStays
<1>1. WitnessInv => WitnessedStays
  BY DEF WitnessInv, LogInv, NoneDied, WitnessedStays, W!WitnessedStays
<1> QED
  BY <1>1, WitnessInvariance, PTL

LEMMA EntriesFacts ==
  ASSUME WitnessType
  PROVE  /\ Entries \in Seq(Package)
         /\ W!Readable => Len(Entries) = Len(log) /\ \A i \in 1..Len(log) : Entries[i] = log[i].digest
         /\ ~W!Readable => Entries = <<>>
<1>1. DOMAIN log = 1..Len(log) /\ Len(log) \in Nat /\ \A i \in 1..Len(log) : log[i].digest \in Package
  <2>1. log \in Seq(Lines) /\ \A l \in Lines : l.digest \in Package
    BY DEF WitnessType, Lines
  <2> HIDE DEF Lines
  <2> QED
    BY <2>1
<1> DEFINE ds == [i \in 1..Len(log) |-> log[i].digest]
<1>2. ds \in Seq(Package) /\ Len(ds) = Len(log) /\ \A i \in 1..Len(log) : ds[i] = log[i].digest
  BY <1>1
<1>3. Entries = IF W!Readable THEN ds ELSE <<>>
  BY <1>1 DEF Entries
<1> HIDE DEF ds
<1> QED
  BY <1>2, <1>3, Empty

LEMMA EntriesType == WitnessType => Entries \in Seq(Package)
BY EntriesFacts

LEMMA EntriesTypeNext == WitnessType' => Entries' \in Seq(Package)
<1> SUFFICES ASSUME WitnessType' PROVE Entries' \in Seq(Package)
  OBVIOUS
<1>1. DOMAIN log' = 1..Len(log') /\ Len(log') \in Nat /\ \A i \in 1..Len(log') : log'[i].digest \in Package
  <2>1. log' \in Seq(Lines) /\ \A l \in Lines : l.digest \in Package
    BY DEF WitnessType, Lines
  <2> HIDE DEF Lines
  <2> QED
    BY <2>1
<1>2. [i \in 1..Len(log') |-> log'[i].digest] \in Seq(Package)
  BY <1>1
<1>3. Entries' = IF W!Readable' THEN [i \in 1..Len(log') |-> log'[i].digest] ELSE <<>>
  BY <1>1 DEF Entries
<1> QED
  BY <1>2, <1>3, Empty

(* What can be read is only added to, unless an appender died.             *)
LEMMA EntriesGrow ==
  ASSUME WitnessInv, WitnessInv', NEW a \in Append1, W!WitnessStep(a), ~met', NoneDied'
  PROVE  IsPrefixOf(Entries, Entries')
<1> USE DEF WitnessInv
<1>0. WitnessType /\ WitnessType' /\ Entries \in Seq(Package) /\ Entries' \in Seq(Package)
  BY EntriesType, EntriesTypeNext
<1>1. CASE W!Look(a)
  <2>1. Entries' = Entries
    BY <1>1 DEF W!Look, Entries, W!Readable, W!Canonical
  <2> QED
    BY <1>0, <2>1, PrefixOrder
<1>2. CASE W!Create(a)
  <2>1. file = "none" /\ ~met
    BY <1>2 DEF W!Create, LogInv
  <2>2. Entries = <<>>
    BY <2>1 DEF Entries, W!Readable
  <2>3. Len(Entries) = 0 /\ Len(Entries') \in Nat
    BY <1>0, <2>2
  <2>4. Len(Entries) <= Len(Entries') /\ \A i \in 1..Len(Entries) : Entries[i] = Entries'[i]
    BY <2>3
  <2> QED
    BY <1>0, <2>4, PrefixFacts
<1>3. CASE W!AppendLine(a)
  <2>1. ~met
    BY <1>3 DEF W!AppendLine
  <2>2. Len(Entries) = Len(log) /\ \A i \in 1..Len(log) : Entries[i] = log[i].digest
    BY <1>0, <1>3, <2>1, AppendedLog, EntriesFacts
  <2>3. Entries' = [i \in DOMAIN log' |-> log'[i].digest]
    BY <1>3, <2>1, AppendedLog DEF Entries
  <2>4. Len(Entries') = Len(log) + 1 /\ \A i \in 1..Len(log) : Entries'[i] = log[i].digest
    BY <1>3, <2>1, <2>3, AppendedLog
  <2>5. Len(Entries) <= Len(Entries') /\ \A i \in 1..Len(Entries) : Entries[i] = Entries'[i]
    BY <1>0, <2>2, <2>4
  <2> QED
    BY <1>0, <2>5, PrefixFacts
<1>4. CASE W!WitnessCrash(a)
  BY <1>4 DEF W!WitnessCrash, W!Exit, WitnessType, NoneDied
<1> QED
  BY <1>1, <1>2, <1>3, <1>4 DEF W!WitnessStep

LEMMA OrderlyBefore ==
  ASSUME WitnessType, ConsumerType, FaithfulType, [FreshNext]_freshVars, Orderly'
  PROVE  Orderly
<1> USE DEF FaithfulType
<1>1. CASE UNCHANGED freshVars
  BY <1>1 DEF freshVars, vars, Orderly, NoneDied
<1>2. CASE Witnessing
  <2>1. PICK a \in Append1 : W!WitnessStep(a)
    BY <1>2 DEF Witnessing
  <2>2. (~met' => ~met) /\ \A b \in Append1 : wpc[b] = "crashed" => wpc'[b] = "crashed"
    BY <2>1 DEF W!WitnessStep, W!Look, W!Create, W!AppendLine, W!WitnessCrash, W!Exit, W!Meets, WitnessType
  <2> QED
    BY <1>2, <2>2 DEF Witnessing, vars, Orderly, NoneDied
<1>3. ASSUME NEW c \in Accept, Pull(c) \/ Accepting(c) PROVE Orderly
  <2>1. (faithful' => faithful) /\ (~overlapped' => ~overlapped) /\ UNCHANGED <<wpc, met>>
    <3>1. CASE Pull(c)
      BY <3>1 DEF Pull, ReadWitnessLog, Meets, ConsumerType
    <3>2. CASE Accepting(c)
      <4>1. UNCHANGED <<faithful, overlapped, wpc, met>>
        BY <3>2 DEF Accepting, Check, WriteState, Crash
      <4> QED
        BY <4>1, Zenon
    <3> QED
      BY <1>3, <3>1, <3>2
  <2> QED
    BY <2>1 DEF Orderly, NoneDied
<1> QED
  BY <1>1, <1>2, <1>3 DEF FreshNext

LEMMA PulledStep ==
  ASSUME ConsumerInv, WitnessInv, WitnessInv', PulledInv, FaithfulType, [FreshNext]_freshVars
  PROVE  PulledInv' /\ FaithfulType'
<1> USE DEF ConsumerInv, WitnessInv, FaithfulType
<1>1. FaithfulType'
  <2>1. faithful' = faithful \/ \E c \in Accept : faithful' = (faithful /\ IsPrefixOf(entries'[c], Entries))
    BY DEF FreshNext, Witnessing, Pull, Accepting, freshVars
  <2> QED
    BY <2>1
<1>2. ASSUME Orderly' PROVE IsPrefixOf(anchor', Entries') /\ \A c \in InProgress' : IsPrefixOf(entries'[c], Entries')
  <2>1. Orderly /\ IsPrefixOf(anchor, Entries) /\ \A c \in InProgress : IsPrefixOf(entries[c], Entries)
    BY <1>2, OrderlyBefore DEF PulledInv
  <2>2. CASE UNCHANGED freshVars
    BY <2>1, <2>2 DEF freshVars, vars, InProgress, Entries, W!Readable, W!Canonical
  <2>3. CASE Witnessing
    <3>1. PICK a \in Append1 : W!WitnessStep(a)
      BY <2>3 DEF Witnessing
    <3>2. IsPrefixOf(Entries, Entries')
      BY <1>2, <3>1, EntriesGrow DEF Orderly
    <3>3. Entries \in Seq(Package) /\ Entries' \in Seq(Package)
      BY EntriesType, EntriesTypeNext
    <3>4. InProgress' = {} /\ anchor' = anchor /\ anchor \in Seq(Package)
      BY <2>3 DEF Witnessing, vars, InProgress, ConsumerType
    <3> QED
      BY <2>1, <3>2, <3>3, <3>4, PrefixOrder
  <2>4. ASSUME NEW c \in Accept, Pull(c)
        PROVE  IsPrefixOf(anchor', Entries') /\ \A d \in InProgress' : IsPrefixOf(entries'[d], Entries')
    <3>1. Entries' = Entries /\ anchor' = anchor
      BY <2>4 DEF Pull, ReadWitnessLog, Entries, W!Readable, W!Canonical
    <3>2. IsPrefixOf(entries'[c], Entries)
      BY <1>2, <2>4 DEF Pull, Orderly
    <3>3. \A d \in InProgress' : d # c => d \in InProgress /\ entries'[d] = entries[d]
      BY <2>4 DEF Pull, ReadWitnessLog, Goto, InProgress, ConsumerType
    <3> QED
      BY <2>1, <3>1, <3>2, <3>3
  <2>5. ASSUME NEW c \in Accept, Accepting(c)
        PROVE  IsPrefixOf(anchor', Entries') /\ \A d \in InProgress' : IsPrefixOf(entries'[d], Entries')
    <3>1. Entries' = Entries
      BY <2>5 DEF Accepting, Entries, W!Readable, W!Canonical
    <3>2. anchor' = anchor \/ (c \in InProgress /\ anchor' = entries[c])
      BY <2>5 DEF Accepting, Check, WriteState, NewState, Crash, InProgress
    <3>3. \A d \in InProgress' : d \in InProgress /\ entries'[d] = entries[d]
      BY <2>5 DEF Accepting, Check, WriteState, Crash, Exit, Goto, Load, InProgress, ConsumerType
    <3> QED
      BY <2>1, <3>1, <3>2, <3>3
  <2> QED
    BY <2>2, <2>3, <2>4, <2>5 DEF FreshNext
<1> QED
  BY <1>1, <1>2 DEF PulledInv

LEMMA FreshInvariance == FreshSpec => []IInv
<1>1. FreshInit => PulledInv /\ FaithfulType
  <2> SUFFICES ASSUME FreshInit PROVE PulledInv /\ FaithfulType
    OBVIOUS
  <2>1. anchor = <<>> /\ InProgress = {} /\ Entries = <<>>
    BY DEF FreshInit, Init, W!WitnessInit, InProgress, Entries, W!Readable
  <2>2. IsPrefixOf(anchor, Entries)
    BY <2>1, Empty, PrefixOrder
  <2> QED
    BY <2>1, <2>2 DEF PulledInv, FreshInit, FaithfulType
<1>2. ConsumerInv /\ WitnessInv /\ WitnessInv' /\ PulledInv /\ FaithfulType /\ [FreshNext]_freshVars
        => PulledInv' /\ FaithfulType'
  BY PulledStep
<1> QED
  BY <1>1, <1>2, ConsumerInvariance, WitnessInvariance, PTL DEF FreshSpec, IInv

(* A consumer that was only shown the log, or a part of its beginning, is  *)
(* never left with a log that the witness's does not extend (consumer.py   *)
(* 151 would refuse every later package as a rollback).                    *)
THEOREM HonestMirrorKeepsUp == FreshSpec => []NeverCutOff
<1>1. IInv => NeverCutOff
  BY DEF IInv, PulledInv, Orderly, NoneDied, NeverCutOff
<1> QED
  BY <1>1, FreshInvariance, PTL
===============================================================================
