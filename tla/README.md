# sovereign-veritas: TLA+ models

Specifications of the evidence kernel in `sovereign_veritas/`, of the tools that keep state beside it
(`tools/obs1_*.py`, `tools/consumer.py`, `tools/witness.py`), of the programs that make and check evidence packages,
of the gate's ports, and of the two flight experiments whose rules are code. They are model-checked with TLC; for the
reservation store, the anchored ledger, the workflow and its observer, the gate and its replay, the packages and their
verifier, the planner, OBS-1, the witness log and the consumer, and the corridor there are proofs checked by TLAPS. Line numbers below and in `PROJECT.json` are those of the repository's files.

## 1. The system

An agent's action goes through one path: `EvidenceWorkflow.run()` senses, predicts, verifies, asks the gate for
ALLOW, DEFER or REFUSE, executes on ALLOW and records the evidence. Around that path stand stores that must agree
with what happened outside. Nothing is transactional: the effect is in the world, its record in a ledger, its key
in a reservation store, and a process can die between any two of them. What has been decided is then shown to others
as a package, which a verifier checks without trusting its maker, a witness orders and a consumer acts on once.

| component | state it keeps | operations | talks to |
|---|---|---|---|
| gate (`decision.py`, `runtime.py`, `verification.py`) | none | `evaluate` | called by the workflow; written again by the verifier, by three ports and as a specification |
| evidence workflow (`workflow.py`) | none between runs; per run the frozen action, the verdict, the holder token | `run` | sensor, verifier, gate, reservation store, executor, sink |
| effect observation (`effect_observation.py`) | two readings of the target | `check_observed_effect` | the target, the record of a run |
| reservation store (`idempotency.py`) | per key: entry, released histories, late events | `reserve`, `complete`, `unknown`, `release`, readers | workflow, OBS-1 system, a person |
| ledger (`evidence.py`, `file_ledger.py`, `anchored_file_ledger.py`) | hash chain in memory; JSONL file; anchor file; lock file | `append`, `contains`, open, reload | sink of the workflow and of the governor; several processes |
| capabilities (`capability.py`, `governance.py`) | name -> capability | `register`, `authorize`, `revoke`, recorded by the governor | planner, callers of the workflow |
| planner (`planner.py`) | the results so far | `preflight`, `run` | registry, workflow |
| verifier registry (`verifier_registry.py`) | probe counts and status per verifier | `register`, `record_probe` | workflow, package builder |
| OBS-1 (`obs1_system.py`, `obs1_store.py`, `obs1_run.py`, `obs1_compare.py`) | journal, reservation store; record, log, fences, a held write | `attempt`; `set_value`, `fence`, `read`; start and end of a case; the comparator's conclusions | each other, over a lossy call |
| package producers (`package.py`, `make_package.py`, `model_action.py`, `companion_action.py`, `vehicle_action.py`) | one document | a run: check, decide, act, write | gate, an executor, a file |
| package verifier (`verify_package.py`) | none | `verify`, `read_witness_log`, an exit code | producers' packages, consumer |
| witness log (`witness.py`) | a numbered list of package digests | `append` | read by the consumer and the verifier |
| consumer (`consumer.py`) | digests acted on, an anchor into the witness log | `accept` | copies of the witness log, package verifier |
| corridor challenge (`corridor_challenge.py`) and latch (`vehicle_action.py`) | the latch's two counters | one reading after another | an autopilot, an independent position |
| recovery admissibility (`recovery_admissibility.py`) | none | three policies on a snapshot and a message | vehicle check, gate |

The rest of the repository (probes, mutation and stress experiments, device measurements) is listed in
`PROJECT.json` with the reason it is not modelled.

What is hard here:

* **interleaving**: threads and processes share a key, a ledger file, a registry entry, a state file;
* **crashes and failing I/O** between a check and its write, between a ledger and its anchor, between an effect
  and its record, in the middle of a line;
* **lost and late calls**: an executor that raises after acting, a reply that is lost, a write that is held and
  lands later, a holder whose lease is over, a message that is replayed;
* **stale state**: a capability, a verifier's status, an anchor, a record list or a copy of a log read earlier and
  used later;
* **the same rule written several times** (gate, verifier, ports, producers), where they must agree on every odd
  value: NaN, truthy values, integers no double holds, absent fields;
* **documents anybody may edit and reseal**, where a check that looks at one part is satisfied by the rest.

What makes each component correct, in one sentence each: a *reservation* that was granted is always found in
exactly one place and an uncertain key stays refused until a person releases it; a *run's* effect is what was
decided, is never repeated under one key without a release, and its record neither claims nor denies wrongly; an
*observer* tells what happened and blames no honest record; an *accepted record* can always be read back and is
never accused of tampering; an *authorization* changes only with its record; a *plan* acts as a prefix, on
capabilities read at each step; an *OBS-1 intent* lands at most once and its comparator finds nothing to object to; a
*witness log* only grows; a *consumer* acts once, never goes back and is not cut off by its own memory; a *gate's*
decision can be replayed, by the verifier and in another language, and allows what the fail-closed specification
allows; a *package* nobody touched verifies, and one that verifies has earned the effect it shows; a *vehicle* stays
in the registered corridor and an honest one flies.

## 2. Modules

```
MemoryReservations  <--implements--  FileReservations <-- FileReservationsProofs
   ^ used by (INSTANCE)
   +-- Workflow <-- EffectObservation <-- WorkflowProofs
   +-- Obs1 <-- Obs1Compare <-- Obs1Proofs
Ledger  <--implements--  AnchoredLedger
AnchoredLedger, StoredLedger <-- LedgerProofs
Governance <-- Planner <-- PlannerProofs
Witness <--used by (INSTANCE)-- Freshness --> Consumer       Freshness <-- FreshnessProofs
Gate <-- GateConstraint
Gate, VehicleCheck <-- Package <-- PackageVerifier <-- VerifierBefore
GatePorts, VerifierBefore <-- PackageProofs
GateConstraint, PortJSON <-- GatePorts
VehicleCheck <-- Corridor, Recovery <-- MCCorridor <-- CorridorProofs
```

(arrows without a word: the module on the right EXTENDS the one the arrow comes from.) Each run has an `MC...`
module with what only TLC needs (symmetry, a process map, plans, requests). Alternatives that depend on more than one condition are IF chains or exclusive
cases: CASE with arms that overlap would be any of them, to the prover. Operators introduced by a comment
"Mutant:" are wrong versions of the definition that follows them. No specification uses them; each is there because
replacing the definition by it must make a named property fail (`PROJECT.json`, "mutants").

**MemoryReservations** is one key of the in-process store, one action per operation, and at the same time the
*contract* of a reservation store. Keys never interact, so one is enough. The random holder token is identified
with the attempt that gets it. Time is reduced to what the code asks: is the lease over? Since `time.time()` may
be set back, a lease that is over may be running again (`ClockMoves`). An entry has a `token`, what it says, and a
`holder`, whose it is, which no step reads: in memory they never part. Three things only a store on disk can show: the
claim of a caller that died before writing it (`Poison`), and, with `ReadErrors`, a move whose reads of the entry may
fail (`Readings`: the holder is then taken for a late one, or the entry loses its token) and a release that could not
read what it had found UNKNOWN (`Forget`). `Workflow` and `Obs1` use the contract with them.

**FileReservations** is the same key as `FileReservations` keeps it on disk: `entry` is the active file,
`Unreadable` a file that exists and does not parse, `archive` the released files, `lock` the flock of the key, `tail`
how the file of late events ends. A call is its sequence of file-system steps: claim with `O_EXCL`, write, token check,
second read and replace, late event, mark, rename. `_read()` swallows an `OSError`, so every read of a good file may
also give an entry that is in flight for ever, without token and history (`Readings`, `Unread`); a read that a write
follows is in the write's step, because the lock lets nobody in between. `Stop` and `StopRelease` are an I/O error or
the death of the process at any step; the kernel then drops the lock. `StopAppending` is the same in the middle of a
late event's line, to which the next event is glued. `DistinctStamps` says whether two releases of a key may get the
same `time_ns()`, `ReadErrors` whether reads of good files fail.

**Workflow** is `run()`, several at once, on the contract of the store. `proposal` is the caller's mutable action,
`frozen` the copy the gate decided on; `validation` is the verifier's status in the registry, which changes under
the runs; `effects` is the outside world. `CheckRecord` may miss a record that is there, because a sink in another
process answers from memory, and so does one in the same process while another thread's reload has emptied the
list (`anchored_file_ledger.py:182`). A store call may fail before or after it moved the key, a sink before or after
the record is in the ledger (`file_ledger.py:117-120` syncs after writing, `anchored_file_ledger.py:168-169` anchors
after appending), and a run may die anywhere: so a run that ended without its caller knowing of a record may have one.
**EffectObservation** puts around it the target and the executors of `tools/eo2_probe.py` (one that acts, one that
does nothing, one that does something else, one that raises after it acted) and the observer, which reads the target
before and after and compares. The probe's ten trials, its forged and blind observers and the weaker checkers it
compares (the record alone, the executor's receipt) are operators, and what was registered of them is part of
`ObserverTellsRight`.

**Ledger** is `evidence.py`'s chain as a contract: it grows by one record with a new id.
**AnchoredLedger** is the file: a line is an id, the chain it was written against and how its write ended. Opening
reads the anchor and then the file *without* the lock, as `__init__` does; appending locks, empties the shared
record list, reloads, compares with the anchor *this process loaded when it opened*, writes, anchors, returns.
`Tears` says in which ways an interrupted write may leave its line. **StoredLedger** is about reading back: workers
append to one plain file without a lock, as `concurrency.py` has them do, or one after the other to an anchored one,
fail, are killed, and afterwards the file is damaged in the ways `validation.py`, `durability.py`,
`physical_durability.py` and `fault_injection.py` damage it.

**Governance** is the registry and the governor: look at the registry, record the decision or the refusal, fetch,
store as steps of their own, so that calls overlap as threads do; the sink may raise before it has written or after.
Three history variables (who wrote an entry last, the limit registered last, and `met`, what each call met on its name
while it was under way) let the properties say exactly what the code promises and no more. **Planner** extends it: one
plan runs while the registry changes.

**Obs1** composes the OBS-1 system, its sandbox store, the fault layer and the harness, on the contract of the
store. Attempts are 1..`Attempts`, an attempt's number stands for its token, `log` is the store's event log.
Generalised beyond the harness's five cases: the permissions and the observation are chosen for each attempt
(the harness sets `PermissionSource` before each attempt but gives every attempt of a case the same write
permission), the reads of the reservation store may fail (`KeyReads`; a release that is refused ends the attempt), and
an attempt may die between any two calls or inside one of the store's, after which the next one begins. **Obs1Compare**
is the comparator: what it reads of log, record and reports, its classification, and its defect and false-report rules.

**Witness** and **Consumer** model runs of the two command-line tools over their files. Every run of the consumer
may be handed any log that `read_witness_log` accepts, so growth, rollback and rewrites are all there; the digest of
a prefix is modelled by the prefix. The checks that depend on the package alone may fail at any time. **Freshness**
composes them: what is pulled is a copy of the log, perhaps of some time ago (`faithful` remembers that it always
was), or whatever a mirror has made of it.

**Gate** evaluates rule by rule and compares with `Replay`, the verifier's own implementation, stated as "the
first refusing rule, else all reasons to defer, else ALLOW" on the record as JSON has it. Inputs differ in a bounded
number of places from one the gate allows; each field ranges over one value of each kind the programs tell apart
(for example: `authorized` is True, something truthy, or False). **GateConstraint** is the specification of
`gate_constraint.py`: of each axis the values that must be refused and those that must not get through.
**GatePorts** is the rules of the ports in Go, Rust and Python as lists in the order of their code, the vectors of
`gate_contract.py` with the gates that lack one rule, and the lattice of `gate_constraint.py` with its mutants of the
kernel, each of which its checks must tell from the gate; and **PortJSON**
what each makes of a JSON value and number: Python's truth, its `==` and its doubles, rebuilt from big rationals in
Go and from digits and bits in Rust.

**Package** is a run of one of five producers and the package it writes; **PackageVerifier** the checks and exit
codes of `verify_package.py`; **VerifierBefore** those of the file kept from before issue 5, with the vehicle's tool as it was; **VehicleCheck** the
producer's check of a flight. A document is one value of each kind the checks tell apart, a digest is right or not
(`stale`). A run starts as one that goes well and is varied in a few places (`RunKinds`: also options and readings that
`json.dumps` writes as `Infinity` or `NaN`, a chain of no rounds, a program's own keys); anybody may then edit the
package and reseal it (recompute its digests). `OddSnapshots` and `OddRequests` are values no tool writes and no vehicle
sends, which only an edit puts in.

**Corridor** is one episode of the challenge on the line through fence and target, tick by tick: the attacker chooses
any offset and error `check_move()` lets through (`Allowable`), the vehicle flies to where it believes to be, the latch
counts. A program that wants more, dies or does not answer ends its episode as out of model, which is no verdict on the
corridor. One that answers with an integer no double holds, or with lists nested without end, ends the harness itself
with a traceback (`Uncaught`), and so with the exit code that `corridor_challenge.py:24` gives the meaning BREAK.
**Recovery** is the 11 constructed cases and the policies P0, P1, P2 and the sabotaged P2.

## 3. Runs

Passing runs and why their bounds are enough to meet the interesting case:

| run | instance | shows |
|---|---|---|
| `reservations` | 2 attempts, 2 operators, reads that fail | the SEC-004 schedule needs a stale holder, an operator and a fresh holder; two operators race for one release; two late events, the first cut off, are glued together. All may queue for the lock or die holding it. Also checks `IInv`, which the proofs use, and the refinement to the contract |
| `workflow` | 2 runs, 1 record id, 2 actions, 1 authorized, reads of the store that fail | duplicate ids, keyed and unkeyed runs, refused and forbidden actions, mutation, revalidation, releases, lease changes, a late holder and a retry after a release; every executor under the observer; the outcomes `fault_injection.py` registers |
| `ledger` | 3 threads in 2 processes, 2 ids | threads that share memory and processes that do not, opening during appends, crashes before and after the anchor, waiting for a lock whose holder fails |
| `ledger_loss` | 2 processes, 2 ids, an operator who restores a shorter file; or 2 workers with 2 records each and 2 damages | what the anchor of a running process does protect; and that a reload which succeeds tells every record it has to, of two chains, cut lines, changed, repeated, exchanged or removed lines. Two damages: one may hide the other |
| `planner` | plans of at most 2 steps, 1 capability with 2 limits, 2 governor calls, registrations at any time | a change between two steps of the plan; two changes of one name that meet each other or a registration; a refusal recorded after the name was registered; a sink that raises with its record written. Names do not interact |
| `obs1` | 3 attempts, reads of the reservation store that fail | a lost or held first write, a second attempt that cannot resolve it, a third that can; the comparator's conclusions of every complete case |
| `freshness` | 3 appends, 2 accepts, 2 packages | deaths in the middle of a line or the header, overlapping appends and accepts, copies that lag, are rolled back or rewritten, writes of the state that fail |
| `package` | 5 producers, runs varied in up to 3 places, packages edited in up to 3 (a varied run in one) | masking in the gate needs two failing rules and a third for the order of reasons; a forged effect needs the decision, its copy in the record and the effect edited together |
| `corridor` | radius 12, target 11, limit 2, K 2, errors up to 1, in units of one tick's slew; 4 configurations, 2 roots; all recovery cases | the bounds are reached by the reference attackers, and the honest vehicle flies |

Runs that end in a counterexample; each states what the repository says (quoted in `PROJECT.json`):

* `reservations_misread`: the read of a good entry fails while its holder reports, and the report becomes a late event
  although nobody has released the key; `idempotency.py:14-16` has late events only for a token that no longer matches.

* `ledger_torn`: a write cut just before its newline still loads; the next append glues its record to that line,
  returns, and from then on the ledger does not load. With writes that tear anywhere else (`ledger`) the next
  append fails instead and nothing accepted is lost.
* `planner_count`: an executor that returns None stops the plan as "allow_without_execution" although it acted.

Limits of what holds, each stated in the property that would be false without it:

* *Distinct time stamps.* Two releases of a key with one `time_ns()` overwrite each other's archive
  (`idempotency.py:267`), against docs/SEC006_PREREG.md I1. It takes a clock that is coarse or set back. The store's
  runs and proofs assume `DistinctStamps`; with `DistinctStamps = FALSE`, TLC shows `EveryGrantRecordedOnce` violated.
* *A running process and a restored copy.* A process that opened the ledger before a record was accepted compares
  with the anchor it loaded then, so after an older copy is restored it re-anchors the shorter history:
  `AcceptedAnchored` is false under `LossySpec`, and `SeenIsKept` is what remains.
* *Overlapping command-line tools.* Two first appends of `witness.py`: the slower one empties the log. Two
  consumers may both accept one package (docs/P001_SIGNED_WORKFLOW.md). The modules keep a history variable that
  says whether runs met, and the properties are conditional on it, but for `ActedInWitnessOrder`.
* *What a refused consumer run saw.* The anchor is advanced by accepted packages only, so a longer log that a
  refused run looked at may be rolled back afterwards without being noticed. `NeverBackwards` is about the anchor.
* *A read that fails.* Where `_read()` swallows an error on a good file (`idempotency.py:176-177`), the holder's report
  becomes a late event (`reservations_misread`), an outcome is written over an entry that loses its token and history,
  and a release may throw away a report of UNKNOWN. `EveryGrantRecordedOnce` says that the token is kept as long as the
  outcome is open, `ReportNotLost` says that a
  report is never lost otherwise, and a report of `COMPLETED` never.
* *A late event that is torn.* The events are appended without a look at how the file ends
  (`idempotency.py:228-231`), so after a call that was cut off in its line `late_events()` may raise, for the events of
  calls that returned, too. `ReportNotLost` says that the events are in the file, and that they can be read unless a call
  was cut off.
* *Overlapping governor calls on one name.* The registry has no lock, so of calls that were under way together any may
  win, whatever the order of their records: `RegistryMatchesLedger` compares a change with those it did not meet (`met`).
  A record may also stand for a call that raised after it was written, whose change never happened.
* *Honest packages that do not verify.* `HonestVerifies` says that of the runs modelled (`RunKinds`) exactly those of
  `PackageVerifier!Gap` do not verify; a tool may be given options beyond these. They are: a chain of more rounds than the
  verifier runs or of none (`verify_package.py:818` and `826`); a companion's log line that is JSON and no object, or that
  holds a NaN or is nested too deep for `loads_bounded`; an altitude, ceiling, fence radius or limit of disagreement that
  is no finite number (`vehicle_action.py:372-378`), which `canonical_json` writes and `loads_bounded` refuses; a take-off
  whose vehicle never arms, so that no take-off command is among those sent (docs/VEHICLE_ACTION.md:69 says of the runs of
  its table that every package verifies); a program's own keys in metadata or policy, which the closed schema refuses
  (`verify_package.py:259-263`), or numbers in them that are not finite; a keyed run whose executor raised, recorded as
  UNKNOWN, which `execution_only_if_allowed` refuses; and a run of a capability with a parent, which `workflow.py:222`
  decides without the registry whose snapshot the package may show.
* *An exit code that says BREAK.* `Corridor`'s `ClaimStands` is that no program is told that it broke the claim, and that
  the exit code of a break comes about otherwise only by the traceback above, which an attacker's program can bring about.
* *A vehicle that fails after ALLOW.* When the executor raises or telemetry is gone afterwards,
  `vehicle_action.py` ends without a package although commands were sent (`Package!Act`). And the verifier looks at
  the mode a command sets only as far as its parameters: a movement may be sent as another mode
  (`EffectsAreEarned` allows "another mode").
* *Numbers at the edge in the Rust port.* The integer literal `-0` as a quality prints as -0.0000 in Rust and as
  0.0000 in Python; `PortsAgree` exempts it (`ReadAlike`), and so it is about decisions and reasons of all others.

`CHECK_DEADLOCK FALSE` stands where the system really stops: all runs of a command-line tool have ended, the package
has been edited as often as it may be, an episode or an OBS-1 case is over.

**Fairness.** `reservations`, `ledger` and `planner` assume some, and only for their liveness property. A
thread inside a call that does not wait keeps running (weak fairness of its steps); a call that waits for flock is
granted it if it is free again and again (strong fairness of taking the lock), which is what Linux's flock queue
gives. No fairness is assumed of callers, of operators, of clocks or of crashes, and none of the executor beyond
its returning or raising: `run()` has no timeout, so an executor that hangs hangs its run.

## 4. Proofs

All of them are for any values of the constants that satisfy the named assumptions (`ConstantAssumption`,
`WorkflowAssumption`, `LedgerAssumption`, `GovernanceAssumption`, `PlannerAssumption`, `Obs1Assumption`, `ConsumerAssumption`, `GateAssumption`,
`PackageAssumption`, `VehicleAssumption`, `CorridorAssumption`): the sets of runs, workers, processes, attempts, operators, calls, names and
packages are arbitrary, special values are not among them, plans are sequences, packages are finitely many, required
evidence is a sequence of strings, tools are of the five that make packages, and lengths and times are natural numbers.

**FileReservationsProofs** proves the invariant `IInv` and from it type correctness, `EveryGrantRecordedOnce`,
`ReportNotLost`, `FailClosed` and that completed entries are final; and that the file store implements
`MemoryReservations` step by step, failed reads included (with the same `ReadErrors`: where no read fails it implements
the atomic store). All of it assumes `DistinctStamps`, without which `EveryGrantRecordedOnce` is
false (section 3). None of the properties is inductive by itself. The token a holder
found in its check could be gone when it writes; that it is not follows from the lock, and only as long as whoever
is inside a section holds it. So `IInv` has these parts:

* `LockInv`: the lock names exactly the caller whose program counter is inside a section;
* `SectionInv`: what a section has checked still holds (the claimed file is still unreadable, the token still
  matches, the entry to be released is still not completed), and a failed claim stays as it is;
* `RecordInv`: every entry is a granted attempt's, none has two, every granted attempt has one; and it has lost its token
  only by a failed read, and only once its outcome was written or a release had begun;
* `ReportInv`: the entry of a holder that has not reported is IN_FLIGHT, and of one that has, what it reported, unless
  the report is a late event or was thrown away by a release that could not read it.

There is one lemma per action and under it one step per part. The refinement's mapping hides three things: a claim
that is being written is not yet a reservation, while a release is under way the lease is what its check saw, and
a caller that died before its claim never called. The steps of a move and a release map to a stutter up to the
one that writes, which maps to the atomic operation.

**WorkflowProofs** proves `EffectAsDecided`, `EffectHoldsKey` and `RecordIsHonest` for any number of runs, and that
the observed workflow implements the workflow, so that they hold under observation. The invariant says where a run
can be with what it has decided (`DecidedInv`: past the gate only with PASS, ALLOW and an authorized frozen action,
and with the key if it asked for one), that its effect is that action and is behind it (`EffectInv`), that a record
is the run's own state at its end, also where the sink failed or the run died once it was written (`LedgerInv`,
`StatusInv`: SUCCEEDED only after acting and telling the store), and
that everybody who held the key is named by the entry or an archived one (`KeyInv`). Steps of the store by anybody
are taken together in one lemma (`StoreKeeps`).

Of the observer WorkflowProofs proves `ObserverTellsRight`, for executors that do other than asked, twice the same, or
nothing. `ObsInv` says when a window is open (`WindowInv`), that what is watched is authorized (`OrderInv`), that a
run in its window is counted exactly from its effect on (`ActInv`), and the core, `SeenInv`: as long as nobody but the
run has touched the target in its window, the target is what it was before, or what the run's own executor makes of
that. What the check says follows by cases on what the record tells.

**PackageProofs** is about everything from the gate to the package and its two verifiers, for any list of required
evidence (names may repeat), any vocabulary of tools, snapshots and requests, and any thermal readings.

* *The gate.* `Constrained`: while the gate has not decided, no rule behind it had anything to refuse, and a reason has
  been noted exactly when one of those rules defers. Each rule of the code is one lemma.
* *The replay.* `ReplayAgrees`, of the gate by itself and of every producer's runs: `Noted(i, n)` says which reasons
  the kernel has noted before rule n, by place in the list, and `NotesInv` that these are the ones noted. At the
  end they are the verifier's reasons to defer, in its order; and where a rule refuses, it is the first of the
  verifier's refusing rules, because each of those stands for exactly one of the kernel's (`AllPassed`).
* *Every document.* `EffectsAreEarned` and `ResourceStateIsHonest` do not depend on how a document came about: they are
  proved of the verifier's checks alone, for every document there is. The edits TLC enumerates are samples of that.
* *Honest packages.* `HonestVerifies`, in both directions: a package as its run, one of those `RunKinds` describes,
  wrote it passes all checks if and only if the run is none of `Gap`. `RunInv` says that the run is one a tool can make, `HonestInv` what was asked, decided,
  done and written at each stage; then `BuiltConsistent` goes through the checks one by one. The proof found that `Gap`
  named too much: a lacking evidence is noted by its name, so where required evidence is called like the refusal for
  an unregistered parent a run defers for what reads like that refusal, and verifies. `Gap` now compares the whole
  conclusion.
* *The fixes of issue 5.* `FixOnlyTightens`: each check is compared with its version before, for every document whose
  readings are of the kinds JSON has (`DocInv`), and the tool's own check before for every flight (`FlightInv`).
  What it needs of the vocabulary is `VehicleAssumption`: the requests and snapshots a vehicle's tool makes hold no
  NaN (`vehicle_action.py` makes offsets and positions of integers and parsed options); those are among
  `OddRequests` and `OddSnapshots`, which only somebody who edits a package puts there.
* *The ports.* The parts of `PortsAgree` that are about decisions, for any required evidence: `PortsDecide`, of the gate
  by itself and of every producer's runs, that the three ports come to the kernel's decision and its reasons in their
  order; `PortsConform`, that they pass all vectors; `SpokenAlike`, for any word said. A port is a list of rules: where
  one stops, the one that stops first is the verifier's first refusing rule (`FrontAlike`, `BackAlike`, `PortReplays`),
  although Rust counts the steps before it asks whether they are a number. Otherwise what its rules say, one after the
  other, are the verifier's reasons to defer (`NotesAfter`): `FlattenSeq` of them is what a list built the same way
  comes to, since of two that differ there is a first place where they do (`FlattenIs`). What each language makes of the
  requested action and of what a policy lists is compared in `AlikeListed`.

**CorridorProofs** proves the claim of the challenge, `Corridor`, for every fence, limit, latch, slew, error bound and
length of the episode. The invariant `IInv` says how far the offset may have led the believed position while it is not
yet rejected: with the latch, up to the limit and one slew more for each reading counted (`Flying`), and for a descent
that holds its position, one slew for each tick of it (`Descending`); a step of one tick moves offset and vehicle by at
most a slew each, which is all that `check_move()` leaves to the attacker. From it: no program is ever told that it
broke a claim, and the exit code of a break is left to one whose answer ends the harness with a traceback
(`ClaimNotBroken`); and, where the limit allows for the second source's error, an honest flight is
allowed, never landed, never outside, and at every tick where the guidance has it (`HonestFlies`).

`AsRegistered`, what `run_all` registers of its rows, is about ends of episodes, hence about the course of each row up
to there (`CourseInv`): where offset, vehicle and latch are at tick t when the request is refused (`Refused`), when the
early ramp is landed before it (`LandedEarly`), when nothing sees or nothing checks the ramp (`Unseen`, `Unchecked`), when
landing saves the vehicle (`Rescued`) and when the attacker rides the limit (`Riding`), with the deepest breach so far as a
function of the position (`Deepest`). Not every size gives this outcome: with a short episode or a small fence another row
wins. `Sizes` are the proportions it needs, with distances in units of the slew, and lemma `RegisteredSizes` shows that the
registered constants (R = 300, target at 299, L = 25, k = 3, E = 5, S = 1, v = 5, T_REQ = 40, T = 160, D_land = 30)
are among them, which TLC could not run; the run's small sizes are too. The predictions speak only of episodes that
reach their end, so `ReferencesKeepTheRules` says that theirs do: the registered attackers never make a move that
`check_move()` refuses. `RecoveryTable` is a proof by cases over the 11 cases.

**PlannerProofs** proves `ChangeIsRecorded` and `RegistryMatchesLedger` of the governor for any numbers of calls and
names, and `ActedIsAPrefix` and `DecidedOnFreshCapability` for plans of any length. A call's record is behind it once
it fetches (`RecordedInv`), it has one only (`SoleInv`), and two calls under way on one name have met (`MetInv`). So a
call that records after another that is still under way has met it (`AfterInv`), which is what remains when either
stores last: every change applied and recorded after the record of the call that wrote the entry has met that call
(`LastInv`, and `AbsentInv` for a revocation that found no entry). A definition is as registered unless a registration
has met a call on the name (`LimitInv`).

**FreshnessProofs** proves, for the witness log and the consumer together, `ActsOnce`, `ActedInWitnessOrder`,
`NeverBackwards`, `WitnessedStays` and `NeverCutOff` for any numbers of appends, accepts and packages. Of the
consumer the invariant says that what it has checked is still true when it writes, as long as it is alone
(`CheckedInv`); that what was acted on is embedded in the log in order is kept by each accept because the package is
new and the last of a log that extends the kept one (`OrderedGrows`). Of the witness it says that the run that
appends has read the log as it is (`LogInv`). Together: what the consumer holds or has pulled is a beginning of the
log (`PulledInv`), which appends only extend.

**LedgerProofs** proves, for any processes, threads and records, and for writes that leave their line torn,
whole or not at all (`Tears \subseteq {"torn"}`, without which `ledger_torn` shows the first of them violated):
`AcceptedReadable`, `AcceptedAnchored`, `NoFalseAlarm` and `ImplementsLedger`. The control part of the invariant says
that only the lock's holder is inside `append()`, in an open process, and that what it writes from continues the
anchor that process loaded (`LockInv`, `OpenInv`, `SeenInv`); it depends on nothing in the file, so `SeenIsKept` is
proved for a file that is replaced by anything at any time (`DamagedSpec`), which is more than the run's lost ends.
The file's part says that every line continues the chain and only the last can be torn (`Sound`), and what the holder
knows of it at each place: after the reload it ends and memory is its history, while writing it is such a file and
the torn beginning of a new line (`HoldInv`). Every step then leaves what loads alone or appends one new record
(`FileNext`), which is the refinement, and what keeps the anchor, every anchor that was read, and the accepted
records prefixes of it (`AnchorInv`).

Its second half proves `ReloadTellsAll` of StoredLedger, for any set of workers, records and damages. While nobody has
damaged the file, its lines are workers' records in the order each made them (`RecordsInv`, `SequenceInv`), a line's
chain shows of its own worker's records only those whose append returned (`ChainInv`, because a worker's memory does,
`WorkersInv`), and what was written whole is still there unless a later line was glued to one without its newline, which
leaves a torn line in the file (`ToldInv`). So a file that loads shows what succeeded, and of each worker at most one
line that did not: a second would have the first in its chain (`LinesBounded`). Under an anchor at most one worker is at
work, and the anchor and its memory show all that succeeded (`OneAtWork`, `KeptInv`, `KnownInv`). Every damage but a
history written anew leaves lines that are visibly damaged or copies of what was there, with the chain they were
written to (`CopiesInv`); a copy that is read as continuing the file is then at its old place (`CopiesStart`).

**Obs1Proofs** proves `LandsAtMostOnce` and `RetriesAreReconciled` for any number of attempts. At most one attempt runs
(`OrderInv`). The core is a condition, `Quiet`: nothing has landed, nothing is held that could land without an attempt,
and every unknown outcome has been fenced and looked at. It holds whenever the key is free, and for an attempt from
its reconciliation to its write (`QuietInv`), which is why a later attempt that finds the key released, by an attempt
that then died, may write without fencing anything itself. It is established by a read that follows the fences
(`ReadQuiet`): whoever wrote is past its own reconciliation, hence another attempt, hence fenced and seen, and a held
write is among what had to be fenced (`WriterInv`, `FenceInv`).

What the comparator concludes, `ComparatorFindsNothing`, follows from `IInv /\ CaseInv`. Three parts of `CaseInv` tie the log
to what the attempts know and did: the log agrees with the fences and the record (`StoreInv`), with each attempt's
place and report (`PlaceInv`), and with its own writes (`WroteInv`). That no report contradicts the log and no effect is
unattributed, unauthorized or doubled comes from these, at every moment and also in a case that was given up
(`NeverContradicted`). Its class, and the five registered cases, need more: what became of the first attempt's write
under its fault (`FaultInv`), how an attempt ends (`EndInv`), who holds the key meanwhile (`KeyInv`), why an attempt
reconciles, is held or finds the work done (`HeldInv`), that what it says it reconciled is in the log (`ClaimInv`), and
that after UNKNOWN only an attempt that reconciled goes on to write, unless one crashed or was refused (`RetryInv`).
Each registered case then is one lemma that goes from its conditions to its reports, its log and its class.

Only model-checked, and why:

* all liveness (`CallsReturn`, `AppendsEnd`, `PlanEnds`): ENABLED and fairness are out of the prover's reach;
* the rest of `PortsAgree`: that the ports read JSON's values alike (`ReadAlike`), and that the vectors and the checks
  of `gate_constraint.py` notice each rule dropped and each mutant (`Survived`, `Unkilled`). These are about finitely
  many listed values and vectors, to be computed and not reasoned about; and the last two are so of the evidence the
  run requires, not of any: where none is required, no vector lacks one.

## 5. Not modelled

* Digests are taken to be injective, signatures and JSON parsing to work. One key, one intent, one plan and one
  ledger file stand for many.
* Epistemic and uncertainty classification and adversarial search are pure numeric functions; probes, attack
  harnesses, mutation and measurement experiments and device probes are programs about the components modelled here.
* Workflow and observation: a missing observation, an action without a known effect and an unbound comparison are
  returns of `check_observed_effect` that depend on nothing; a view of the target that the executor can write; an
  effect equal to the state already there (the code calls it unobservable). `ObserverTellsRight` is about windows in
  which no other run acted.
* The probe counts of the verifier registry: `Workflow` has of it only the status, which may change at any time
  (`Revalidate`), and so has no place for an update that two concurrent `record_probe` calls would lose.
* Ledgers: the Windows branch of the reservation store's lock (`msvcrt`) is taken to behave as flock;
  `AnchoredFileLedger` has none. In StoredLedger a record is one write(2), a plain file's workers use distinct ids
  while they overlap, and damage comes after all writers have ended.
* OBS-1: the fault `fail_record_after_effect` that the protocol document names is not in the store's code. The
  comparator's use of the permission recorded at execution is left out.
* Freshness: an accept reads the log in one step, between appends, since any log at all may be what it reads.
* Packages: the tags of compute budget and power do not vary; the scripted model backend, which skips the check of
  the file's name, is not a producer here; the stack overflow of the verifier before issue 5 on deep files is taken
  to happen.
* Ports: doubles have a mantissa of two bits and few exponents, containers nest once, and the text parsers of the
  ports are not modelled. The seven workflow cases of `gate_constraint.py` and its list of known gaps are not.
* Corridor: the challenge's plane is a line; the noise of V14h (`gauss10`) is not modelled. Recovery: V15g (package
  references), and a snapshot labelled with a message that was stripped, are not among the cases.
* MAVLink's exchange of messages is reduced to what a package records of it.

## 6. Plan

1. (done) reservation store, contract and proofs; workflow; ledgers; governance and planner; OBS-1; witness,
   consumer; gate.
2. (done) effect observation; ledgers read back after damage; witness and consumer composed; packages, their
   verifier and the one before issue 5; ports and the gate's specification; the comparator; corridor and recovery.
3. (done) proofs for workflow, gate, governor, planner, anchored ledger, OBS-1, witness and consumer.
4. (done) proofs for the observer, the replay of the gate, packages and both verifiers, the corridor and recovery.
5. (done) proofs for ledgers read back after damage.
6. (done) proofs for the comparator of OBS-1, for the registered outcomes of the corridor and for the decisions of the ports.
7. (done) failed reads and torn late events of the reservation store, sinks that raise after writing, refusals of the
   governor that overlap, honest runs with values that are not JSON, answers that end the challenge's harness.
8. Left: the verifier registry's probe counts as a module of their own, composed with the workflow.
