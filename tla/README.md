# SentinelTrace in TLA+

A formal model of SentinelTrace's core: the audit chain and its byte grammar, the synthetic
stream and its labels, the lakehouse transforms, the rule detectors and their alerts, the
scorer's calibration, and the stateful processor of the streaming spike. The specifications
are checked with TLC on small instances. Every safety property that a passing run checks is also
proved with TLAPS, for all values of the constants, and so are both refinements of abstract
specifications; the two liveness properties are checked by TLC only.

All paths below are relative to the repository.

## The system

SentinelTrace generates a synthetic FIX order flow with labelled market-abuse scenarios,
brings it through a medallion (bronze, silver, gold), scores every gold row with five rule
detectors, and records what it did in a hash chain.

```
generator/synthfix ──events──▶ (bus) ──▶ bronze ─▶ silver ─▶ gold ──rows──▶ detectors ──▶ alerts
        │                                                     │
        └──labels──▶ ml/dataset (X, y) ─▶ ml/scorer ──ml_score──▶ alerts   audit chain (library)
```

The code is single-threaded and keeps nothing on disk by itself, except through Spark: a
streaming query restarts from its checkpoint, and the processor it calls has to bear that. What is hard in it is *order* (the order events arrive in, the order
of appends and of the writes of a payload list's owner), *delivery* (repeated and
incomplete events, rows of a chain lost or altered on the way back), *boundaries* (windows,
the session close, label ends, quantiles of few rows, ties of rounding), *duplication* (gold
computed twice, a byte grammar written three times, a field order written twice) and *overlap* (several scenarios, or half of one, in a
window that detectors were written to see one whole scenario in).

### Inventory

| Component | State | Operations | What makes it correct |
|---|---|---|---|
| Audit chain, `pipeline/shared/audit/audit_chain.py` | `algo`, `head`, `entries`; the callers' payload lists, by reference | `append`, `verify` | `verify` says True exactly when the entries say what was appended; entries stay linked; a verified chain is complete |
| Byte grammar, same file and `Hash.scala`, spike in `scripts/spikes` | none | `canonical_field`, `canonical_bytes` | the same fields give the same bytes in every language; different fields different bytes |
| Scenarios, `generator/synthfix/scenarios.py` | none (random draws) | one function per archetype | labels cover exactly the abuser's events |
| Stream engine, `generator/synthfix/engine.py` | `t`, `i`, `inject_at`, `injected`, `events`, `labels` | `generate_stream`'s loop, injection, sort | scenarios do not disturb each other or the benign flow; labels stay true |
| Label sidecar, `generator/synthfix/labels.py` | none | `write_labels_jsonl` | pure I/O |
| Transforms, `pipeline/transforms/*.py` | tables | `to_bronze`, `bronze_quarantine`, `to_silver`, `to_gold` | idempotent under re-delivery; gold is a function of the set of events |
| Detectors, `scala-detectors/.../detectors/*.scala`, `Severity.scala` | none | `score`, `detect` | each fires on its archetype and stays silent on the others |
| Alert construction, `Emit.scala`, `AlertId.scala`, `alert_contract.py` | none | `fromScore`, `of` | ids are deterministic; audit hashes verify in the chain |
| Training labels, `ml/dataset.py` | none | `gold_features`, `build_dataset` | a row is positive exactly where a scenario's abuser acted |
| ML scorer, `ml/scorer.py` | fitted model, `qhat` | `train_scorer`, `score` | conformal coverage; abstains to a human when unsure |
| Streaming spike, `TransformWithStateSpec.scala` | per-key total | `handleInputRows` | totals survive micro-batches |
| Bus, governance, agent, evals, web, infra | – | named by README and Makefile, not written yet | – |

## Modules

| Module | Models | Checked or proved in |
|---|---|---|
| `AuditChain` | the audit chain, its callers and its persisted copy | `MCAuditChain`, `AuditChainProofs` |
| `AuditLog` | what the chain promises, abstractly: a log and truthful answers about it | refined by `AuditChain` |
| `ByteGrammar` | the rendering of fields in Python, Scala and JavaScript | through the two below, `ByteGrammarProofs` |
| `FieldLists` | two field lists filled side by side (extends `ByteGrammar`) | `MCAudits`, `ByteGrammarProofs` |
| `AlertAudit` | emitted alerts, their ids and hashes, and what is filled or altered later (extends `ByteGrammar`) | `MCAudits`, `ByteGrammarProofs` |
| `Detectors` | the five rule scores, thresholds, severity, as operators on a gold row | `MedallionProofs`, and through `Medallion` |
| `Scenarios` | the five archetypes, as functions of a context | through the two below |
| `Medallion` | bronze, silver, gold, and the alerts on gold (extends `Scenarios`, `Detectors`) | `MedallionProofs`, and through the two below |
| `Surveillance` | one scenario delivered event by event (extends `Medallion`) | `MCSurveillance`, `SurveillanceProofs` |
| `Dataset` | the training features and labels (extends `Medallion`) | through `StreamEngine` |
| `StreamEngine` | the loop of `generate_stream` (extends `Dataset`) | `MCStreamEngine`, `StreamEngineProofs` |
| `Conformal` | calibration, `qhat`, prediction sets and `needs_human` | itself (no MC module needed), `ConformalProofs` |
| `KeyedTotals` | a running total per key, abstractly | refined by `RunningQty` |
| `RunningQty` | the stateful processor over micro-batches that may be interrupted | `MCRunningQty`, `RunningQtyProofs` |
| `DataLemmas` | no part of the system: facts about numbers, finite sets and sums that the proofs share | proved there |

Definitions keep the names of the code. Definitions marked *Mutant* in a comment are
plausible mistakes kept beside the definition they would break; nothing uses them. Each
property is known to fail under one of them.

### AuditChain

`algo`, `head` and `entries` are the writer's fields. An entry holds a *reference* to its
payload list (`lists`), as in Python: `CallerWrites` changes a list an older entry still
points at. `Dereferenced` is what a reader of the entries sees now. `Persist` writes that by
value to a copy (`gold.audit_chain`, which the class docstring names and no code implements),
and `LoseRow`, `SwapRows`, `RepeatRow` and `AlterRow` damage the copy. `verify` is one step
per round of its loop (`VerifyNext`, `VerifyMismatch`, `VerifyRaises`, `VerifyDone`) on a
snapshot of the rows: nothing else runs meanwhile, and with rounds as steps its answer
follows from a loop invariant.

Abstractions: a hash is the sequence of the bodies it commits to (a digest without
collisions); SHA-256 and BLAKE3 differ only in whether the host supports them. `Render` is
the byte grammar: any map from payloads to strings, partial (`NotCanonical` is its
`TypeError`) and not injective (`True`, `1` and `"1"` are one string). Subsystem, action,
ref_id and ts are one `header` that never needs the grammar's separators; when different
field lists are joined to one string is the question of `FieldLists`.

`AuditLog` is the chain for a user who wants to forget hashes: a log that only grows
(`Say`), questions about it that are lists of claims (`Ask`), and an answer that is True
exactly when the claims are the log from its start (`Answer`). `ImplementsLog` maps `head` to the
log, the rows under verification to the claims, and the whole loop of `verify` to one
pending question. Callers' writes, persisting and damage are stutters.

### ByteGrammar, FieldLists, AlertAudit

A text is a sequence of tokens: the separators' bytes, words without any, whole numbers (`Digits`) and
numbers of 8 decimals (`Decimal`) as they are written. A value is a record with one field, named for its type. A
score is its shortest decimal form in units of 10^-9 and the side of it the double lies on;
that is what the three roundings to 8 decimals look at: Python rounds the double and breaks
ties to even, JavaScript's `toFixed` rounds the double and breaks ties up, Java's `%.8f` rounds the
shortest decimal form half up. JavaScript writes whole numbers as integers. What the spike's
`conformance.scala` has of the grammar is `Hash.scala` without `None` and `Some`.

The code calls itself for lists in lists to any depth. The model has a bound (`IsValue`): a list may hold lists, and
those no further lists, so that one operator per depth (`canonical_scalar`, `canonical_flat`, `canonical_field`)
takes the place of the recursion, which no proof could reach. What the repository hashes are lists of strings.

`FieldLists` fills two lists from values of every type, and asks what their bytes say.
`AlertAudit` builds the alerts `Emit.fromScore` builds, field by field, lets the ML layer fill
`ml_score` and the explanation, lets stored fields be altered, and recomputes the hash in
Python from `ALERT_HASH_FIELD_ORDER`. `fromRuleScore` rounds a product of doubles up, so a score just above a fifth
may get either of two severities. `IsAlert` is the contract class. The SHA-256 digest of bytes is one token
(`sha256Hex`), without collisions. (alert_contract.py:45 calls the id a UUIDv5;
AlertId.scala cuts it from a SHA-256. The model follows AlertId.) `AlertAssumption` says that the names of
detectors, traders and instruments and the references to regulations hold no separators, and that
references are not empty: the enum of alert_contract.py, those in traders.py and instruments.py, and the
references callers pass to Emit are such.

### Scenarios, Medallion, Detectors

Times are in units of 10 ms (all offsets in the code are multiples of it), prices in cents,
quantities in lots of 100. Ratios, bps and imbalances are integers in 1/1000, scores
integers in 0..`Unit`; comparisons with thresholds are exact. What a rounding of doubles
may change in the last digit is not modelled; rounding down to 1/1000 is (`\div`), and no
score of a scenario lies that close to a threshold.

Random numbers come with a scenario's context (`draws`): one for each of its up to five orders
and a sixth for the move of the price. `randint` brings each into its range, as the code draws
each by itself. The fills of one round trip take their quantity from the same draw, as in the code.

A table is a set of rows, a row an event and a copy number. `to_silver` keeps one row per
value of the columns `dropDuplicates` names. `min_by` and `max_by` may return any of the
rows that tie, so `GoldRows` is a *set* of rows per key, one for each choice;
`GoldIsDetermined` says it never has two. Sums are the library's `SumFunction`. `Bps` multiplies by
10000 * `Scale` in three steps (`Times`), each of which keeps a quotient and a remainder: prices times
quantities times that factor would pass TLC's 32 bits at once.

### Surveillance

One scenario is made, then its events reach the raw table one by one in any order, some
twice, some (also) without a required field. Bronze, silver, gold and the alerts are
functions of the raw table, evaluated in every state, so every order and every partial
window is seen.

### StreamEngine

One action per kind of turn of the loop, the sort as the last step. `inject_at` is any
subset of the turns of the right size, and `rng.choice` is `\E`. `Turn(o)` is one turn with the
benign order `o` it draws (`BenignOrder`). `list.sort` is stable: `SortedByTime` gives every event the
place `PlaceOf` counts for it. That this is a permutation, in the order of time and stable, is a
theorem (`SortIsStable`).

`Dataset` computes the training features as pandas does, from a frame of its own (`DataFrame`, a table of
rows numbered by index) and with its own reading of what gold also reads: a side that is not BUY
is sold, rows without a price are dropped before the first and last are taken, a gain needs a
turnover on both sides. `sort_values("transact_time")` leaves rows of one time in no particular
order, so any row of the least time may come first (`Foremost`) and any of the greatest last (`Hindmost`),
and `gold_features` too is a set of rows per key.

### Conformal

The boosted model gives every row a raw score and that is all that is known of it: the
held-out rows are any pairs of raw score and label. `predict` is isotonic regression by its
max-min form, linear between its points and clipped outside; probabilities are exact
multiples of 1/`Unit`, `Unit` being divisible by whatever the bounds need. `Rank` and `Quantile` are
the code's, with `np.quantile(method="higher")`: its place among n sorted scores is
ceil((n-1) * level), which for k < n of n is one *above* the textbook's k-th score, so the code
errs on the side of coverage there. A place in a sorted list is found without sorting: `AtPlace` is the least score
that more than that many scores do not exceed. The held-out rows may
all be of one class: the split is stratified (scorer.py:87), but of a tiny class it may leave none.

### RunningQty

`handleInputRows` is called once per batch and key, in any order of the keys. Around it is the
micro-batch engine as the query uses it: offsets logged before a batch, the rows handed to
the sink, which drops a batch it already has, state and commit after it. Quantities may be of either sign (the
spike has a `Long`), so a total may fall; rows of the sink carry the end of their batch, and the newest row of a
key is the one that counts. `Interrupt` may
come before, between and after these; what the batch had in memory is lost, and the batch
is run again on the logged offsets. (The memory sink of the spike itself cannot resume; the
processor is written for queries with a `checkpointLocation`, as line 71 sets.) `KeyedTotals`
is the promise: the totals shown are those of the first n orders, and n only grows.

## Runs

| Run | Question | Distinct states | Result |
|---|---|---|---|
| `chain` | Does `verify` answer exactly, whatever happens to lists and stored rows? Do entries stay linked? Is all of it a log that answers truly? | 659,440 | holds |
| `tail` | Does a copy that verifies reach the head saved with it? | – | **violated** |
| `order` | Over all archetypes, orders and prefixes, at six start times: is gold determined, does the right detector fire and only that one, is only the abuser alerted, do alerts stand, do repeated and incomplete events leave no trace? Is every scenario of one window alerted in the end, for good, if the bus keeps delivering? | 128,928 | holds |
| `matrix` | Do other detectors stay silent near the close too? | – | **violated** |
| `stream` | In a generated stream: are labels true and training labels exact, does the loop step past scenarios, does deduplication keep everything, are only abusers alerted, and without contradiction? Are the training features those of gold? | 88,740 | holds |
| `close` | Does marking the close happen near the close? | – | **violated** |
| `audits` | Do equal bytes mean equal fields? On exactly which fields do the languages agree? Do alert ids name windows? Of which alerts does Python make Scala's audit hash? | 495,065 | holds |
| `identical` | Do the languages make the same bytes of every score? | – | **violated** |
| `filled` | Does an alert still verify when the ML layer has filled its score? | – | **violated** |
| `sets` | Do prediction sets follow the raw score, is review skipped only when sure, does `qhat` cover what its rank asks? | 65,205 | holds |
| `coverage` | Does the scorer as trained have the coverage of split-conformal prediction? | – | **violated** |
| `totals` | Are store, sink and batch right about every order, whatever is interrupted; are the totals shown those promised; is every order counted in the end? | 99,541 | holds |

### What the violated runs show

* `tail`: `verify` (audit_chain.py:105-114) compares every row with the one before it but not
  the last row with `head`. A copy that lost its newest rows verifies, although line 1 calls
  the chain tamper-evident. An inner row that is lost, repeated, swapped or altered *is*
  noticed (`chain`). The theorem `VerifyIsExact` says exactly how far `verify` goes.
* `matrix`: `MarkingTheClose.score` asks for nothing that a front-running or momentum-ignition
  window in the last two minutes lacks. `DetectorIsolationSpec` (lines 7-8) says each detector
  is silent on the other archetypes' windows, and tests windows far from the close. Away from
  the close the claim holds (`OthersStayQuiet`).
* `close`: `generate_stream` starts marking the close at the loop's time, by default about
  01:07 of the day; `marking_the_close` takes `t0` to be a minute before the close
  (scenarios.py:372). On the default stream its detector cannot fire.
* `coverage`: split-conformal prediction needs a calibrator made without the rows that give
  `qhat`; train_scorer fits it on them (scorer.py:97). TLC finds four held-out rows of which, each
  in turn left out, too few are covered. With a calibrator that does not depend on them
  (`CoversGivenCalibrator`) the same `qhat` does cover, the clamp of the level included.

* `identical`: `Hash.scala` calls its bytes "Proven byte-identical" (lines 6-8), and
  docs/audit-byte-grammar.md (lines 3-6) says the same of Python, Scala and JavaScript. The one
  sample of the spike holds no score half way between two decimals of 8 digits. 1/512 is such a
  score, 0.001953125 exactly: Python rounds ties to even and writes 0.00195312, Java's `%.8f` and JavaScript's
  `toFixed` write 0.00195313. It is within [0, 1], the range line 53 of the document asks
  for. Besides, `cf` (conformance.mjs:14) writes the score 1.0 as `1`, where the grammar (line 25) has 8 decimals.
* `filled`: `Emit` says that detector audit hashes "verify in the same chain as the Python side" (Emit.scala:6-7).
  `ml_score` is null when Scala hashes it; the contract says that the ML layer fills it later
  (alert_contract.py:53), and lists it among the hashed fields (line 73). An alert with its score filled,
  and no other change, does not verify.

### Where passing runs qualify what the repository says

* `stream`, `StepsPastScenario`: the loop moves on by 2 s "past the scenario window" (engine.py:74).
  That is past every scenario but marking the close, which takes 30.75 s; the property excepts it.
  `TrainingLabelsExact` and `OnlyAbusersAlerted` hold in spite of the overlap.
* `audits`, `LanguagesAgreeExactly`: it says which scores are all the exceptions to what `identical` refutes.
* `audits`, `BytesTellFieldsApart`: it takes texts without separators and lists without empty texts;
  the grammar demands neither. `True`, `1` and `"1"` are one string in any case.
* `audits`, `AuditHashExact`: the audit hash covers the alert's own fields (Emit.scala:21). It commits to
  no previous hash, as an `entry_hash` of the chain does, so what "verify in the same chain"
  (Emit.scala:7) can mean is that Python recomputes it. It does so exactly if no field but the rule score
  changed and Python's 8 decimals of the score held are Scala's of the score emitted. An untouched alert with the rule
  score 257/512 therefore does *not* verify, and a change of the score beyond 8 decimals is not noticed.

### Bounds, and why they are enough

* `chain`, `tail`: two entries, two list objects (interchangeable: symmetry), one damage per
  copy, four payloads (two that render alike, one that renders otherwise, one that does not
  render). Two rows are the least for a swap, an inner loss and a repetition; damage starts
  over with every `Persist`. The proofs lift all of these bounds.
* `order`, `matrix`: both ends of every random range, high and low alternating from one order of a scenario to
  the next (the other way round on the other instrument), a cheap and a dear instrument (a cent is 3 bps of
  one, 0.7 of the other), and start times at which different things happen: inside a window, 200 ms
  before the end of one (four archetypes are cut in two), 60 s, 2 s and 200 ms before the
  close, and 80 s before it, where marking the close is cut in two. All days are alike, so one
  later day stands for all. Momentum ignition, with the most events, is on one instrument only.
  The bus errs at one start, a minute before the close, where all five archetypes have to be alerted by
  their own detector: one repeated or incomplete event per behaviour (`MaxNoise`), at any place. Copies of different
  events do not interact before `to_silver`, which looks at each key alone.
* `stream`: six turns and five scenarios, so that every archetype occurs once with every
  spacing (the benign turn can come first, last, or between any two), two abusers and one instrument, so that
  scenarios of one abuser share windows; the default start, one that puts scenarios across
  a window boundary, one that puts the last scenario a minute before the close. Benign orders move the price by 5 cents either
  way (`BenignMoves`, any set of integers), draws alternate as in `order`; side and
  quantity are fixed, as no detector can fire on orders alone: `OrdersQuiet` proves that.
* `audits`: lists of up to two fields (two are the least for a separator to be
  mistaken for part of a text), values of every type, texts that look like numbers, contain a
  separator or are empty, a nested list, a list with a half-way score in it, whole scores, and scores on, above and
  below a tie of the eighth decimal. Then, with the lists at rest, two alerts, so that one field may be altered
  to what the other says, two detectors of different thresholds, names that run together without a separator, rule
  scores of which one is half way (257/512) and one has the 8 decimals Scala gives that, and
  changes, three steps in all (`MaxSteps`).
* `identical`, `filled`: one list of one half-way score; one alert and one change, with rule scores the languages agree on.
* `sets`, `coverage`: up to five held-out rows of four raw scores, all labellings, one `alpha` for which five
  rows are too few (the clamp), and two for which they are enough.
* `totals`: two instruments, the quantities 3 and -3, four orders, two interruptions at any places,
  the same batch twice included.

### Fairness and liveness

Two runs assume weak fairness, of one action each.

* `order`: `WF(\E e : Deliver(e))`. The bus delivers at least once (silver.py:34 speaks of
  idempotent re-delivery): it may repeat itself and bring broken events in between, but does
  not stop while an event is still to come. No order is assumed, and no fairness of the noise.
* `totals`: `WF(Engine)`. `processAllAvailable` returns when all input is processed (line 76);
  interruptions are bounded, and neither they nor new orders are fair.

The other loops of the code are bounded `for` loops, whose termination says little.
`CHECK_DEADLOCK FALSE` is given where the system ends: a stream that has returned, a scenario
that has wholly arrived, lists, alerts or orders at their bound. The audit chain runs with the
deadlock check on.

## Proofs

### AuditChainProofs

From `ChainAssumption` alone (no finiteness of any set, no bound used):

* `TypeCorrect`: `Spec => []TypeOK`
* `VerifyIsExact`: `Spec => []VerdictExact`
* `EntriesStayLinked`: `Spec => []ChainLinked`
* `ChainImplementsLog`: `Spec => ImplementsLog`, the refinement of `AuditLog`

`VerdictExact` is not inductive: a verdict is given by the last of many steps, about rows that
were stored, damaged and read earlier. The inductive invariant `IInv` adds

* `NothingUnsupported` – with an unsupported algorithm nothing was ever appended;
* `OnlyCommitted` – every `entry_hash` anywhere, in the entries, in the stored copy or in the rows
  being verified, is a prefix of the writer's `head`. Damage moves hashes and rewords rows, but
  invents no hash;
* `LoopInv` – the rows before `next` say what was appended, and `prev` is the hash after them.

The step that matters is in `RowMatches`: the recomputed hash is `prev` with one body more, so if
it equals a *committed* hash, it is the next prefix of `head`, and the body is the one appended
there (`MatchingRowSays`); the converse is `SayingRowMatches`. Appends only extend `head`, which
keeps all prefixes (`AppendKeepsPrefixes`, `AppendKeepsSaying`).

The refinement uses the same invariant: `ClaimsHold` says that rows which say what was appended
are claims that hold, `ClaimsType` that any rows are claims, and `ImplementationStep` maps every
action to a step of the log or a stutter: `append` to `Say`, the start of a verification to
`Ask`, the four ends of it to `Answer` (by `LoopInv`), all else to stutters.

### DataLemmas

The library's induction theorems take the property as an operator, which the provers in use cannot
instantiate. Here the property is a *set*, which they can: a set of naturals has a least element
(`LeastNat`, from the library's well-foundedness), so a set that has 0 and all successors has all
naturals (`NatSetInduction`), and a family that has `{}` and is closed under adding one element of a
finite set S has S (`SubsetInduction`). The rest follows: what the recursive function behind the
library's folds computes for a finite set (`ChosenSumIsSum`), and from it what a sum is when an element
is removed, when two sets are joined (`SumDisjoint`), when the elements are renamed (`SumRenamed`) and
when values change; `Max` and `Min` of finite sets; images of finite sets.

### MedallionProofs

For every row of gold features, for all scales:

* `WashOrFront`, `SpoofingOrMomentum`: no row is alerted as both of the pair;
* `OrdersQuiet`: rows without fills and cancels are alerted by no detector;
* `RoundTripsSevere`: a wash trade or front run that is alerted has severity 4 or 5.

The first two are arithmetic on gates and thresholds: wash trading needs a gain of at most one
bps and front running more than one; momentum ignition needs a cancel ratio of at most 0.2, and with
that a spoofing score cannot pass 0.44.

For every table, whatever its size and the order it was filled in:

* `SilverOneRowPerKey`: one row of each key of bronze, taken from bronze;
* `SilverIdempotent`: `to_silver` of silver is silver;
* `SilverHasTheWholeEvents`: where one key means one event, the events of silver are the events
  that arrived whole, each once;
* `GoldIsWellFormed`: gold of a finite table of numbers is made of rows the detectors can score: no
  denominator is zero, every count, ratio and gain has its type, every row comes from a whole
  event of its key;
* `GoldOfTheEvents`: gold depends on the events of a table and not on which rows carry them. The proof
  takes a bijection between the rows of two tables and shows of each feature, sums included, that
  renaming rows does not change it.

Lemmas on what a gold row says of the rows it is made of serve the proofs about scenarios: every row of silver is in
a gold row of its key (`GoldCovers`); `Bps` is the whole number of 1/`Scale` bps below the quotient, for all its three
steps (`BpsDivides`); first and last price are those of rows with a price and of the least and greatest time
(`DescribedEdges`); and all rows of a
window lie on one side of the close, as windows divide the day (`OneSideOfTheClose`).

And for every context a scenario may be made in (`IsContext`: any start, any mid above 5 cents, any draws):

* `ScenarioFaithful`: each archetype emits whole events, of the abuser or his client, on the instrument
  and within the label's window; no two share the columns `dropDuplicates` compares; events of
  one trader and time that carry a price carry the same one; the label's ids are orders of the
  abuser. One lemma per archetype joins its runs of events (`JoinRuns`, `JoinParts`).

### StreamEngineProofs

For streams of any length, any traders, instruments and start, from `EngineAssumption`,
`MedallionAssumption` and the detectors' assumption:

* `SortIsStable`: the sort is a permutation, in the order of time, and stable;
* `TypeCorrect`, `StreamIsClean` (`DedupKeepsTheStream`), `LabelsTellTheTruth` (`LabelsTrue`),
  `TrainingLabelsAreExact`, `InnocentsAreNotAlerted` (`OnlyAbusersAlerted`), `StreamAlertsConsistent`,
  `ServedAsTrained` (`TrainingMatchesServing`): each `Spec => []` the property;
* `LoopStepsPast`: `Spec => []StepsPastScenario`, for `Dt # 0`. With `dt_ms = 0` an order may
  share the time a scenario starts at, so the hypothesis is needed.

None of these properties is inductive: they speak of a stream, and a stream of events says nothing of what comes next.
The inductive invariant `IInv` is

* `Counts` – as many labels as turns of `inject_at` have passed;
* `EventsKnown` – every event is a benign order of a turn that has passed or belongs to one of the
  labels so far (its ids and times among that label's), and no two events share the columns that are
  compared. A new order or scenario has ids no old event has;
* `LabelsHonest` – every label's ids are ids of events of its abuser.

`Timeline` (benign orders before `t`, windows one after the other) is a second invariant that rests on
`IInv`; `ScenarioFaithful` gives what an injection adds, `SortIsStable` carries everything over the last
step, which moves every event. The arguments from `IInv`:

* an innocent's window holds background orders only, or a client's buy orders and their fills: with orders
  alone, or without a cancel, a sale and any price but the mid, every detector's gate is closed
  (`OrdersOnlyAreQuiet`, `BuyingIsQuiet`);
* a label's windows are all those from that of its start to that of its end (`WindowsMonotone`), so the key of
  every event of its abuser is positive. Conversely a positive row of gold has an event of the abuser; he is
  neither a background trader nor a client, so it belongs to a scenario of his own (`AbuserOf`);
* the two implementations of gold agree feature by feature (`FeaturesAgree`): `StreamIsClean` removes
  bronze and silver; the minimum of times and a sort on time pick the same rows (`EdgesAgree`); all sides
  are BUY or SELL (`SidesOf`); fills have quantities and prices, so no volume means no turnover (`GainsAgree`).

### SurveillanceProofs

For one scenario of any archetype, any start, price and draws, at every moment of its delivery in any order, with
any number of repetitions and incomplete events:

* `TypeCorrect`: `Spec => []TypeOK`, gold included;
* `NoiseLeavesNoTrace`: `Spec => []NoiseIsInvisible`;
* `GoldNeedsNoTieBreak`: `Spec => []GoldIsDetermined`;
* `AbuserAlone`: `Spec => []OnlyTheAbuser`;
* `OthersAreSilent`: `Spec => []OthersStayQuiet`, the detectors' isolation away from the close;
* `OwnFires`: `Spec => []OwnDetectorFires`, a whole scenario is alerted by its own detector, severely;
* `AlertsRemain`: `Spec => AlertsStand`, no alert is taken back by what arrives later.

The inductive invariant says that the scenario is one `ScenarioFaithful` speaks of (`MadeFor`) and that every row of
the raw table carries an event of it, an incomplete one as copy 0, a second copy only with the first
(`Arrived`). From it: silver holds one row of each whole event that arrived (`SilverRows`), so
`GoldOfTheEvents` makes noise invisible; rows of one time and trader agree in price, so that no tie matters (`OneEdgePrice`).

The last three theorems need to know what the five archetypes *do*. `SpoofingDeeds` to `MarkingDeeds` say it of the events of
the abuser (how many orders, cancels, fills of each side, which sizes, which prices relative to `mid`, in which order),
for any draws; each is proved from the archetype's function.

* `OthersAreSilent`: some gate of every other detector stays shut on *any part* of a scenario (`SpoofingAlone` to
  `MarkingAlone`), as an arrival order or the end of a window may leave any part. Layering has at most one fill, so no
  round trip and no run; wash trades have one price, so no gain and no move; a front run has no
  cancel and gains more than one bps (`FrontGain`), which is too much for wash trading; ignition has no cancel and a
  lopsided book; marking the close has no sale and few orders. Marking itself is shut away from the close.
* `OwnFires`: once all events have arrived in one window, counts and ratios are those of the whole scenario
  (`SpoofingWhole`, `WashWhole`, `FrontWhole`, `MomentumWhole`, `MarkingWhole`), from which the scores and a severity of at least 4 are
  arithmetic.
* `AlertsRemain`: the rows behind an alert only grow (`GoldGrows`). Not every feature grows with them, but what
  the alert rests on stays: a layered book keeps its cancels (`SpoofingStands`), a round trip
  that could be alerted was whole (`WashCovers`, `FrontCovers`), a burst goes on, and rising prices keep first and last
  apart (`RisingStands`), which also keeps an alert for marking the close (`MarkingStays`).

`SurveillanceAssumption` has what these proofs need of the constants:

* `(Scale + 1) * mid <= 5 * (100 * (100 * Scale))`: five cents, the least a front run gains a share, are more than one bps of
  the price. For the runs' scale it says that `mid` is at most 499.50; the six of instruments.py cost 33 to 140.
  For a dearer one a front run could gain less than a bps and look like a wash trade to the detectors;
* `Second = 100`: `Scenarios` counts in units of 10 ms;
* windows divide the day and the time of the close: gold.py:17-21 has 60,000, 86,400,000 and 57,600,000 ms.

### ConformalProofs

For every probability and every `qhat`:

* `OneAnswerIsTheLikelier`: a window that skips review has one class, strictly the likelier one;
* `SetsAreMonotone`: sets follow the probability and grow with `qhat`.

For any rows the calibrator is fitted on:

* `PredictMonotone`: it never falls as the raw score rises. Between fitted points by `PooledMonotone`, an argument about
  the max-min form (more rows below and fewer above a larger score), elsewhere by bounds on the interpolation (`RiseBounds`);
* `SplitConformal`: of any n + 1 scores at least a share of 1 - alpha does not exceed the quantile of the others, or n of them
  if n is too small for alpha. This is the guarantee of the recipe with the code's rank, clamp and "higher" quantile.
  A score that exceeds the quantile of the others exceeds too many scores (`LeaveOneOut`), and not too many can.

For `Spec`, from `ConformalAssumption`: `TypeCorrect`, `MoreSuspiciousNeverLessSo`,
`ReviewSkippedWhenSure`, `CoverageOfTheCalibrationRows`, `CoverageGivenCalibrator`: all of the component's properties that hold.
The inductive invariant is `TypeOK` and that fit and answers are those of the held-out rows (`OneModel`), which no later step
changes; the others follow from it, as what was scored does not depend on when.

### RunningQtyProofs

For any instruments, integer quantities, orders, batches and interruptions:

* `TypeCorrect`, `OrdersCountedOnce`: `Spec => []TypeOK` and `Spec => []CountedOnce`. Together they are inductive: `CountedOnce`
  relates the store to the orders up to `committed`, the sink to those up to `sinkEnd`, and the batch in memory to those up to
  `planned` of the keys it has handled;
* `RunningTotals`: `Spec => KeepsRunningTotals`, the refinement of `KeyedTotals`: the rows of the sink show the totals at
  `sinkEnd`; only `WriteSink` moves it, and all else is a stutter, a batch run again among it.

### ByteGrammarProofs

For any values, lists of any length and any number of alerts and changes:

* `AgreeExactly`: `ListsSpec => []LanguagesAgreeExactly`, the exact list of what the languages disagree on;
* `TellApart`: `ListsSpec => []BytesTellFieldsApart`;
* `AlertTypes`: `Spec => []TypeOK`, with `IsAlert` for all emitted and held alerts;
* `IdsNameWindows`: `Spec => []AlertIdsNameWindows`;
* `HashExact`: `Spec => []AuditHashExact`, for any rule scores.

Joined texts are seen as a chain of partial joins that grows by one text at a step (`Joins`), as the library's fold
says nothing of its intermediate results. Two facts about chains carry everything:

* if the texts at each place are equally long, the joined texts are equal only when all texts are (`JoinEqualWhen`).
  The languages write every value with one token or the same tokens, so they agree on a list exactly when they agree on every
  score in it, list by list and field by field; and for one score the question is arithmetic on its last digits;
* if no text holds the separator, the joined texts tell them apart: the last separator is where the last text begins
  (`LastSeparator`, `JoinApart`). This is used twice, for the items of a list (RS) and the fields (US). A list whose
  first item is empty could be taken for a shorter one; `JoinTokens` says it cannot if no item is empty.

`AlertInv` is the inductive invariant of the alerts: an issued alert is one that Emit makes of a score above its detector's
threshold (`Made`), and a held one has the issued one's hash and fields of the right kinds (`Fits`), whatever was changed.
Ids then differ because the five parts are texts and numbers without separators. For the audit hash, `OrdersAgree` says that Emit's
order of fields, written down in Scala, is the contract's order, written down in Python; `HashesAgree`
that Python's bytes of one alert are Scala's of another exactly when they are so field by field. Of the rule score that
is as far as it goes; of every other field it means that the fields are equal, as no score is among them but a filled `ml_score`,
which never has the bytes of null.

### Model-checked only

* *Liveness*: `EventuallyAlerted` (`order`) and `AllCounted` (`totals`) need fairness and ENABLED, which the provers lack.
* The violated runs are counterexamples, and nothing is to be proved of them.

## Not modelled

* Gradient boosting and SHAP: numeric libraries; `Conformal` allows them any raw score.
* Rounding of doubles, except at 8 decimals in `ByteGrammar` and in `AlertAudit.fromRuleScore`: `Detectors`
  computes severities of exact scores, and that `p >= 1.0 - qhat` (scorer.py:75) may fail for the row that gave `qhat` is left out.
* Event kinds REPLACE and OTHER (silver.py:20-21): the generator emits neither.
* Which of the required fields an incomplete event lacks: bronze treats them all alike (bronze.py:40), one stands for all.
  A redelivery that agrees with its original in the four columns `dropDuplicates` compares and differs in others: the bus repeats
  events, nothing in the repository rewrites them.
* Fields of types the grammar does not know: Python raises (audit_chain.py:63), which the chain's model has as
  `NotCanonical`; lists of fields in `ByteGrammar` have none. Negative floats: docs/audit-byte-grammar.md:53
  restricts them to [0, 1].
* The JSONL sidecar (`labels.py`, pure I/O); the columns of silver and gold nothing reads downstream
  (notional, min_px); the type casts of the Spark schemas.
* Spark itself, beyond how the spike's query uses it: that an interrupted batch is run again is the engine's doing and
  not in the spike's code; the bus, beyond repeating and losing fields.
* Governance, agent, evaluation, web and infrastructure: the repository only names them.
* Digest collisions are assumed away.

## Plan

Done, in order of importance: `AuditChain` with proofs and the log it implements; `Detectors` with
proofs; `Scenarios`, `Medallion`, `Surveillance` with arrival; `Dataset` with both its halves,
`StreamEngine`; `ByteGrammar`, `FieldLists`, `AlertAudit`; `Conformal`; `RunningQty`; then the proofs of
all of them, the detection matrix and the alerts' bytes last.

Left, for whoever continues:

1. lists nested to any depth. It takes a recursive function over the depth and an induction over values, with
   the property as a set as in `DataLemmas`;
2. the rounding of doubles in `needs_human`, where one bit decides;
3. the parts the repository does not have yet, when it has them.
