# A TLA+ development of openwright

openwright records what an AI agent did as *compliance events* in an append-only
Merkle log, signs the heads of that log, maps the events to the controls of a
regulation and hands an auditor a report that can be verified offline.  This
directory models the program, checks the models with TLC and proves theorems about
them with TLAPS.  Paths below are relative to `src/src/openwright/` unless they start
with `docs/` or `core-go/`.

1. The system: an inventory
2. What is modelled: modules and code
3. Runs: what each checks, and its bounds
4. Fairness
5. What is proved
6. Where the code and its documents disagree
7. What is not modelled
8. Plan

## 1. The system: an inventory

    receivers (HTTP, gRPC) --submit()--> EvidencePipeline --commit()--> Ledger
         |                                |         |                    |
         +--> fan-out to the downstream   SpillBuffer DropJournal        LedgerBackend
              backend, bytes unchanged                                   (file, SQL)
                                                                         |
    SDK (with the payload vault), adapters ------commit()----------------+
                                                                         |
    CheckpointScheduler, Runtime --checkpoint()--> signed head --> CheckpointStore
                                                        |            Witness, anchor
    Crosswalk.evaluate(events) --> build_report() --> report --> verify_report(), the
                                                                browser's verifier, Go

**Evidence pipeline** (`ingest/pipeline.py`).  State: a bounded queue with its
count of unfinished tasks, the count of drops not yet declared (`_undeclared`) with
its window, the delegations seen (`_known`), counters, the flag and the thread of the
worker.  Operations: `submit` (any number of receiver threads), the worker's loop
(`_run`: get, refill from the spill, declare drops, normalise, commit with retries),
`flush` (a caller's thread), `stop`.  Hard: three kinds of threads share four locks
and the queue; the worker and `flush` both commit gap markers; the durable parts
outlive the process and are written in several steps; spans arrive in any order.
Correct when: no span vanishes silently; each drop is declared, once and before later
evidence; `flush` returns, and only when there is nothing left; a malformed span or a
failing commit never stops the worker.

**Spill buffer and drop journal** (`ingest/durable.py`).  State: a file of lines, a
cursor in memory and its copy on disk; a count on disk.  Operations: `append`,
`drain(accept)`, `pending`, reload at start; `record`, `clear`.  Hard: file and
cursor are two files written one after the other; an `accept` that declines
half-way; torn lines.  Correct when: a FIFO, `pending` exact, a restart finds what
was not consumed.

**Ledger** (`ledger.py`, `Ledger` with the backends in memory, in a file and in SQL).
State: the durable records, the positions of the records, the leaf hashes and the
incremental tree, one lock.  Operations: `commit`, `correct` (a commit), `checkpoint`
(signs size and root), reads and proofs, reopening.  Hard: the record is durable
before memory follows; a backend that raises has perhaps written; the file backend
heals a torn line by rewriting the file; reads of records take no lock; two processes
on one SQL table.  Correct when: it is an append-only log: signed heads commit to
prefixes of it for ever, what `commit` returned stays where it was, and readers agree
with the tree.

**Sharded ledger** (`ledger.py`, `ShardedLedger`).  State: its shards.  Operations:
`commit` to the shard of the agent, `checkpoint` over the shards' roots, inclusion
proofs in two levels.  Hard: a shard's size and root are read one after the other
while it grows.  Correct when: what is signed together belongs together, and a proof
made against it verifies.

**Merkle tree** (`merkle.py`; `core-go/` has a second implementation).  Pure
functions: tree hash, inclusion and consistency proofs with their verification, an
incremental tree, the super-tree over shards.  Hard: the split at the largest power
of two below the size, the bit arithmetic of verification, twice.  Correct when: the
incremental root is the tree hash, generated proofs verify, others do not, and both
implementations agree.

**Checkpoint stores and scheduler** (`checkpoint_store.py`, `scheduler.py`).  State: a
set of stored heads by size; the size last signed, a stop event, a thread.
Operations: `put`, `get`, `latest`; `tick`, `start`, `stop`.  Hard: signing, storing
and remembering are three steps; a `put` overwrites the file of its size in place; a
stopped scheduler.  Correct when: until `stop()`, for every commit `put()` returns in the
end for a head that covers it.

**Witness and anchor** (`witness.py`, `witness_service.py`, `anchor.py`).  State: the
last head endorsed; the list of heads published.  Operations: `cosign` (each request
of the service in a thread of its own, no lock), `publish`, `detect_equivocation`.
Hard: check and update of the last head are not atomic; the last head is not durable;
a caller does not know which head that is.  Correct when: an honest producer gets its
heads endorsed, and a fork shows.

**Crosswalk, report, verification** (`crosswalk.py`, `report.py`, `verify.py`,
`browser_verifier.py`, the gate of `cli.py`, `core-go/report.go`).  Pure over a list of
events: three-valued evaluation of controls, assembly of a report against a pinned
head, offline verification that re-derives verdicts.  Hard: the log grows between
evaluation and head; three verifiers have to agree.  Correct when: a report that was
built verifies, one that carries what is not in the log does not; a gap marker fails
the controls that depend on completeness.

**Runtime** (`runtime.py`, `_instrument.py`, `identity.py`).  State: a singleton with
ledger, store and key.  Operations: `report`, `persist_report` on a schedule,
`checkpoint`, `configure`, `reset_runtime`.  Hard: `report` reads the events, signs a
head and reads the events again; its file is named before.

**SDK and vault** (`sdk.py`, `vault.py`).  State: the ambient task of each thread; the
files of the payloads.  Operations: `task` blocks, the recorders, `record`; `store`,
`fetch`.  Hard: blocks are nested and left by exceptions, in several threads; a
payload is stored before the event that refers to it is checked and committed, and
stored again over the file that earlier events refer to.  Correct when: a recorded
reference can be fetched, and an event names the task it was recorded in.

**Receivers and collector** (`ingest/http_server.py`, `ingest/grpc_server.py`,
`ingest/fanout.py`, `ingest/otlp_common.py`, `collector` in `cli.py`).  State: server
threads.  Operations: authorise, fork to the pipeline, forward, answer; start and stop
in order.  Hard: clients give up and export again, a backend is slow or fails, the
process ends meanwhile.  Correct when: the evidence path never changes or delays the
primary one, and every span that was let in is taken over or counted.

**Adapters** (`adapters/`): conversions field by field; A2A delegations need what was
seen before.  **Authorisation** (`authz.py`): capabilities and tokens, a stateless
check.  **Events and canonical encoding** (`events.py`, `canonical.py`): what is in a leaf,
deterministic bytes, timestamps whose unit is guessed by size.  **Signing** (`signing.py`,
`_ed25519_pure.py`).  **Connectors** (`connectors/`): discovery of plug-ins.  **Command line,
dashboard, demos, SBOM**.

## 2. What is modelled: modules and code

| module | models | extends or instantiates |
|---|---|---|
| `SpillBuffer` | `SpillBuffer` of `ingest/durable.py`, each step of `append`, `drain`, `_atomic_write` and the reload | |
| `SpillQueue` | the same under every client, with faults and restarts | `SpillBuffer`, `Fifo` |
| `Fifo` | abstract: what an overflow buffer promises | |
| `EvidencePipeline` | `EvidencePipeline` with `DropJournal` and the spill | `SpillBuffer`, `EvidenceIntake` |
| `EvidenceIntake` | abstract: spans recorded at most once, drops declared at most once | |
| `EvidenceLedger` | `Ledger` over `FileLedgerBackend` | `AppendOnlyLog` |
| `AppendOnlyLog` | abstract: a transparency log | |
| `SqlLedger` | `Ledger` over `SQLLedgerBackend`, in several processes | |
| `MerkleProofs` | `merkle.py`: tree hash, proofs, verifiers, super-tree, as operators | |
| `MerkleTree` | `IncrementalMerkleTree`, against the proofs | `MerkleProofs` |
| `MerkleGo` | the same tree beside the one of the Go core | `MerkleTree`, `CoreGo` |
| `CoreGo` | `core-go/`: `merkle.go`, `consistency.go`, `event.go`, `report.go` | |
| `Checkpoints` | `signing.py`: keys, signatures, checkpoints, as operators | `MerkleProofs` |
| `Attestation` | `checkpoint()` of `Ledger` and `ShardedLedger`, `CheckpointScheduler`, `LocalCheckpointStore`, other callers of `Runtime.checkpoint` | |
| `Witness` | `witness.py`, `witness_service.py`, `anchor.py` over the heads of SQL ledgers | `SqlLedger`, `Checkpoints` |
| `Crosswalk` | `crosswalk.py`, as operators | |
| `Verification` | `report.py`, `verify.py`, `browser_verifier.py`, the gate of `cli.py`, as operators | `Crosswalk`, `Checkpoints` |
| `Report` | `Runtime.report`, `persist_report` and the report scheduler while events are committed | `Verification`, `CoreGo` |
| `Authz` | `authz.py`, as operators | |
| `Collector` | the receivers of `ingest/`, the exporters' retries, the shutdown in `cli.py` | `Authz`, `TelemetryProxy` |
| `TelemetryProxy` | abstract: a proxy between exporters and a backend | |
| `Fields` | records as functions of their fields, put together as `dict.update` does | |
| `Events` | `events.py`, `canonical.py` and `adapters/`, as operators | `Crosswalk`, `Checkpoints`, `Fields` |
| `Recorder` | `sdk.py`, `vault.py`, `_normalize` of the pipeline with the commit that follows, and a process that dies | `Events`, `Authz` |
| `MC...` | instances for TLC: lengths of lines, events, requests, symmetry | |
| `Positions` | the positions of rows, controls and results in ascending order, as one operator | |
| `DataLemmas` | lemmas on numbers, ascending positions, sums over finite sets, records put together, and files that consist of lines | `Positions`, `Fields`, `TLAPS`, the library's theorems |
| `SpillBufferProofs` | lemmas: what the operators of `SpillBuffer` find in a file of whole lines | `SpillBuffer`, `DataLemmas` |
| `EvidencePipelineProofs`, `EvidenceLedgerProofs`, `SpillQueueProofs` | theorems about the module they are named after | that module, `DataLemmas` |
| `MerkleTheorems` | theorems about `MerkleProofs`, `MerkleTree` and `MerkleGo` | `MerkleGo`, `DataLemmas` |
| `HeadProofs` | theorems about those who make heads: `Attestation`, `SqlLedger`, `Witness` | these, `MerkleTheorems` |
| `EdgeProofs` | theorems about both ends of the system: `Collector`, `Recorder` and `Report` | these, `MerkleTheorems` |

The models meet where the components do.  `EvidenceLedger` implements `AppendOnlyLog`, and
`Report`, `Recorder` and `Attestation` take the ledger to be one; `EvidencePipeline` implements
`EvidenceIntake`, whose two steps of the caller's thread are `Collector`'s `SubmitSpan`; the
operators of `MerkleProofs` and `Checkpoints` are what `Witness` and `Verification` check with.

### SpillBuffer, SpillQueue

The spill file is a sequence of abstract bytes: byte `<<s, k>>` is the k-th byte of
the line of span `s`, of `LineLen[s]` bytes, the last of which is the newline.  This
is the coarsest picture in which an offset can be wrong: a torn line, a line glued
to a torn one and a cursor left inside a line of another file all exist, and
`Parses` says what `json.loads` makes of the bytes up to the next newline.
`cursorFile` is the file `_atomic_write` replaces, `consumed` the attribute
`_consumed`, and `drain` says where the thread that holds `_lock` is.  `drain()` is one
action per line (`Take`, `SkipBlank`, `Decline`, `EndOfFile`, `ParseError`) followed by
`Compact` and `SaveCursor`, because a crash or a raised exception between any two
of these leaves another durable state.

### EvidencePipeline

`pc[t]` is where the worker and the thread in `flush()` are; `stage[s]` is where the
`submit()` of span `s` is (every span has a thread of its own, so any number of
submitters run at once).  Critical sections that touch one lock and no other
component are one action; commits, the settlement of a marker, the wait for a slot
and each step of a drain are actions of their own, because another thread or a crash
can come between.  `emitter` is the holder of `_emit_lock`, `drainer` of the spill's
lock.  `EmitBegin`, `Attest`, `AttestFails` and `Settle` are the four parts of
`_emit_drop_marker_if_pending`; `journal` is the count on disk.  `recorded[s]` and
`attested` are what the ledger holds.  Abstracted: the body of `_normalize` (it
succeeds, or raises for a span in `Malformed`; what it makes is in `Recorder`), the two
timestamps of a gap marker, the counters of `stats()` that no property needs, the
wake-up interval of the idle loop (`GetTimeout` can happen whenever the queue is empty).

### EvidenceLedger

The file is a sequence of lines of four kinds (whole, without its newline, torn,
garbled by a torn line before it).  A leaf hash is the event it is computed from and
a root the sequence of its leaves: the hash functions are taken to be injective.
`Write` is `commit()` from the acquisition of the lock to the end of `append_record`'s
`fsync`; `Publish` is the rest, in memory.  `CommitFails` is an append that raises with
nothing, part or all of its line written.  `HealBegin` and `HealEnd` are the two halves
of `write_bytes` in `_heal_torn_tail`: the file is empty in between, and `HealCrash` leaves
part of it.  `Open` rebuilds offsets, leaves and tree from the file and is only possible
when each line parses.  The history variable `clean` turns false when an append that
raised has left something in the file or a healing is cut short; see section 6 for
what the code does then.

### SqlLedger, Witness

A row has the number the database assigned and is `"open"` until its transaction
commits.  A process keeps the numbers it knows of (`idx`, `_idx`) and the leaves of its
tree, both filled when it opens the table, and has one connection, which sees the rows of its
own open transaction too (`View`).  `BeginCommit` counts the rows that are seen, `Insert` assigns the
number, `CommitRow` commits the transaction with all that is in it and adds one row to memory.
The table is sqlite's or PostgreSQL's (`qmark`).  `Raises` is any statement that raises, of a commit
or a read: PostgreSQL then refuses everything on that connection (`broken`), unless the
commit itself was refused, and has perhaps committed if the connection was lost; sqlite goes on, with the
transaction still open or without it, as nothing rolls back.  `ReadPastEnd` is `get_record` of a
position the process does not have yet, in any thread, also while another one is in `commit()`.
`left` and `mixed` are history variables for the two exceptions that section 6 describes.

The heads in `Witness` are those these processes sign.  `Ask` is `checkpoint()`, `publish()`
and the call of the service, with the consistency proof from the last head this caller
has an answer for; `Check` and `Endorse` are the two halves of `cosign()`, between which
other requests come; `GiveUp` is the client's timeout, and `RestartService` forgets the last
head.  Calls are modelled from `WitnessClient`; who calls, and again, is not in the
source.

### MerkleProofs, MerkleTree, MerkleGo, CoreGo

A hash is the term it is computed from (`<<"leaf", d>>`, `<<"node", <<l, r>>>>`), so two hashes
are equal exactly if their inputs are; the prefixes of `leaf_hash` and `node_hash` are the
tags, and a datum shaped like an interior node is among the inputs, so that a missing
prefix shows.  `TreeHash`, `InclusionProof` and `ConsistencyProof` are the recursions of the
code as recursive functions; `VerifyInclusion` and `VerifyConsistency` walk the bits of
index and size as the loops do.  The state machine is the frontier tree: `AppendLeaf`
carries like a binary counter, `RootOf` folds the frontier.  `CoreGo` has the recursions
and loops of the Go source, slices and shifts as they are there: a recursion over sub-slices
is a function on the pairs `<<a, b>>` of `leaves[a:b]` (`Slices`), a loop a function on its passes.
`MerkleGo` compares the two.
Abstracted: the arguments for which a generator raises are preconditions.

### Checkpoints, Attestation

A signature is the pair of its key and what it signs.  In `Attestation` a log is only
appended to, so its size stands for it and a root is the size of the log it was taken
of.  One behaviour has one log under one lock (`ReadHead`) or a sharded ledger (`ReadSize`,
`ReadRoot` shard after shard), chosen in `Init`.  A thread in `checkpoint()` keeps what it has
read in `snap`; `Skip` is `tick()` with an unchanged size, `Truncate` and `Write` are the two
halves of `write_text`, the second with the assignment of `_last_size` that follows;
`PutFails` is an exception out of `put()`.  The memory of the scheduler is lost by `Crash`,
its files are not.  Abstracted: the time, the callback `on_checkpoint`, the interval (a tick
comes in the end), the route of an event to a shard (any), and `skip_if_unchanged` is on,
its default.

### Crosswalk, Verification, Report

An event is the function from the paths of its fields to their values.  `Crosswalk` has
filters, the nodes of a condition with their links to other events, the three-valued
connectives, the scope of a control and the override by gap markers.  `Verification` has
`build_report` and its inclusion proofs, the checks of `verify_report` as the set of those
that fail, deep verification, the comparison of two reports, what the browser's verifier
checks, the exports and the exit code of the gate.  In `Report` a build is four steps
because commits come between (`EvaluateEvents`, `SignHead`, `Build`, `Write`), so a report is
determined by three sizes of the log, and `packs` holds them by file name.  A thread is
the report scheduler's or a caller's, chosen in `Init`.  `Fails` is an exception in one of
the steps, which the loop catches, `SizeRaises` the one that it does not, `StartsAgain` a new process.

### Authz, Collector, TelemetryProxy

Each attempt to export has a handler thread: `Accept` (path and token), `SubmitSpan` once per
span, `LeaveFork` (also after an exception), `Forward`, `BackendAnswers` or `TimesOut`, `Respond`.
`ClientGivesUp` and `Export` of the next attempt are the client's; `Backend` may count a
request whose answer comes too late.  `StopHttp` and `Exit` are the shutdown; `Exit` is a crash
too.  The clients are the exporter of `otel/` and those of OpenTelemetry.

### Events, Recorder

`Events` converts as the adapters do, to functions of paths; an event id and a payload's
hash are terms of their contents.  In `Recorder` a call of a client stores its payloads one
by one (`StoreOpens`, `StoreWrites`: the file is cut off in between), then `Record` makes the
event, asks the authorizer and commits.  `scope` is the ContextVar of each thread, `tokens`
what its blocks will reset it to; an operation may name the task, the context and the root
itself, which comes first (`ProvenanceOf`).  `Normalize` is `_normalize` of one span, which
notes the task in `known` (`_known`) and leaves the event in `work`; `CommitSpan` is the attempt that
commits it, `CommitFails` the end of a span for which none does, with `known` ahead of the log from
then on.  `records` is the log.  Clients, intake and the callers of adapters (`Import`) share nothing
but the log, so the runs have behaviours of the clients and behaviours of the others (`load`).

## 3. Runs: what each checks, and its bounds

| run | expects | shows |
|---|---|---|
| `Spill` | pass | all faults at every step, two of them: the buffer implements `Fifo` until a process dies or a line is torn, `pending()` is exact, drains empty it, no process hands a span out twice, and a restart finds what was not taken, unless a line was torn or a truncation lacks its cursor |
| `PipelineSafety` | pass | submitters, worker and `flush()`, a malformed span, two failures of commits, spill appends or journal writes: no span vanishes, `flush()` returns and only when all is settled, every span taken over is settled, `join()` counts the work exactly, and the pipeline implements `EvidenceIntake` |
| `PipelineDrops` | pass | no spill buffer, both committers of markers and `stop()`: drops are declared before later evidence, all of them in the end, and `stop()` ends the worker |
| `PipelineCrash` | pass | two faults of any kind but a failed journal write, with `stop()` and restarts: markers and journal cover every drop, a span is recorded, and a drop declared, at most once more per fault |
| `StopLosesSpill` | violation | see 6 |
| `LedgerSafety` | pass | two committers, signing, three faults of all six kinds: `get_event(i)` finds the event of leaf i whatever happened; while the ledger is clean heads are prefixes for ever, what was acknowledged keeps its index, unlocked reads agree with the tree, the ledger implements `AppendOnlyLog`, and it opens again |
| `Merkle` | pass | trees of up to nine leaves: the frontier tree has the root of the recursive definition, which fixes its leaves; each generated proof verifies, across three shards too, and no other proof made of subtrees does; the Go core computes and accepts the same |
| `Attestation` | pass | commits, the scheduler and another caller of `checkpoint()`, a put that raises or a crash, `stop()`: the heads of one ledger never equivocate, a stored head is lost only to a fault, and for every commit `put()` returns in the end for a head that covers it, unless `stop()` was called |
| `Reports` | pass | reports built while decisions, approvals, gaps and receipts are committed, one build or write that fails, and a thread that ends for good when the size cannot be had: every report passes the three verifiers and the Go core's report of its events does, deep verification fails only if a commit came between evaluation and checkpoint and never accepts a satisfied completeness control beside a gap; no accepted report, however its entries are put together and signed again, carries an event that is not in the log at its index; retained packs are ordered and cover every commit in the end, unless the thread has ended |
| `Witness` | pass | one or two processes on one table of sqlite or PostgreSQL, transactions that fail or stay open, requests that overlap, are lost or given up, a service that restarts: with one writer every process has the tree of the table's first rows and reads them at their positions, until a commit raises and leaves its row open; heads of no one history show at the anchor and nothing else does; an only writer's heads are endorsed in the end, while they are of the table's first rows |
| `Collector` | pass | HTTP and gRPC requests, malformed, misdirected, with a bad token, exported again when not answered, a backend that fails or is late, shutdown at any step: the collector implements `TelemetryProxy`, and an attempt that got through has all of its spans taken over or counted |
| `Recorder` | pass | two threads of clients, one of which may not write, nested blocks, calls that name the task themselves, a vault, or the spans of a task, its child and its grandchild, and of a task whose spans do not agree, in any order and repeatedly; one failure, span given up or death: recorded references can be fetched, provenance is the call's and then the block's, a root is a task that the recorded one comes from, and one that comes from no other if the spans agree and came in order |

Each module has one type invariant, `TypeOK` or, for parts of a larger state, `SqlTypeOK` and
the like.  It documents the state; the runs spend their time on the other properties.  Those
of all modules that have a proof module are proved, as are most of their properties (section 5).

Bounds, and why they are enough:

- `Spans` = 3 with `MaxQueue` = 1: one span in the worker's hands, one in the queue and
  one that overflows; without the spill two can be dropped while a marker for the first
  is in flight.  A longer queue adds nothing but more spans that wait.
- `MaxFaults` = 2 (3 in the ledger): a fault, and a second one while its consequences
  are being handled (a crash during the recovery, a commit that fails after a restart).
- `CommitRetries` = 1: a commit that fails and is retried, and one that is given up.
- `LineLen` 2 and 3 (spill alone) so that a cursor left by another file can fall inside
  a line; 3 in the pipeline, so that a torn line lacks its newline or more.
- `Events` = 2, `Writers` = 2, `MaxLines` = 4: two commits that race, before and after
  a restart; `MaxLines` bounds the log's length only.
- Merkle: sizes one to nine pass each shape of the last subtree (a power of two, one more,
  one less); the first three leaves are any of the data and the six after them distinct,
  and all proofs of up to three subtrees are tried on trees of up to five leaves.
- Attestation: two shards, so that one is read while the other grows; two threads that
  sign; `MaxEvents` = 2, so that a head is stored, the log grows and another follows; one
  fault, which meets each of those steps.
- Reports: three events of four templates (a decision, the approval it waits for, a gap, a
  receipt with an extra field) and the controls of `eu_ai_act.yaml` in short, so that each
  of the three statuses and each change of one by a later event occurs; `MaxIds` = 2, so that
  a list of evidence is cut off; one fault.
- Witness: two processes, three rows: a row that is lost or left open and two that are
  there, or a fork of two heads and an extension.  One fault with an only writer; none with two, whose fork is
  what can go wrong.  `ReadWriters` = 1: positions past the list are asked for where there is one
  writer, which is where `ReadsFollow` says something of the list; no commit and no head looks at it.
- Collector: one request, of six kinds, exported twice.  The handlers share nothing but the
  pipeline, which takes a span over or drops it, either way.
- Recorder: blocks nested twice, one event of the clients (which any number of stored
  payloads precede), by a recorder that names task and root or one that names nothing; or four of the
  intake: the spans of a chain of three tasks, in any
  order, with a repetition, or with a fourth task of which one span says that it comes from
  the second and one names none, so that the one known of it is overwritten; or two of the intake
  and the callers of adapters.  One fault.  The other recorders are in the proofs (section 5).
- Symmetry is used where no liveness property is checked; the well-formed spans are
  interchangeable.
- Deadlock is not checked where the system really stops (after `stop()`, after the worker
  has died, when the ledger's file cannot be opened any more, after the collector's exit) or
  where only a bound of the model stops it.

## 4. Fairness

`EvidencePipeline!Fairness`: a thread that can take a step takes one (weak fairness
of the worker's steps and of `join()` returning); a thread that waits for a lock that is
free again and again gets it in the end (strong fairness of the steps that take
`_emit_lock` or the spill's lock).  CPython's locks are not fair, but every holder here
releases its lock for a while (the worker sleeps up to `_drain_interval` between idle
passes), which is what the strong fairness stands for.  Nothing is assumed of the
callers of `submit()`, of `flush()` or `stop()` being called, or of faults.  In
`SpillQueue!FairSpec` the worker keeps taking spans off the queue, so that `accept`
does not decline for ever.  In `EvidenceLedger!FairSpec` a process that is down is started
again and finishes opening the ledger.  In `Attestation!Fairness` a thread inside `checkpoint()` or
`put()` goes on, the scheduler's bounded wait ends, and a process that is down is started again
and starts its scheduler; nobody has to call `checkpoint()` but the scheduler.

In `Report!Spec` the scheduler's thread runs and wakes up after each interval, until it
ends; a caller need not go on, and nobody has to start the process again.  In `Collector!Spec` each handler runs, and `urlopen` has a timeout; the backend, the
client and the shutdown may do nothing.  In `Witness!Spec` the service's threads run: it does
not have requests for ever and answer none of them, which is weaker than fairness of each
request's thread; and a writer without an answer asks again, the one assumption about callers
outside the source.

## 5. What is proved

Checked by TLAPS for all values of the constants.

`EvidencePipelineProofs`, any number of spans, threads' interleavings, faults, crashes:

- `TypeCorrect`: `Spec => []TypeOK`.  The type of `unfinished` says that `task_done()` is
  never called too often; it is not inductive without `JoinCountsWork` and the fact
  that the worker's program counter determines whether it holds an item.
- `JoinCorrect`: `Spec => []JoinCountsWork`.
- `DropsRemembered`: `Spec => []NoDropForgotten`, if the journal's writes succeed
  (`Journaled`), or there is no journal and no process dies.  The inductive invariant
  `DropInv` adds `LockInv` (a thread is inside the marker's critical section exactly if it
  holds `_emit_lock`, so at most one is) and `LedgerInv` (what is declared, in flight and
  still undeclared adds up; the journal is at least the undeclared count).
- `MarkersPrecedeSpans`: `Spec => []DropsAttestedFirst`, if the commits of markers succeed; over
  restarts too if the journal's writes do.  `SeenInv` says that what the worker saw when it got its
  item is declared, or is in the marker it is about to commit.
- `RepeatedOncePerFault`: `Spec => []RecordedOncePerFault`, under every kind of fault.  The
  property alone is not inductive.  `FlowInv` says that a span is in one place only: its line
  is in the file once, it is in the queue once, and what is in the queue or in the worker's
  hands is behind the cursor; as long as it waits anywhere, or the process is down, its
  records number at most `faults`, so that the one record to come is the extra one
  (`SpanInv`).  `DeclareInv` is the same account for the drops, summed over the markers a
  crash can repeat (`Budget`).
- `IntakeImplemented`: `Spec => IntakeSpec`, the pipeline implements `EvidenceIntake`, if
  nothing is left half done (`Genuine`: no crash, no torn line, no commit that raises after
  it wrote).  Commits, spill appends, journal and cursor writes may still raise.  With the
  faults it excludes, a span is recorded twice and the abstract specification is not met:
  that is what `RecordedOncePerFault` counts.
- `TakenOverIsKept`: `[]NoSpanVanishes`, and `FlushIsComplete`: `[]FlushComplete`, if no process
  dies and no line is torn (`Whole`).  `StayInv` says that the spill file is whole lines
  (`Lines`), that the cursor passes a line only as its span enters the queue, and that the
  worker lets go of an item only when it is settled; `FlushInv` says what each step of
  `flush()` has made sure of by then.

`EvidenceLedgerProofs`, any number of events, writers, lines and faults of any kind; nothing
is assumed of `Faults`:

- `TypeCorrect` and `OffsetsAlwaysAgree` hold whatever fails.  The invariant behind the second,
  `OffsetInv`, says that each offset, and the line of a commit under way, is that of a line with
  its newline, perhaps a garbled one, that has the event of the leaf; an append only ever
  changes a line without newline, and the healing only runs while no process has offsets.
- `HeadsAlwaysExtend`, `AckedAlwaysKept`, `ReadsAlwaysAgree`: the invariants `LedgerSafety` checks,
  which each hold while the ledger is `clean` (section 6 has what breaks them).
- `LogImplemented`: `Spec => LogSpec`, the ledger implements `AppendOnlyLog` in every step that
  leaves it clean.  The mapping reads the log off `Durable`, the lines the next process would
  find.

The inductive invariant is `clean => LedgerInv`, which works because `clean` never turns true
again.  `LedgerInv` has four parts: types; `DiskInv` (all lines are whole and carry their position, but
perhaps the last one while no process is up; a rewriting happens only while none is);
`MemoryInv` (memory is the file less the record of the one commit under way, or empty);
`HistoryInv` (heads and acknowledgements agree with `Durable`).  Lemma `DurableGrows` is the heart:
every step that leaves the ledger clean either leaves `Durable` as it is or appends one record to
it, so `HistoryInv` and the refinement follow.

`SpillQueueProofs`, any spans, any lengths of their lines, any order of appends, drains and faults:

- `TypeCorrect`; `PendingExact`: `[]PendingIsExact`, `pending()` is zero exactly when everything
  appended was handed out; `IsFifo`: `Spec => FifoWhileClean`, the buffer
  implements a FIFO until a process dies or a line is torn; `RestartExact`: `[]RestartIsExact`.
- `Layout`, behind all of these: while no line is torn the file is *laid out*, that is, there are
  offsets `o[0] < ... < o[n]` and spans `sp[1..n]` such that the line of `sp[i]` fills the bytes between
  `o[i-1]` and `o[i]`, and both cursors are among the offsets.  What `readline()` finds at such an
  offset is the next span's line (`NextLineIs`), and an append adds one offset (`LaidAppend`).
- `Handed`, for repetition after crashes, needs no layout: no byte of a span's line occurs
  twice in the file, so each time a span is handed out a second time the cursor must have gone
  back over its first byte, which only a death does.

`EdgeProofs`, any exporters, batches and attempts: `TypeCorrect`; `ForkComplete`: `[]ForkIsWhole`;
`ProxyImplemented`: the collector implements the safety part of `TelemetryProxy` (`Transparent` adds
its fairness and stays with TLC).  The invariant ties each handler's program counter to the copies of
its spans that are taken or dropped, and to whether its request was sent or answered.

`EdgeProofs`, any events, builders of reports and faults: `PacksOrdered`: `[]PacksInOrder`.  The
invariant `RInv` follows one build: the size in the file's name is at most the size evaluated, this at
most the one signed, this at most the one built of, this at most the log's length (`TaskInv`); and
what a file holds came that way, from a task that had waited longer than any that still runs
(`PacksInv`), which is why a later file never shows less.  The same invariant, for every crosswalk, log and fault,
gives the three properties of verification:

- `VerdictsFollowKept`: `[]VerdictsFollow`.  A build that was not overtaken is a report on the leaves of
  its checkpoint (`IsBuiltOf`, `IsReportOn`).  Deep verification takes a report exactly if its results
  are an evaluation of its own events (`DeepHolds`, `DeepSound`), and an evaluation has statuses,
  cites events that are there, and names a control once (`IsResult`).
- `ReportsVerifyKept`: `[]ReportsVerify`.  Each check passes: the proofs of inclusion by
  `InclusionComplete`, consistency with the log by `ConsistencyComplete`.  The Go core recomputes the
  root from the events (`SameTreeHash`), and its own report passes the checks in Python too.
- `AcceptedIsGenuineKept`: `[]AcceptedIsGenuine`.  A report with an entry put together from the others,
  signed again with the key, is accepted only if its events are those of the log at the index
  they claim, by `InclusionSound`.  Of a report in part, the entries keep their proofs, and it
  is accepted exactly if what its verdicts cite is among them (`AscendingIncreases`); the Go core,
  which has no proofs, takes the whole only (`RootVerified`).

`EdgeProofs`, any threads, operations, scopes, spans, imported events and faults, with `Recorder`:

- `VaultAnswersKept`: `[]VaultAnswers`, and `ScopesHeldKept`: `[]ScopesHeld`, of the invariant `KeptInv`.
  The ambient scope of a thread is that of its innermost block and its tokens are those of the
  blocks around it (`ScopeInv`, so leaving a block restores what an exception would restore too);
  the first `n` payloads of a call are in the vault (`CallInv`), and a file that is not whole is being
  written or its write was cut off (`VaultInv`).  `RecordedIs` says what an event is made of: each
  recorder fills its references with hashes of the operation's payloads, and each field of
  provenance is the call's, if it names one, and else the block's (`Told`).
- `RootsLeadKept`: `[]RootsLead`, for all spans, whether they agree or not: what a task comes from
  (`Lineage`) is what any of its spans says, and references may run in circles.  The invariant
  `RootsInv` says of the worker (`KnowsInv`) that it knows each task that was recorded since the process
  started, and perhaps more, because a commit failed for good; that what it knows of a task is in the
  task's lineage; and that it is a root if all is `Clear` for the task, that is, if the spans of
  each task in the lineage agree and came in order.  Of the event that waits for its commit
  (`WorkInv`) it says the same, under what was clear before it.  `ClearLater` is the heart: a record at
  the end of the log makes nothing clear but for its own task.

The first attempt at `ScopesHeldKept` failed for an earlier `ScopesHeld`, which claimed that the
recording principal has the capability: a client without a principal has authorization off
(authz.py, `require`), which the run's two principals never show.  It now says what the
authorizer decides.

`HeadProofs`, any threads, logs and faults: `TypeCorrect`; `OneRootForEachSize`:
`[]NoEquivocation`; `StoredHeadsStay`: `[]StoredStays`.  The first needs that a snapshot under way agrees
with the log it was taken of, the last that the files that are cut off are at most those being written
and one for each thread and fault.

`HeadProofs`, any finite set of processes on one SQL table, any events, any failures:
`ReadsFollowKept`: `[]ReadsFollow`, with `SqlTyped` (a process knows positions of rows that
are there or in its own open transaction, in ascending order) and `SoleInv`: with an only writer
every row that is there, or is open in its transaction, has its place as its leaf index (`PlacedIn`), also
after a commit raised; and until one leaves its row open, the writer knows every row there is
(`Writes`), and what another process has read is a prefix of that (`Follows`).  The code assigns a row's `leaf_index`
by counting and reads by order of number; with two writers neither fits, and the invariant is
claimed of one.  What it excepts of one (`left`, `mixed`) is in section 6.

`HeadProofs`, any processes, callers and requests: `ForksShowKept`: `[]ForksShow`.  What the
witness's service, its callers and the anchor hold are heads that were signed (`ServiceTyped`);
that the anchor is quiet about one log follows from `ConsistencyComplete`, that it is not about a
fork from `ConsistencySound`: what the verifier accepts is the root of a prefix.

`MerkleTheorems`, trees of any size, proofs made of anything:

- `InclusionSound`, `ConsistencySound`, `ShardedSound`: what a verifier accepts is the leaf at that
  index, the root of that prefix, the root of that shard, whatever the proof.  `Over(ls, a, b)`
  is the hash over the leaves from `a` to `b`, `NodeAt(ls, k, f)` the node `f` of level `k`, cut off
  at the last leaf.  The walk of a verifier goes up from node to node (`Step`): its hash is that
  of a node exactly if its sides are those of the children, because a node has one left and
  one right part (`NodeBinds`); read from the root down, each hash on the walk is the node the
  walk stands at, and the first one the leaf, or the largest complete subtree that ends the old
  tree, from which the old root is put together again.
- `InclusionComplete`, `ConsistencyComplete`: what the recursive generators make is accepted by the
  iterative verifiers, for every tree, leaf and earlier size.  By induction over subtrees: a
  `Frame` is a subtree the recursion can reach, and the walk over the proof made in it ends at
  its top, whether it goes up on the left or on the right (`AscendLeft`, `AscendRight`).
- `RootCommits`: two histories with one root are one history, whatever their lengths, also if a
  datum has the bytes of an interior node.
- `RootKept`, `InclusionKept`, `ConsistencyKept`: `[]RootAgrees`, `[]InclusionBinds` and
  `[]ConsistencyBinds` of the frontier tree.  The inductive invariant `TreeInv` says that level `l` of the
  frontier has the node over the last 2^l leaves of the part that is complete there, and is empty
  if the bit of the size is (`FrontierRight`): an append carries up to the first empty level, and the
  fold puts the nodes together from the right.  They assume `NoneIsNoHash`: a digest is never
  Python's `None`.

- `GoAgreesKept`: `[]GoAgrees`, the Go core's roots, proofs and verdicts are those of
  `merkle.py` for every log.  The recursions of one go through slices, those of the other through
  sizes and starts; by induction over sizes they are the same function (`RootOn`, `PathOn`).  The
  loops differ more: Go raises both nodes bit by bit, Python skips the zeros at once (`Risen`,
  `WalkOf`), so one pass of either is the other's, until one refuses and both do
  (`Going`, `Refusing`).

In these theorems the collision freedom of SHA-256 is in the model, where a hash is the term it
is computed from, and nowhere assumed on top of it.

Assumptions on constants, each stated in the module that declares them and evaluated by TLC:
`PipelineAssumption`, `LineLenAssumption` (a line has a text and a newline), `CollectorAssumption`,
`AttestationAssumption` and `ReportAssumption` (types), `SqlAssumption` (the processes are finitely
many), `WitnessAssumption` (a stranger's key is not the producer's), `CrosswalkAssumption` (the number
of ids a result cites at most is natural), `VerificationAssumption` (a crosswalk is found by its id, its
controls are told apart by theirs, and its status for an empty scope is one), `RecorderAssumption` (the
spans are finitely many, threads and spans are told apart, a with block sets fields of provenance and
none to None, and an operation is one of the five recorders').  Theorems that need
fewer faults say so (`Journaled`, `Deathless`, `MarkersCommit`, `Genuine`, `Whole`).

Where a proof goes by induction over a length, `DataLemmas` does it by the least number that fails
(`Least`): the library's induction theorems take an operator as a parameter, which the provers
cannot instantiate.

Model-checked only: liveness and what rests on fairness (`EverySpanSettles` and its like,
`Transparent` with its fairness), which is beyond this prover.  Every safety invariant that a passing
run checks has a theorem.  Events are put together with the operators of `Fields` and not with
TLC's `@@` and `:>`, and payloads are picked by `Positions` and not by `SelectSeq`: none of the
installed provers sees through those.

## 6. Where the code and its documents disagree

The run `StopLosesSpill` expects a violation; the counterexample is its output.  The worker's last
act, after the Sentinel, is to refill the queue from the spill; the spans are in a queue
without a reader, the durable cursor has moved past them (pipeline.py:261-264;
docs/SCALABILITY.md:202-203).

The others have no run of their own.  Most are steps of a model, and a property that holds states
the exception:

- A line of the spill torn by a crash makes every later `drain()` raise, which nothing
  catches: the worker ends, and at each later start again (durable.py:131, pipeline.py:228 and
  264; pipeline.py:5-6 says malformed spans are "never fatal").  `ParseError` is that step; a
  `flush()` then waits in `join()` for ever.
- A process that dies between the truncation of the drained spill and the writing of its cursor
  leaves an old cursor, and spans appended later below it are skipped (durable.py:141-143
  against 74-75).  `RestartIsExact` excepts that time.
- A crash after a marker's commit and before the journal is cleared declares the same drops
  again (pipeline.py:211; pipeline.py:178 says "never twice").  `RecordedOncePerFault` allows one
  repetition per fault.
- An append to the ledger whose `fsync` raises leaves a record in the file that is not in the
  tree; the next commit takes the same index, and after a restart, heads signed in between are
  not prefixes of the log (ledger.py:287; docs/ARCHITECTURE.md:67).  An append that raises half-way,
  in a process that goes on, and a death inside the healing spoil the file too.  `clean` is the
  exception in `HeadsExtend`, `AckedKept`, `ReadsAgree`, `LogSpec` and `Reopens`.
- `ShardedLedger.checkpoint()` takes a shard's lock for the size and again for the root; after a
  commit in between it signs a size with the root of a longer log (ledger.py:438; ledger.py:432-433
  calls the result internally consistent).  `NoEquivocation` is claimed of one `Ledger` only.
- A PostgreSQL statement that raises is not rolled back, so the connection refuses every later one
  until the process is restarted (ledger.py:204-206; docs/SCALABILITY.md:203, "A Postgres blip
  loses nothing", counts on retries).  `SqlLedger`'s `broken`.
- On sqlite a `commit()` that raises, because another process holds the file for instance, leaves the
  INSERT in the open transaction (ledger.py:200-202): `size()` counts the row, and the next append
  of the process commits both.  The table then has two rows, the positions and the tree only the
  later one, under the index of the second (against ledger.py:161-163, where the log relies on the
  order of the leaves being that of the reads).  After reopening, the heads of an only writer do not extend those it signed before: the
  anchor shows a fork, and the witness refuses it for good.  `Raises` with the state `"open"`; `left` in
  `ReadsFollow`, and the prefix in `HonestEndorsed`, except it.
- `get_record()` takes no lock (ledger.py:226-227, 319): the list it loads while the same process
  commits may have the row of that commit, which `append_record` then adds once more
  (ledger.py:202, 207), so later positions are one off until the process is restarted.  `mixed` in
  `ReadsFollow`.
- Two processes on one SQL table sign heads of different logs.  `ForksShow` shows that the
  anchor reveals it; `ReadsFollow` is claimed of one writer.
- `cosign()` takes no lock: of two requests that overlap, both are endorsed if each extends the
  last head, though neither extends the other (witness.py:6-8 against 53-62); and two different
  heads of the size of the last one are both endorsed one after the other, as no proof is
  asked for at equal sizes.  Nor is there an endpoint for the last head, so a caller that gave
  up a request the service goes on with can be refused for good: `late` in `HonestEndorsed`.
- `report()` evaluates the events before it signs the checkpoint (runtime.py:104-105); after a commit
  in between, deep verification refuses the report for its verdicts.  `VerdictsFollow` says so.
- The report scheduler asks for the size of the ledger outside its try (runtime.py:153).  With a SQL
  backend that is a query (ledger.py:209-215); if it raises, the thread ends for good, where the docstring
  has "Failures are logged and never crash the loop" (runtime.py:148).  `SizeRaises`;
  `CommitsGetReported` excepts a thread that has ended.
- The report scheduler rewrites `report-<size>.json` in place at each interval while nothing is
  committed (runtime.py:139), so a reader can find it cut off; `CommitsGetReported` is about the end.
- Storing a payload again truncates the file earlier references depend on (vault.py:50, commented
  as idempotent).  `VaultAnswers` excepts it.
- The Go core drops fields that a nested object has beyond its own (core-go/event.go keeps extras
  at the top level only), which the receipts' identity claims have (adapters/receipt.py:120-128):
  it refuses reports that carry a receipt.  `KnownToGo` in `ReportsVerify`.
- Found while reading, and not in a model: `core-go/timestamp.go` multiplies in 64 bits and divides
  towards zero, so seconds above 9 223 372 036 and negative times differ from Python's, which its
  comment (8-10) calls byte-identical; a torn line in the anchor's file makes `checkpoints()` raise;
  `S3CheckpointStore.tree_sizes` reads one page of the listing; `_resolve_key` (runtime.py:56-62)
  checks for the key file and writes it in two steps; the collector's gRPC receiver neither forwards
  nor checks tokens, and a backend's status other than 2xx is passed on as 502.

A failed write of the drop journal is left out of `PipelineCrash`: the count is then in memory only
and a crash forgets it.

## 7. What is not modelled

- SHA-256 and Ed25519 (`signing.py`, `_ed25519_pure.py`, PKCS#11): hashes are injective, a signature is
  the statement that something was signed.
- The bytes of the canonical encoding (`canonical.py`, `core-go/canonical.go`) and the units and
  formats of timestamps (`to_rfc3339`, `core-go/timestamp.go`): arithmetic on one value, without state.
- The S3 store and the S3 branch of the reports: each write is one request to an external service.
- `configure()`, `reset_runtime()`, the resolution of URIs and keys, the patching of frameworks by
  `_instrument.py`: performed once, at start.
- Texts, PDF and HTML, dashboard, demos, SBOM, the web sites, most of the command line: presentation
  without state of its own.  Connectors: a registry filled at import time.
- `committed_at`, which is taken outside the ledger's lock and so need not follow the order of the log:
  times are left out, and nothing in the source depends on that order.

## 8. Plan

Done, in this order: the intake and the ledger over files with their abstract specifications
and theorems; the Merkle tree and the attestation of heads; reports and their verification;
SQL ledgers, witness and anchor; the collector; events, adapters, SDK and vault; the Go core;
the ledger's theorems under every fault; the refinements and invariants of the spill, the
collector, the attestation and the pipeline; soundness and completeness of the Merkle proofs; the
Go core's agreement; the reads of SQL ledgers, the forks a witness shows, the order of report packs,
the verification of reports, what clients and spans record.

What is left: `configure()` and `reset_runtime()` against the threads of an earlier runtime, and
the S3 store's eventual listing.
