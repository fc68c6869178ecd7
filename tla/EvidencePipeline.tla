-------------------------- MODULE EvidencePipeline --------------------------
(***************************************************************************)
(* The evidence pipeline of ingest/pipeline.py with its durable parts,     *)
(* ingest/durable.py: a bounded queue filled by submit() from any number   *)
(* of receiver threads, one worker that commits to the ledger, the drop    *)
(* accounting with its journal, the spill buffer, flush() and stop() called *)
(* by other threads, and the death and restart of the process.             *)
(*                                                                         *)
(* A step is a stretch of code between two points where another thread can *)
(* run in between and matter: a queue operation, the acquisition of         *)
(* _emit_lock or of the spill buffer's lock, a file operation, a commit.    *)
(* _drop_lock never spans two steps, so it has no variable.                *)
(*                                                                         *)
(* The ledger is seen as the pipeline sees it: commit() records an event    *)
(* or raises.  recorded counts the records of each span and attested adds   *)
(* up dropped_events over the evidence_gap markers.                         *)
(***************************************************************************)
EXTENDS SpillBuffer

CONSTANTS MaxQueue,       \* max_queue
          CommitRetries,  \* commit_retries
          HasSpill,       \* a spill buffer is configured
          HasJournal,     \* a drop journal is configured
          Malformed,      \* the spans _normalize raises on
          MayFlush,       \* some thread calls flush()
          MayStop,        \* some thread calls stop()
          Faults,         \* the kinds of fault that can happen, see FaultKinds
          MaxFaults,      \* bound of the model: how many happen in a behaviour
          Sentinel,       \* _SENTINEL
          None            \* no item, no thread

FaultKinds == {"commit",   \* ledger.commit raises and recorded nothing
               "fsync",    \* ledger.commit, or the spill's append, raises after
                           \* the record, or the line, was written
               "journal",  \* a write or the unlink of the journal raises
               "spill",    \* the spill's append raises and wrote nothing
               "torn",     \* the spill's append raises; part is written
               "save",     \* the write of the spill's cursor file raises
               "crash",    \* the process dies between two steps
               "tear"}     \* the process dies inside the spill's append

ASSUME PipelineAssumption ==
    /\ MaxQueue \in Nat \ {0}
    /\ CommitRetries \in Nat
    /\ {HasSpill, HasJournal, MayFlush, MayStop} \subseteq BOOLEAN
    /\ Malformed \subseteq Spans
    /\ Faults \subseteq FaultKinds
    /\ MaxFaults \in Nat
    /\ Sentinel \notin Spans /\ None \notin Spans /\ Sentinel # None
    /\ None \notin {"worker", "flusher"}

\* The two threads that commit markers and drain the spill buffer.
Threads == {"worker", "flusher"}

\* The steps they can be at; those of a call both make are shared.
CallSteps == {"down", "draining", "emit", "attest", "settle"}
WorkerSteps == CallSteps \cup {"get", "normalize", "commit", "done", "exited", "dead"}
FlusherSteps == CallSteps \cup {"idle", "join", "pending", "rejoin", "repending", "flushed"}

VARIABLES
    stage,       \* where submit() is with each span, and what it did with it
    queue,       \* _q: spans and at most one Sentinel
    unfinished,  \* _q.unfinished_tasks, what join() waits for
    pc,          \* the step each of the two threads is at
    item,        \* the item the worker is handling
    attempt,     \* the attempt of its commit
    emitter,     \* the thread that holds _emit_lock
    batch,       \* n, the drops the marker in flight declares
    drainer,     \* the thread inside drain(), which holds the spill's lock
    undeclared,  \* _undeclared_drops
    stopped,     \* stop() has put the Sentinel
    journal,     \* durable: the count in drop_intent.json (0 if absent)
    recorded,    \* durable: how many records of each span the ledger holds
    attested,    \* durable: the sum of dropped_events over the markers
    errored,     \* history: the spans given up and counted in errors
    dropped,     \* history: spans dropped since the first start
    seen,        \* history: dropped when the worker got its item
    quiet,       \* history: no submit() ran since flush() was called
    faults       \* how many faults have happened

emitVars    == <<emitter, batch, undeclared, journal, attested>>
queueVars   == <<queue, unfinished>>
workVars    == <<item, attempt, seen>>
historyVars == <<errored, dropped>>
vars == <<spillVars, stage, queueVars, pc, workVars, emitVars, drainer, stopped,
          recorded, historyVars, quiet, faults>>

TypeOK ==
    /\ SpillTypeOK
    /\ stage \in [Spans -> {"new", "full", "failed", "queued", "spilled",
                            "dropped", "lost"}]
    /\ queue \in Seq(Spans \cup {Sentinel})
    /\ unfinished \in Nat
    /\ pc \in [Threads -> WorkerSteps \cup FlusherSteps]
    /\ pc["worker"] \in WorkerSteps /\ pc["flusher"] \in FlusherSteps
    /\ item \in Spans \cup {Sentinel, None}
    /\ attempt \in 0..CommitRetries
    /\ emitter \in Threads \cup {None}
    /\ batch \in Nat
    /\ drainer \in Threads \cup {None}
    /\ undeclared \in Nat
    /\ stopped \in BOOLEAN
    /\ journal \in Nat
    /\ recorded \in [Spans -> Nat]
    /\ attested \in Nat
    /\ errored \subseteq Spans
    /\ dropped \in Nat
    /\ seen \in Nat
    /\ quiet \in BOOLEAN
    /\ faults \in 0..MaxFaults

Init ==
    /\ SpillInit
    /\ stage = [s \in Spans |-> "new"]
    /\ queue = <<>> /\ unfinished = 0
    /\ pc = [t \in Threads |-> IF t = "worker" THEN "get" ELSE "idle"]
    /\ item = None /\ attempt = 0 /\ seen = 0
    /\ emitter = None /\ batch = 0
    /\ drainer = None
    /\ undeclared = 0 /\ journal = 0 /\ attested = 0
    /\ stopped = FALSE
    /\ recorded = [s \in Spans |-> 0]
    /\ errored = {} /\ dropped = 0
    /\ quiet = TRUE
    /\ faults = 0

----------------------------------------------------------------------------
(* Helpers. *)

Up == pc["worker"] # "down"

At(t, label) == pc[t] = label

GoTo(t, label) == pc' = [pc EXCEPT ![t] = label]

\* A fault of this kind happens now.
Fault(kind) ==
    /\ kind \in Faults
    /\ faults < MaxFaults
    /\ faults' = faults + 1

NoFault == UNCHANGED faults

\* put_nowait(x): the queue must have room.
Put(x) ==
    /\ Len(queue) < MaxQueue
    /\ queue' = Append(queue, x)
    /\ unfinished' = unfinished + 1

\* drop_intent.json is replaced by a journal of n drops (removed for n = 0), or
\* the write raises and the old one stands; without a journal nothing happens.
JournalBecomes(n) ==
    \/ /\ journal' = IF HasJournal THEN n ELSE journal
       /\ NoFault
    \/ /\ HasJournal /\ Fault("journal")
       /\ UNCHANGED journal

----------------------------------------------------------------------------
(* submit(), for one span of the batch a receiver thread hands over.       *)

SubmitVars == <<spillVars, pc, workVars, emitter, batch, attested, drainer,
                stopped, recorded, errored>>

Enqueue(s) ==
    /\ Up /\ stage[s] = "new"
    /\ Put(s)
    /\ stage' = [stage EXCEPT ![s] = "queued"]
    /\ quiet' = FALSE
    /\ UNCHANGED <<SubmitVars, undeclared, journal, dropped, faults>>

\* queue.Full: the span overflows to the spill buffer, or is dropped.
Overflow(s) ==
    /\ Up /\ stage[s] = "new"
    /\ Len(queue) = MaxQueue
    /\ stage' = [stage EXCEPT ![s] = IF HasSpill THEN "full" ELSE "failed"]
    /\ quiet' = FALSE
    /\ UNCHANGED <<SubmitVars, queueVars, undeclared, journal, dropped, faults>>

SpillSpan(s) ==
    /\ Up /\ stage[s] = "full"
    /\ AppendLine(s)
    /\ stage' = [stage EXCEPT ![s] = "spilled"]
    /\ quiet' = FALSE
    /\ UNCHANGED <<queueVars, pc, workVars, emitVars, drainer, stopped, recorded,
                   historyVars, faults>>

SpillFails(s) ==
    /\ Up /\ stage[s] = "full"
    /\ \/ Fault("spill") /\ AppendRaises(s, 0)
       \/ Fault("fsync") /\ AppendRaises(s, LineLen[s])
       \/ Fault("torn") /\ \E k \in 1..(LineLen[s] - 1) : AppendRaises(s, k)
    /\ stage' = [stage EXCEPT ![s] = "failed"]
    /\ quiet' = FALSE
    /\ UNCHANGED <<queueVars, pc, workVars, emitVars, drainer, stopped, recorded,
                   historyVars>>

\* The block under _drop_lock: count the drop and journal the count.
Drop(s) ==
    /\ Up /\ stage[s] = "failed"
    /\ stage' = [stage EXCEPT ![s] = "dropped"]
    /\ dropped' = dropped + 1
    /\ undeclared' = undeclared + 1
    /\ JournalBecomes(undeclared + 1)
    /\ quiet' = FALSE
    /\ UNCHANGED <<SubmitVars, queueVars>>

----------------------------------------------------------------------------
(* _emit_drop_marker_if_pending(), called by the worker and by flush().    *)

\* Where the call returns to.
AfterEmit(t) ==
    IF t = "flusher" THEN "flushed"
    ELSE CASE item = None     -> "get"
           [] item = Sentinel -> "done"
           [] OTHER           -> "normalize"

EmitUnchanged == <<spillVars, stage, queueVars, workVars, drainer, stopped,
                   recorded, historyVars, quiet>>

EmitNothing(t) ==
    /\ At(t, "emit") /\ emitter = None
    /\ undeclared = 0
    /\ GoTo(t, AfterEmit(t))
    /\ UNCHANGED <<EmitUnchanged, emitVars, faults>>

\* Mutant: without _emit_lock.
EmitBeginUnlocked(t) ==
    /\ At(t, "emit")
    /\ undeclared > 0
    /\ emitter' = t
    /\ batch' = undeclared
    /\ GoTo(t, "attest")
    /\ UNCHANGED <<EmitUnchanged, undeclared, journal, attested, faults>>

\* Mutant: the count and the journal are cleared when the batch is claimed.
EmitBeginClears(t) ==
    /\ At(t, "emit") /\ emitter = None
    /\ undeclared > 0
    /\ emitter' = t
    /\ batch' = undeclared
    /\ undeclared' = 0 /\ journal' = 0
    /\ GoTo(t, "attest")
    /\ UNCHANGED <<EmitUnchanged, attested, faults>>

EmitBegin(t) ==
    /\ At(t, "emit") /\ emitter = None
    /\ undeclared > 0
    /\ emitter' = t
    /\ batch' = undeclared
    /\ GoTo(t, "attest")
    /\ UNCHANGED <<EmitUnchanged, undeclared, journal, attested, faults>>

\* The commit of the marker.  The drops are declared but still counted.
Attest(t) ==
    /\ At(t, "attest")
    /\ attested' = attested + batch
    /\ NoFault
    /\ GoTo(t, "settle")
    /\ UNCHANGED <<EmitUnchanged, emitter, batch, undeclared, journal>>

\* The commit raises: the exception is swallowed and nothing was reset.
AttestFails(t) ==
    /\ At(t, "attest")
    /\ \/ Fault("commit") /\ UNCHANGED attested
       \/ Fault("fsync") /\ attested' = attested + batch
    /\ emitter' = None
    /\ batch' = 0
    /\ GoTo(t, AfterEmit(t))
    /\ UNCHANGED <<EmitUnchanged, undeclared, journal>>

\* Under _drop_lock: subtract the batch, clear or rewrite the journal.
Settle(t) ==
    /\ At(t, "settle")
    /\ undeclared' = IF undeclared > batch THEN undeclared - batch ELSE 0
    /\ JournalBecomes(undeclared')
    /\ emitter' = None
    /\ batch' = 0
    /\ GoTo(t, AfterEmit(t))
    /\ UNCHANGED <<EmitUnchanged, attested>>

Emit(t) == EmitNothing(t) \/ EmitBegin(t) \/ Attest(t) \/ AttestFails(t) \/ Settle(t)

----------------------------------------------------------------------------
(* _refill_from_spill(), called by the worker and by flush().  The worker   *)
(* calls it after an idle wait (item is None) and in the finally clause of  *)
(* every item.                                                              *)

\* Mutant: the Sentinel does not end the loop.
AfterDrainGoesOn(t) ==
    IF t = "flusher" THEN "join"
    ELSE IF item = None THEN "emit" ELSE "get"

AfterDrain(t) ==
    IF t = "flusher" THEN "join"
    ELSE CASE item = None     -> "emit"
           [] item = Sentinel -> "exited"
           [] OTHER           -> "get"

\* Where an exception out of drain() leaves the thread: nothing in _run catches
\* it, and flush() passes it to its caller.
DrainRaised(t) == IF t = "worker" THEN "dead" ELSE "idle"

\* The thread leaves drain(): the lock is free, the worker has no item.
LeaveDrain(t, label) ==
    /\ drainer' = None
    /\ GoTo(t, label)
    /\ item' = IF t = "worker" THEN None ELSE item

DrainUnchanged == <<stage, attempt, seen, emitVars, stopped, recorded,
                    historyVars, quiet>>

SkipDrain(t) ==
    /\ At(t, "draining") /\ ~HasSpill
    /\ LeaveDrain(t, AfterDrain(t))
    /\ UNCHANGED <<DrainUnchanged, spillVars, queueVars, faults>>

EnterDrain(t) ==
    /\ At(t, "draining") /\ HasSpill /\ drainer = None
    /\ BeginDrain
    /\ drainer' = t
    /\ UNCHANGED <<DrainUnchanged, queueVars, pc, item, faults>>

\* accept(s): put_nowait succeeds, or the queue is full and the loop ends.
DrainLine(t) ==
    /\ drainer = t
    /\ \/ \E s \in Spans : Take(s) /\ Put(s)
       \/ /\ Len(queue) = MaxQueue
          /\ \E s \in Spans : Decline(s)
          /\ UNCHANGED queueVars
       \/ (SkipBlank \/ EndOfFile \/ Compact) /\ UNCHANGED queueVars
    /\ UNCHANGED <<DrainUnchanged, drainer, pc, item, faults>>

EndDrain(t) ==
    /\ drainer = t
    /\ SaveCursor
    /\ LeaveDrain(t, AfterDrain(t))
    /\ UNCHANGED <<DrainUnchanged, queueVars, faults>>

DrainFails(t) ==
    /\ drainer = t
    /\ \/ ParseError /\ NoFault
       \/ SaveCursorRaises /\ Fault("save")
    /\ LeaveDrain(t, DrainRaised(t))
    /\ UNCHANGED <<DrainUnchanged, queueVars>>

Drain(t) == SkipDrain(t) \/ EnterDrain(t) \/ DrainLine(t) \/ EndDrain(t) \/ DrainFails(t)

----------------------------------------------------------------------------
(* _run(), the worker's loop.                                              *)

\* Mutant: the marker is left to the idle pass.
GetItemNoMarker ==
    /\ At("worker", "get")
    /\ queue # <<>>
    /\ item' = Head(queue)
    /\ queue' = Tail(queue)
    /\ seen' = dropped
    /\ GoTo("worker", IF item' = Sentinel THEN "done" ELSE "normalize")
    /\ UNCHANGED <<spillVars, stage, unfinished, attempt, emitVars, drainer,
                   stopped, recorded, historyVars, quiet, faults>>

GetItem ==
    /\ At("worker", "get")
    /\ queue # <<>>
    /\ item' = Head(queue)
    /\ queue' = Tail(queue)
    /\ seen' = dropped
    /\ GoTo("worker", "emit")
    /\ UNCHANGED <<spillVars, stage, unfinished, attempt, emitVars, drainer,
                   stopped, recorded, historyVars, quiet, faults>>

\* queue.Empty after _drain_interval: refill, then emit, then get again.
GetTimeout ==
    /\ At("worker", "get")
    /\ queue = <<>>
    /\ GoTo("worker", "draining")
    /\ UNCHANGED <<spillVars, stage, queueVars, workVars, emitVars, drainer,
                   stopped, recorded, historyVars, quiet, faults>>

\* Mutant: a malformed span skips the finally clause.
NormalizeSkipsDone ==
    /\ At("worker", "normalize")
    /\ IF item \in Malformed
         THEN errored' = errored \cup {item} /\ item' = None /\ GoTo("worker", "get")
         ELSE UNCHANGED <<errored, item>> /\ GoTo("worker", "commit")
    /\ attempt' = 0
    /\ UNCHANGED <<spillVars, stage, queueVars, seen, emitVars, drainer,
                   stopped, recorded, dropped, quiet, faults>>

Normalize ==
    /\ At("worker", "normalize")
    /\ IF item \in Malformed
         THEN errored' = errored \cup {item} /\ GoTo("worker", "done")
         ELSE UNCHANGED errored /\ GoTo("worker", "commit")
    /\ attempt' = 0
    /\ UNCHANGED <<spillVars, stage, queueVars, item, seen, emitVars, drainer,
                   stopped, recorded, dropped, quiet, faults>>

CommitUnchanged == <<spillVars, stage, queueVars, item, seen, emitVars, drainer,
                     stopped, dropped, quiet>>

Commit ==
    /\ At("worker", "commit")
    /\ recorded' = [recorded EXCEPT ![item] = @ + 1]
    /\ GoTo("worker", "done")
    /\ UNCHANGED <<CommitUnchanged, attempt, errored, faults>>

\* The commit raises: try again, or count an error when no retry is left.
CommitFails ==
    /\ At("worker", "commit")
    /\ \/ Fault("commit") /\ UNCHANGED recorded
       \/ Fault("fsync") /\ recorded' = [recorded EXCEPT ![item] = @ + 1]
    /\ \/ /\ attempt < CommitRetries
          /\ attempt' = attempt + 1
          /\ UNCHANGED <<pc, errored>>
       \/ /\ attempt = CommitRetries
          /\ errored' = errored \cup {item}
          /\ GoTo("worker", "done")
          /\ UNCHANGED attempt
    /\ UNCHANGED CommitUnchanged

\* The finally clause: task_done(), then the refill.
TaskDone ==
    /\ At("worker", "done")
    /\ unfinished' = unfinished - 1
    /\ GoTo("worker", "draining")
    /\ UNCHANGED <<spillVars, stage, queue, workVars, emitVars, drainer, stopped,
                   recorded, historyVars, quiet, faults>>

Worker == GetItem \/ GetTimeout \/ Normalize \/ Commit \/ CommitFails \/ TaskDone

----------------------------------------------------------------------------
(* flush() and stop().                                                     *)

FlushUnchanged == <<spillVars, stage, queueVars, workVars, emitVars, drainer,
                    stopped, recorded, historyVars, faults>>

Flush ==
    /\ MayFlush
    /\ At("flusher", "idle")
    /\ GoTo("flusher", "draining")
    /\ quiet' = (\A s \in Spans : stage[s] \notin {"full", "failed"})
    /\ UNCHANGED FlushUnchanged

\* Mutant: waits for an empty queue, not for the work in hand.
JoinQueueOnly ==
    /\ \/ At("flusher", "join") /\ GoTo("flusher", IF HasSpill THEN "pending" ELSE "emit")
       \/ At("flusher", "rejoin") /\ GoTo("flusher", "repending")
    /\ queue = <<>>
    /\ UNCHANGED <<FlushUnchanged, quiet>>

\* _q.join(), the first of the loop or the one after an empty spill.
Join ==
    /\ \/ At("flusher", "join") /\ GoTo("flusher", IF HasSpill THEN "pending" ELSE "emit")
       \/ At("flusher", "rejoin") /\ GoTo("flusher", "repending")
    /\ unfinished = 0
    /\ UNCHANGED <<FlushUnchanged, quiet>>

\* _spill.pending(), which waits for a drain or an append in progress.
Pending ==
    /\ drainer = None
    /\ \/ At("flusher", "pending") /\ GoTo("flusher", IF HasPending THEN "draining" ELSE "rejoin")
       \/ At("flusher", "repending") /\ GoTo("flusher", IF HasPending THEN "draining" ELSE "emit")
    /\ UNCHANGED <<FlushUnchanged, quiet>>

FlushReturns ==
    /\ At("flusher", "flushed")
    /\ GoTo("flusher", "idle")
    /\ UNCHANGED <<FlushUnchanged, quiet>>

Flusher == Flush \/ Join \/ Pending \/ FlushReturns

\* stop(): a blocking put, once; then it waits at most five seconds.
Stop ==
    /\ MayStop /\ Up /\ ~stopped
    /\ Put(Sentinel)
    /\ stopped' = TRUE
    /\ UNCHANGED <<spillVars, stage, pc, workVars, emitVars, drainer, recorded,
                   historyVars, quiet, faults>>

----------------------------------------------------------------------------
(* The process dies; a new one runs __init__ over what is on disk.         *)

Crash ==
    /\ Up
    /\ \/ Fault("crash") /\ Die
       \/ /\ Fault("tear")
          /\ \E s \in Spans : /\ stage[s] = "full"
                              /\ \E k \in 1..(LineLen[s] - 1) : DieAppending(s, k)
    /\ pc' = [t \in Threads |-> "down"]
    /\ stage' = [s \in Spans |-> IF stage[s] \in {"full", "failed"} THEN "lost" ELSE stage[s]]
    /\ queue' = <<>> /\ unfinished' = 0
    /\ item' = None /\ attempt' = 0 /\ seen' = 0
    /\ emitter' = None /\ batch' = 0 /\ drainer' = None
    /\ undeclared' = 0
    /\ stopped' = FALSE
    /\ quiet' = TRUE
    /\ UNCHANGED <<journal, recorded, attested, historyVars>>

Restart ==
    /\ ~Up
    /\ Reopen
    /\ pc' = [t \in Threads |-> IF t = "worker" THEN "get" ELSE "idle"]
    /\ undeclared' = journal
    /\ UNCHANGED <<stage, queueVars, workVars, emitter, batch, journal, attested,
                   drainer, stopped, recorded, historyVars, quiet, faults>>

----------------------------------------------------------------------------
Submit(s) == Enqueue(s) \/ Overflow(s) \/ SpillSpan(s) \/ SpillFails(s) \/ Drop(s)

Next ==
    \/ \E s \in Spans : Submit(s)
    \/ \E t \in Threads : Emit(t) \/ Drain(t)
    \/ Worker \/ Flusher
    \/ Stop
    \/ Crash \/ Restart

Spec == Init /\ [][Next]_vars

\* The scheduling the liveness properties rest on.  A thread that can step does
\* (WF).  One that waits for a lock which is free again and again gets it in the
\* end (SF): the worker sleeps up to _drain_interval between two idle passes and
\* holds no lock meanwhile.  Nothing is assumed of the callers of submit().
Fairness ==
    /\ WF_vars(Worker)
    /\ WF_vars(Join \/ FlushReturns)
    /\ SF_vars(Emit("worker") \/ Drain("worker"))
    /\ SF_vars(Emit("flusher") \/ Drain("flusher") \/ Pending)

FairSpec == Spec /\ Fairness

\* The collector shuts down (cli.py): coll.stop() ends the receivers before
\* pipe.stop() is called, so no submit() runs once the Sentinel is in the queue.
ShutdownSpec == Init /\ [][Next /\ (stopped => UNCHANGED stage)]_vars

----------------------------------------------------------------------------
(* Properties.                                                             *)

\* The marker in flight has been committed and its batch is still counted.
InFlight == IF \E t \in Threads : At(t, "settle") THEN batch ELSE 0

\* join() waits for exactly the items queued or in the worker's hands: a flush()
\* neither returns early nor waits for an item nobody will finish.
JoinCountsWork ==
    unfinished = Len(queue) + (IF item # None /\ ~At("worker", "draining") THEN 1 ELSE 0)

\* pipeline.py:171-177: no drop is forgotten, not even by a process that dies in
\* the middle of a marker's commit: the markers in the ledger and the count a
\* restart would recover from the journal cover every span ever dropped.
NoDropForgotten == dropped <= attested + (IF HasJournal THEN journal ELSE undeclared)

\* pipeline.py:236-237: "A drop seen before this span is attested before the span
\* commits, so the marker's position in the log precedes later evidence."
\* Likewise when the worker ends, for the drops seen before the Sentinel.
DropsAttestedFirst ==
    At("worker", "commit") \/ At("worker", "exited") => attested >= seen

InQueue(s) == \E i \in DOMAIN queue : queue[i] = s

Settled(s) == recorded[s] > 0 \/ s \in errored

\* Every span submit() took over is somewhere: settled, in the worker's hands, in
\* the queue, or on a line of the spill file the cursor has not passed.
NoSpanVanishes ==
    \A s \in Spans :
        stage[s] \in {"queued", "spilled"} =>
            Settled(s) \/ item = s \/ InQueue(s) \/ StoredFrom(consumed, s)

\* A crash repeats at most what it interrupts: a span is recorded once, and once
\* more for each fault that could leave a record behind it was not told of; so is a
\* drop declared (pipeline.py:178 has "every drop is attested once, never twice").
RecordedOncePerFault ==
    /\ \A s \in Spans : recorded[s] <= 1 + faults
    /\ attested <= (1 + faults) * dropped

\* flush() returns, with no submit() meanwhile, only when every span taken over is
\* settled and every drop attested (a marker whose commit failed is left pending).
FlushComplete ==
    At("flusher", "flushed") /\ quiet =>
        /\ \A s \in Spans : stage[s] \in {"queued", "spilled"} => Settled(s)
        /\ undeclared > 0 => faults > 0

\* docs/SCALABILITY.md:202-203: what overflowed "drains back when capacity returns".
\* A spilled span is recorded, or it is still on disk or in reach of the worker.
SpilledStaysInReach ==
    \A s \in Spans :
        stage[s] = "spilled" =>
            \/ Settled(s)
            \/ StoredFrom(consumed, s)
            \/ (item = s \/ InQueue(s)) /\ ~At("worker", "exited")

\* Every span taken over is settled in the end.
EverySpanSettles ==
    \A s \in Spans : stage[s] \in {"queued", "spilled"} ~> Settled(s)

\* Drops are declared in the end, with no further traffic, unless stop() is called.
DropsGetAttested == undeclared > 0 ~> undeclared = 0 \/ stopped

\* flush() returns.
FlushReturnsAlways == At("flusher", "draining") ~> At("flusher", "idle")

\* After stop() the worker's loop ends.
StopEndsWorker == stopped ~> At("worker", "exited")

\* The idle pass and the Sentinel both get through: no drop stays undeclared for
\* want of traffic, and stop() is not held up by what it finds (pipeline.py:227-234).
WorkerGetsThrough == DropsGetAttested /\ StopEndsWorker

\* Seen from outside the pipeline is an intake that records each span at most
\* once and declares each drop at most once (see EvidenceIntake).
Intake == INSTANCE EvidenceIntake WITH
    taken <- {s \in Spans : stage[s] \in {"queued", "spilled"}},
    given <- errored,
    owed  <- dropped - attested

IntakeSpec == Intake!Spec
=============================================================================
