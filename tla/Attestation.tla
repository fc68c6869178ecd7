---------------------------- MODULE Attestation ----------------------------
(***************************************************************************)
(* Tree heads: Ledger.checkpoint() and ShardedLedger.checkpoint() (both of  *)
(* ledger.py), the CheckpointScheduler of scheduler.py, other threads that  *)
(* call Runtime.checkpoint(), and the LocalCheckpointStore they all put     *)
(* their heads in (checkpoint_store.py).                                    *)
(*                                                                         *)
(* A log is only ever appended to (EvidenceLedger implements that), so its  *)
(* size stands for it, and a root is the size of the log it was taken from. *)
(***************************************************************************)
EXTENDS Integers, SequencesExt, FiniteSetsExt, Functions

CONSTANTS Kinds,      \* whether the ledger is a ShardedLedger, or either
          Shards,     \* how many logs a ShardedLedger has
          Callers,    \* the threads that call Runtime.checkpoint()
          Scheduler,  \* the thread of the CheckpointScheduler
          MaxEvents,  \* bound of the model: the events committed
          MaxFailures,  \* bound of the model: the puts that raise and the crashes
          Torn,       \* a file that is not, or not yet, written whole
          Nothing        \* no file, no size

ASSUME AttestationAssumption ==
    /\ Shards \in Nat \ {0} /\ MaxEvents \in Nat /\ MaxFailures \in Nat
    /\ Kinds \subseteq BOOLEAN
    /\ Scheduler \notin Callers /\ IsFiniteSet(Callers)
    /\ \A n \in {1, Shards} :   \* no signed head is mistaken for a file that is cut off
          {Nothing, Torn} \cap [sizes : [1..n -> 0..MaxEvents], roots : [1..n -> 0..MaxEvents]] = {}

Threads == Callers \cup {Scheduler}

VARIABLES
    sharded,   \* the ledger is a ShardedLedger; it is one log otherwise
    logs,      \* the size of each log
    pc,        \* where each thread is; "off": the scheduler's thread does not exist
    snap,      \* what a thread in checkpoint() has read: sizes and roots of the shards
    lastSize,  \* memory: the scheduler's _last_size
    stopped,   \* memory: the scheduler's _stop
    files,     \* durable: the store, one file for each tree size
    up,        \* the process runs
    failures,    \* how many failures have happened
    stored     \* history: the sizes for which put() returned

process == <<pc, snap, lastSize, stopped, up>>
attestationVars == <<sharded, logs, process, files, failures, stored>>

\* How many logs there are.
Width == IF sharded THEN Shards ELSE 1

Total(sizes) == FoldFunction(+, 0, sizes)
Size(h) == Total(h.sizes)
Committed == Total(logs)
Empty == [sizes |-> <<>>, roots |-> <<>>]
Snapshots == [sizes : [1..Width -> 0..MaxEvents], roots : [1..Width -> 0..MaxEvents]]

Readable(n) == files[n] \notin {Nothing, Torn}

AttestationTypeOK ==
    /\ sharded \in Kinds
    /\ logs \in [1..Width -> Nat]
    /\ pc \in [Threads -> {"off", "idle", "reading", "writing"}]
    /\ \A t \in Threads :
          /\ snap[t].sizes \in Seq(Nat) /\ snap[t].roots \in Seq(Nat)
          /\ Len(snap[t].sizes) - Len(snap[t].roots) \in {0, 1}
          /\ Len(snap[t].sizes) <= Width
          /\ pc[t] = "writing" => snap[t] \in Snapshots
          /\ pc[t] \in {"idle", "off"} => snap[t] = Empty
    /\ lastSize \in 0..Committed \cup {Nothing}
    /\ files \in [0..MaxEvents -> Snapshots \cup {Nothing, Torn}]
    /\ <<up, stopped>> \in BOOLEAN \X BOOLEAN
    /\ failures \in 0..MaxFailures
    /\ stored \subseteq 0..MaxEvents

AttestationInit ==
    /\ sharded \in Kinds
    /\ logs = [s \in 1..Width |-> 0]
    /\ pc = [t \in Threads |-> IF t = Scheduler THEN "off" ELSE "idle"]
    /\ snap = [t \in Threads |-> Empty]
    /\ lastSize = Nothing /\ stopped = FALSE
    /\ files = [n \in 0..MaxEvents |-> Nothing]
    /\ up = TRUE /\ failures = 0
    /\ stored = {}

Failure == failures < MaxFailures /\ failures' = failures + 1

Goto(t, label) == pc' = [pc EXCEPT ![t] = label]

----------------------------------------------------------------------------
(* commit(), to any of the logs.                                            *)

Commit(s) ==
    /\ up
    /\ Committed < MaxEvents
    /\ logs' = [logs EXCEPT ![s] = @ + 1]
    /\ UNCHANGED <<sharded, process, files, failures, stored>>

----------------------------------------------------------------------------
(* checkpoint(key).                                                         *)

\* The shard whose turn it is in the comprehension over the shards.
Turn(t) == Len(snap[t].roots) + 1

\* A call of checkpoint() begins or goes on; _run() does not begin one once stopped.
MayRead(t) ==
    \/ pc[t] = "idle" /\ (t = Scheduler => ~stopped)
    \/ pc[t] = "reading" /\ Turn(t) <= Width

\* Mutant: the size is read outside of the lock that the root is read under.
ReadHeadUnlocked(t) ==
    /\ up /\ ~sharded
    /\ MayRead(t)
    /\ Goto(t, "reading")
    /\ snap' = IF Len(snap[t].sizes) < Turn(t)
                 THEN [snap EXCEPT ![t].sizes = Append(@, logs[Turn(t)])]
                 ELSE [snap EXCEPT ![t].roots = Append(@, logs[Turn(t)])]
    /\ UNCHANGED <<sharded, logs, lastSize, stopped, up, files, failures, stored>>

\* Ledger: size and root under one acquisition of the lock.
ReadHead(t) ==
    /\ up /\ ~sharded
    /\ MayRead(t)
    /\ Goto(t, "reading")
    /\ snap' = [snap EXCEPT ![t] = [sizes |-> logs, roots |-> logs]]
    /\ UNCHANGED <<sharded, logs, lastSize, stopped, up, files, failures, stored>>

\* ShardedLedger: s.size() and then s.root(), each with an acquisition of its own.
ReadSize(t) ==
    /\ up /\ sharded
    /\ MayRead(t)
    /\ Goto(t, "reading")
    /\ Len(snap[t].sizes) < Turn(t)
    /\ snap' = [snap EXCEPT ![t].sizes = Append(@, logs[Turn(t)])]
    /\ UNCHANGED <<sharded, logs, lastSize, stopped, up, files, failures, stored>>

ReadRoot(t) ==
    /\ up /\ sharded
    /\ Len(snap[t].sizes) = Turn(t)
    /\ snap' = [snap EXCEPT ![t].roots = Append(@, logs[Turn(t)])]
    /\ UNCHANGED <<sharded, logs, pc, lastSize, stopped, up, files, failures, stored>>

\* checkpoint() has signed a head.
Signed(t) == pc[t] = "reading" /\ Turn(t) > Width

Unchanged(t) == t = Scheduler /\ Size(snap[t]) = lastSize

\* tick() throws the head away when the tree has the size it had last time.
Skip(t) ==
    /\ up
    /\ Signed(t) /\ Unchanged(t)
    /\ Goto(t, "idle")
    /\ snap' = [snap EXCEPT ![t] = Empty]
    /\ UNCHANGED <<sharded, logs, lastSize, stopped, up, files, failures, stored>>

----------------------------------------------------------------------------
(* LocalCheckpointStore.put(cp): write_text() truncates the file of this    *)
(* size, whatever it holds, and then writes it.                             *)

\* Mutant: one file for all sizes.
PathFixed(h) == 0

Path(h) == Size(h)

\* Mutant: tick() notes the size before the head is stored.
TruncateNotesSize(t) ==
    /\ up
    /\ Signed(t) /\ ~Unchanged(t)
    /\ files' = [files EXCEPT ![Path(snap[t])] = Torn]
    /\ lastSize' = IF t = Scheduler THEN Size(snap[t]) ELSE lastSize
    /\ Goto(t, "writing")
    /\ UNCHANGED <<sharded, logs, snap, stopped, up, failures, stored>>

Truncate(t) ==
    /\ up
    /\ Signed(t) /\ ~Unchanged(t)
    /\ files' = [files EXCEPT ![Path(snap[t])] = Torn]
    /\ Goto(t, "writing")
    /\ UNCHANGED <<sharded, logs, snap, lastSize, stopped, up, failures, stored>>

\* The file is whole and put() returns; tick() then notes the size.
Write(t) ==
    /\ up
    /\ pc[t] = "writing"
    /\ files' = [files EXCEPT ![Path(snap[t])] = snap[t]]
    /\ stored' = stored \cup {Size(snap[t])}
    /\ lastSize' = IF t = Scheduler THEN Size(snap[t]) ELSE lastSize
    /\ Goto(t, "idle")
    /\ snap' = [snap EXCEPT ![t] = Empty]
    /\ UNCHANGED <<sharded, logs, stopped, up, failures>>

\* put() raises, before or after the truncation: _run() logs that, a caller of
\* checkpoint() sees it.
PutFails(t) ==
    /\ up
    /\ (Signed(t) /\ ~Unchanged(t)) \/ pc[t] = "writing"
    /\ Failure
    /\ Goto(t, "idle")
    /\ snap' = [snap EXCEPT ![t] = Empty]
    /\ UNCHANGED <<sharded, logs, lastSize, stopped, up, files, stored>>

----------------------------------------------------------------------------
(* start(), stop(), and the death and the next start of the process.        *)

Start ==
    /\ up
    /\ pc[Scheduler] = "off"
    /\ Goto(Scheduler, "idle")
    /\ UNCHANGED <<sharded, logs, snap, lastSize, stopped, up, files, failures, stored>>

Stop ==
    /\ up
    /\ stopped' = TRUE
    /\ UNCHANGED <<sharded, logs, pc, snap, lastSize, up, files, failures, stored>>

\* _run() returns; a stop() that joins it returns as well.
LoopEnds ==
    /\ up /\ stopped
    /\ pc[Scheduler] = "idle"
    /\ Goto(Scheduler, "off")
    /\ UNCHANGED <<sharded, logs, snap, lastSize, stopped, up, files, failures, stored>>

Crash ==
    /\ up
    /\ Failure
    /\ up' = FALSE
    /\ pc' = [t \in Threads |-> IF t = Scheduler THEN "off" ELSE "idle"]
    /\ snap' = [t \in Threads |-> Empty]
    /\ lastSize' = Nothing /\ stopped' = FALSE
    /\ UNCHANGED <<sharded, logs, files, stored>>

Restart ==
    /\ ~up
    /\ up' = TRUE
    /\ UNCHANGED <<sharded, logs, pc, snap, lastSize, stopped, files, failures, stored>>

----------------------------------------------------------------------------
Proceed(t) ==
    ReadHead(t) \/ ReadSize(t) \/ ReadRoot(t) \/ Skip(t) \/ Truncate(t) \/ Write(t)

AttestationNext ==
    \/ \E s \in 1..Width : Commit(s)
    \/ \E t \in Threads : Proceed(t) \/ PutFails(t)
    \/ Start \/ Stop \/ LoopEnds
    \/ Crash \/ Restart

\* A thread in checkpoint() or put() goes on, the scheduler's loop waits a bounded time
\* between two ticks, and the operator starts a process that is down, which starts the
\* scheduler.  Nobody has to call Runtime.checkpoint().
Fairness ==
    /\ \A t \in Threads : WF_attestationVars(pc[t] # "idle" /\ Proceed(t))
    /\ WF_attestationVars(Proceed(Scheduler))
    /\ WF_attestationVars(Start /\ ~stopped)
    /\ WF_attestationVars(Restart)

AttestationSpec == AttestationInit /\ [][AttestationNext]_attestationVars /\ Fairness

----------------------------------------------------------------------------
(* Properties.                                                              *)

\* The heads in the store and those on their way to it.
SignedHeads ==
    {files[n] : n \in {m \in 0..MaxEvents : Readable(m)}}
    \cup {snap[t] : t \in {u \in Threads : Signed(u) \/ pc[u] = "writing"}}

\* detect_equivocation() finds nothing in the heads of one honest Ledger, whoever had
\* them signed and whatever was committed, stored or restarted meanwhile: none has the
\* size of another and a different root.
NoEquivocation ==
    ~sharded => \A g, h \in SignedHeads : Size(g) = Size(h) => g.roots = h.roots

\* A head that put() has returned for is found under its size, unless a fault in
\* each of the threads, or one that writes the same size again, has left it cut off.
StoredStays ==
    LET writing == {Path(snap[t]) : t \in {u \in Threads : pc[u] = "writing"}}
        lost == {n \in stored : ~Readable(n) \/ Size(files[n]) # n}
    IN  Cardinality(lost \ writing) <= failures * Cardinality(Threads)

\* scheduler.py:9, gaps between checkpoints "are bounded by a known cadence": for what
\* is committed, put() returns in the end for a head that covers it, whatever it raised
\* before and however often the process was restarted, unless stop() was called.
CommitsGetAttested ==
    \A n \in 1..MaxEvents : (Committed >= n) ~> (stopped \/ \E k \in stored : k >= n)
=============================================================================
