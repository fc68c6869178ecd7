----------------------------- MODULE HeadProofs -----------------------------
(***************************************************************************)
(* Tree heads. Attestation, for every number of shards, of threads that call*)
(* checkpoint() and of faults, however much is committed; and Witness with  *)
(* its SqlLedger, for every number of processes on one table, whatever they *)
(* ask the witness for: what a process knows of the table, and that a fork  *)
(* shows.                                                                   *)
(***************************************************************************)
EXTENDS Attestation, Witness, MerkleTheorems

(***************************************************************************)
(* The inductive invariant.                                                *)
(***************************************************************************)
Memory ==
    /\ sharded \in Kinds /\ sharded \in BOOLEAN
    /\ logs \in [1..Width -> Nat]
    /\ Committed <= MaxEvents
    /\ lastSize \in 0..Committed \cup {Nothing}
    /\ <<up, stopped>> \in BOOLEAN \X BOOLEAN
    /\ failures \in 0..MaxFailures
    /\ pc \in [Threads -> {"off", "idle", "reading", "writing"}]
    /\ snap \in [Threads -> [sizes : Seq(Nat), roots : Seq(Nat)]]

\* What a thread has read is of the past of the logs, which only grow.
SnapOk(t) ==
    /\ Len(snap[t].sizes) - Len(snap[t].roots) \in {0, 1}
    /\ Len(snap[t].sizes) <= Width
    /\ \A i \in 1..Len(snap[t].sizes) : snap[t].sizes[i] <= logs[i]
    /\ \A i \in 1..Len(snap[t].roots) : snap[t].roots[i] <= logs[i]
    /\ ~sharded => snap[t].sizes = snap[t].roots
    /\ pc[t] = "writing" => Len(snap[t].roots) = Width
    /\ pc[t] \in {"idle", "off"} => snap[t] = Empty

Snaps == \A t \in Threads : SnapOk(t)

\* A file that can be read is named for the size it attests, and a head of one log has
\* read its size and its root together.
FileOk(n) ==
    /\ files[n] \in Snapshots \cup {Nothing, Torn}
    /\ Readable(n) => Size(files[n]) = n /\ (~sharded => files[n].sizes = files[n].roots)

Files == /\ DOMAIN files = 0..MaxEvents
         /\ files = [n \in 0..MaxEvents |-> files[n]]
         /\ \A n \in 0..MaxEvents : FileOk(n)

\* A stored size is lost only while it is written again, or for a fault.
Writing == {Path(snap[t]) : t \in {u \in Threads : pc[u] = "writing"}}
Lost == {n \in stored : ~Readable(n)}

Losses == /\ stored \subseteq 0..MaxEvents
          /\ Cardinality(Lost \ Writing) <= failures * Cardinality(Threads)

AInv == Memory /\ Snaps /\ Files /\ Losses

----------------------------------------------------------------------------
(* Lemmas about the operators.                                              *)

\* How many logs there are.
LEMMA WidthType ==
    ASSUME sharded \in BOOLEAN
    PROVE  /\ Width \in Nat \ {0} /\ Width \in {1, Shards}
           /\ ~sharded => Width = 1
           /\ IsFiniteSet(1..Width)
<1>1. Width \in Nat \ {0} /\ Width \in {1, Shards} /\ (~sharded => Width = 1)
  BY AttestationAssumption DEF Width
<1> QED
  BY <1>1, FS_Interval

\* The sizes of the logs, and their sum.
LEMMA LogsType ==
    ASSUME Memory
    PROVE  /\ Committed \in Nat
           /\ \A s \in 1..Width : logs[s] <= Committed
           /\ logs \in Seq(Nat) /\ Len(logs) = Width
<1>1. IsFiniteSet(1..Width) /\ logs \in [1..Width -> Nat] /\ Width \in Nat
  BY WidthType DEF Memory
<1>2. Committed \in Nat
  BY <1>1, SumType DEF Committed, Total
<1>3. \A s \in 1..Width : logs[s] <= Committed
  BY <1>1, SumBounds DEF Committed, Total
<1>4. logs \in Seq(Nat) /\ Len(logs) = Width
  BY <1>1, SeqDef
<1> QED
  BY <1>2, <1>3, <1>4

\* What is read once from each log is no more than is committed.
LEMMA SizeType ==
    ASSUME Memory, NEW h \in [sizes : Seq(Nat), roots : Seq(Nat)],
           Len(h.sizes) = Width, \A i \in 1..Width : h.sizes[i] <= logs[i]
    PROVE  Size(h) \in 0..Committed
<1>1. IsFiniteSet(1..Width) /\ logs \in [1..Width -> Nat]
  BY WidthType DEF Memory
<1>2. h.sizes \in [1..Width -> Nat]
  BY LenProperties
<1>3. Size(h) \in Nat
  BY <1>1, <1>2, SumType DEF Size, Total
<1>4. Size(h) <= Committed
  BY <1>1, <1>2, SumMonotone DEF Size, Committed, Total
<1> QED
  BY <1>3, <1>4, LogsType

\* A head that is signed, or on its way into the store.
LEMMA WholeHead ==
    ASSUME Memory, Snaps, NEW t \in Threads, Len(snap[t].roots) = Width
    PROVE  /\ snap[t] \in Snapshots /\ snap[t] \notin {Nothing, Torn}
           /\ Size(snap[t]) \in 0..Committed /\ Size(snap[t]) \in 0..MaxEvents
           /\ Path(snap[t]) = Size(snap[t])
           /\ ~sharded => snap[t].sizes = snap[t].roots
<1> DEFINE h == snap[t]
<1>1. /\ h \in [sizes : Seq(Nat), roots : Seq(Nat)]
      /\ SnapOk(t) /\ Width \in Nat /\ Width \in {1, Shards}
  BY WidthType DEF Memory, Snaps
<1>2. Len(h.sizes) \in Nat /\ Len(h.roots) = Width
  BY <1>1, LenProperties
<1>3. /\ Len(h.sizes) = Width
      /\ \A i \in 1..Width : h.sizes[i] <= logs[i] /\ h.roots[i] <= logs[i]
  BY <1>1, <1>2 DEF SnapOk
<1>4. Committed \in Nat /\ Committed <= MaxEvents /\ MaxEvents \in Nat
      /\ \A i \in 1..Width : logs[i] <= Committed /\ logs[i] \in Nat
  BY LogsType, AttestationAssumption DEF Memory
<1>5. h.sizes \in [1..Width -> 0..MaxEvents] /\ h.roots \in [1..Width -> 0..MaxEvents]
  <2>1. h.sizes \in [1..Width -> Nat] /\ h.roots \in [1..Width -> Nat]
    BY <1>1, <1>2, <1>3, LenProperties
  <2>2. \A i \in 1..Width : h.sizes[i] \in 0..MaxEvents /\ h.roots[i] \in 0..MaxEvents
    BY <2>1, <1>3, <1>4
  <2> QED
    BY <2>1, <2>2
<1>6. h \in Snapshots
  BY <1>1, <1>5 DEF Snapshots
<1>7. h \notin {Nothing, Torn}
  BY <1>1, <1>6, AttestationAssumption DEF Snapshots
<1>8. Size(h) \in 0..Committed
  BY <1>1, <1>3, SizeType
<1>9. Size(h) \in 0..MaxEvents
  BY <1>4, <1>8
<1> QED
  BY <1>1, <1>6, <1>7, <1>8, <1>9 DEF SnapOk, Path

----------------------------------------------------------------------------
(* Every step keeps the invariant.                                          *)

\* Whatever is read of the logs before a step, they are no shorter after it.
LEMMA LogsGrow ==
    ASSUME AInv, [AttestationNext]_attestationVars
    PROVE  /\ sharded' = sharded /\ Width' = Width
           /\ logs' \in [1..Width -> Nat]
           /\ \A i \in 1..Width : logs[i] <= logs'[i]
           /\ Committed' \in Nat /\ Committed <= Committed' /\ Committed' <= MaxEvents
<1>1. IsFiniteSet(1..Width) /\ logs \in [1..Width -> Nat] /\ Committed <= MaxEvents
  BY WidthType DEF AInv, Memory
<1>2. Committed \in Nat /\ MaxEvents \in Nat
  BY LogsType, AttestationAssumption DEF AInv
<1>3. sharded' = sharded
  BY DEF AttestationNext, Commit, Proceed, ReadHead, ReadSize, ReadRoot, Skip, Truncate, Write, PutFails,
         Start, Stop, LoopEnds, Crash, Restart, attestationVars
<1>4. Width' = Width
  BY <1>3 DEF Width
<1>5. CASE \E s \in 1..Width : Commit(s)
  <2>1. PICK s \in 1..Width : Commit(s)
    BY <1>5
  <2>2. Committed < MaxEvents /\ logs' = [logs EXCEPT ![s] = @ + 1]
    BY <2>1 DEF Commit
  <2>3. Committed' = Committed + 1
    <3>1. Total([logs EXCEPT ![s] = @ + 1]) = Committed + 1
      BY <1>1, SumIncrement, Zenon DEF Committed, Total
    <3> QED
      BY <3>1, <2>2, Zenon DEF Committed
  <2>4. logs' \in [1..Width -> Nat] /\ \A i \in 1..Width : logs[i] <= logs'[i]
    BY <1>1, <2>2
  <2> QED
    BY <1>2, <1>3, <1>4, <2>2, <2>3, <2>4
<1>6. CASE logs' = logs
  <2>1. Committed' = Committed
    BY <1>6 DEF Committed
  <2>2. \A i \in 1..Width : logs[i] \in Nat
    BY <1>1
  <2> QED
    BY <1>1, <1>2, <1>3, <1>4, <1>6, <2>1, <2>2
<1>7. logs' = logs \/ \E s \in 1..Width : Commit(s)
  BY DEF AttestationNext, Proceed, ReadHead, ReadSize, ReadRoot, Skip, Truncate, Write, PutFails,
         Start, Stop, LoopEnds, Crash, Restart, attestationVars
<1> QED
  BY <1>5, <1>6, <1>7

\* Every step keeps what processes have in memory.
LEMMA MemoryStep ==
    ASSUME AInv, [AttestationNext]_attestationVars
    PROVE  Memory'
<1> DEFINE Labels == {"off", "idle", "reading", "writing"}
           Reads == [sizes : Seq(Nat), roots : Seq(Nat)]
<1> USE DEF Goto
<1>1. /\ sharded' = sharded /\ Width' = Width /\ Committed' \in Nat
      /\ logs' \in [1..Width -> Nat] /\ Committed <= Committed' /\ Committed' <= MaxEvents
  BY LogsGrow
<1>2. /\ sharded \in Kinds /\ sharded \in BOOLEAN
      /\ up \in BOOLEAN /\ stopped \in BOOLEAN
      /\ failures \in 0..MaxFailures /\ pc \in [Threads -> Labels] /\ snap \in [Threads -> Reads]
      /\ lastSize \in 0..Committed \cup {Nothing} /\ Committed \in Nat
  BY LogsType DEF AInv, Memory
<1>3. Empty \in Reads
  BY EmptySeq DEF Empty
<1>4. MaxFailures \in Nat /\ Scheduler \in Threads
  BY AttestationAssumption DEF Threads
<1>5. failures' \in 0..MaxFailures
  <2>1. failures' = failures \/ Failure
    BY DEF AttestationNext, Commit, Proceed, ReadHead, ReadSize, ReadRoot, Skip, Truncate, Write, PutFails,
           Start, Stop, LoopEnds, Crash, Restart, attestationVars
  <2> QED
    BY <2>1, <1>2, <1>4 DEF Failure
<1>6. up' \in BOOLEAN /\ stopped' \in BOOLEAN
  BY <1>2 DEF AttestationNext, Commit, Proceed, ReadHead, ReadSize, ReadRoot, Skip, Truncate, Write,
              PutFails, Start, Stop, LoopEnds, Crash, Restart, attestationVars, process
<1>7. pc' \in [Threads -> Labels]
  BY <1>2, <1>4 DEF AttestationNext, Commit, Proceed, ReadHead, ReadSize, ReadRoot, Skip, Truncate, Write,
                    PutFails, Start, Stop, LoopEnds, Crash, Restart, attestationVars, process
<1>8. snap' \in [Threads -> Reads]
  <2>1. CASE snap' = snap
    BY <2>1, <1>2
  <2>2. ASSUME NEW t \in Threads, ReadHead(t)
        PROVE  snap' \in [Threads -> Reads]
    BY <2>2, <1>2, LogsType DEF ReadHead, AInv
  <2>3. ASSUME NEW t \in Threads, ReadSize(t) \/ ReadRoot(t)
        PROVE  snap' \in [Threads -> Reads]
    <3>1. snap[t] \in Reads
      BY <1>2
    <3>2. Len(snap[t].roots) \in Nat /\ Len(snap[t].sizes) \in Nat
      BY <3>1, LenProperties
    <3>3. Turn(t) \in 1..Width
      <4>1. ReadSize(t) => Turn(t) \in 1..Width
        <5>1. SnapOk(t) /\ Width \in Nat \ {0}
          BY <1>2, WidthType DEF AInv, Snaps
        <5>2. pc[t] = "idle" => Len(snap[t].roots) = 0
          BY <5>1, EmptySeq DEF SnapOk, Empty
        <5> QED
          BY <5>1, <5>2, <3>2 DEF ReadSize, MayRead, Turn
      <4>2. ReadRoot(t) => Turn(t) \in 1..Width
        <5>1. SnapOk(t)
          BY DEF AInv, Snaps
        <5> QED
          BY <5>1, <3>2 DEF SnapOk, ReadRoot, Turn
      <4> QED
        BY <2>3, <4>1, <4>2
    <3>4. logs[Turn(t)] \in Nat
      BY <3>3 DEF AInv, Memory
    <3> HIDE DEF Goto
    <3>5. CASE ReadSize(t)
      <4>1. snap' = [snap EXCEPT ![t].sizes = Append(@, logs[Turn(t)])]
        BY <3>5 DEF ReadSize
      <4>2. Append(snap[t].sizes, logs[Turn(t)]) \in Seq(Nat)
        BY <3>1, <3>4, AppendProperties
      <4> QED
        BY <1>2, <4>1, <4>2
    <3>6. CASE ReadRoot(t)
      <4>1. snap' = [snap EXCEPT ![t].roots = Append(@, logs[Turn(t)])]
        BY <3>6 DEF ReadRoot
      <4>2. Append(snap[t].roots, logs[Turn(t)]) \in Seq(Nat)
        BY <3>1, <3>4, AppendProperties
      <4> QED
        BY <1>2, <4>1, <4>2
    <3> QED
      BY <2>3, <3>5, <3>6
  <2>4. ASSUME NEW t \in Threads, snap' = [snap EXCEPT ![t] = Empty]
        PROVE  snap' \in [Threads -> Reads]
    BY <2>4, <1>2, <1>3
  <2>5. CASE snap' = [t \in Threads |-> Empty]
    BY <2>5, <1>3
  <2>6. \/ snap' = snap \/ snap' = [t \in Threads |-> Empty]
        \/ \E t \in Threads : \/ ReadHead(t) \/ ReadSize(t) \/ ReadRoot(t)
                              \/ snap' = [snap EXCEPT ![t] = Empty]
    BY DEF AttestationNext, Commit, Proceed, Skip, Truncate, Write, PutFails,
           Start, Stop, LoopEnds, Crash, Restart, attestationVars, process
  <2> QED
    BY <2>1, <2>2, <2>3, <2>4, <2>5, <2>6
<1>9. lastSize' \in 0..Committed' \cup {Nothing}
  <2>1. CASE lastSize' \in {lastSize, Nothing}
    BY <2>1, <1>1, <1>2
  <2>2. ASSUME NEW t \in Threads, Write(t)
        PROVE  lastSize' \in 0..Committed' \cup {Nothing}
    <3>1. Len(snap[t].roots) = Width
      BY <2>2 DEF Write, AInv, Snaps, SnapOk
    <3>2. Size(snap[t]) \in 0..Committed
      BY <3>1, WholeHead DEF AInv
    <3>3. lastSize' = Size(snap[t]) \/ lastSize' = lastSize
      BY <2>2 DEF Write
    <3> QED
      BY <3>2, <3>3, <1>1, <1>2
  <2>3. lastSize' \in {lastSize, Nothing} \/ \E t \in Threads : Write(t)
    BY DEF AttestationNext, Commit, Proceed, ReadHead, ReadSize, ReadRoot, Skip, Truncate, PutFails,
           Start, Stop, LoopEnds, Crash, Restart, attestationVars, process
  <2> QED
    BY <2>1, <2>2, <2>3
<1> QED
  BY <1>1, <1>2, <1>5, <1>6, <1>7, <1>8, <1>9 DEF Memory

\* A thread that has read nothing since, and one that has thrown away what it read.
LEMMA SnapKept ==
    ASSUME AInv, [AttestationNext]_attestationVars, NEW t \in Threads, snap'[t] = snap[t],
           pc'[t] = "writing" => Len(snap[t].roots) = Width,
           pc'[t] \in {"idle", "off"} => snap[t] = Empty
    PROVE  SnapOk(t)'
<1> DEFINE h == snap[t]
<1>1. /\ sharded' = sharded /\ Width' = Width /\ Width \in Nat
      /\ logs \in [1..Width -> Nat] /\ logs' \in [1..Width -> Nat]
      /\ \A i \in 1..Width : logs[i] <= logs'[i]
  BY LogsGrow, WidthType DEF AInv, Memory
<1>2. SnapOk(t) /\ h \in [sizes : Seq(Nat), roots : Seq(Nat)]
  BY DEF AInv, Snaps, Memory
<1>3. Len(h.sizes) \in Nat /\ Len(h.roots) \in Nat /\ Len(h.roots) <= Width
  BY <1>1, <1>2, LenProperties DEF SnapOk
<1>4. \A i \in 1..Len(h.sizes) : h.sizes[i] <= logs'[i]
  <2> TAKE i \in 1..Len(h.sizes)
  <2>1. i \in 1..Width
    BY <1>1, <1>2, <1>3 DEF SnapOk
  <2>5. h.sizes \in Seq(Nat)
    BY <1>2
  <2>6. h.sizes[i] \in Nat
    BY <2>5, ElementOfSeq
  <2>2. h.sizes[i] <= logs[i]
    BY <1>2 DEF SnapOk
  <2> QED
    BY <2>1, <2>6, <2>2, <1>1
<1>5. \A i \in 1..Len(h.roots) : h.roots[i] <= logs'[i]
  <2> TAKE i \in 1..Len(h.roots)
  <2>1. i \in 1..Width
    BY <1>1, <1>2, <1>3 DEF SnapOk
  <2>5. h.roots \in Seq(Nat)
    BY <1>2
  <2>6. h.roots[i] \in Nat
    BY <2>5, ElementOfSeq
  <2>2. h.roots[i] <= logs[i]
    BY <1>2 DEF SnapOk
  <2> QED
    BY <2>1, <2>6, <2>2, <1>1
<1> QED
  BY <1>1, <1>2, <1>4, <1>5 DEF SnapOk, Empty

\* A thread that has dropped what it read knows nothing.
LEMMA SnapDropped ==
    ASSUME AInv, [AttestationNext]_attestationVars, NEW t \in Threads, snap'[t] = Empty, pc'[t] # "writing"
    PROVE  SnapOk(t)'
<1>1. Width' = Width /\ Width \in Nat
  BY LogsGrow, WidthType DEF AInv, Memory
<1>2. Len(Empty.sizes) = 0 /\ Len(Empty.roots) = 0 /\ Empty.sizes = Empty.roots
  BY EmptySeq DEF Empty
<1>3. Empty' = Empty
  BY DEF Empty
<1> QED
  BY <1>1, <1>2, <1>3 DEF SnapOk

\* Every step keeps what threads have read in line with the logs.
LEMMA SnapsStep ==
    ASSUME AInv, [AttestationNext]_attestationVars
    PROVE  Snaps'
<1> SUFFICES ASSUME NEW t \in Threads PROVE SnapOk(t)'
  BY DEF Snaps, Threads
<1>1. /\ SnapOk(t) /\ snap[t] \in [sizes : Seq(Nat), roots : Seq(Nat)]
      /\ pc \in [Threads -> {"off", "idle", "reading", "writing"}]
      /\ snap \in [Threads -> [sizes : Seq(Nat), roots : Seq(Nat)]]
      /\ logs \in [1..Width -> Nat] /\ Width \in Nat \ {0} /\ logs \in Seq(Nat) /\ Len(logs) = Width
      /\ Scheduler \in Threads
  BY WidthType, LogsType DEF AInv, Snaps, Memory, Threads
<1>2. Len(snap[t].sizes) \in Nat /\ Len(snap[t].roots) \in Nat
  BY <1>1, LenProperties
<1>3. CASE snap'[t] = snap[t] /\ pc'[t] = pc[t]
  BY <1>1, <1>3, SnapKept DEF SnapOk
<1>4. CASE snap'[t] = Empty /\ pc'[t] # "writing"
  BY <1>4, SnapDropped
<1>5. CASE ReadHead(t)
  <2>1. /\ snap'[t] = [sizes |-> logs, roots |-> logs] /\ pc'[t] = "reading"
        /\ logs' = logs /\ sharded' = sharded
    BY <1>1, <1>5 DEF ReadHead, Goto
  <2>2. Width' = Width
    BY <2>1 DEF Width
  <2>3. /\ snap'[t].sizes = logs /\ snap'[t].roots = logs
        /\ \A i \in 1..Width : logs[i] <= logs'[i]
    <3>1. \A i \in 1..Width : logs[i] \in Nat
      BY <1>1
    <3> QED
      BY <2>1, <3>1
  <2>4. Width - Width = 0 /\ Width <= Width
    BY <1>1
  <2> QED
    BY <1>1, <2>1, <2>2, <2>3, <2>4 DEF SnapOk
<1>6. CASE ReadSize(t)
  <2> DEFINE new == logs[Turn(t)]
             sizes == Append(snap[t].sizes, new)
  <2>1. /\ snap'[t].sizes = sizes /\ snap'[t].roots = snap[t].roots
        /\ pc'[t] = "reading" /\ logs' = logs /\ sharded' = sharded /\ sharded
    BY <1>1, <1>6 DEF ReadSize, Goto
  <2>2. Len(snap[t].sizes) = Len(snap[t].roots) /\ Turn(t) = Len(snap[t].sizes) + 1
        /\ Turn(t) \in 1..Width
    <3>1. pc[t] = "idle" => Len(snap[t].roots) = 0
      BY <1>1, EmptySeq DEF SnapOk, Empty
    <3> QED
      BY <1>1, <1>2, <1>6, <3>1 DEF ReadSize, MayRead, Turn, SnapOk
  <2>3. new \in Nat
    BY <1>1, <2>2
  <2>7. snap[t].sizes \in Seq(Nat)
    BY <1>1
  <2>8. /\ Len(sizes) = Len(snap[t].sizes) + 1
        /\ \A i \in 1..Len(snap[t].sizes) : sizes[i] = snap[t].sizes[i]
        /\ sizes[Len(snap[t].sizes) + 1] = new
    BY <2>3, <2>7, AppendProperties
  <2>4. /\ Len(sizes) = Len(snap[t].sizes) + 1
        /\ \A i \in 1..Len(snap[t].sizes) : sizes[i] = snap[t].sizes[i]
        /\ sizes[Turn(t)] = new
    BY <2>2, <2>8
  <2>5. Width' = Width
    BY <2>1 DEF Width
  <2>6. \A i \in 1..Len(sizes) : sizes[i] <= logs[i]
    <3> TAKE i \in 1..Len(sizes)
    <3>1. i \in 1..(Len(snap[t].sizes) + 1)
      BY <2>4
    <3>2. i \in 1..Len(snap[t].sizes) \/ i = Turn(t)
      BY <1>2, <2>2, <3>1
    <3>3. i = Turn(t) => sizes[i] = new /\ new <= logs[i]
      BY <2>3, <2>4
    <3>4. i \in 1..Len(snap[t].sizes) => sizes[i] = snap[t].sizes[i] /\ snap[t].sizes[i] <= logs[i]
      <4> HIDE DEF sizes
      <4> QED
        BY <1>1, <2>4 DEF SnapOk
    <3> QED
      BY <3>2, <3>3, <3>4
  <2> HIDE DEF sizes
  <2> QED
    BY <1>1, <1>2, <2>1, <2>2, <2>4, <2>5, <2>6 DEF SnapOk
<1>7. CASE ReadRoot(t)
  <2> DEFINE new == logs[Turn(t)]
             roots == Append(snap[t].roots, new)
  <2>1. /\ snap'[t].roots = roots /\ snap'[t].sizes = snap[t].sizes
        /\ pc'[t] = pc[t] /\ logs' = logs /\ sharded' = sharded /\ sharded
        /\ Len(snap[t].sizes) = Turn(t)
    BY <1>1, <1>7 DEF ReadRoot
  <2>2. /\ Turn(t) = Len(snap[t].roots) + 1 /\ Turn(t) \in 1..Width
        /\ pc[t] \notin {"writing", "idle", "off"}
    <3>1. snap[t] = Empty => Len(snap[t].sizes) = 0
      BY EmptySeq DEF Empty
    <3> QED
      BY <1>1, <1>2, <2>1, <3>1 DEF Turn, SnapOk
  <2>3. new \in Nat
    BY <1>1, <2>2
  <2>7. snap[t].roots \in Seq(Nat)
    BY <1>1
  <2>8. /\ Len(roots) = Len(snap[t].roots) + 1
        /\ \A i \in 1..Len(snap[t].roots) : roots[i] = snap[t].roots[i]
        /\ roots[Len(snap[t].roots) + 1] = new
    BY <2>3, <2>7, AppendProperties
  <2>4. /\ Len(roots) = Len(snap[t].roots) + 1
        /\ \A i \in 1..Len(snap[t].roots) : roots[i] = snap[t].roots[i]
        /\ roots[Turn(t)] = new
    BY <2>2, <2>8
  <2>5. Width' = Width
    BY <2>1 DEF Width
  <2>6. \A i \in 1..Len(roots) : roots[i] <= logs[i]
    <3> TAKE i \in 1..Len(roots)
    <3>1. i \in 1..(Len(snap[t].roots) + 1)
      BY <2>4
    <3>2. i \in 1..Len(snap[t].roots) \/ i = Turn(t)
      BY <1>2, <2>2, <3>1
    <3>3. i = Turn(t) => roots[i] = new /\ new <= logs[i]
      BY <2>3, <2>4
    <3>4. i \in 1..Len(snap[t].roots) => roots[i] = snap[t].roots[i] /\ snap[t].roots[i] <= logs[i]
      <4> HIDE DEF roots
      <4> QED
        BY <1>1, <2>4 DEF SnapOk
    <3> QED
      BY <3>2, <3>3, <3>4
  <2> HIDE DEF roots
  <2> QED
    BY <1>1, <1>2, <2>1, <2>2, <2>4, <2>5, <2>6 DEF SnapOk
<1>8. CASE Truncate(t)
  <2>1. /\ snap' = snap /\ pc'[t] = "writing" /\ Turn(t) > Width
    BY <1>1, <1>8 DEF Truncate, Goto, Signed
  <2>2. Len(snap[t].roots) = Width
    BY <2>1, <1>1, <1>2 DEF Turn, SnapOk
  <2> QED
    BY <2>1, <2>2, SnapKept
<1>9. CASE Skip(t) \/ Write(t) \/ PutFails(t)
  <2>1. snap'[t] = Empty /\ pc'[t] = "idle"
    BY <1>1, <1>9 DEF Skip, Write, PutFails, Goto
  <2> QED
    BY <2>1, SnapDropped
<1>10. ASSUME NEW u \in Threads, u # t, Proceed(u) \/ PutFails(u)
       PROVE  SnapOk(t)'
  <2>1. snap'[t] = snap[t]
    BY <1>1, <1>10 DEF Proceed, ReadHead, ReadSize, ReadRoot, Skip, Truncate, Write, PutFails
  <2>2. pc'[t] = pc[t]
    BY <1>1, <1>10 DEF Proceed, ReadHead, ReadSize, ReadRoot, Skip, Truncate, Write, PutFails, Goto
  <2> QED
    BY <2>1, <2>2, <1>3
<1>11. CASE Start \/ LoopEnds
  <2>1. /\ snap' = snap /\ pc[Scheduler] \in {"off", "idle"}
        /\ t # Scheduler => pc'[t] = pc[t]
        /\ t = Scheduler => pc'[t] \in {"off", "idle"}
    BY <1>1, <1>11 DEF Start, LoopEnds, Goto
  <2>2. pc[t] \in {"idle", "off"} => snap[t] = Empty
    BY <1>1 DEF SnapOk
  <2>3. CASE t = Scheduler
    <3>1. snap'[t] = snap[t] /\ snap[t] = Empty /\ pc'[t] # "writing"
      BY <2>1, <2>2, <2>3
    <3> QED
      BY <3>1, SnapDropped
  <2> QED
    BY <2>1, <2>3, <1>3
<1>12. CASE Crash
  <2>1. snap'[t] = Empty /\ pc'[t] # "writing"
    BY <1>12 DEF Crash
  <2> QED
    BY <2>1, SnapDropped
<1>13. CASE Stop \/ Restart \/ UNCHANGED attestationVars \/ \E s \in 1..Width : Commit(s)
  <2>1. snap' = snap /\ pc' = pc
    BY <1>13 DEF Stop, Restart, Commit, attestationVars, process
  <2> QED
    BY <2>1, <1>3
<1> QED
  <2>1. \/ \E u \in Threads : Proceed(u) \/ PutFails(u)
        \/ Start \/ LoopEnds \/ Crash \/ Stop \/ Restart \/ UNCHANGED attestationVars
        \/ \E s \in 1..Width : Commit(s)
    BY DEF AttestationNext
  <2>2. Proceed(t) \/ PutFails(t) => SnapOk(t)'
    BY <1>5, <1>6, <1>7, <1>8, <1>9 DEF Proceed
  <2> QED
    BY <2>1, <2>2, <1>10, <1>11, <1>12, <1>13

\* A thread that may put its head has read all of it.
LEMMA PuttingIsWhole ==
    ASSUME AInv, NEW t \in Threads, Signed(t) \/ pc[t] = "writing"
    PROVE  Len(snap[t].roots) = Width
<1>1. SnapOk(t) /\ snap[t] \in [sizes : Seq(Nat), roots : Seq(Nat)] /\ Width \in Nat
  BY WidthType DEF AInv, Snaps, Memory
<1>2. Len(snap[t].sizes) \in Nat /\ Len(snap[t].roots) \in Nat
  BY <1>1, LenProperties
<1> QED
  BY <1>1, <1>2 DEF SnapOk, Signed, Turn

\* Every step keeps the store in line with the logs.
LEMMA FilesStep ==
    ASSUME AInv, [AttestationNext]_attestationVars
    PROVE  Files'
<1>1. /\ DOMAIN files = 0..MaxEvents /\ files = [n \in 0..MaxEvents |-> files[n]]
      /\ \A n \in 0..MaxEvents : FileOk(n)
      /\ sharded' = sharded /\ Snapshots' = Snapshots
  BY LogsGrow DEF AInv, Files, Snapshots
<1>2. CASE files' = files
  BY <1>1, <1>2 DEF Files, FileOk, Readable
<1>3. ASSUME NEW t \in Threads, Truncate(t)
      PROVE  Files'
  <2>1. Path(snap[t]) \in 0..MaxEvents
    BY <1>3, PuttingIsWhole, WholeHead DEF AInv, Truncate
  <2>2. files' = [files EXCEPT ![Path(snap[t])] = Torn]
    BY <1>3 DEF Truncate
  <2>3. \A n \in 0..MaxEvents : FileOk(n)'
    BY <1>1, <2>1, <2>2 DEF FileOk, Readable
  <2> QED
    BY <1>1, <2>1, <2>2, <2>3 DEF Files
<1>4. ASSUME NEW t \in Threads, Write(t)
      PROVE  Files'
  <2>1. /\ Path(snap[t]) \in 0..MaxEvents /\ Path(snap[t]) = Size(snap[t])
        /\ snap[t] \in Snapshots /\ (~sharded => snap[t].sizes = snap[t].roots)
    BY <1>4, PuttingIsWhole, WholeHead DEF AInv, Write
  <2>2. files' = [files EXCEPT ![Path(snap[t])] = snap[t]]
    BY <1>4 DEF Write
  <2>3. \A n \in 0..MaxEvents : FileOk(n)'
    BY <1>1, <2>1, <2>2 DEF FileOk, Readable
  <2> QED
    BY <1>1, <2>1, <2>2, <2>3 DEF Files
<1>5. files' = files \/ \E t \in Threads : Truncate(t) \/ Write(t)
  BY DEF AttestationNext, Commit, Proceed, ReadHead, ReadSize, ReadRoot, Skip, PutFails,
         Start, Stop, LoopEnds, Crash, Restart, attestationVars
<1> QED
  BY <1>2, <1>3, <1>4, <1>5

----------------------------------------------------------------------------
(* What is lost: a put() in the middle of which a thread fails leaves at    *)
(* most one file cut off, a crash at most one for each thread.             *)

\* There are finitely many threads.
LEMMA ThreadsFinite == /\ IsFiniteSet(Threads) /\ Cardinality(Threads) \in Nat \ {0}
<1>1. IsFiniteSet(Callers \cup {Scheduler})
  BY AttestationAssumption, FS_AddElement
<1>2. Cardinality(Threads) \in Nat /\ Threads # {}
  BY <1>1, FS_CardinalityType DEF Threads
<1> QED
  BY <1>1, <1>2, FS_EmptySet DEF Threads

\* No more threads write than there are.
LEMMA WritingBounded == IsFiniteSet(Writing) /\ Cardinality(Writing) <= Cardinality(Threads)
<1> DEFINE W == {u \in Threads : pc[u] = "writing"}
           f == [u \in W |-> Path(snap[u])]
<1>1. IsFiniteSet(W) /\ Cardinality(W) <= Cardinality(Threads)
  BY ThreadsFinite, FS_Subset
<1>2. f \in Surjection(W, Writing)
  BY DEF Surjection, Writing
<1>3. IsFiniteSet(Writing) /\ Cardinality(Writing) <= Cardinality(W)
  <2> HIDE DEF f, W
  <2> QED BY <1>1, <1>2, FS_Surjection
<1> QED
  BY <1>1, <1>3, ThreadsFinite, FS_CardinalityType

\* No more of the stored sizes are lost than before.
LEMMA LossesKept ==
    ASSUME AInv, stored' \subseteq 0..MaxEvents, failures' = failures,
           (Lost \ Writing)' \subseteq Lost \ Writing
    PROVE  Losses'
<1>1. IsFiniteSet(Lost \ Writing)
  <2>1. IsFiniteSet(0..MaxEvents)
    BY FS_Interval, AttestationAssumption
  <2> QED
    BY <2>1, FS_Subset DEF AInv, Losses, Lost
<1>2. PICK A : A = Lost \ Writing
  OBVIOUS
<1>3. PICK B : B = (Lost \ Writing)'
  OBVIOUS
<1>4. /\ IsFiniteSet(A) /\ IsFiniteSet(B) /\ Cardinality(B) <= Cardinality(A)
      /\ Cardinality(A) \in Nat /\ Cardinality(B) \in Nat
  BY <1>1, <1>2, <1>3, FS_Subset, FS_CardinalityType
<1>5. PICK k \in Nat : k = failures * Cardinality(Threads)
  <2>1. failures \in Nat /\ Cardinality(Threads) \in Nat
    BY ThreadsFinite, AttestationAssumption DEF AInv, Memory
  <2> QED
    BY <2>1
<1>6. Cardinality(A) <= k
  BY <1>2, <1>5 DEF AInv, Losses
<1>7. Cardinality(B) <= k
  BY <1>4, <1>6
<1>8. (failures * Cardinality(Threads))' = k
  BY <1>5 DEF Threads
<1> QED
  BY <1>3, <1>7, <1>8 DEF Losses

\* Every step keeps the number of files that were cut off within that of failures.
LEMMA LossesStep ==
    ASSUME AInv, [AttestationNext]_attestationVars
    PROVE  Losses'
<1>1. /\ pc \in [Threads -> {"off", "idle", "reading", "writing"}]
      /\ DOMAIN snap = Threads /\ DOMAIN files = 0..MaxEvents
      /\ stored \subseteq 0..MaxEvents
  BY DEF AInv, Memory, Files, Losses
<1>2. \A u \in Threads : pc[u] = "writing" => Path(snap[u]) \in 0..MaxEvents
  BY PuttingIsWhole, WholeHead DEF AInv
<1>3. CASE files' = files /\ stored' = stored /\ failures' = failures
          /\ \A u \in Threads : pc[u] = "writing" => pc'[u] = "writing" /\ snap'[u] = snap[u]
  <2>1. Writing \subseteq Writing'
    <3> SUFFICES ASSUME NEW u \in Threads, pc[u] = "writing" PROVE Path(snap[u]) \in Writing'
      BY DEF Writing
    <3>1. pc'[u] = "writing" /\ snap'[u] = snap[u]
      BY <1>3
    <3>2. Path(snap'[u]) = Path(snap[u])
      BY <3>1
    <3> QED
      BY <3>1, <3>2 DEF Writing, Threads, Path, Size
  <2>2. Lost' = Lost
    BY <1>3 DEF Lost, Readable
  <2> QED
    BY <1>1, <1>3, <2>1, <2>2, LossesKept
<1>4. ASSUME NEW t \in Threads, Truncate(t)
      PROVE  Losses'
  <2>1. PICK p \in 0..MaxEvents : p = Path(snap[t])
    BY <1>4, PuttingIsWhole, WholeHead DEF AInv, Truncate
  <2>2. /\ files' = [files EXCEPT ![p] = Torn] /\ stored' = stored /\ snap' = snap
        /\ pc' = [pc EXCEPT ![t] = "writing"] /\ failures' = failures
    BY <1>4, <2>1 DEF Truncate, Goto
  <2>3. \A u \in Threads : pc[u] = "writing" => pc'[u] = "writing"
    BY <1>1, <2>2
  <2>4. pc'[t] = "writing"
    BY <1>1, <2>2
  <2>5. Writing' = {Path(snap[u]) : u \in {v \in Threads : pc'[v] = "writing"}}
    BY <2>2 DEF Writing, Path, Size, Threads
  <2>6. p \in Writing' /\ Writing \subseteq Writing'
    BY <2>1, <2>3, <2>4, <2>5 DEF Writing
  <2>7. Lost' \subseteq Lost \cup {p}
    BY <1>1, <2>2 DEF Lost, Readable
  <2> QED
    BY <1>1, <2>2, <2>6, <2>7, LossesKept
<1>5. ASSUME NEW t \in Threads, Write(t)
      PROVE  Losses'
  <2>1. PICK p \in 0..MaxEvents : p = Path(snap[t])
    BY <1>2, <1>5 DEF Write
  <2>2. /\ snap[t] \notin {Nothing, Torn} /\ Size(snap[t]) = p
    BY <1>5, <2>1, PuttingIsWhole, WholeHead DEF AInv, Write
  <2>3. /\ files' = [files EXCEPT ![p] = snap[t]] /\ stored' = stored \cup {p}
        /\ snap' = [snap EXCEPT ![t] = Empty]
        /\ pc' = [pc EXCEPT ![t] = "idle"] /\ failures' = failures
    BY <1>5, <2>1, <2>2 DEF Write, Goto
  <2>4. Lost' \subseteq Lost \ {p}
    BY <1>1, <2>2, <2>3 DEF Lost, Readable
  <2>5. Writing \subseteq Writing' \cup {p}
    <3> SUFFICES ASSUME NEW u \in Threads, pc[u] = "writing", u # t
                 PROVE  Path(snap[u]) \in Writing'
      BY <2>1 DEF Writing
    <3>1. pc'[u] = "writing" /\ snap'[u] = snap[u]
      BY <1>1, <2>3
    <3> QED
      BY <3>1 DEF Writing, Threads, Path, Size
  <2> QED
    BY <1>1, <2>1, <2>3, <2>4, <2>5, LossesKept
<1>6. CASE /\ Failure /\ files' = files /\ stored' = stored
           /\ \/ \E t \in Threads : \A u \in Threads \ {t} :
                    pc[u] = "writing" => pc'[u] = "writing" /\ snap'[u] = snap[u]
              \/ Crash
  <2>1. PICK c \in Nat \ {0} : c = Cardinality(Threads)
    BY ThreadsFinite
  <2>2. PICK n \in Nat : n = failures
    BY AttestationAssumption DEF AInv, Memory
  <2>3. PICK L : L = Lost
    OBVIOUS
  <2>4. PICK W : W = Writing
    OBVIOUS
  <2>5. PICK V : V = Writing'
    OBVIOUS
  <2>6. /\ IsFiniteSet(L) /\ IsFiniteSet(W) /\ Cardinality(W) <= c
        /\ Cardinality(L \ W) <= n * c
    <3>1. IsFiniteSet(0..MaxEvents)
      BY FS_Interval, AttestationAssumption
    <3>2. IsFiniteSet(L)
      BY <3>1, <2>3, FS_Subset DEF AInv, Losses, Lost
    <3> QED
      BY <3>2, <2>1, <2>2, <2>3, <2>4, WritingBounded DEF AInv, Losses
  <2>7. \E D : /\ IsFiniteSet(D) /\ Cardinality(D) <= c
               /\ W \subseteq V \cup D
    <3>1. CASE Crash
      BY <2>6
    <3>2. ASSUME NEW t \in Threads, \A u \in Threads \ {t} :
                    pc[u] = "writing" => pc'[u] = "writing" /\ snap'[u] = snap[u]
          PROVE  W \subseteq V \cup {Path(snap[t])}
      <4> SUFFICES ASSUME NEW u \in Threads, pc[u] = "writing", u # t
                   PROVE  Path(snap[u]) \in Writing'
        BY <2>4, <2>5 DEF Writing
      <4>1. pc'[u] = "writing" /\ snap'[u] = snap[u]
        BY <3>2
      <4> QED
        BY <4>1 DEF Writing, Threads, Path, Size
    <3>3. ASSUME NEW x
          PROVE  IsFiniteSet({x}) /\ Cardinality({x}) <= c
      <4>1. IsFiniteSet({x}) /\ Cardinality({x}) = 1
        BY FS_Singleton
      <4> QED
        BY <4>1, <2>1
    <3>4. CASE \E t \in Threads : \A u \in Threads \ {t} :
                    pc[u] = "writing" => pc'[u] = "writing" /\ snap'[u] = snap[u]
      BY <3>2, <3>3, <3>4, Zenon
    <3> QED
      BY <1>6, <3>1, <3>4
  <2>8. PICK D : IsFiniteSet(D) /\ Cardinality(D) <= c /\ W \subseteq V \cup D
    BY <2>7
  <2>9. Cardinality(L \ V) <= n * c + c
    <3> DEFINE K == L \ W
    <3>1. IsFiniteSet(K) /\ Cardinality(K) \in Nat /\ Cardinality(D) \in Nat
      BY <2>6, <2>8, FS_Subset, FS_CardinalityType
    <3>2. IsFiniteSet(K \cup D)
          /\ Cardinality(K \cup D) = Cardinality(K) + Cardinality(D) - Cardinality(K \cap D)
      BY <2>8, <3>1, FS_Union, Zenon
    <3>3. Cardinality(K \cap D) \in Nat
      BY <3>1, FS_Subset, FS_CardinalityType
    <3>4. L \ V \subseteq K \cup D
      BY <2>8
    <3>5. Cardinality(L \ V) <= Cardinality(K \cup D) /\ Cardinality(L \ V) \in Nat
      BY <3>2, <3>4, FS_Subset, FS_CardinalityType
    <3>6. PICK m \in Nat : m = n * c
      OBVIOUS
    <3>7. Cardinality(K) <= m
      BY <2>6, <3>6
    <3> HIDE DEF K
    <3>8. Cardinality(L \ V) <= m + c
      BY <2>8, <3>1, <3>2, <3>3, <3>5, <3>7
    <3> QED
      BY <3>6, <3>8
  <2>10. Lost' = L
    BY <1>6, <2>3 DEF Lost, Readable
  <2>11. (failures * Cardinality(Threads))' = n * c + c
    <3>1. failures' = n + 1
      BY <1>6, <2>2 DEF Failure
    <3>2. (failures * Cardinality(Threads))' = (n + 1) * c
      BY <2>1, <3>1 DEF Threads
    <3> QED
      BY <3>2
  <2> QED
    BY <1>1, <1>6, <2>5, <2>9, <2>10, <2>11 DEF Losses
<1>7. ASSUME NEW t \in Threads, PutFails(t)
      PROVE  Losses'
  <2>1. /\ Failure /\ files' = files /\ stored' = stored
        /\ \A u \in Threads \ {t} : pc'[u] = pc[u] /\ snap'[u] = snap[u]
    BY <1>1, <1>7 DEF PutFails, Goto
  <2> QED
    BY <2>1, <1>6
<1>8. CASE Crash
  BY <1>8, <1>6 DEF Crash
<1>9. ASSUME NEW t \in Threads, ReadHead(t) \/ ReadSize(t) \/ ReadRoot(t) \/ Skip(t)
      PROVE  Losses'
  <2>1. pc[t] # "writing"
    <3>1. ReadRoot(t) => pc[t] # "writing"
      <4>1. SnapOk(t) /\ Len(snap[t].roots) \in Nat /\ Width \in Nat
        BY LenProperties, WidthType DEF AInv, Snaps, Memory
      <4> QED
        BY <4>1 DEF ReadRoot, SnapOk, Turn
    <3> QED
      BY <3>1, <1>9 DEF ReadHead, ReadSize, MayRead, Skip, Signed
  <2>2. /\ files' = files /\ stored' = stored /\ failures' = failures
        /\ \A u \in Threads \ {t} : pc'[u] = pc[u] /\ snap'[u] = snap[u]
    BY <1>1, <1>9 DEF ReadHead, ReadSize, ReadRoot, Skip, Goto
  <2> QED
    BY <2>1, <2>2, <1>3
<1>10. CASE Start \/ LoopEnds
  BY <1>1, <1>10, <1>3 DEF Start, LoopEnds, Goto
<1>11. CASE Stop \/ Restart \/ UNCHANGED attestationVars \/ \E s \in 1..Width : Commit(s)
  BY <1>11, <1>3 DEF Stop, Restart, Commit, attestationVars, process
<1> QED
  BY <1>4, <1>5, <1>7, <1>8, <1>9, <1>10, <1>11 DEF AttestationNext, Proceed

----------------------------------------------------------------------------
(* The theorems.                                                            *)

\* The first state has the invariant.
LEMMA AInvInit ==
    ASSUME AttestationInit
    PROVE  AInv
<1>1. /\ Width \in Nat \ {0} /\ IsFiniteSet(1..Width) /\ sharded \in BOOLEAN
      /\ MaxEvents \in Nat /\ MaxFailures \in Nat
  BY WidthType, AttestationAssumption DEF AttestationInit
<1>2. Len(Empty.sizes) = 0 /\ Len(Empty.roots) = 0 /\ Empty.sizes = Empty.roots
      /\ Empty \in [sizes : Seq(Nat), roots : Seq(Nat)]
  BY EmptySeq DEF Empty
<1>3. Committed = 0
  <2>1. logs \in [1..Width -> Nat] /\ \A s \in 1..Width : logs[s] = 0
    BY <1>1 DEF AttestationInit
  <2> QED
    BY <1>1, <2>1, SumZero DEF Committed, Total
<1>4. Memory
  <2>1. sharded \in Kinds /\ logs \in [1..Width -> Nat] /\ lastSize = Nothing
        /\ up = TRUE /\ stopped = FALSE /\ failures = 0
    BY <1>1 DEF AttestationInit
  <2>2. pc \in [Threads -> {"off", "idle", "reading", "writing"}]
    BY DEF AttestationInit
  <2>3. snap \in [Threads -> [sizes : Seq(Nat), roots : Seq(Nat)]]
    BY <1>2 DEF AttestationInit
  <2>4. Committed <= MaxEvents /\ 0 \in 0..MaxFailures
    BY <1>1, <1>3
  <2> QED
    BY <1>1, <2>1, <2>2, <2>3, <2>4 DEF Memory
<1>5. Snaps
  <2> SUFFICES ASSUME NEW t \in Threads PROVE SnapOk(t)
    BY DEF Snaps
  <2>1. snap[t] = Empty /\ pc[t] # "writing"
    BY DEF AttestationInit
  <2> QED
    BY <1>1, <1>2, <2>1 DEF SnapOk
<1>6. Files
  BY DEF AttestationInit, Files, FileOk, Readable
<1>7. Losses
  <2>1. Lost \ Writing = {} /\ failures = 0 /\ stored = {}
    BY DEF AttestationInit, Lost
  <2>2. Cardinality(Lost \ Writing) = 0
    BY <2>1, FS_EmptySet
  <2>3. failures * Cardinality(Threads) = 0
    BY <2>1, ThreadsFinite
  <2> QED
    BY <2>1, <2>2, <2>3 DEF Losses
<1> QED
  BY <1>4, <1>5, <1>6, <1>7 DEF AInv

\* ledger.py, scheduler.py and checkpoint_store.py: the inductive invariant of the tree heads, for every
\* number of threads, shards, events and failures.
THEOREM AInvHolds == AttestationSpec => []AInv
<1>1. AInv /\ [AttestationNext]_attestationVars => AInv'
  BY MemoryStep, SnapsStep, FilesStep, LossesStep DEF AInv
<1> QED
  BY <1>1, AInvInit, PTL DEF AttestationSpec

\* It implies the types.
LEMMA InvIsTyped ==
    ASSUME AInv
    PROVE  AttestationTypeOK
<1>1. ASSUME NEW t \in Threads
      PROVE  /\ snap[t].sizes \in Seq(Nat) /\ snap[t].roots \in Seq(Nat)
             /\ Len(snap[t].sizes) - Len(snap[t].roots) \in {0, 1}
             /\ Len(snap[t].sizes) <= Width
             /\ pc[t] = "writing" => snap[t] \in Snapshots
             /\ pc[t] \in {"idle", "off"} => snap[t] = Empty
  <2>1. SnapOk(t) /\ snap[t] \in [sizes : Seq(Nat), roots : Seq(Nat)]
    BY DEF AInv, Snaps, Memory
  <2>2. pc[t] = "writing" => snap[t] \in Snapshots
    BY PuttingIsWhole, WholeHead DEF AInv
  <2> QED
    BY <2>1, <2>2 DEF SnapOk
<1>2. files \in [0..MaxEvents -> Snapshots \cup {Nothing, Torn}]
  <2>1. \A n \in 0..MaxEvents : files[n] \in Snapshots \cup {Nothing, Torn}
    BY DEF AInv, Files, FileOk
  <2> QED
    BY <2>1 DEF AInv, Files
<1> QED
  BY <1>1, <1>2 DEF AttestationTypeOK, AInv, Memory, Losses

\* The state of Runtime.checkpoint(), of CheckpointScheduler and of the store is typed:
\* whatever of a head was read, and whatever file was written, is within the log.
THEOREM TypeCorrect == AttestationSpec => []AttestationTypeOK
<1> QED
  BY AInvHolds, InvIsTyped, PTL

\* It implies that no two stored heads disagree.
LEMMA InvNoEquivocation ==
    ASSUME AInv
    PROVE  NoEquivocation
<1> SUFFICES ASSUME ~sharded, NEW g \in SignedHeads, NEW h \in SignedHeads, Size(g) = Size(h)
             PROVE  g.roots = h.roots
  BY DEF NoEquivocation
<1>1. Width = 1
  BY WidthType DEF AInv, Memory
<1>2. ASSUME NEW k \in SignedHeads
      PROVE  k \in Snapshots /\ k.sizes = k.roots
  <2>1. CASE \E n \in 0..MaxEvents : Readable(n) /\ k = files[n]
    BY <2>1 DEF AInv, Files, FileOk, Readable
  <2>2. CASE \E u \in Threads : (Signed(u) \/ pc[u] = "writing") /\ k = snap[u]
    BY <2>2, PuttingIsWhole, WholeHead DEF AInv
  <2> QED
    BY <2>1, <2>2 DEF SignedHeads
<1>3. ASSUME NEW k \in SignedHeads
      PROVE  k.roots \in [{1} -> Nat] /\ Size(k) = k.roots[1]
  <2>1. 1..1 = {1}
    OBVIOUS
  <2>2. k.roots \in [{1} -> Nat] /\ k.sizes = k.roots
    BY <1>1, <1>2, <2>1 DEF Snapshots
  <2> QED
    BY <2>2, SumSingle DEF Size, Total
<1>4. g.roots[1] = h.roots[1]
  BY <1>3
<1> QED
  BY <1>3, <1>4

\* detect_equivocation() finds nothing in the heads of one honest Ledger: of two heads
\* of one size, signed by whichever threads and stored before or after whatever commits
\* and restarts, neither has another root.
THEOREM OneRootForEachSize == AttestationSpec => []NoEquivocation
<1> QED
  BY AInvHolds, InvNoEquivocation, PTL

\* It implies that only so many stored heads are missing as failures account for.
LEMMA InvStoredStays ==
    ASSUME AInv
    PROVE  StoredStays
<1>1. {n \in stored : ~Readable(n) \/ Size(files[n]) # n} = Lost
  BY DEF AInv, Files, FileOk, Losses, Lost
<1> QED
  BY <1>1 DEF StoredStays, AInv, Losses, Writing

\* LocalCheckpointStore: a head that put() returned for stays, but for the file that is
\* being written again and one for each thread and each fault.
THEOREM StoredHeadsStay == AttestationSpec => []StoredStays
<1> QED
  BY AInvHolds, InvStoredStays, PTL

(***************************************************************************)
(* SqlLedger: what the processes have read of the table.                    *)
(***************************************************************************)
Inserting == {q \in Processes : ledger[q].pc = "insert"}

Backends == [pc : {"idle", "insert", "commit"}, idx : Seq(Nat), leaves : Seq(Nat),
             leaf_index : Nat, row : Nat, open : SUBSET Nat,
             broken : BOOLEAN, left : BOOLEAN, mixed : BOOLEAN]

Rows == [state : RowStates, leaf_index : Nat]

Table == Seq(Rows)

\* Sequences of the numbers of a table's rows,
Numbers(n) == {s \in Seq(Nat) : \A i \in 1..Len(s) : s[i] \in 1..n}

\* and those that ascend.
Rising(n) == {s \in Numbers(n) : \A i, j \in 1..Len(s) : i < j => s[i] < s[j]}

\* What a process keeps beside a table of n rows.
Fits(l, n) ==
    /\ l.row <= n /\ l.open \subseteq 1..n
    /\ l.idx \in Numbers(n) /\ l.leaves \in Rising(n)
    /\ l.pc # "idle" => ~l.broken
    /\ l.pc = "commit" => l.row # 0 /\ \A i \in DOMAIN l.leaves : l.leaves[i] < l.row

SqlTyped ==
    /\ qmark \in BOOLEAN
    /\ writers \subseteq Processes /\ writers # {}
    /\ rows \in Table
    /\ ledger \in [Processes -> Backends]
    /\ faults \in 0..MaxFaults
    /\ IsFiniteSet(Inserting) /\ Len(rows) + Cardinality(Inserting) <= MaxRows
    /\ \A p \in Processes : Fits(ledger[p], Len(rows)) /\ (ledger[p].pc # "idle" => p \in writers)

\* The place of row i among the rows in S.
Place(S, i) == Cardinality({j \in S : j < i})

\* The leaf index of every row that is there or may come to be is its place, and the rows
\* that are there come before those that may.
PlacedIn(t, O) ==
    /\ \A i \in ThereIn(t) \cup O : t[i].leaf_index = Place(ThereIn(t) \cup O, i)
    /\ \A i \in ThereIn(t), j \in O : i < j

\* What process state l knows of table t, if no commit left its row open,
Follows(l, t) ==
    ~l.left => /\ IsPrefix(l.leaves, SelectedOf(t))
               /\ ~l.mixed => IsPrefix(l.idx, SelectedOf(t))

\* of the only writer,
Writes(l, t) ==
    /\ l.pc = "insert" => l.leaf_index = Cardinality(ThereIn(t) \cup l.open)
    /\ l.pc = "commit" => l.row = Len(t) /\ l.row \in l.open
    /\ ~l.left =>
          /\ l.open = IF l.pc = "commit" THEN {l.row} ELSE {}
          /\ ~l.broken => l.leaves = SelectedOf(t)
          /\ ~l.broken /\ ~l.mixed => l.idx = SelectedOf(t)

\* and of a process that only reads.
OnlyReads(l) == l.open = {} /\ ~l.left /\ ~l.mixed

Sole(w) ==
    /\ PlacedIn(rows, ledger[w].open)
    /\ Writes(ledger[w], rows)
    /\ \A p \in Processes : Follows(ledger[p], rows) /\ (p # w => OnlyReads(ledger[p]))

SoleInv == \A w \in Processes : writers = {w} => Sole(w)

\* Positions in ascending order rise, and there is one for each row.
LEMMA AscendingRises ==
  ASSUME NEW n \in Nat, NEW S \in SUBSET (1..n)
  PROVE  Ascending(S) \in Rising(n) /\ Len(Ascending(S)) = Cardinality(S) /\ Cardinality(S) \in Nat
<1>1. S \in SUBSET Nat /\ Increasing(Ascending(S), S)
  BY AscendingIncreases
<1>2. PICK a : a = Ascending(S)
  OBVIOUS
<1>3. Len(a) = Cardinality(S)
  BY <1>1, <1>2, IncreasingIsAscending
<1>4. a \in Seq(S) /\ \A i, j \in 1..Len(a) : i < j => a[i] < a[j]
  BY <1>1, <1>2 DEF Increasing
<1>6. Len(a) \in Nat /\ \A i \in 1..Len(a) : a[i] \in S
  BY <1>4
<1>7. \A x \in S : x \in 1..n /\ x \in Nat
  OBVIOUS
<1>5. Len(a) \in Nat /\ \A i \in 1..Len(a) : a[i] \in 1..n
  BY <1>6, <1>7
<1>8. a \in Seq(Nat)
  <2>1. \A i \in 1..Len(a) : a[i] \in Nat
    BY <1>6, <1>7
  <2> QED
    BY <1>4, <2>1
<1> QED
  BY <1>2, <1>3, <1>4, <1>5, <1>8 DEF Rising, Numbers

\* Before the k-th of them come k - 1.
LEMMA AscendingPlace ==
  ASSUME NEW n \in Nat, NEW S \in SUBSET (1..n), NEW k \in 1..Len(Ascending(S))
  PROVE  Ascending(S)[k] \in S /\ Place(S, Ascending(S)[k]) = k - 1
<1>1. PICK a : a = Ascending(S) /\ Increasing(a, S)
  BY AscendingIncreases
<1>0. a \in Seq(S) /\ k \in 1..Len(a)
  BY <1>1 DEF Increasing
<1>2. PICK m \in Nat : m = Len(a) /\ a \in [1..m -> S] /\ k \in 1..m
  BY <1>0
<1>3. PICK x \in S : x = a[k]
  BY <1>2
<1>4. PICK b : b = SubSeq(a, 1, k - 1)
  OBVIOUS
<1>5. PICK T : T = {j \in S : j < x}
  OBVIOUS
<1>6. Len(b) = k - 1 /\ \A i \in 1..(k - 1) : b[i] = a[i]
  BY <1>2, <1>4
<1>7. \A i, j \in 1..m : i < j => a[i] < a[j]
  BY <1>1, <1>2 DEF Increasing
<1>8. \A i \in 1..(k - 1) : b[i] \in T
  BY <1>2, <1>3, <1>5, <1>6, <1>7
<1>9. b \in Seq(T)
  <2>1. b \in Seq(S)
    BY <1>2, <1>4
  <2> QED
    BY <1>6, <1>8, <2>1
<1>10. T = {b[i] : i \in 1..(k - 1)}
  <2>1. ASSUME NEW y \in T PROVE \E i \in 1..(k - 1) : y = b[i]
    <3>1. PICK i \in 1..m : y = a[i]
      BY <1>1, <1>2, <1>5 DEF Increasing
    <3>2. y < x /\ x = a[k] /\ y \in Nat /\ x \in Nat
      BY <1>3, <1>5
    <3>3. i < k
      BY <1>2, <1>7, <3>1, <3>2
    <3> QED
      BY <1>6, <3>1, <3>3
  <2> QED
    BY <1>8, <2>1
<1>11. Increasing(b, T)
  BY <1>2, <1>6, <1>7, <1>9, <1>10 DEF Increasing
<1>12. T \in SUBSET Nat
  <2>1. S \subseteq Nat /\ T \subseteq S
    BY <1>5
  <2> QED
    BY <2>1
<1>13. Cardinality(T) = k - 1
  BY <1>6, <1>11, <1>12, IncreasingIsAscending
<1> QED
  BY <1>1, <1>3, <1>5, <1>13 DEF Place

\* Where some rows come before the others their sequence is a prefix of that of all.
LEMMA AscendingPrefix ==
  ASSUME NEW n \in Nat, NEW S \in SUBSET (1..n), NEW T \in SUBSET (1..n),
         \A i \in S, j \in T : i < j
  PROVE  IsPrefix(Ascending(S), Ascending(S \cup T))
<1>1. PICK a, b : a = Ascending(S) /\ b = Ascending(T) /\ Increasing(a, S) /\ Increasing(b, T)
  BY AscendingIncreases
<1>4. a \in Seq(S) /\ b \in Seq(T)
  BY <1>1 DEF Increasing
<1>2. PICK k \in Nat, m \in Nat : k = Len(a) /\ m = Len(b)
  BY <1>4
<1>3. PICK c : c = a \o b
  OBVIOUS
<1>5. c \in Seq(S \cup T) /\ Len(c) = k + m
      /\ \A i \in 1..(k + m) : c[i] = IF i <= k THEN a[i] ELSE b[i - k]
  BY <1>2, <1>3, <1>4
<1>6. (\A i \in 1..k : a[i] \in S) /\ (\A i \in 1..m : b[i] \in T)
  BY <1>2, <1>4
<1>7. S \cup T = {c[i] : i \in 1..(k + m)}
  <2>1. ASSUME NEW x \in S PROVE \E i \in 1..(k + m) : x = c[i]
    <3>1. PICK i \in 1..k : x = a[i]
      BY <1>1, <1>2 DEF Increasing
    <3> QED
      BY <1>5, <3>1
  <2>2. ASSUME NEW x \in T PROVE \E i \in 1..(k + m) : x = c[i]
    <3>1. PICK i \in 1..m : x = b[i]
      BY <1>1, <1>2 DEF Increasing
    <3>2. k + i \in 1..(k + m) /\ c[k + i] = b[i]
      BY <1>5
    <3> QED
      BY <3>1, <3>2
  <2>3. ASSUME NEW i \in 1..(k + m) PROVE c[i] \in S \cup T
    BY <1>5, <1>6
  <2> QED
    BY <2>1, <2>2, <2>3
<1>8. ASSUME NEW i \in 1..(k + m), NEW j \in 1..(k + m), i < j PROVE c[i] < c[j]
  <2>1. CASE j <= k
    <3>1. i \in 1..k /\ j \in 1..k /\ c[i] = a[i] /\ c[j] = a[j]
      BY <1>5, <1>8, <2>1
    <3>2. a[i] < a[j]
      BY <1>1, <1>2, <1>8, <3>1 DEF Increasing
    <3> QED
      BY <3>1, <3>2
  <2>2. CASE i <= k /\ ~(j <= k)
    <3>1. a[i] \in S /\ b[j - k] \in T
      BY <1>6, <2>2
    <3> QED
      BY <1>5, <2>2, <3>1
  <2>3. CASE ~(i <= k)
    <3>1. i - k \in 1..m /\ j - k \in 1..m /\ i - k < j - k
      BY <1>8, <2>3
    <3>2. b[i - k] < b[j - k]
      BY <1>1, <1>2, <3>1 DEF Increasing
    <3> QED
      BY <1>5, <1>8, <2>3, <3>2
  <2> QED
    BY <2>1, <2>2, <2>3
<1>9. Increasing(c, S \cup T)
  BY <1>5, <1>7, <1>8 DEF Increasing
<1>10. S \cup T \in SUBSET Nat
  OBVIOUS
<1>11. c = Ascending(S \cup T)
  BY <1>9, <1>10, IncreasingIsAscending
<1>12. SubSeq(c, 1, k) = SubSeq(a, 1, k)
  BY <1>2, <1>4, <1>5
<1>13. Len(a) <= Len(c) /\ SubSeq(c, 1, Len(a)) = SubSeq(a, 1, Len(a))
  BY <1>2, <1>5, <1>12
<1> QED
  BY <1>1, <1>11, <1>13 DEF IsPrefix

\* A prefix of a prefix is a prefix.
LEMMA PrefixOfPrefix ==
  ASSUME NEW S, NEW s \in Seq(S), NEW t \in Seq(S), NEW u \in Seq(S), IsPrefix(t, u)
  PROVE  IsPrefix(t, t) /\ (IsPrefix(s, t) => IsPrefix(s, u))
<1>1. ASSUME IsPrefix(s, t) PROVE IsPrefix(s, u)
  <2>1. PICK n \in Nat, m \in Nat, k \in Nat : n = Len(s) /\ m = Len(t) /\ k = Len(u) /\ n <= m /\ m <= k
    BY <1>1 DEF IsPrefix
  <2>2. SubSeq(s, 1, n) = SubSeq(t, 1, n) /\ SubSeq(t, 1, m) = SubSeq(u, 1, m)
    BY <1>1, <2>1 DEF IsPrefix
  <2>3. \A i \in 1..n : s[i] = t[i]
    <3> TAKE i \in 1..n
    <3>1. SubSeq(s, 1, n)[i] = s[i] /\ SubSeq(t, 1, n)[i] = t[i]
      BY <2>1
    <3> QED
      BY <2>2, <3>1
  <2>4. \A i \in 1..m : t[i] = u[i]
    <3> TAKE i \in 1..m
    <3>1. SubSeq(t, 1, m)[i] = t[i] /\ SubSeq(u, 1, m)[i] = u[i]
      BY <2>1
    <3> QED
      BY <2>2, <3>1
  <2>5. \A i \in 1..n : s[i] = u[i]
    BY <2>1, <2>3, <2>4
  <2>6. SubSeq(s, 1, n) = SubSeq(u, 1, n)
    BY <2>1, <2>5
  <2> QED
    BY <2>1, <2>6 DEF IsPrefix
<1> QED
  BY <1>1 DEF IsPrefix

\* The rows that are there, among a table's.
LEMMA ThereInRows ==
  ASSUME NEW t \in Table
  PROVE  /\ t = [i \in DOMAIN t |-> t[i]] /\ Len(t) \in Nat /\ DOMAIN t = 1..Len(t)
         /\ \A i \in 1..Len(t) : t[i] \in Rows
         /\ ThereIn(t) \in SUBSET (1..Len(t))
BY DEF ThereIn, Table

\* SELECT ... ORDER BY idx finds rows of the table in ascending order.
LEMMA SelectedRises ==
  ASSUME NEW t \in Table
  PROVE  SelectedOf(t) \in Rising(Len(t)) /\ SelectedOf(t) \in Seq(Nat)
<1>1. PICK n \in Nat : n = Len(t) /\ ThereIn(t) \in SUBSET (1..n)
  BY ThereInRows
<1> QED
  BY <1>1, AscendingRises DEF SelectedOf, Rising, Numbers

\* A row whose transaction is open is not selected.
LEMMA OpenRow ==
  ASSUME NEW t \in Table, NEW n \in Nat
  PROVE  LET u == Append(t, [state |-> "open", leaf_index |-> n])
         IN  /\ u \in Table /\ Len(u) = Len(t) + 1 /\ ThereIn(u) = ThereIn(t)
             /\ u[Len(t) + 1].leaf_index = n /\ \A i \in 1..Len(t) : u[i] = t[i]
<1>1. PICK r : r = [state |-> "open", leaf_index |-> n]
  OBVIOUS
<1>2. PICK u : u = Append(t, r)
  OBVIOUS
<1>3. r \in Rows
  BY <1>1 DEF RowStates, Rows
<1>4. PICK k \in Nat : k = Len(t) /\ DOMAIN t = 1..k
  BY DEF Table
<1>5. u \in Table /\ Len(u) = k + 1 /\ DOMAIN u = 1..(k + 1) /\ u[k + 1] = r /\ \A i \in 1..k : u[i] = t[i]
  BY <1>2, <1>3, <1>4 DEF Table
<1>6. {i \in DOMAIN u : u[i].state = "there"} = {i \in DOMAIN t : t[i].state = "there"}
  BY <1>1, <1>4, <1>5
<1> QED
  BY <1>1, <1>2, <1>4, <1>5, <1>6 DEF ThereIn

\* The rows after a transaction of this process has ended.
LEMMA Ended ==
  ASSUME SqlTyped, NEW p \in Processes, NEW state \in RowStates
  PROVE  /\ EndedAs(p, state) \in Table /\ Len(EndedAs(p, state)) = Len(rows)
         /\ \A i \in 1..Len(rows) : EndedAs(p, state)[i].leaf_index = rows[i].leaf_index
         /\ ThereIn(EndedAs(p, state)) = IF state = "there" THEN ThereIn(rows) \cup ledger[p].open
                                                            ELSE ThereIn(rows) \ ledger[p].open
         /\ ledger[p].open = {} => EndedAs(p, state) = rows
<1>0. rows \in Table
  BY DEF SqlTyped
<1>1. PICK O : O = ledger[p].open
  OBVIOUS
<1>2. PICK n \in Nat : n = Len(rows) /\ DOMAIN rows = 1..n /\ O \subseteq 1..n
  BY <1>0, <1>1, ThereInRows DEF SqlTyped, Fits
<1>3. \A i \in 1..n : rows[i] \in Rows
  BY <1>0, <1>2, ThereInRows
<1>4. PICK u : u = EndedAs(p, state)
  OBVIOUS
<1>5. u = [i \in 1..n |-> IF i \in O THEN [rows[i] EXCEPT !.state = state] ELSE rows[i]]
  BY <1>1, <1>2, <1>4 DEF EndedAs
<1>6. ASSUME NEW i \in 1..n
      PROVE  u[i] \in Rows /\ u[i].leaf_index = rows[i].leaf_index
             /\ u[i].state = (IF i \in O THEN state ELSE rows[i].state)
  <2>1. rows[i] \in Rows
    BY <1>3
  <2>2. PICK r : r = rows[i] /\ r \in Rows
    BY <2>1
  <2>3. u[i] = IF i \in O THEN [r EXCEPT !.state = state] ELSE r
    BY <1>5, <2>2
  <2>4. /\ [r EXCEPT !.state = state] \in Rows /\ [r EXCEPT !.state = state].state = state
        /\ [r EXCEPT !.state = state].leaf_index = r.leaf_index
    BY <2>2 DEF Rows
  <2> QED
    BY <2>2, <2>3, <2>4
<1>7. u \in Table /\ Len(u) = n /\ DOMAIN u = 1..n
  <2>1. u \in [1..n -> Rows]
    BY <1>5, <1>6
  <2> QED
    BY <2>1 DEF Table
<1>8. ThereIn(u) = IF state = "there" THEN ThereIn(rows) \cup O ELSE ThereIn(rows) \ O
  BY <1>2, <1>6, <1>7 DEF ThereIn
<1>9. ASSUME O = {} PROVE u = rows
  <2>1. u = [i \in 1..n |-> rows[i]]
    BY <1>5, <1>9
  <2>2. rows = [i \in DOMAIN rows |-> rows[i]]
    BY <1>0, ThereInRows
  <2> QED
    BY <1>2, <2>1, <2>2
<1> QED
  BY <1>1, <1>2, <1>4, <1>6, <1>7, <1>8, <1>9

\* The rows of a table are rows of a longer one.
LEMMA NumbersGrow ==
  ASSUME NEW n \in Nat, NEW m \in Nat, n <= m
  PROVE  Numbers(n) \subseteq Numbers(m) /\ Rising(n) \subseteq Rising(m)
BY DEF Numbers, Rising

\* A row appended to a list of rows of the table; and one behind all that are listed.
LEMMA NumbersAppend ==
  ASSUME NEW n \in Nat, NEW r \in 1..n
  PROVE  /\ \A s \in Numbers(n) : Append(s, r) \in Numbers(n)
         /\ \A s \in Rising(n) : (\A i \in DOMAIN s : s[i] < r) => Append(s, r) \in Rising(n)
<1>1. ASSUME NEW s \in Numbers(n) PROVE Append(s, r) \in Numbers(n)
  <2>1. PICK t : t = Append(s, r)
    OBVIOUS
  <2>2. PICK k \in Nat : k = Len(s) /\ s \in Seq(Nat) /\ \A i \in 1..k : s[i] \in 1..n
    BY DEF Numbers
  <2>3. t \in Seq(Nat) /\ Len(t) = k + 1 /\ t[k + 1] = r /\ \A i \in 1..k : t[i] = s[i]
    BY <2>1, <2>2
  <2>4. ASSUME NEW i \in 1..(k + 1) PROVE t[i] \in 1..n
    <3>1. i \in 1..k \/ i = k + 1
      OBVIOUS
    <3> QED
      BY <2>2, <2>3, <3>1
  <2> QED
    BY <2>1, <2>3, <2>4 DEF Numbers
<1>2. ASSUME NEW s \in Rising(n), \A i \in DOMAIN s : s[i] < r PROVE Append(s, r) \in Rising(n)
  <2>1. PICK t : t = Append(s, r)
    OBVIOUS
  <2>2. s \in Numbers(n)
    BY DEF Rising
  <2>3. PICK k \in Nat : k = Len(s) /\ s \in Seq(Nat) /\ DOMAIN s = 1..k /\ \A i, j \in 1..k : i < j => s[i] < s[j]
    BY DEF Rising, Numbers
  <2>4. t \in Numbers(n) /\ Len(t) = k + 1 /\ t[k + 1] = r /\ \A i \in 1..k : t[i] = s[i]
    BY <1>1, <2>1, <2>2, <2>3
  <2>5. ASSUME NEW i \in 1..(k + 1), NEW j \in 1..(k + 1), i < j PROVE t[i] < t[j]
    <3>1. i \in 1..k
      BY <2>5
    <3> QED
      BY <1>2, <2>3, <2>4, <2>5, <3>1
  <2> QED
    BY <2>1, <2>4, <2>5 DEF Rising
<1> QED
  BY <1>1, <1>2

\* What a connection sees of the table.
LEMMA ViewRises ==
  ASSUME SqlTyped, NEW p \in Processes
  PROVE  /\ View(p) \in Numbers(Len(rows)) /\ View(p) \in Seq(Nat) /\ Len(View(p)) \in Nat
         /\ Len(View(p)) = Cardinality(ThereIn(rows) \cup ledger[p].open)
         /\ ledger[p].open = {} => View(p) = Selected
<1>1. PICK n \in Nat : n = Len(rows) /\ ThereIn(rows) \in SUBSET (1..n)
  BY ThereInRows DEF SqlTyped
<1>2. PICK S : S = ThereIn(rows) \cup ledger[p].open
  OBVIOUS
<1>3. S \in SUBSET (1..n)
  BY <1>1, <1>2 DEF SqlTyped, Fits
<1>4. Ascending(S) \in Rising(n) /\ Len(Ascending(S)) = Cardinality(S) /\ Cardinality(S) \in Nat
  BY <1>3, AscendingRises
<1>5. ledger[p].open = {} => S = ThereIn(rows)
  BY <1>2
<1> QED
  BY <1>1, <1>2, <1>4, <1>5 DEF View, Selected, SelectedOf, Rising, Numbers

\* A ledger opened on a table has read rows of it.
LEMMA OpenedFits ==
  ASSUME NEW t \in Table
  PROVE  /\ Opened(t) \in Backends /\ Fits(Opened(t), Len(t)) /\ Opened(t).pc = "idle"
         /\ Opened(t).open = {} /\ Opened(t).left = FALSE /\ Opened(t).mixed = FALSE
         /\ Opened(t).idx = SelectedOf(t) /\ Opened(t).leaves = SelectedOf(t)
<1>1. PICK s : s = SelectedOf(t) /\ s \in Rising(Len(t))
  BY SelectedRises
<1>2. s \in Numbers(Len(t)) /\ s \in Seq(Nat)
  BY <1>1 DEF Rising, Numbers
<1>3. Opened(t) = [pc |-> "idle", idx |-> s, leaves |-> s, leaf_index |-> 0, row |-> 0,
                   open |-> {}, broken |-> FALSE, left |-> FALSE, mixed |-> FALSE]
  BY <1>1 DEF Opened
<1>4. 0 <= Len(t)
  BY DEF Table
<1> QED
  BY <1>1, <1>2, <1>3, <1>4 DEF Backends, Fits

\* An empty table and ledgers that have read nothing of it.
LEMMA SqlTypedInit == SqlInit /\ faults = 0 => SqlTyped /\ SoleInv
<1> SUFFICES ASSUME SqlInit, faults = 0 PROVE SqlTyped /\ SoleInv
  OBVIOUS
<1>1. rows = <<>> /\ rows \in Table /\ Len(rows) = 0 /\ DOMAIN rows = {} /\ ThereIn(rows) = {}
  BY DEF SqlInit, Table, ThereIn
<1>2. PICK l : l = Opened(rows)
  OBVIOUS
<1>3. /\ l \in Backends /\ Fits(l, 0) /\ l.pc = "idle" /\ l.open = {}
      /\ l.left = FALSE /\ l.mixed = FALSE /\ l.idx = Selected /\ l.leaves = Selected
  BY <1>1, <1>2, OpenedFits DEF Selected
<1>4. ledger = [p \in Processes |-> l]
  BY <1>2 DEF SqlInit
<1>5. Inserting = {}
  BY <1>3, <1>4 DEF Inserting
<1>6. SqlTyped
  BY <1>1, <1>3, <1>4, <1>5, FS_EmptySet, SqlAssumption DEF SqlTyped, SqlInit
<1>7. IsPrefix(Selected, Selected)
  <2>1. PICK s \in Seq(Nat) : s = Selected
    BY <1>1, SelectedRises DEF Selected
  <2> QED
    BY <2>1 DEF IsPrefix
<1>8. ASSUME NEW w \in Processes PROVE Sole(w)
  <2>1. ledger[w] = l /\ PlacedIn(rows, {})
    BY <1>1, <1>4 DEF PlacedIn
  <2> QED
    BY <1>1, <1>3, <1>4, <1>7, <2>1 DEF Sole, Writes, Follows, OnlyReads, Selected
<1> QED
  BY <1>6, <1>8 DEF SoleInv

\* One process goes on and the table grows by at most one row, for which a number was free.
LEMMA SqlStep ==
  ASSUME SqlTyped, NEW p \in Processes, NEW l \in Backends,
         ledger' = [ledger EXCEPT ![p] = l], UNCHANGED <<qmark, writers>>,
         rows' \in Table, faults' \in 0..MaxFaults,
         Fits(l, Len(rows')), l.pc # "idle" => p \in writers,
         \/ Len(rows') = Len(rows) /\ l.pc # "insert"
         \/ Len(rows') = Len(rows) /\ l.pc = ledger[p].pc
         \/ Len(rows') = Len(rows) + 1 /\ l.pc # "insert" /\ ledger[p].pc = "insert"
         \/ /\ Len(rows') = Len(rows) /\ ledger[p].pc # "insert"
            /\ Len(rows) + Cardinality(Inserting) < MaxRows
  PROVE  SqlTyped'
<1>1. PICK n \in Nat, m \in Nat : n = Len(rows) /\ m = Len(rows') /\ n <= m
  BY DEF SqlTyped, Table
<1>2. PICK I : I = Inserting /\ IsFiniteSet(I) /\ Cardinality(I) \in Nat /\ n + Cardinality(I) <= MaxRows
  BY <1>1, FS_CardinalityType DEF SqlTyped
<1>3. ledger \in [Processes -> Backends] /\ ledger' \in [Processes -> Backends]
  BY DEF SqlTyped
<1>4. ledger'[p] = l /\ \A q \in Processes : q # p => ledger'[q] = ledger[q]
  BY <1>3
<1>5. Inserting' = IF l.pc = "insert" THEN I \cup {p} ELSE I \ {p}
  BY <1>2, <1>4 DEF Inserting
<1>6. p \in I <=> ledger[p].pc = "insert"
  BY <1>2 DEF Inserting
<1>7. /\ IsFiniteSet(I \cup {p}) /\ Cardinality(I \cup {p}) = IF p \in I THEN Cardinality(I) ELSE Cardinality(I) + 1
      /\ IsFiniteSet(I \ {p}) /\ Cardinality(I \ {p}) = IF p \in I THEN Cardinality(I) - 1 ELSE Cardinality(I)
  BY <1>2, FS_AddElement, FS_RemoveElement
<1>8. IsFiniteSet(Inserting') /\ m + Cardinality(Inserting') <= MaxRows
  <2>1. MaxRows \in Nat
    BY SqlAssumption
  <2> QED
    BY <1>1, <1>2, <1>5, <1>6, <1>7, <2>1
<1>9. ASSUME NEW q \in Processes PROVE Fits(ledger'[q], m) /\ (ledger'[q].pc # "idle" => q \in writers)
  <2>1. CASE q = p
    BY <1>1, <1>4, <2>1 DEF Fits
  <2>2. CASE q # p
    <3>1. Fits(ledger[q], n) /\ ledger[q].row \in Nat /\ (ledger[q].pc # "idle" => q \in writers)
      BY <1>1, <1>3 DEF SqlTyped, Backends
    <3>2. Numbers(n) \subseteq Numbers(m) /\ Rising(n) \subseteq Rising(m)
      BY <1>1, NumbersGrow
    <3> QED
      BY <1>1, <1>4, <2>2, <3>1, <3>2 DEF Fits
  <2> QED
    BY <2>1, <2>2
<1> QED
  BY <1>1, <1>3, <1>8, <1>9 DEF SqlTyped

\* One more fault is still within the bound.
LEMMA FaultTyped == ASSUME SqlTyped, Fault PROVE faults' \in 0..MaxFaults
<1>1. IsFiniteSet(writers) /\ Cardinality(writers) \in Nat /\ Cardinality(writers) # 0
  <2>1. IsFiniteSet(writers)
    BY SqlAssumption, FS_Subset DEF SqlTyped
  <2> QED
    BY <2>1, FS_CardinalityType, FS_EmptySet DEF SqlTyped
<1>2. MaxFaults \in Nat /\ faults \in Nat
  BY SqlAssumption DEF SqlTyped
<1> QED
  BY <1>1, <1>2 DEF Fault

\* Every step of every process on the shared table keeps the types and the bounds.
LEMMA SqlTypedNext == SqlTyped /\ [SqlNext]_<<sqlVars, faults>> => SqlTyped'
<1> SUFFICES ASSUME SqlTyped, [SqlNext]_<<sqlVars, faults>> PROVE SqlTyped'
  OBVIOUS
<1>0. /\ rows \in Table /\ ledger \in [Processes -> Backends] /\ Len(rows) \in Nat
      /\ faults \in 0..MaxFaults /\ MaxRows \in Nat
  BY SqlAssumption DEF SqlTyped, Table
<1>1. CASE UNCHANGED <<sqlVars, faults>>
  BY <1>1 DEF SqlTyped, sqlVars, Inserting
<1> SUFFICES ASSUME NEW p \in Processes,
                    \/ BeginCommit(p) \/ Insert(p) \/ CommitRow(p) \/ Raises(p)
                    \/ ReadPastEnd(p) \/ Reopen(p)
             PROVE  SqlTyped'
  BY <1>1 DEF SqlNext
<1>2. /\ ledger[p] \in Backends /\ Fits(ledger[p], Len(rows))
      /\ ledger[p].pc # "idle" => p \in writers
  BY DEF SqlTyped
<1>3. /\ ledger[p].pc \in {"idle", "insert", "commit"}
      /\ ledger[p].idx \in Seq(Nat) /\ ledger[p].leaves \in Seq(Nat)
      /\ ledger[p].leaf_index \in Nat /\ ledger[p].row \in Nat /\ ledger[p].open \in SUBSET Nat
      /\ ledger[p].broken \in BOOLEAN /\ ledger[p].left \in BOOLEAN /\ ledger[p].mixed \in BOOLEAN
  BY <1>2 DEF Backends
<1>4. View(p) \in Numbers(Len(rows)) /\ View(p) \in Seq(Nat) /\ Len(View(p)) \in Nat
  BY ViewRises
<1>5. CASE BeginCommit(p)
  <2>0. PICK k \in Nat : k = Len(View(p))
    BY <1>4
  <2>1. PICK l : l = [ledger[p] EXCEPT !.pc = "insert", !.leaf_index = k]
    OBVIOUS
  <2>2. l \in Backends /\ l.pc = "insert" /\ l.row = ledger[p].row /\ l.idx = ledger[p].idx
        /\ l.leaves = ledger[p].leaves /\ l.broken = ledger[p].broken /\ l.open = ledger[p].open
    BY <1>2, <2>1 DEF Backends
  <2>3. Fits(l, Len(rows)) /\ p \in writers
    BY <1>2, <1>5, <2>2 DEF Fits, BeginCommit
  <2>4. ledger' = [ledger EXCEPT ![p] = l] /\ UNCHANGED <<qmark, writers, rows, faults>>
    BY <1>5, <2>0, <2>1 DEF BeginCommit
  <2>5. ledger[p].pc # "insert" /\ Len(rows) + Cardinality(Inserting) < MaxRows
    BY <1>5 DEF BeginCommit, Inserting
  <2> QED
    BY <1>0, <2>2, <2>3, <2>4, <2>5, SqlStep
<1>6. CASE Insert(p)
  <2>0. PICK k \in Nat : k = Len(rows) + 1
    BY <1>0
  <2>a. PICK O : O = ledger[p].open \cup {k}
    OBVIOUS
  <2>b. O \in SUBSET Nat /\ O \subseteq 1..k
    BY <1>0, <1>2, <1>3, <2>0, <2>a DEF Fits
  <2>1. PICK l : l = [ledger[p] EXCEPT !.pc = "commit", !.row = k, !.open = O]
    OBVIOUS
  <2>2. l \in Backends /\ l.pc = "commit" /\ l.row = k /\ l.idx = ledger[p].idx
        /\ l.leaves = ledger[p].leaves /\ l.broken = ledger[p].broken /\ l.open = O
    BY <1>2, <2>1, <2>b DEF Backends
  <2>3. ledger' = [ledger EXCEPT ![p] = l] /\ UNCHANGED <<qmark, writers, faults>>
        /\ rows' = Append(rows, [state |-> "open", leaf_index |-> ledger[p].leaf_index])
        /\ ledger[p].pc = "insert"
    BY <1>6, <2>0, <2>1, <2>a DEF Insert
  <2>4. rows' \in Table /\ Len(rows') = Len(rows) + 1
    BY <1>0, <1>3, <2>3, OpenRow
  <2>5. ledger[p].idx \in Numbers(Len(rows) + 1) /\ ledger[p].leaves \in Rising(Len(rows) + 1)
    <3>1. Len(rows) + 1 \in Nat /\ Len(rows) <= Len(rows) + 1
      BY <1>0
    <3> QED
      BY <1>0, <1>2, <3>1, NumbersGrow DEF Fits
  <2>6. \A i \in DOMAIN ledger[p].leaves : ledger[p].leaves[i] < Len(rows) + 1
    BY <1>0, <1>2 DEF Fits, Rising, Numbers
  <2>7. Fits(l, Len(rows')) /\ p \in writers
    BY <1>0, <1>2, <2>0, <2>2, <2>3, <2>4, <2>5, <2>6, <2>b DEF Fits
  <2> QED
    BY <1>0, <2>2, <2>3, <2>4, <2>7, SqlStep
<1>7. CASE CommitRow(p)
  <2>0. PICK r : r = ledger[p].row
    OBVIOUS
  <2>8. Append(ledger[p].idx, r) \in Seq(Nat) /\ Append(ledger[p].leaves, r) \in Seq(Nat)
    BY <1>3, <2>0, AppendProperties
  <2>9. PICK ix \in Seq(Nat), lv \in Seq(Nat) : ix = Append(ledger[p].idx, r) /\ lv = Append(ledger[p].leaves, r)
    BY <2>8
  <2>1. PICK l : l = [ledger[p] EXCEPT !.pc = "idle", !.open = {}, !.idx = ix, !.leaves = lv]
    OBVIOUS
  <2>2. ledger[p].pc = "commit" /\ r \in 1..Len(rows)
    BY <1>0, <1>2, <1>3, <1>7, <2>0 DEF CommitRow, Fits
  <2>3. l \in Backends /\ l.pc = "idle" /\ l.row = r /\ l.idx = ix /\ l.leaves = lv /\ l.open = {}
    BY <1>2, <2>0, <2>1 DEF Backends
  <2>4. ledger' = [ledger EXCEPT ![p] = l] /\ UNCHANGED <<qmark, writers, faults>>
        /\ rows' = EndedAs(p, "there")
    BY <1>0, <1>7, <2>0, <2>1, <2>2, <2>9 DEF CommitRow
  <2>5. rows' \in Table /\ Len(rows') = Len(rows)
    BY <2>4, Ended DEF RowStates
  <2>6. Fits(l, Len(rows'))
    BY <1>0, <1>2, <2>0, <2>2, <2>3, <2>5, <2>9, NumbersAppend DEF Fits
  <2> QED
    BY <1>0, <2>3, <2>4, <2>5, <2>6, SqlStep
<1>8. CASE Raises(p)
  <2>b. PICK broken \in BOOLEAN, state \in RowStates :
          /\ rows' = EndedAs(p, state)
          /\ ledger' = [ledger EXCEPT ![p].pc = "idle", ![p].broken = broken,
                          ![p].open = IF state = "open" THEN @ ELSE {},
                          ![p].left = @ \/ (state = "open" /\ ledger[p].pc = "commit")]
    BY <1>8, ZenonT(30) DEF Raises
  <2>1. PICK O, left :
          /\ O = IF state = "open" THEN ledger[p].open ELSE {}
          /\ left = (ledger[p].left \/ (state = "open" /\ ledger[p].pc = "commit"))
    OBVIOUS
  <2>a. O \in SUBSET Nat /\ O \subseteq 1..Len(rows) /\ left \in BOOLEAN
    BY <1>2, <1>3, <2>1 DEF Fits
  <2>2. PICK l : l = [ledger[p] EXCEPT !.pc = "idle", !.broken = broken, !.open = O, !.left = left]
    OBVIOUS
  <2>3. l \in Backends /\ l.pc = "idle" /\ l.row = ledger[p].row /\ l.idx = ledger[p].idx
        /\ l.leaves = ledger[p].leaves /\ l.open = O
    BY <1>2, <1>3, <2>2, <2>a DEF Backends
  <2>5. rows' \in Table /\ Len(rows') = Len(rows)
    BY <2>b, Ended
  <2>c. ledger' = [ledger EXCEPT ![p] = l]
    <3>1. [ledger EXCEPT ![p].pc = "idle", ![p].broken = broken,
                          ![p].open = IF state = "open" THEN @ ELSE {},
                          ![p].left = @ \/ (state = "open" /\ ledger[p].pc = "commit")]
          = [ledger EXCEPT ![p] = l]
      BY <1>0, <2>1, <2>2
    <3> QED
      BY <2>b, <3>1
  <2>6. ledger' = [ledger EXCEPT ![p] = l] /\ UNCHANGED <<qmark, writers>> /\ faults' \in 0..MaxFaults
    BY <1>8, <2>c, FaultTyped DEF Raises
  <2>7. Fits(l, Len(rows'))
    BY <1>2, <2>3, <2>5, <2>a DEF Fits
  <2> QED
    BY <2>3, <2>5, <2>6, <2>7, SqlStep
<1>9. CASE ReadPastEnd(p)
  <2>0. PICK ix \in Seq(Nat), mixed \in BOOLEAN :
          ix = View(p) /\ mixed = (ledger[p].mixed \/ ledger[p].pc = "commit")
    BY <1>3, <1>4
  <2>1. PICK l : l = [ledger[p] EXCEPT !.idx = ix, !.mixed = mixed]
    OBVIOUS
  <2>2. l \in Backends /\ l.pc = ledger[p].pc /\ l.row = ledger[p].row /\ l.idx = ix
        /\ l.leaves = ledger[p].leaves /\ l.open = ledger[p].open /\ l.broken = ledger[p].broken
    BY <1>2, <2>1 DEF Backends
  <2>3. ledger' = [ledger EXCEPT ![p] = l] /\ UNCHANGED <<qmark, writers, rows, faults>>
    BY <1>9, <2>0, <2>1 DEF ReadPastEnd
  <2>4. Fits(l, Len(rows))
    BY <1>2, <1>4, <2>0, <2>2 DEF Fits
  <2> QED
    BY <1>0, <1>2, <2>2, <2>3, <2>4, SqlStep
<1>10. CASE Reopen(p)
  <2>1. rows' \in Table /\ Len(rows') = Len(rows)
    BY <1>10, Ended DEF Reopen, RowStates
  <2>2. faults' \in 0..MaxFaults /\ UNCHANGED <<qmark, writers>> /\ ledger' = [ledger EXCEPT ![p] = Opened(rows')]
    BY <1>0, <1>10, FaultTyped DEF Reopen
  <2>3. Opened(rows') \in Backends /\ Fits(Opened(rows'), Len(rows')) /\ Opened(rows').pc = "idle"
    BY <2>1, OpenedFits
  <2> QED
    BY <2>1, <2>2, <2>3, SqlStep
<1> QED
  BY <1>5, <1>6, <1>7, <1>8, <1>9, <1>10

\* What the transaction of the only writer may do to table t, whose rows in O it holds.
Goes(t, O, u, O2) ==
    /\ \A i \in 1..Len(t) : u[i].leaf_index = t[i].leaf_index
    /\ \/ ThereIn(u) = ThereIn(t) /\ O2 = O
       \/ /\ ThereIn(u) = ThereIn(t) /\ O2 = O \cup {Len(t) + 1}
          /\ u[Len(t) + 1].leaf_index = Cardinality(ThereIn(t) \cup O)
       \/ ThereIn(u) = ThereIn(t) \cup O /\ O2 = {}
       \/ ThereIn(u) = ThereIn(t) /\ O2 = {}

\* It keeps the rows in their places, and the rows that were there come first.
LEMMA PlacedKept ==
  ASSUME NEW t \in Table, NEW u \in Table, NEW O, O \subseteq 1..Len(t), NEW O2,
         PlacedIn(t, O), Goes(t, O, u, O2)
  PROVE  PlacedIn(u, O2) /\ IsPrefix(SelectedOf(t), SelectedOf(u))
<1>1. PICK n, T : /\ n \in Nat /\ n = Len(t) /\ T = ThereIn(t) /\ T \in SUBSET (1..n) /\ O \in SUBSET (1..n)
  BY ThereInRows
<1>2. PICK S : S = T \cup O /\ S \in SUBSET (1..n)
  BY <1>1
<1>3. /\ \A i \in S : t[i].leaf_index = Place(S, i)
      /\ \A i \in T, j \in O : i < j
  BY <1>1, <1>2 DEF PlacedIn
<1>4. \A i \in S : u[i].leaf_index = t[i].leaf_index
  BY <1>1, <1>2 DEF Goes
<1>p. IsPrefix(Ascending(T), Ascending(T)) /\ IsPrefix(Ascending(T), Ascending(S))
  <2>1. PICK a \in Seq(Nat) : a = Ascending(T)
    BY <1>1, AscendingRises DEF Rising, Numbers
  <2>2. IsPrefix(Ascending(T), Ascending(T \cup O))
    BY <1>1, <1>3, AscendingPrefix
  <2>3. IsPrefix(a, a)
    BY <2>1 DEF IsPrefix
  <2> QED
    BY <1>2, <2>1, <2>2, <2>3
<1>5. CASE ThereIn(u) = T /\ O2 = O
  BY <1>1, <1>2, <1>3, <1>4, <1>5, <1>p DEF PlacedIn, SelectedOf
<1>6. CASE ThereIn(u) = T \cup O /\ O2 = {}
  BY <1>1, <1>2, <1>3, <1>4, <1>6, <1>p DEF PlacedIn, SelectedOf
<1>7. CASE ThereIn(u) = T /\ O2 = {}
  <2>1. ASSUME NEW i \in T PROVE Place(T, i) = Place(S, i)
    <3>1. {j \in T : j < i} = {j \in S : j < i}
      BY <1>1, <1>2, <1>3
    <3> QED
      BY <3>1 DEF Place
  <2> QED
    BY <1>1, <1>2, <1>3, <1>4, <1>7, <1>p, <2>1 DEF PlacedIn, SelectedOf
<1>8. CASE ThereIn(u) = T /\ O2 = O \cup {n + 1} /\ u[n + 1].leaf_index = Cardinality(S)
  <2>1. PICK S2 : S2 = S \cup {n + 1} /\ S2 = ThereIn(u) \cup O2
    BY <1>2, <1>8
  <2>2. ASSUME NEW i \in S PROVE Place(S2, i) = Place(S, i)
    <3>1. {j \in S2 : j < i} = {j \in S : j < i}
      BY <1>1, <1>2, <2>1
    <3> QED
      BY <3>1 DEF Place
  <2>3. Place(S2, n + 1) = Cardinality(S)
    <3>1. {j \in S2 : j < n + 1} = S
      BY <1>1, <1>2, <2>1
    <3> QED
      BY <3>1 DEF Place
  <2>4. \A i \in S2 : u[i].leaf_index = Place(S2, i)
    BY <1>3, <1>4, <1>8, <2>1, <2>2, <2>3
  <2>5. \A i \in T, j \in O2 : i < j
    BY <1>1, <1>3, <1>8
  <2> QED
    BY <1>1, <1>8, <1>p, <2>1, <2>4, <2>5 DEF PlacedIn, SelectedOf
<1> QED
  BY <1>1, <1>2, <1>5, <1>6, <1>7, <1>8 DEF Goes

\* The rows go on as the only writer w has it, and process p, it or another one, keeps l.
SoleGoes(w, p, l) ==
    /\ ledger' = [ledger EXCEPT ![p] = l] /\ l \in Backends /\ rows' \in Table
    /\ p = w => Goes(rows, ledger[w].open, rows', l.open) /\ Writes(l, rows')
    /\ p # w => rows' = rows /\ OnlyReads(l)
    /\ Follows(l, rows')

\* A step of one process keeps what the only writer knows of the table, its own or one of a reader.
LEMMA SoleStep ==
  ASSUME SqlTyped, NEW w \in Processes, Sole(w), NEW p \in Processes, NEW l, SoleGoes(w, p, l)
  PROVE  Sole(w)'
<1>0. /\ rows \in Table /\ rows' \in Table /\ ledger[w].open \subseteq 1..Len(rows)
      /\ ledger \in [Processes -> Backends]
  BY DEF SoleGoes, SqlTyped, Fits
<1>1. ledger'[p] = l /\ \A q \in Processes : q # p => ledger'[q] = ledger[q]
  BY <1>0 DEF SoleGoes
<1>2. PlacedIn(rows', ledger'[w].open) /\ IsPrefix(Selected, SelectedOf(rows'))
  <2>1. CASE p = w
    <3>1. PICK O, O2, u : O = ledger[w].open /\ O2 = l.open /\ u = rows'
      OBVIOUS
    <3>2. PlacedIn(rows, O) /\ Goes(rows, O, u, O2)
      BY <2>1, <3>1 DEF Sole, SoleGoes
    <3>3. PlacedIn(u, O2) /\ IsPrefix(SelectedOf(rows), SelectedOf(u))
      BY <1>0, <3>1, <3>2, PlacedKept
    <3> QED
      BY <1>1, <2>1, <3>1, <3>3 DEF Selected
  <2>2. CASE p # w
    <3>1. rows' = rows /\ ledger'[w] = ledger[w]
      BY <1>1, <2>2 DEF SoleGoes
    <3>2. PICK s \in Seq(Nat) : s = Selected
      BY <1>0, SelectedRises DEF Selected
    <3>3. IsPrefix(s, s)
      BY <3>2 DEF IsPrefix
    <3> QED
      BY <3>1, <3>2, <3>3 DEF Sole, Selected
  <2> QED
    BY <2>1, <2>2
<1>3. Writes(ledger'[w], rows')
  <2>1. CASE p = w
    BY <1>1, <2>1 DEF SoleGoes
  <2>2. CASE p # w
    <3>1. rows' = rows /\ ledger'[w] = ledger[w]
      BY <1>1, <2>2 DEF SoleGoes
    <3> QED
      BY <3>1 DEF Sole
  <2> QED
    BY <2>1, <2>2
<1>4. ASSUME NEW q \in Processes
      PROVE  Follows(ledger'[q], rows') /\ (q # w => OnlyReads(ledger'[q]))
  <2>1. CASE q = p
    BY <1>1, <2>1 DEF SoleGoes
  <2>2. CASE q # p
    <3>1. PICK s \in Seq(Nat), t \in Seq(Nat) : s = SelectedOf(rows) /\ t = SelectedOf(rows')
      BY <1>0, SelectedRises
    <3>2. IsPrefix(s, t)
      BY <1>2, <3>1 DEF Selected
    <3>3. PICK x \in Seq(Nat), y \in Seq(Nat) : x = ledger[q].idx /\ y = ledger[q].leaves
      BY <1>0 DEF Backends
    <3>4. (IsPrefix(x, s) => IsPrefix(x, t)) /\ (IsPrefix(y, s) => IsPrefix(y, t))
      BY <3>2, PrefixOfPrefix
    <3>5. Follows(ledger[q], rows) /\ (q # w => OnlyReads(ledger[q]))
      BY DEF Sole
    <3>6. Follows(ledger[q], rows')
      BY <3>1, <3>3, <3>4, <3>5 DEF Follows
    <3> QED
      BY <1>1, <2>2, <3>5, <3>6
  <2> QED
    BY <2>1, <2>2
<1> QED
  BY <1>2, <1>3, <1>4 DEF Sole

\* What a transaction of the only writer leaves when it ends.
LEMMA SoleEnded ==
  ASSUME SqlTyped, NEW w \in Processes, Sole(w), NEW p \in Processes, NEW state \in RowStates,
         NEW O2, state = "open" => O2 = ledger[p].open, state # "open" => O2 = {}
  PROVE  /\ p # w => EndedAs(p, state) = rows
         /\ p = w => Goes(rows, ledger[w].open, EndedAs(p, state), O2)
         /\ ThereIn(EndedAs(p, state)) = IF state = "there" THEN ThereIn(rows) \cup ledger[p].open ELSE ThereIn(rows)
<1>1. PICK u, O : u = EndedAs(p, state) /\ O = ledger[p].open
  OBVIOUS
<1>2. /\ \A i \in 1..Len(rows) : u[i].leaf_index = rows[i].leaf_index
      /\ ThereIn(u) = IF state = "there" THEN ThereIn(rows) \cup O ELSE ThereIn(rows) \ O
      /\ O = {} => u = rows
  BY <1>1, Ended
<1>3. ThereIn(rows) \ O = ThereIn(rows)
  <2>1. rows \in Table /\ O \subseteq 1..Len(rows) /\ Len(rows) \in Nat
    BY <1>1, ThereInRows DEF SqlTyped, Fits
  <2>2. \A i \in ThereIn(rows), j \in O : i < j /\ j \in Nat
    BY <1>1, <2>1 DEF Sole, PlacedIn, OnlyReads
  <2>3. \A j \in O : j \notin ThereIn(rows)
    BY <2>2
  <2> QED
    BY <2>3
<1>4. p # w => O = {}
  BY <1>1 DEF Sole, OnlyReads
<1>5. p = w => Goes(rows, O, u, O2)
  BY <1>1, <1>2, <1>3 DEF Goes
<1> QED
  BY <1>1, <1>2, <1>3, <1>4, <1>5

\* Every step keeps it: a process that only reads never gets ahead of the writer.
LEMMA SoleNext == SqlTyped /\ SoleInv /\ [SqlNext]_<<sqlVars, faults>> => SoleInv'
<1> SUFFICES ASSUME SqlTyped, SoleInv, [SqlNext]_<<sqlVars, faults>>, NEW w \in Processes, writers' = {w}
             PROVE  Sole(w)'
  BY DEF SoleInv
<1>0. /\ rows \in Table /\ ledger \in [Processes -> Backends] /\ Len(rows) \in Nat
      /\ SqlTyped' /\ rows' \in Table
  BY SqlTypedNext DEF SqlTyped, Table
<1>1. writers = {w} /\ Sole(w)
  <2>1. writers = {w}
    BY DEF SqlNext, BeginCommit, Insert, CommitRow, Raises, ReadPastEnd, Reopen, sqlVars
  <2> QED
    BY <2>1 DEF SoleInv
<1>a. CASE UNCHANGED <<sqlVars, faults>>
  BY <1>1, <1>a DEF Sole, sqlVars
<1> SUFFICES ASSUME NEW p \in Processes,
                    \/ BeginCommit(p) \/ Insert(p) \/ CommitRow(p) \/ Raises(p)
                    \/ ReadPastEnd(p) \/ Reopen(p)
             PROVE  Sole(w)'
  BY <1>a DEF SqlNext
<1>2. /\ ledger[p] \in Backends /\ (ledger[p].pc # "idle" => p = w /\ ~ledger[p].broken)
      /\ ledger[p].open \subseteq 1..Len(rows)
  BY <1>1 DEF SqlTyped, Fits
<1>3. /\ ledger[p].idx \in Seq(Nat) /\ ledger[p].leaves \in Seq(Nat) /\ ledger[p].open \in SUBSET Nat
      /\ ledger[p].leaf_index \in Nat /\ ledger[p].row \in Nat /\ ledger[p].broken \in BOOLEAN
      /\ ledger[p].left \in BOOLEAN /\ ledger[p].mixed \in BOOLEAN
      /\ ledger[p].pc \in {"idle", "insert", "commit"}
  BY <1>2 DEF Backends
<1>4. /\ PlacedIn(rows, ledger[w].open) /\ Writes(ledger[w], rows)
      /\ Follows(ledger[p], rows) /\ (p # w => OnlyReads(ledger[p]))
  BY <1>1 DEF Sole
<1>5. PICK n \in Nat : n = Len(rows)
  BY <1>0
<1>6. View(p) \in Seq(Nat) /\ Len(View(p)) = Cardinality(ThereIn(rows) \cup ledger[p].open)
      /\ Len(View(p)) \in Nat /\ (ledger[p].open = {} => View(p) = SelectedOf(rows))
  BY ViewRises DEF Selected
<1>7. \A s \in Seq(Nat) : IsPrefix(s, s)
  BY DEF IsPrefix
<1>8. SelectedOf(rows) \in Seq(Nat) /\ SelectedOf(rows') \in Seq(Nat)
  BY <1>0, SelectedRises
<1>9. CASE BeginCommit(p)
  <2>1. PICK k \in Nat : k = Len(View(p))
    BY <1>6
  <2>2. PICK l : l = [ledger[p] EXCEPT !.pc = "insert", !.leaf_index = k]
    OBVIOUS
  <2>3. l \in Backends /\ l.pc = "insert" /\ l.leaf_index = k /\ l.idx = ledger[p].idx
        /\ l.leaves = ledger[p].leaves /\ l.broken = ledger[p].broken /\ l.open = ledger[p].open
        /\ l.left = ledger[p].left /\ l.mixed = ledger[p].mixed
    BY <1>2, <2>2 DEF Backends
  <2>4. ledger' = [ledger EXCEPT ![p] = l] /\ rows' = rows /\ p = w /\ ledger[p].pc = "idle"
    BY <1>1, <1>9, <2>1, <2>2 DEF BeginCommit
  <2>5. Goes(rows, ledger[w].open, rows', l.open)
    BY <2>3, <2>4 DEF Goes
  <2>6. Writes(l, rows')
    BY <1>4, <1>6, <2>1, <2>3, <2>4 DEF Writes
  <2>7. Follows(l, rows')
    BY <1>4, <2>3, <2>4 DEF Follows
  <2>s. SoleGoes(w, p, l)
    BY <1>0, <2>3, <2>4, <2>5, <2>6, <2>7 DEF SoleGoes
  <2> QED
    BY <1>1, <2>s, SoleStep
<1>10. CASE Insert(p)
  <2>k. PICK k \in Nat : k = n + 1
    BY <1>3
  <2>o. PICK O : O = ledger[p].open \cup {k}
    OBVIOUS
  <2>1. k = n + 1 /\ O = ledger[p].open \cup {k} /\ O \in SUBSET Nat
    <3>1. ledger[p].open \in SUBSET Nat
      BY <1>2 DEF Backends
    <3> QED
      BY <2>k, <2>o, <3>1
  <2>2. PICK l : l = [ledger[p] EXCEPT !.pc = "commit", !.row = k, !.open = O]
    OBVIOUS
  <2>3. l \in Backends /\ l.pc = "commit" /\ l.row = k /\ l.idx = ledger[p].idx
        /\ l.leaves = ledger[p].leaves /\ l.broken = ledger[p].broken /\ l.open = O
        /\ l.left = ledger[p].left /\ l.mixed = ledger[p].mixed
    BY <1>2, <2>1, <2>2 DEF Backends
  <2>4. /\ ledger' = [ledger EXCEPT ![p] = l] /\ p = w /\ ledger[p].pc = "insert"
        /\ rows' = Append(rows, [state |-> "open", leaf_index |-> ledger[p].leaf_index])
    BY <1>1, <1>2, <1>5, <1>10, <2>1, <2>2 DEF Insert
  <2>5. /\ ThereIn(rows') = ThereIn(rows) /\ Len(rows') = k
        /\ rows'[k].leaf_index = ledger[p].leaf_index /\ \A i \in 1..n : rows'[i] = rows[i]
    BY <1>0, <1>3, <1>5, <2>1, <2>4, OpenRow
  <2>6. SelectedOf(rows') = SelectedOf(rows)
    BY <2>5 DEF SelectedOf
  <2>7. ledger[p].leaf_index = Cardinality(ThereIn(rows) \cup ledger[p].open)
    BY <1>4, <2>4 DEF Writes
  <2>8. Goes(rows, ledger[w].open, rows', l.open)
    BY <1>5, <2>1, <2>3, <2>4, <2>5, <2>7 DEF Goes
  <2>9. Writes(l, rows')
    BY <1>4, <2>1, <2>3, <2>4, <2>5, <2>6 DEF Writes
  <2>10. Follows(l, rows')
    BY <1>4, <2>3, <2>6 DEF Follows
  <2>s. SoleGoes(w, p, l)
    BY <1>0, <2>3, <2>4, <2>8, <2>9, <2>10 DEF SoleGoes
  <2> QED
    BY <1>1, <2>s, SoleStep
<1>11. CASE CommitRow(p)
  <2>0. PICK r : r = ledger[p].row
    OBVIOUS
  <2>1. ledger[p].pc = "commit" /\ p = w /\ r = n /\ r \in ledger[p].open /\ r \in Nat /\ ~ledger[p].broken
    BY <1>2, <1>3, <1>4, <1>5, <1>11, <2>0 DEF CommitRow, Writes
  <2>2. PICK ix \in Seq(Nat), lv \in Seq(Nat) : ix = Append(ledger[p].idx, r) /\ lv = Append(ledger[p].leaves, r)
    BY <1>3, <2>1, AppendProperties
  <2>3. PICK l : l = [ledger[p] EXCEPT !.pc = "idle", !.open = {}, !.idx = ix, !.leaves = lv]
    OBVIOUS
  <2>4. l \in Backends /\ l.pc = "idle" /\ l.idx = ix /\ l.leaves = lv /\ l.open = {}
        /\ l.left = ledger[p].left /\ l.mixed = ledger[p].mixed /\ l.broken = ledger[p].broken
    BY <1>2, <2>2, <2>3 DEF Backends
  <2>5. ledger' = [ledger EXCEPT ![p] = l] /\ rows' = EndedAs(p, "there")
    BY <1>0, <1>11, <2>0, <2>2, <2>3 DEF CommitRow
  <2>6. /\ Goes(rows, ledger[w].open, rows', l.open)
        /\ ThereIn(rows') = ThereIn(rows) \cup ledger[p].open
    BY <1>1, <2>1, <2>4, <2>5, SoleEnded DEF RowStates
  <2>7. ASSUME ~ledger[p].left PROVE SelectedOf(rows') = Append(SelectedOf(rows), r)
    <3>1. ledger[p].open = {r}
      BY <1>4, <2>0, <2>1, <2>7 DEF Writes
    <3>2. r - 1 \in Nat /\ r - 1 < r /\ ThereIn(rows) \in SUBSET (1..(r - 1))
      <4>1. \A i \in ThereIn(rows) : i < r /\ i \in 1..n
        BY <1>0, <1>4, <1>5, <2>1, ThereInRows DEF PlacedIn
      <4>2. r \in 1..n
        BY <1>2, <1>5, <2>1
      <4> QED
        BY <2>1, <4>1, <4>2
    <3>3. Ascending(ThereIn(rows) \cup {r}) = Append(Ascending(ThereIn(rows)), r)
      BY <2>1, <3>2, AscendingAppend
    <3> QED
      BY <2>6, <3>1, <3>3 DEF SelectedOf
  <2>8. ASSUME ~ledger[p].left
        PROVE  lv = SelectedOf(rows') /\ (~ledger[p].mixed => ix = SelectedOf(rows'))
    BY <1>4, <2>1, <2>2, <2>7, <2>8 DEF Writes
  <2>9. Writes(l, rows')
    BY <2>4, <2>8 DEF Writes
  <2>10. Follows(l, rows')
    BY <1>7, <1>8, <2>4, <2>8 DEF Follows
  <2>s. SoleGoes(w, p, l)
    BY <1>0, <2>1, <2>4, <2>5, <2>6, <2>9, <2>10 DEF SoleGoes
  <2> QED
    BY <1>1, <2>s, SoleStep
<1>12. CASE Raises(p)
  <2>b. PICK broken \in BOOLEAN, state \in RowStates :
          /\ rows' = EndedAs(p, state) /\ (state = "there" => broken)
          /\ ledger' = [ledger EXCEPT ![p].pc = "idle", ![p].broken = broken,
                          ![p].open = IF state = "open" THEN @ ELSE {},
                          ![p].left = @ \/ (state = "open" /\ ledger[p].pc = "commit")]
    BY <1>12, ZenonT(30) DEF Raises
  <2>1. PICK O, left :
          /\ O = IF state = "open" THEN ledger[p].open ELSE {}
          /\ left = (ledger[p].left \/ (state = "open" /\ ledger[p].pc = "commit"))
    OBVIOUS
  <2>a. O \in SUBSET Nat /\ left \in BOOLEAN
    <3>1. ledger[p].open \in SUBSET Nat /\ ledger[p].left \in BOOLEAN
      BY <1>2 DEF Backends
    <3> QED
      BY <2>1, <3>1
  <2>2. PICK l : l = [ledger[p] EXCEPT !.pc = "idle", !.broken = broken, !.open = O, !.left = left]
    OBVIOUS
  <2>3. l \in Backends /\ l.pc = "idle" /\ l.broken = broken /\ l.idx = ledger[p].idx
        /\ l.leaves = ledger[p].leaves /\ l.open = O /\ l.left = left /\ l.mixed = ledger[p].mixed
    BY <1>2, <1>3, <2>2, <2>a DEF Backends
  <2>4. ledger' = [ledger EXCEPT ![p] = l]
    <3>1. [ledger EXCEPT ![p].pc = "idle", ![p].broken = broken,
                          ![p].open = IF state = "open" THEN @ ELSE {},
                          ![p].left = @ \/ (state = "open" /\ ledger[p].pc = "commit")]
          = [ledger EXCEPT ![p] = l]
      BY <1>0, <2>1, <2>2
    <3> QED
      BY <2>b, <3>1
  <2>5. ~ledger[p].broken
    BY <1>12 DEF Raises
  <2>6. /\ p # w => rows' = rows
        /\ p = w => Goes(rows, ledger[w].open, rows', l.open)
        /\ ThereIn(rows') = IF state = "there" THEN ThereIn(rows) \cup ledger[p].open ELSE ThereIn(rows)
    BY <1>1, <2>b, <2>1, <2>3, SoleEnded
  <2>7. ASSUME ~left
        PROVE  /\ ~ledger[p].left /\ (p = w => O = {})
               /\ p = w /\ ~broken => l.leaves = SelectedOf(rows') /\ (~l.mixed => l.idx = SelectedOf(rows'))
    <3>1. ~ledger[p].left /\ ~(state = "open" /\ ledger[p].pc = "commit")
      BY <2>1, <2>7
    <3>2. p = w => O = {}
      BY <1>4, <2>1, <3>1 DEF Writes
    <3>3. ~broken => SelectedOf(rows') = SelectedOf(rows)
      BY <2>b, <2>6 DEF SelectedOf
    <3> QED
      BY <1>4, <2>3, <2>5, <3>1, <3>2, <3>3 DEF Writes
  <2>8. p = w => Writes(l, rows')
    BY <2>3, <2>7 DEF Writes
  <2>9. p # w => OnlyReads(l)
    <3>1. p # w => ~ledger[p].left /\ ~ledger[p].mixed /\ ledger[p].open = {} /\ ledger[p].pc = "idle"
      BY <1>2, <1>4 DEF OnlyReads
    <3>2. p # w => O = {} /\ ~left
      BY <2>1, <3>1
    <3> QED
      BY <2>3, <3>1, <3>2 DEF OnlyReads
  <2>10. IsPrefix(SelectedOf(rows), SelectedOf(rows'))
    <3>1. CASE p = w
      <4>1. PICK u, N, M : u = rows' /\ N = ledger[w].open /\ M = l.open
        OBVIOUS
      <4> QED
        BY <1>0, <1>2, <1>4, <2>6, <3>1, <4>1, PlacedKept
    <3>2. CASE p # w
      BY <1>7, <1>8, <2>6, <3>2
    <3> QED
      BY <3>1, <3>2
  <2>11. Follows(l, rows')
    <3>1. PICK s \in Seq(Nat), t \in Seq(Nat) : s = SelectedOf(rows) /\ t = SelectedOf(rows') /\ IsPrefix(s, t)
      BY <1>8, <2>10
    <3>2. PICK x \in Seq(Nat), y \in Seq(Nat) : x = ledger[p].idx /\ y = ledger[p].leaves
      BY <1>3
    <3>3. (IsPrefix(x, s) => IsPrefix(x, t)) /\ (IsPrefix(y, s) => IsPrefix(y, t))
      BY <3>1, PrefixOfPrefix
    <3> QED
      BY <1>4, <2>3, <2>7, <3>1, <3>2, <3>3 DEF Follows
  <2>s. SoleGoes(w, p, l)
    BY <1>0, <2>3, <2>4, <2>6, <2>8, <2>9, <2>11 DEF SoleGoes
  <2> QED
    BY <1>1, <2>s, SoleStep
<1>13. CASE ReadPastEnd(p)
  <2>0. PICK ix \in Seq(Nat), mixed \in BOOLEAN :
          ix = View(p) /\ mixed = (ledger[p].mixed \/ ledger[p].pc = "commit")
    BY <1>3, <1>6
  <2>1. PICK l : l = [ledger[p] EXCEPT !.idx = ix, !.mixed = mixed]
    OBVIOUS
  <2>2. l \in Backends /\ l.pc = ledger[p].pc /\ l.row = ledger[p].row /\ l.idx = ix
        /\ l.leaves = ledger[p].leaves /\ l.open = ledger[p].open /\ l.broken = ledger[p].broken
        /\ l.leaf_index = ledger[p].leaf_index /\ l.left = ledger[p].left /\ l.mixed = mixed
    BY <1>2, <2>1 DEF Backends
  <2>3. ledger' = [ledger EXCEPT ![p] = l] /\ rows' = rows
    BY <1>13, <2>0, <2>1 DEF ReadPastEnd
  <2>4. ASSUME ~l.left, ~l.mixed PROVE ix = SelectedOf(rows') /\ ~ledger[p].mixed
    <3>1. ledger[p].pc # "commit" /\ ~ledger[p].mixed /\ ~ledger[p].left
      BY <2>0, <2>2, <2>4
    <3>2. ledger[p].open = {}
      BY <1>4, <3>1 DEF Writes, OnlyReads
    <3> QED
      BY <1>6, <2>0, <2>3, <3>1, <3>2
  <2>5. p = w => Goes(rows, ledger[w].open, rows', l.open)
    BY <2>2, <2>3 DEF Goes
  <2>6. p = w => Writes(l, rows')
    BY <1>4, <2>2, <2>3, <2>4 DEF Writes
  <2>7. p # w => OnlyReads(l)
    BY <1>2, <1>4, <2>0, <2>2 DEF OnlyReads
  <2>8. Follows(l, rows')
    BY <1>4, <1>7, <1>8, <2>2, <2>3, <2>4 DEF Follows
  <2>s. SoleGoes(w, p, l)
    BY <1>0, <2>2, <2>3, <2>5, <2>6, <2>7, <2>8 DEF SoleGoes
  <2> QED
    BY <1>1, <2>s, SoleStep
<1>14. CASE Reopen(p)
  <2>1. PICK l : l = Opened(rows')
    OBVIOUS
  <2>2. /\ l \in Backends /\ l.pc = "idle" /\ l.idx = SelectedOf(rows') /\ l.leaves = SelectedOf(rows')
        /\ l.open = {} /\ l.left = FALSE /\ l.mixed = FALSE
    BY <1>0, <2>1, OpenedFits
  <2>3. ledger' = [ledger EXCEPT ![p] = l]
    BY <1>14, <2>1 DEF Reopen
  <2>4. PICK state \in {"gone", "there"} : rows' = EndedAs(p, state)
    BY <1>14 DEF Reopen
  <2>5. (p # w => rows' = rows) /\ (p = w => Goes(rows, ledger[w].open, rows', l.open))
    <3>1. state \in RowStates /\ state # "open"
      BY <2>4 DEF RowStates
    <3> QED
      BY <1>1, <2>2, <2>4, <3>1, SoleEnded
  <2>6. Writes(l, rows') /\ OnlyReads(l)
    BY <2>2 DEF Writes, OnlyReads
  <2>7. Follows(l, rows')
    BY <1>7, <1>8, <2>2 DEF Follows
  <2>s. SoleGoes(w, p, l)
    BY <1>0, <2>2, <2>3, <2>5, <2>6, <2>7 DEF SoleGoes
  <2> QED
    BY <1>1, <2>s, SoleStep
<1> QED
  BY <1>9, <1>10, <1>11, <1>12, <1>13, <1>14

(***************************************************************************)
(* Witness: the table, its writers and its readers are those of SqlLedger.  *)
(***************************************************************************)
CallerStates(heads) == [asked : heads \cup {Null}, known : heads \cup {Null}, waits : BOOLEAN, refused : BOOLEAN]

IsRequest(r, heads) ==
    /\ r = [by |-> r.by, head |-> r.head, pc |-> r.pc, proof |-> r.proof]
    /\ r.by \in writers \cup {Null} /\ r.head \in heads /\ r.pc \in {"check", "sign"}

ServiceTyped ==
    /\ anchor \subseteq Rising(MaxRows) \ {<<>>}
    /\ last \in anchor \cup {Null}
    /\ endorsed \subseteq anchor
    /\ late \in BOOLEAN
    /\ \A r \in requests : IsRequest(r, anchor)
    /\ \A q, r \in requests : q.by = r.by /\ r.by # Null => q = r
    /\ callers \in [Processes -> CallerStates(anchor)]
    /\ \A p \in Processes : callers[p].waits = \E r \in requests : r.by = p

\* The witness and the anchor do not touch the table: their steps keep both.
LEMMA WitnessSqlNext == SqlTyped /\ SoleInv /\ [Next]_vars => SqlTyped' /\ SoleInv'
<1> SUFFICES ASSUME SqlTyped, SoleInv, [Next]_vars PROVE SqlTyped' /\ SoleInv'
  OBVIOUS
<1>1. CASE [SqlNext]_<<sqlVars, faults>>
  BY <1>1, SqlTypedNext, SoleNext
<1>2. CASE UNCHANGED sqlVars /\ faults' \in 0..MaxFaults
  BY <1>2 DEF SqlTyped, SoleInv, Sole, Selected, Inserting, sqlVars
<1>3. faults \in 0..MaxFaults
  BY DEF SqlTyped
<1>4. CASE UNCHANGED vars
  BY <1>1, <1>4 DEF vars
<1>5. ASSUME NEW p \in Processes, Ask(p) PROVE UNCHANGED sqlVars /\ faults' \in 0..MaxFaults
  BY <1>3, <1>5 DEF Ask
<1>6. ASSUME NEW r, NEW accepted, Answered(r, accepted) PROVE faults' \in 0..MaxFaults
  BY <1>3, <1>6, FaultTyped DEF Answered
<1>7. ASSUME NEW r \in requests, Check(r) \/ Endorse(r) \/ GiveUp(r)
      PROVE  UNCHANGED sqlVars /\ faults' \in 0..MaxFaults
  <2>1. CASE Check(r)
    <3>1. UNCHANGED sqlVars /\ (UNCHANGED faults \/ Answered(r, FALSE))
      BY <2>1 DEF Check
    <3> QED
      BY <1>3, <1>6, <3>1
  <2>2. CASE Endorse(r)
    BY <1>6, <2>2 DEF Endorse
  <2>3. CASE GiveUp(r)
    BY <2>3, FaultTyped DEF GiveUp
  <2> QED
    BY <1>7, <2>1, <2>2, <2>3
<1>8. CASE RestartService
  BY <1>2, <1>8, FaultTyped DEF RestartService
<1> QED
  BY <1>1, <1>2, <1>4, <1>5, <1>7, <1>8 DEF Next, Service

\* ledger.py:157-173: for any number of processes, rows and faults and on sqlite as on
\* PostgreSQL, with one writer every row there is has its position as its leaf index.  A
\* process in which no commit has raised and left its row in the connection's open
\* transaction has a tree of the table's first rows; and if it has not loaded its list in
\* the middle of a commit of its own, it finds at a position the row the table has there.
THEOREM ReadsFollowKept == Spec => []ReadsFollow
<1>1. Init => SqlTyped /\ SoleInv
  BY SqlTypedInit DEF Init
<1>2. SqlTyped /\ SoleInv => ReadsFollow
  <2> SUFFICES ASSUME SqlTyped, SoleInv, Cardinality(writers) = 1
               PROVE  ReadsFollow
    BY DEF ReadsFollow
  <2>1. IsFiniteSet(writers)
    BY SqlAssumption, FS_Subset DEF SqlTyped
  <2>2. PICK w : writers = {w}
    BY <2>1, FS_Singleton
  <2>3. w \in Processes /\ Sole(w)
    BY <2>2 DEF SoleInv, SqlTyped
  <2>4. PICK N \in Nat : N = Len(rows) /\ ThereIn(rows) \in SUBSET (1..N)
    BY ThereInRows DEF SqlTyped, Table
  <2>5. PICK S, O : S = ThereIn(rows) /\ O = ledger[w].open
    OBVIOUS
  <2>6. S \in SUBSET (1..N) /\ O \subseteq 1..N
    BY <2>3, <2>4, <2>5 DEF SqlTyped, Fits
  <2>7. ASSUME NEW n \in DOMAIN Selected PROVE rows[Selected[n]].leaf_index = n - 1
    <3>1. Selected = Ascending(S) /\ n \in 1..Len(Ascending(S))
      <4>1. Selected = Ascending(S) /\ Ascending(S) \in Seq(Nat)
        BY <2>4, <2>5, <2>6, AscendingRises DEF Selected, SelectedOf, Rising, Numbers
      <4> QED
        BY <4>1
    <3>2. PICK i \in S : i = Selected[n] /\ Place(S, i) = n - 1
      BY <2>4, <2>6, <3>1, AscendingPlace
    <3>3. /\ rows[i].leaf_index = Place(S \cup O, i)
          /\ \A j \in O : i < j
      BY <2>3, <2>5 DEF Sole, PlacedIn
    <3>4. {j \in S \cup O : j < i} = {j \in S : j < i}
      <4>1. i \in Nat /\ \A j \in O : j \in Nat
        BY <2>6
      <4> QED
        BY <3>3, <4>1
    <3> QED
      BY <3>2, <3>3, <3>4 DEF Place
  <2> QED
    BY <2>3, <2>7 DEF ReadsFollow, Sole, Follows, Selected
<1> QED
  BY <1>1, <1>2, WitnessSqlNext, PTL DEF Spec

(***************************************************************************)
(* Heads.                                                                  *)
(***************************************************************************)
LEMMA CheckpointFields ==
  ASSUME NEW key, NEW ls, NEW cp, cp = SignCheckpoint(key, ls)
  PROVE  /\ cp.origin = Origin /\ cp.tree_size = Len(ls) /\ cp.root_hash = TreeHash(ls)
         /\ cp.key_id = KeyId(key) /\ cp.signature = Sign(key, SigningBytes(cp))
<1>1. PICK n, root, id, sig : /\ n = Len(ls) /\ root = TreeHash(ls) /\ id = KeyId(key)
                              /\ sig = Sign(key, [origin |-> Origin, tree_size |-> n, root_hash |-> root])
  OBVIOUS
<1>2. cp = [origin |-> Origin, tree_size |-> n, root_hash |-> root, key_id |-> id, signature |-> sig]
  BY <1>1 DEF SignCheckpoint
<1>3. SigningBytes(cp) = [origin |-> Origin, tree_size |-> n, root_hash |-> root]
  BY <1>2 DEF SigningBytes
<1> QED
  BY <1>1, <1>2, <1>3

\* The leaves of a head, a prefix of whose rows gives a prefix of the leaves.
LEMMA LeavesOfHead ==
  ASSUME NEW h \in Seq(Nat)
  PROVE  /\ Leaves(h) = LeafHashes(h) /\ Leaves(h) \in Seq({LeafHash(d) : d \in Nat})
         /\ Len(Leaves(h)) = Len(h)
         /\ \A n \in 0..Len(h) : SubSeq(h, 1, n) \in Seq(Nat) /\ Leaves(SubSeq(h, 1, n)) = SubSeq(Leaves(h), 1, n)
<1>1. Leaves(h) = LeafHashes(h)
  BY DEF Leaves, LeafHashes
<1>2. /\ Leaves(h) \in Seq({LeafHash(d) : d \in Nat}) /\ Len(Leaves(h)) = Len(h)
      /\ \A i \in 1..Len(h) : Leaves(h)[i] = LeafHash(h[i])
  BY <1>1, LeafHashesType
<1>3. ASSUME NEW n \in 0..Len(h)
      PROVE  SubSeq(h, 1, n) \in Seq(Nat) /\ Leaves(SubSeq(h, 1, n)) = SubSeq(Leaves(h), 1, n)
  <2>1. PICK p : p = SubSeq(h, 1, n)
    OBVIOUS
  <2>2. p \in Seq(Nat) /\ Len(p) = n /\ DOMAIN p = 1..n /\ \A i \in 1..n : p[i] = h[i]
    BY <2>1
  <2>3. PICK q : q = SubSeq(Leaves(h), 1, n)
    OBVIOUS
  <2>4. Leaves(p) = [i \in 1..n |-> LeafHash(p[i])]
    BY <2>2 DEF Leaves
  <2>5. q = [i \in 1..n |-> Leaves(h)[i]]
    BY <1>2, <2>3
  <2>6. \A i \in 1..n : Leaves(h)[i] = LeafHash(p[i])
    BY <1>2, <2>2
  <2> QED
    BY <2>1, <2>2, <2>3, <2>4, <2>5, <2>6
<1> QED
  BY <1>1, <1>2, <1>3

\* Two heads of one root are one head.
LEMMA HeadBinds ==
  ASSUME NEW a \in Seq(Nat), NEW b \in Seq(Nat), TreeHash(Leaves(a)) = TreeHash(Leaves(b))
  PROVE  a = b
BY LeavesOfHead, RootCommits

\* The proof of a log between two of its sizes.
LEMMA ProofOfHead ==
  ASSUME NEW h \in Seq(Nat), NEW m \in 1..Len(h)
  PROVE  /\ \E C : ProofOf(h, m, Len(h)) \in Seq(C)
         /\ VerifyConsistency(m, Len(h), TreeHash(Leaves(SubSeq(h, 1, m))), TreeHash(Leaves(h)), ProofOf(h, m, Len(h)))
         /\ \A first : VerifyConsistency(m, Len(h), first, TreeHash(Leaves(h)), ProofOf(h, m, Len(h)))
                          => first = TreeHash(Leaves(SubSeq(h, 1, m)))
<1>0. PICK S : S = {LeafHash(d) : d \in Nat}
  OBVIOUS
<1>1. PICK ls \in Seq(S) : ls = Leaves(h) /\ Len(ls) = Len(h) /\ SubSeq(ls, 1, Len(h)) = ls
                           /\ Leaves(SubSeq(h, 1, m)) = SubSeq(ls, 1, m)
  <2>1. Len(h) \in Nat /\ m \in 0..Len(h)
    OBVIOUS
  <2>2. Leaves(h) \in Seq(S) /\ Len(Leaves(h)) = Len(h)
    BY <1>0, LeavesOfHead
  <2>3. SubSeq(Leaves(h), 1, Len(h)) = Leaves(h)
    BY <2>2, SubSeqFull
  <2>4. Leaves(SubSeq(h, 1, m)) = SubSeq(Leaves(h), 1, m)
    BY <2>1, LeavesOfHead
  <2> QED
    BY <2>2, <2>3, <2>4
<1>2. ProofOf(h, m, Len(h)) = ConsistencyProof(ls, m)
  BY <1>1, Zenon DEF ProofOf
<1>3. m \in Nat \ {0} /\ m <= Len(ls) /\ 0 < m
  BY <1>1
<1>4. VerifyConsistency(m, Len(ls), TreeHash(SubSeq(ls, 1, m)), TreeHash(ls), ConsistencyProof(ls, m))
  BY <1>3, ConsistencyComplete
<1>5. PICK C : ConsistencyProof(ls, m) \in Seq(C)
  BY <1>3, ConsistencyComplete
<1>6. \A first : VerifyConsistency(m, Len(ls), first, TreeHash(ls), ConsistencyProof(ls, m))
                          => first = TreeHash(SubSeq(ls, 1, m))
  BY <1>3, <1>5, ConsistencySound
<1> QED
  BY <1>1, <1>2, <1>4, <1>5, <1>6

(***************************************************************************)
(* What the anchor shows.                                                  *)
(***************************************************************************)
LEMMA PrefixIsSubSeq ==
  ASSUME NEW a \in Seq(Nat), NEW b \in Seq(Nat)
  PROVE  /\ IsPrefix(a, b) <=> Len(a) <= Len(b) /\ a = SubSeq(b, 1, Len(a))
         /\ IsPrefix(a, b) /\ Len(a) = Len(b) => a = b
<1>1. SubSeq(a, 1, Len(a)) = a /\ SubSeq(b, 1, Len(b)) = b
  BY SubSeqFull
<1> QED
  BY <1>1 DEF IsPrefix

\* Heads of the anchor are told apart by what is checked of their checkpoints.
LEMMA ForksFound ==
  ASSUME NEW heads \in SUBSET (Seq(Nat) \ {<<>>}),
         NEW proofs, NEW oneOf,
         \A n \in {Len(h) : h \in heads} : oneOf[n] \in heads /\ Len(oneOf[n]) = n,
         DOMAIN proofs = {Len(h) : h \in heads} \X {Len(h) : h \in heads},
         \A m, n \in {Len(h) : h \in heads} : proofs[<<m, n>>] = ProofOf(oneOf[n], m, n)
  PROVE  (\E a, b \in heads :
            \/ Len(a) = Len(b) /\ TreeHash(Leaves(a)) # TreeHash(Leaves(b))
            \/ /\ Len(a) < Len(b)
               /\ ~VerifyConsistency(Len(a), Len(b), TreeHash(Leaves(a)), TreeHash(Leaves(b)),
                                     proofs[<<Len(a), Len(b)>>]))
         <=> ~OnOneHistory(heads)
<1>0. \A h \in heads : h \in Seq(Nat) /\ Len(h) \in Nat \ {0}
  OBVIOUS
<1>1. ASSUME OnOneHistory(heads), NEW a \in heads, NEW b \in heads
      PROVE  /\ Len(a) = Len(b) => TreeHash(Leaves(a)) = TreeHash(Leaves(b))
             /\ Len(a) < Len(b) => VerifyConsistency(Len(a), Len(b), TreeHash(Leaves(a)), TreeHash(Leaves(b)),
                                     proofs[<<Len(a), Len(b)>>])
  <2>1. \A g, h \in heads : Len(g) = Len(h) => g = h
    BY <1>0, <1>1, PrefixIsSubSeq DEF OnOneHistory
  <2>2. ASSUME Len(a) < Len(b) PROVE a = SubSeq(b, 1, Len(a)) /\ Len(a) \in 1..Len(b)
    <3>1. IsPrefix(a, b) \/ IsPrefix(b, a)
      BY <1>1 DEF OnOneHistory
    <3> QED
      BY <1>0, <2>2, <3>1, PrefixIsSubSeq
  <2>3. ASSUME Len(a) < Len(b) PROVE proofs[<<Len(a), Len(b)>>] = ProofOf(b, Len(a), Len(b))
    <3>1. oneOf[Len(b)] = b
      BY <2>1
    <3> QED
      BY <3>1
  <2>4. ASSUME Len(a) < Len(b)
        PROVE  VerifyConsistency(Len(a), Len(b), TreeHash(Leaves(a)), TreeHash(Leaves(b)),
                                 proofs[<<Len(a), Len(b)>>])
    <3>1. VerifyConsistency(Len(a), Len(b), TreeHash(Leaves(SubSeq(b, 1, Len(a)))), TreeHash(Leaves(b)),
                            ProofOf(b, Len(a), Len(b)))
      BY <1>0, <2>2, <2>4, ProofOfHead
    <3>2. Leaves(SubSeq(b, 1, Len(a))) = Leaves(a)
      <4>1. SubSeq(b, 1, Len(a)) = a
        BY <2>2, <2>4
      <4> QED
        BY <4>1
    <3>3. proofs[<<Len(a), Len(b)>>] = ProofOf(b, Len(a), Len(b))
      BY <2>3, <2>4
    <3> QED
      BY ONLY <3>1, <3>2, <3>3, Zenon
  <2>5. Len(a) = Len(b) => TreeHash(Leaves(a)) = TreeHash(Leaves(b))
    BY <2>1
  <2> QED
    BY <2>4, <2>5
<1>2. ASSUME NEW a \in heads, NEW b \in heads, ~IsPrefix(a, b), Len(a) <= Len(b)
      PROVE  \E g, h \in heads :
                \/ Len(g) = Len(h) /\ TreeHash(Leaves(g)) # TreeHash(Leaves(h))
                \/ /\ Len(g) < Len(h)
                   /\ ~VerifyConsistency(Len(g), Len(h), TreeHash(Leaves(g)), TreeHash(Leaves(h)),
                                         proofs[<<Len(g), Len(h)>>])
  <2>1. CASE Len(a) = Len(b)
    <3>1. a # b
      BY <1>0, <1>2, <2>1, PrefixIsSubSeq
    <3>2. TreeHash(Leaves(a)) # TreeHash(Leaves(b))
      BY <1>0, <3>1, HeadBinds
    <3> QED
      BY <2>1, <3>2
  <2>2. CASE Len(a) < Len(b)
    <3>1. PICK o \in heads : o = oneOf[Len(b)] /\ Len(o) = Len(b)
      OBVIOUS
    <3>2. CASE o # b
      <4>1. TreeHash(Leaves(o)) # TreeHash(Leaves(b))
        BY <1>0, <3>2, HeadBinds
      <4> QED
        BY <3>1, <4>1
    <3>3. CASE o = b
      <4>1. proofs[<<Len(a), Len(b)>>] = ProofOf(b, Len(a), Len(b))
        BY <3>1, <3>3
      <4>2. Len(a) \in 1..Len(b)
        BY <1>0, <2>2
      <4>3. ASSUME VerifyConsistency(Len(a), Len(b), TreeHash(Leaves(a)), TreeHash(Leaves(b)), ProofOf(b, Len(a), Len(b)))
            PROVE  FALSE
        <5>1. TreeHash(Leaves(a)) = TreeHash(Leaves(SubSeq(b, 1, Len(a))))
          BY <1>0, <4>2, <4>3, ProofOfHead
        <5>2. SubSeq(b, 1, Len(a)) \in Seq(Nat)
          BY <1>0, <4>2
        <5>3. a = SubSeq(b, 1, Len(a))
          BY <1>0, <5>1, <5>2, HeadBinds
        <5> QED
          BY <1>0, <1>2, <5>3, PrefixIsSubSeq
      <4> QED
        BY <2>2, <4>1, <4>3
    <3> QED
      BY <3>2, <3>3
  <2>3. Len(a) = Len(b) \/ Len(a) < Len(b)
    BY <1>0, <1>2
  <2> QED
    BY <2>1, <2>2, <2>3
<1>3. ASSUME ~OnOneHistory(heads)
      PROVE  \E a, b \in heads : ~IsPrefix(a, b) /\ Len(a) <= Len(b)
  <2>1. PICK a \in heads, b \in heads : ~IsPrefix(a, b) /\ ~IsPrefix(b, a)
    BY <1>3 DEF OnOneHistory
  <2> QED
    BY <1>0, <2>1
<1> QED
  BY <1>1, <1>2, <1>3

\* What is read off a checkpoint.
LEMMA HeadsCheckpoint ==
  ASSUME NEW h \in Seq(Nat)
  PROVE  LET cp == CheckpointOf(h)
         IN  /\ VerifyCheckpoint(cp, Key)
             /\ cp.tree_size = Len(h) /\ cp.root_hash = TreeHash(Leaves(h))
<1>1. PICK cp : cp = CheckpointOf(h)
  OBVIOUS
<1>2. cp = SignCheckpoint(Key, Leaves(h))
  BY <1>1 DEF CheckpointOf
<1>3. PICK ls : ls = Leaves(h) /\ Len(ls) = Len(h)
  BY LeavesOfHead
<1>4. /\ cp.tree_size = Len(h) /\ cp.root_hash = TreeHash(Leaves(h))
      /\ cp.key_id = KeyId(Key) /\ cp.signature = Sign(Key, SigningBytes(cp))
  BY <1>2, <1>3, CheckpointFields
<1>5. VerifyCheckpoint(cp, Key)
  BY <1>4 DEF VerifyCheckpoint, Verified
<1> QED
  BY <1>1, <1>4, <1>5

\* A checkpoint that a stranger has signed does not verify under the log's key.
LEMMA StrangerFails ==
  ASSUME NEW ls PROVE ~VerifyCheckpoint(SignCheckpoint(StrangerKey, ls), Key)
<1>1. PICK cp : cp = SignCheckpoint(StrangerKey, ls)
  OBVIOUS
<1>2. cp.key_id = KeyId(StrangerKey)
  BY <1>1, CheckpointFields
<1>3. KeyId(StrangerKey) # KeyId(Key)
  BY WitnessAssumption DEF KeyId
<1> QED
  BY <1>1, <1>2, <1>3 DEF VerifyCheckpoint

\* detect_equivocation over the heads of an anchor, the foreign one it passes over and the
\* proofs of the producer finds something exactly if two of the heads are of no one history.
LEMMA DetectFinds ==
  ASSUME NEW heads \in SUBSET (Seq(Nat) \ {<<>>}),
         NEW proofs, NEW oneOf, NEW cps, NEW ls,
         cps = {CheckpointOf(h) : h \in heads} \cup {SignCheckpoint(StrangerKey, ls)},
         \A n \in {Len(h) : h \in heads} : oneOf[n] \in heads /\ Len(oneOf[n]) = n,
         DOMAIN proofs = {Len(h) : h \in heads} \X {Len(h) : h \in heads},
         \A m, n \in {Len(h) : h \in heads} : proofs[<<m, n>>] = ProofOf(oneOf[n], m, n)
  PROVE  DetectEquivocation(cps, Key, proofs) <=> ~OnOneHistory(heads)
<1>0. \A h \in heads : h \in Seq(Nat)
  OBVIOUS
<1>1. PICK valid : valid = {cp \in cps : VerifyCheckpoint(cp, Key)}
  OBVIOUS
<1>2. valid = {CheckpointOf(h) : h \in heads}
  BY <1>0, <1>1, HeadsCheckpoint, StrangerFails
<1>3. \A h \in heads : CheckpointOf(h).tree_size = Len(h) /\ CheckpointOf(h).root_hash = TreeHash(Leaves(h))
  BY <1>0, HeadsCheckpoint
<1>4. \A a, b \in heads : <<Len(a), Len(b)>> \in DOMAIN proofs
  OBVIOUS
<1> DEFINE Shows(a, b) ==
              \/ a.tree_size = b.tree_size /\ a.root_hash # b.root_hash
              \/ /\ a.tree_size < b.tree_size /\ <<a.tree_size, b.tree_size>> \in DOMAIN proofs
                 /\ ~VerifyConsistency(a.tree_size, b.tree_size, a.root_hash, b.root_hash,
                                       proofs[<<a.tree_size, b.tree_size>>])
           Told(a, b) ==
              \/ Len(a) = Len(b) /\ TreeHash(Leaves(a)) # TreeHash(Leaves(b))
              \/ /\ Len(a) < Len(b)
                 /\ ~VerifyConsistency(Len(a), Len(b), TreeHash(Leaves(a)), TreeHash(Leaves(b)),
                                       proofs[<<Len(a), Len(b)>>])
<1>5. DetectEquivocation(cps, Key, proofs) <=> \E a, b \in valid : Shows(a, b)
  BY <1>1, Zenon DEF DetectEquivocation
<1>6. \A a, b \in heads : Shows(CheckpointOf(a), CheckpointOf(b)) <=> Told(a, b)
  BY <1>3, <1>4
<1>7. (\E a, b \in heads : Told(a, b)) <=> ~OnOneHistory(heads)
  BY ForksFound
<1> HIDE DEF Shows, Told
<1>8. \A x : x \in valid <=> \E h \in heads : x = CheckpointOf(h)
  BY <1>2
<1>9. ASSUME NEW a \in valid, NEW b \in valid, Shows(a, b) PROVE \E g, h \in heads : Told(g, h)
  <2>1. PICK g \in heads, h \in heads : a = CheckpointOf(g) /\ b = CheckpointOf(h)
    BY <1>8
  <2> QED
    BY <1>6, <1>9, <2>1
<1>10. ASSUME NEW g \in heads, NEW h \in heads, Told(g, h) PROVE \E a, b \in valid : Shows(a, b)
  BY <1>6, <1>8, <1>10
<1> QED
  BY ONLY <1>5, <1>7, <1>9, <1>10

\* A cosignature is for one head.
LEMMA CosignatureBinds ==
  ASSUME NEW e \in Seq(Nat), NEW h \in Seq(Nat)
  PROVE  VerifyCosignature(CheckpointOf(h), Cosignature(CheckpointOf(e), WitnessKey), WitnessKey) <=> h = e
<1>1. PICK ce, ch : ce = CheckpointOf(e) /\ ch = CheckpointOf(h)
  OBVIOUS
<1>2. PICK cosig : cosig = Cosignature(ce, WitnessKey)
  OBVIOUS
<1>3. /\ cosig.witness_key_id = KeyId(WitnessKey) /\ cosig.tree_size = ce.tree_size
      /\ cosig.root_hash = ce.root_hash /\ cosig.signature = Sign(WitnessKey, SigningBytes(ce))
  BY <1>2 DEF Cosignature
<1>4. ce.root_hash = TreeHash(Leaves(e)) /\ ch.root_hash = TreeHash(Leaves(h))
  BY <1>1, HeadsCheckpoint
<1>5. ASSUME h = e PROVE VerifyCosignature(ch, cosig, WitnessKey)
  BY <1>1, <1>3, <1>5 DEF VerifyCosignature, Verified
<1>6. ASSUME VerifyCosignature(ch, cosig, WitnessKey) PROVE h = e
  <2>1. TreeHash(Leaves(h)) = TreeHash(Leaves(e))
    BY <1>3, <1>4, <1>6 DEF VerifyCosignature
  <2> QED
    BY <2>1, HeadBinds
<1> QED
  BY <1>1, <1>2, <1>5, <1>6

\* So the forks show in every anchor of heads of the log.
LEMMA AnchorShows ==
  ASSUME anchor \subseteq Seq(Nat) \ {<<>>}, endorsed \subseteq anchor
  PROVE  ForksShow
<1> DEFINE cpOf == [h \in anchor |-> CheckpointOf(h)]
           cps == {cpOf[h] : h \in anchor} \cup {SignCheckpoint(StrangerKey, <<LeafHash(0)>>)}
           oneOf == [n \in {Len(h) : h \in anchor} |-> CHOOSE h \in anchor : Len(h) = n]
           proofs == [pair \in (DOMAIN oneOf) \X (DOMAIN oneOf) |-> ProofOf(oneOf[pair[2]], pair[1], pair[2])]
<1>1. \A h \in anchor : cpOf[h] = CheckpointOf(h)
  OBVIOUS
<1>4. /\ DOMAIN proofs = (DOMAIN oneOf) \X (DOMAIN oneOf)
      /\ \A m, n \in DOMAIN oneOf : proofs[<<m, n>>] = ProofOf(oneOf[n], m, n)
  OBVIOUS
<1>5. cps = {CheckpointOf(h) : h \in anchor} \cup {SignCheckpoint(StrangerKey, <<LeafHash(0)>>)}
  BY <1>1
<1>6. \A n \in {Len(h) : h \in anchor} : oneOf[n] \in anchor /\ Len(oneOf[n]) = n
  OBVIOUS
<1>7. DOMAIN oneOf = {Len(h) : h \in anchor}
  OBVIOUS
<1> HIDE DEF proofs, oneOf, cps
<1>8. /\ DOMAIN proofs = {Len(h) : h \in anchor} \X {Len(h) : h \in anchor}
      /\ \A m, n \in {Len(h) : h \in anchor} : proofs[<<m, n>>] = ProofOf(oneOf[n], m, n)
  BY <1>4, <1>7
<1>9. DetectEquivocation(cps, Key, proofs) <=> ~OnOneHistory(anchor)
  <2>1. anchor \in SUBSET (Seq(Nat) \ {<<>>})
    OBVIOUS
  <2> QED
    BY <1>5, <1>6, <1>8, <2>1, DetectFinds
<1>10. \A e \in endorsed, h \in anchor :
          VerifyCosignature(cpOf[h], Cosignature(cpOf[e], WitnessKey), WitnessKey) <=> h = e
  <2> SUFFICES ASSUME NEW e \in endorsed, NEW h \in anchor
               PROVE  VerifyCosignature(cpOf[h], Cosignature(cpOf[e], WitnessKey), WitnessKey) <=> h = e
    OBVIOUS
  <2>1. cpOf[h] = CheckpointOf(h) /\ cpOf[e] = CheckpointOf(e) /\ h \in Seq(Nat) /\ e \in Seq(Nat)
    BY <1>1
  <2> QED
    BY <2>1, CosignatureBinds
<1> QED
  BY <1>9, <1>10, Zenon DEF ForksShow, cpOf, cps, oneOf, proofs

\* What a caller keeps once its request is answered, given up or lost.
LEMMA CallerStops ==
  ASSUME NEW heads, NEW c \in CallerStates(heads), NEW h \in heads
  PROVE  /\ [c EXCEPT !.asked = Null, !.known = h, !.waits = FALSE] \in CallerStates(heads)
         /\ [c EXCEPT !.refused = TRUE, !.waits = FALSE] \in CallerStates(heads)
         /\ [c EXCEPT !.waits = FALSE] \in CallerStates(heads)
         /\ ~[c EXCEPT !.asked = Null, !.known = h, !.waits = FALSE].waits
         /\ ~[c EXCEPT !.refused = TRUE, !.waits = FALSE].waits
         /\ ~[c EXCEPT !.waits = FALSE].waits
BY DEF CallerStates

\* The callers when the request r is no longer theirs.
Stopped(r, cs, ds) ==
    /\ ds \in [Processes -> CallerStates(anchor)]
    /\ \A p \in Processes : ds[p].waits = (cs[p].waits /\ p # r.by)

\* The answer to a request ends the wait of its caller and of no other.
LEMMA AnsweredStops ==
  ASSUME ServiceTyped, SqlTyped, NEW r \in requests, NEW accepted \in BOOLEAN, Answered(r, accepted)
  PROVE  Stopped(r, callers, callers')
<1>1. r.by \in writers \cup {Null} /\ r.head \in anchor /\ writers \subseteq Processes /\ Null \notin Processes
  BY WitnessAssumption DEF ServiceTyped, IsRequest, SqlTyped
<1>2. callers \in [Processes -> CallerStates(anchor)]
  BY DEF ServiceTyped
<1>3. CASE r.by = Null
  BY <1>1, <1>2, <1>3 DEF Answered, Stopped, CallerStates
<1>4. CASE r.by # Null
  <2>1. r.by \in Processes /\ callers[r.by] \in CallerStates(anchor)
    BY <1>1, <1>2, <1>4
  <2>2. PICK d \in CallerStates(anchor) : ~d.waits /\ callers' = [callers EXCEPT ![r.by] = d]
    <3>1. CASE callers' = [callers EXCEPT ![r.by] =
                         IF accepted THEN [@ EXCEPT !.asked = Null, !.known = r.head, !.waits = FALSE]
                                     ELSE [@ EXCEPT !.refused = TRUE, !.waits = FALSE]]
      <4>1. CASE accepted
        BY <1>1, <2>1, <3>1, <4>1, CallerStops
      <4>2. CASE ~accepted
        BY <1>1, <2>1, <3>1, <4>2, CallerStops
      <4> QED
        BY <4>1, <4>2
    <3>2. CASE callers' = [callers EXCEPT ![r.by].waits = FALSE]
      BY <1>1, <2>1, <3>2, CallerStops
    <3> QED
      BY <1>4, <3>1, <3>2 DEF Answered
  <2>3. \A p \in Processes : callers'[p] = IF p = r.by THEN d ELSE callers[p]
    BY <1>2, <2>1, <2>2
  <2>4. callers' \in [Processes -> CallerStates(anchor)]
    BY <1>2, <2>2
  <2>5. \A p \in Processes : callers[p].waits \in BOOLEAN
    BY <1>2 DEF CallerStates
  <2>6. ASSUME NEW p \in Processes PROVE callers'[p].waits = (callers[p].waits /\ p # r.by)
    <3>1. CASE p = r.by
      <4>1. callers'[p] = d
        BY <2>3, <3>1
      <4>2. d.waits = FALSE
        BY <2>2 DEF CallerStates
      <4> QED
        BY <3>1, <4>1, <4>2
    <3>2. CASE p # r.by
      BY <2>3, <2>5, <3>2, Zenon
    <3> QED
      BY <3>1, <3>2
  <2> QED
    BY <2>4, <2>6 DEF Stopped
<1> QED
  BY <1>3, <1>4

\* What ServiceTyped asks of the requests and of the callers.
Serves(reqs, cs) ==
    /\ \A x \in reqs : IsRequest(x, anchor)
    /\ \A x, y \in reqs : x.by = y.by /\ y.by # Null => x = y
    /\ cs \in [Processes -> CallerStates(anchor)]
    /\ \A p \in Processes : cs[p].waits = \E x \in reqs : x.by = p

\* The service without the request r, or with another in its place that nobody waits for.
LEMMA RequestLeaves ==
  ASSUME ServiceTyped, NEW r \in requests, NEW cs, Stopped(r, callers, cs), NEW q,
         IsRequest(q, anchor) /\ q.by = Null,
         NEW reqs, reqs = requests \ {r} \/ reqs = (requests \ {r}) \cup {q}
  PROVE  Serves(reqs, cs)
<1>1. /\ \A x \in requests : IsRequest(x, anchor)
      /\ \A x, y \in requests : x.by = y.by /\ y.by # Null => x = y
      /\ \A p \in Processes : callers[p].waits = \E x \in requests : x.by = p
  BY DEF ServiceTyped
<1>2. /\ cs \in [Processes -> CallerStates(anchor)]
      /\ \A p \in Processes : cs[p].waits = (callers[p].waits /\ p # r.by)
  BY DEF Stopped
<1>3. \A p \in Processes : p # Null
  BY WitnessAssumption
<1>4. \A x \in reqs : x \in requests \/ x = q
  OBVIOUS
<1>5. \A x \in reqs : IsRequest(x, anchor)
  BY <1>1, <1>4
<1>6. \A x, y \in reqs : x.by = y.by /\ y.by # Null => x = y
  BY <1>1, <1>4
<1>7. ASSUME NEW p \in Processes
      PROVE  cs[p].waits = \E x \in reqs : x.by = p
  <2>1. ASSUME NEW x \in requests, x.by = p, p # r.by PROVE x \in reqs
    BY <2>1
  <2>2. ASSUME NEW x \in reqs, x.by = p PROVE x \in requests /\ p # r.by
    <3>1. x \in requests /\ x # r
      BY <1>3, <1>4, <2>2
    <3> QED
      BY <1>1, <1>3, <2>2, <3>1
  <2>3. (\E x \in reqs : x.by = p) <=> (\E x \in requests : x.by = p) /\ p # r.by
    BY <2>1, <2>2
  <2>4. callers[p].waits = (\E x \in requests : x.by = p) /\ cs[p].waits = (callers[p].waits /\ p # r.by)
    BY <1>1, <1>2
  <2> QED
    BY <2>3, <2>4
<1> QED
  BY <1>2, <1>5, <1>6, <1>7 DEF Serves

\* The heads a process signs are of rows that there are.
LEMMA HeadsRise ==
  ASSUME SqlTyped, NEW p \in Processes
  PROVE  ledger[p].leaves \in Rising(MaxRows)
<1>1. ledger[p].leaves \in Rising(Len(rows)) /\ Len(rows) \in Nat /\ MaxRows \in Nat /\ Len(rows) <= MaxRows
  <2>1. Cardinality(Inserting) \in Nat /\ Len(rows) \in Nat
    BY FS_CardinalityType DEF SqlTyped, Table
  <2>2. Fits(ledger[p], Len(rows))
    BY DEF SqlTyped
  <2> QED
    BY <2>1, <2>2, SqlAssumption DEF SqlTyped, Fits
<1> QED
  BY <1>1 DEF Rising, Numbers

\* Nothing is asked yet.
LEMMA ServiceInit == Init => ServiceTyped
<1> SUFFICES ASSUME Init PROVE ServiceTyped
  OBVIOUS
<1>1. callers \in [Processes -> CallerStates(anchor)] /\ \A p \in Processes : callers[p].waits = FALSE
  BY DEF Init, CallerStates
<1>2. requests = {} /\ anchor = {} /\ endorsed = {} /\ last = Null /\ late = FALSE
  BY DEF Init
<1>3. ~ \E r \in requests : TRUE
  BY <1>2
<1>4. \A p \in Processes : callers[p].waits = \E r \in requests : r.by = p
  BY <1>1, <1>3
<1> QED
  BY <1>1, <1>2, <1>4 DEF ServiceTyped

\* A process asks for a cosignature of a head of its own.
LEMMA AskTyped ==
  ASSUME ServiceTyped, SqlTyped, NEW p \in Processes, Ask(p)
  PROVE  ServiceTyped'
<1>0. UNCHANGED <<writers, last, endorsed, late>> /\ p \in writers /\ ~callers[p].waits
  BY DEF Ask, sqlVars
<1>1. PICK head, proof : /\ head \in (anchor \cup Rising(MaxRows)) \ {<<>>} /\ anchor' = anchor \cup {head}
                  /\ callers' = [callers EXCEPT ![p].asked = head, ![p].waits = TRUE]
                  /\ requests' = requests \cup {[by |-> p, head |-> head, pc |-> "check", proof |-> proof]}
  <2>1. PICK head : head = IF callers[p].asked # Null THEN callers[p].asked ELSE ledger[p].leaves
    OBVIOUS
  <2>2. callers[p].asked \in anchor \cup {Null}
    BY DEF ServiceTyped, CallerStates
  <2>3. head \in anchor \cup Rising(MaxRows)
    BY <2>1, <2>2, HeadsRise
  <2> QED
    BY <2>1, <2>3 DEF Ask
<1>2. anchor' \subseteq Rising(MaxRows) \ {<<>>} /\ anchor \subseteq anchor'
  BY <1>1 DEF ServiceTyped
<1>3. PICK q : q = [by |-> p, head |-> head, pc |-> "check", proof |-> proof]
  OBVIOUS
<1>4. q.by = p /\ IsRequest(q, anchor')
  BY <1>0, <1>1, <1>3 DEF IsRequest
<1>5. requests' = requests \cup {q}
  BY <1>1, <1>3
<1>6. \A x \in requests : IsRequest(x, anchor')
  BY <1>2 DEF ServiceTyped, IsRequest
<1>7. \A x \in requests : x.by # p
  BY <1>0 DEF ServiceTyped
<1>8. \A x, y \in requests' : x.by = y.by /\ y.by # Null => x = y
  BY <1>4, <1>5, <1>7 DEF ServiceTyped
<1>9. /\ callers' \in [Processes -> CallerStates(anchor')]
      /\ callers'[p].waits = TRUE /\ \A o \in Processes \ {p} : callers'[o] = callers[o]
  <2>1. callers \in [Processes -> CallerStates(anchor')]
    BY <1>2 DEF ServiceTyped, CallerStates
  <2>2. head \in anchor'
    BY <1>1
  <2> QED
    BY <1>1, <2>1, <2>2 DEF CallerStates
<1>10. ASSUME NEW o \in Processes PROVE callers'[o].waits = \E x \in requests' : x.by = o
  <2>1. CASE o = p
    BY <1>4, <1>5, <1>9, <2>1
  <2>2. CASE o # p
    <3>1. (\E x \in requests' : x.by = o) <=> (\E x \in requests : x.by = o)
      BY <1>4, <1>5, <2>2
    <3> QED
      BY <1>9, <2>2, <3>1 DEF ServiceTyped
  <2> QED
    BY <2>1, <2>2
<1>11. \A x \in requests' : IsRequest(x, anchor')
  BY <1>4, <1>5, <1>6
<1>12. \A x \in requests' : IsRequest(x, anchor)'
  BY <1>0, <1>11 DEF IsRequest
<1> QED
  BY <1>0, <1>2, <1>8, <1>9, <1>10, <1>12 DEF ServiceTyped

\* A request that is answered, lost, or sent again.
LEMMA SettledTyped ==
  ASSUME ServiceTyped, SqlTyped, NEW r \in requests, Stopped(r, callers, callers'),
         NEW q, IsRequest(q, anchor) /\ q.by = Null,
         requests' = requests \ {r} \/ requests' = (requests \ {r}) \cup {q},
         UNCHANGED <<writers, anchor>>,
         last' \in {last, r.head}, endorsed' \in {endorsed, endorsed \cup {r.head}}, late' \in BOOLEAN
  PROVE  ServiceTyped'
<1>1. /\ \A x \in requests' : IsRequest(x, anchor)
      /\ \A x, y \in requests' : x.by = y.by /\ y.by # Null => x = y
      /\ callers' \in [Processes -> CallerStates(anchor)]
      /\ \A p \in Processes : callers'[p].waits = \E x \in requests' : x.by = p
  <2>1. PICK reqs, cs : reqs = requests' /\ cs = callers'
    OBVIOUS
  <2>2. Stopped(r, callers, cs) /\ (reqs = requests \ {r} \/ reqs = (requests \ {r}) \cup {q})
    BY <2>1
  <2>3. Serves(reqs, cs)
    BY <2>2, RequestLeaves
  <2> QED
    BY <2>1, <2>3 DEF Serves
<1>2. \A x \in requests' : IsRequest(x, anchor)'
  BY <1>1 DEF IsRequest
<1>3. r.head \in anchor
  BY DEF ServiceTyped, IsRequest
<1>4. last' \in anchor \cup {Null} /\ endorsed' \subseteq anchor /\ anchor' \subseteq Rising(MaxRows) \ {<<>>}
  BY <1>3 DEF ServiceTyped
<1> QED
  BY <1>1, <1>2, <1>4 DEF ServiceTyped

\* Every step of the writers, of the witness and of the anchor keeps their types.
LEMMA ServiceTypedNext == SqlTyped /\ ServiceTyped /\ [Next]_vars => ServiceTyped'
<1> SUFFICES ASSUME SqlTyped, ServiceTyped, [Next]_vars PROVE ServiceTyped'
  OBVIOUS
<1>1. CASE UNCHANGED <<anchor, serviceVars>> /\ writers' = writers
  BY <1>1 DEF ServiceTyped, serviceVars, IsRequest
<1>2. CASE SqlNext /\ UNCHANGED <<anchor, serviceVars>>
  <2>1. writers' = writers
    BY <1>2 DEF SqlNext, BeginCommit, Insert, CommitRow, Raises, ReadPastEnd, Reopen
  <2> QED
    BY <1>1, <1>2, <2>1
<1>3. ASSUME NEW p \in Processes, Ask(p) PROVE ServiceTyped'
  BY <1>3, AskTyped
<1>4. ASSUME NEW r \in requests
      PROVE  /\ IsRequest([r EXCEPT !.by = Null], anchor) /\ [r EXCEPT !.by = Null].by = Null
             /\ IsRequest([r EXCEPT !.pc = "sign"], anchor) /\ [r EXCEPT !.pc = "sign"].by = r.by
  <2>1. IsRequest(r, anchor)
    BY DEF ServiceTyped
  <2> QED
    BY <2>1 DEF IsRequest
<1>5. ASSUME NEW r \in requests, Check(r) PROVE ServiceTyped'
  <2>0. UNCHANGED <<writers, anchor, last, endorsed, late>>
    BY <1>5 DEF Check, sqlVars
  <2>1. CASE requests' = requests \ {r} /\ Answered(r, FALSE)
    <3>1. Stopped(r, callers, callers')
      BY <2>1, AnsweredStops
    <3>2. late' \in BOOLEAN
      BY <2>0 DEF ServiceTyped
    <3>3. PICK q : IsRequest(q, anchor) /\ q.by = Null
      BY <1>4
    <3> QED
      BY <2>0, <2>1, <3>1, <3>2, <3>3, SettledTyped
  <2>2. CASE requests' = (requests \ {r}) \cup {[r EXCEPT !.pc = "sign"]} /\ UNCHANGED callers
    <3>1. PICK q : q = [r EXCEPT !.pc = "sign"] /\ IsRequest(q, anchor) /\ q.by = r.by
      BY <1>4
    <3>2. requests' = (requests \ {r}) \cup {q}
      BY <2>2, <3>1
    <3>3. \A x \in requests' : IsRequest(x, anchor)
      BY <3>1, <3>2 DEF ServiceTyped
    <3>4. \A x \in requests' : IsRequest(x, anchor)'
      BY <2>0, <3>3 DEF IsRequest
    <3>5. \A x, y \in requests' : x.by = y.by /\ y.by # Null => x = y
      <4>1. \A x, y \in requests : x.by = y.by /\ y.by # Null => x = y
        BY DEF ServiceTyped
      <4>2. \A x \in requests' : (x \in requests /\ x # r) \/ (x = q /\ x.by = r.by)
        BY <3>1, <3>2
      <4> QED
        BY <4>1, <4>2
    <3>6. \A p : (\E x \in requests' : x.by = p) <=> (\E x \in requests : x.by = p)
      BY <3>1, <3>2
    <3> QED
      BY <2>0, <2>2, <3>4, <3>5, <3>6 DEF ServiceTyped
  <2> QED
    BY <1>5, <2>1, <2>2 DEF Check
<1>6. ASSUME NEW r \in requests, Endorse(r) PROVE ServiceTyped'
  <2>1. /\ UNCHANGED <<writers, anchor, late>> /\ requests' = requests \ {r} /\ Answered(r, TRUE)
        /\ last' = r.head /\ endorsed' = endorsed \cup {r.head}
    BY <1>6 DEF Endorse, sqlVars
  <2>2. Stopped(r, callers, callers')
    BY <2>1, AnsweredStops
  <2>3. late' \in BOOLEAN
    BY <2>1 DEF ServiceTyped
  <2>4. PICK q : IsRequest(q, anchor) /\ q.by = Null
    BY <1>4
  <2> QED
    BY <2>1, <2>2, <2>3, <2>4, SettledTyped
<1>7. ASSUME NEW r \in requests, GiveUp(r) PROVE ServiceTyped'
  <2>1. /\ UNCHANGED <<writers, anchor, last, endorsed>> /\ r.by # Null /\ late' \in BOOLEAN
        /\ requests' = (requests \ {r}) \cup {[r EXCEPT !.by = Null]}
        /\ callers' = [callers EXCEPT ![r.by].waits = FALSE]
    BY <1>7 DEF GiveUp, sqlVars
  <2>2. Answered(r, FALSE)
    BY <1>7 DEF GiveUp, Answered
  <2>3. Stopped(r, callers, callers')
    BY <2>2, AnsweredStops
  <2>4. PICK q : q = [r EXCEPT !.by = Null] /\ IsRequest(q, anchor) /\ q.by = Null
    BY <1>4
  <2>5. requests' = (requests \ {r}) \cup {q}
    BY <2>1, <2>4
  <2> QED
    BY <2>1, <2>3, <2>4, <2>5, SettledTyped
<1>8. CASE RestartService
  <2>1. /\ UNCHANGED <<writers, anchor, late>> /\ last' = Null /\ requests' = {} /\ endorsed' = {}
        /\ callers' = [p \in Processes |-> [callers[p] EXCEPT !.waits = FALSE]]
    BY <1>8 DEF RestartService, sqlVars
  <2>2. ASSUME NEW p \in Processes PROVE callers'[p] \in CallerStates(anchor) /\ callers'[p].waits = FALSE
    <3>1. callers[p] \in CallerStates(anchor) /\ callers'[p] = [callers[p] EXCEPT !.waits = FALSE]
      BY <2>1 DEF ServiceTyped
    <3> QED
      BY <3>1 DEF CallerStates
  <2>3. callers' \in [Processes -> CallerStates(anchor)]
    BY <2>1, <2>2
  <2> QED
    BY <2>1, <2>2, <2>3 DEF ServiceTyped
<1>9. CASE UNCHANGED vars
  BY <1>1, <1>9 DEF vars, sqlVars, serviceVars
<1> QED
  BY <1>2, <1>3, <1>5, <1>6, <1>7, <1>8, <1>9 DEF Next, Service

\* anchor.py:18-24: heads of two histories in the anchor are found, however they came there, heads
\* of one are not, and a cosignature is good for one head, for any number of processes and rows.
THEOREM ForksShowKept == Spec => []ForksShow
<1>1. Init => SqlTyped /\ SoleInv /\ ServiceTyped
  BY SqlTypedInit, ServiceInit DEF Init
<1>2. SqlTyped /\ SoleInv /\ ServiceTyped /\ [Next]_vars => (SqlTyped /\ SoleInv /\ ServiceTyped)'
  BY WitnessSqlNext, ServiceTypedNext
<1>3. ServiceTyped => ForksShow
  <2> SUFFICES ASSUME ServiceTyped PROVE ForksShow
    OBVIOUS
  <2>1. anchor \subseteq Seq(Nat) \ {<<>>} /\ endorsed \subseteq anchor
    BY DEF ServiceTyped, Rising, Numbers
  <2> QED
    BY <2>1, AnchorShows
<1> QED
  BY <1>1, <1>2, <1>3, PTL DEF Spec
=============================================================================
