----------------------- MODULE EvidencePipelineProofs -----------------------
(***************************************************************************)
(* Proofs about EvidencePipeline for every number of spans, queue length,   *)
(* retry count and fault budget.                                           *)
(***************************************************************************)
EXTENDS EvidencePipeline, SpillBufferProofs

(***************************************************************************)
(* Types, and what join() counts.  The worker has no item where it waits    *)
(* for one and a span where it handles one; unfinished is then the length   *)
(* of the queue plus the item in hand, so it never becomes negative.        *)
(***************************************************************************)
HandInv ==
    /\ pc["worker"] \in {"get", "exited", "dead", "down"} => item = None
    /\ pc["worker"] \in {"normalize", "commit"} => item \in Spans
    /\ pc["worker"] = "done" => item # None
    /\ \A t \in Threads : drainer = t => pc[t] = "draining"
    /\ pc["worker"] = "down" => drainer = None
    /\ pc["worker"] = "down" <=> pc["flusher"] = "down"

TypeInv == TypeOK /\ HandInv /\ JoinCountsWork

\* A step of the spill buffer keeps the types of its variables.
SpillStep ==
    \/ \E s \in Spans : \/ AppendLine(s) \/ Take(s) \/ Decline(s)
                        \/ \E k \in 0..LineLen[s] : AppendRaises(s, k) \/ DieAppending(s, k)
    \/ BeginDrain \/ SkipBlank \/ EndOfFile \/ ParseError \/ Compact
    \/ SaveCursor \/ SaveCursorRaises \/ Die \/ Reopen \/ UNCHANGED spillVars

\* Every step of the spill buffer keeps its types.
LEMMA SpillTypes == SpillTypeOK /\ SpillStep => SpillTypeOK'
<1> SUFFICES ASSUME SpillTypeOK, SpillStep
             PROVE  SpillTypeOK'
  OBVIOUS
<1> USE DEF SpillTypeOK
<1>1. ASSUME NEW s \in Spans, AppendLine(s)
      PROVE  SpillTypeOK'
  <2>1. file \o Line(s) \in Seq(Byte)
    <3>1. 0 \in 0..LineLen[s]
      BY LineType
    <3> QED
      BY <3>1, AppendTyped
  <2> QED
    BY <1>1, <2>1 DEF AppendLine
<1>2. ASSUME NEW s \in Spans, Take(s)
      PROVE  SpillTypeOK'
  <2>1. Len(NextLine) \in Nat
    BY <1>2, ParsesFirst DEF Take
  <2> QED
    BY <1>2, <2>1 DEF Take
<1>3. ASSUME NEW s \in Spans, Decline(s)
      PROVE  SpillTypeOK'
  BY <1>3 DEF Decline
<1>4. ASSUME NEW s \in Spans, NEW k \in 0..LineLen[s],
             AppendRaises(s, k) \/ DieAppending(s, k)
      PROVE  SpillTypeOK'
  <2>2. file \o SubSeq(Line(s), 1, k) \in Seq(Byte)
    BY AppendTyped
  <2>3. file' = file \o SubSeq(Line(s), 1, k) /\ cursorFile' = cursorFile
        /\ consumed' \in Nat /\ drain' = drain
    BY <1>4 DEF AppendRaises, DieAppending
  <2> QED
    BY <2>2, <2>3
<1>5. CASE BeginDrain \/ SkipBlank \/ EndOfFile \/ ParseError
  BY <1>5 DEF BeginDrain, SkipBlank, EndOfFile, ParseError
<1>6. CASE Compact
  <2>1. <<>> \in Seq(Byte)
    BY EmptySeq
  <2>2. file' \in {<<>>, file} /\ consumed' \in {0, consumed}
        /\ cursorFile' = cursorFile /\ drain' = "saving"
    BY <1>6 DEF Compact
  <2>3. file' \in Seq(Byte)
    BY <2>1, <2>2, Zenon
  <2>4. cursorFile' \in Nat /\ consumed' \in Nat
    BY <2>2
  <2> QED
    BY <2>2, <2>3, <2>4
<1>7. CASE SaveCursor \/ SaveCursorRaises
  BY <1>7 DEF SaveCursor, SaveCursorRaises
<1>8. CASE Die \/ Reopen
  BY <1>8 DEF Die, Reopen
<1>9. CASE UNCHANGED spillVars
  BY <1>9 DEF spillVars
<1> QED
  BY <1>1, <1>2, <1>3, <1>4, <1>5, <1>6, <1>7, <1>8, <1>9 DEF SpillStep

\* Every step of the pipeline is a step of its spill buffer, or leaves it alone.
LEMMA NextIsSpillStep == [Next]_vars => SpillStep
<1> SUFFICES ASSUME [Next]_vars
             PROVE  SpillStep
  OBVIOUS
<1>1. ASSUME NEW s \in Spans, Submit(s)
      PROVE  SpillStep
  <2>1. /\ LineLen[s] \in Nat
        /\ 0 \in 0..LineLen[s] /\ LineLen[s] \in 0..LineLen[s]
        /\ 1..(LineLen[s] - 1) \subseteq 0..LineLen[s]
    BY LineLenAssumption
  <2>2. CASE Enqueue(s)
    BY <2>2 DEF Enqueue, SubmitVars, SpillStep, spillVars
  <2>3. CASE Overflow(s)
    BY <2>3 DEF Overflow, SubmitVars, SpillStep, spillVars
  <2>4. CASE SpillSpan(s)
    BY <2>4 DEF SpillSpan, SpillStep
  <2>5. CASE SpillFails(s)
    <3>1. PICK k \in 0..LineLen[s] : AppendRaises(s, k)
      BY <2>1, <2>5 DEF SpillFails
    <3> QED
      BY <3>1 DEF SpillStep
  <2>6. CASE Drop(s)
    BY <2>6 DEF Drop, SubmitVars, SpillStep, spillVars
  <2> QED
    BY <1>1, <2>2, <2>3, <2>4, <2>5, <2>6 DEF Submit
<1>2. ASSUME NEW t \in Threads, Emit(t)
      PROVE  SpillStep
  BY <1>2 DEF Emit, EmitNothing, EmitBegin, Attest, AttestFails, Settle,
              EmitUnchanged, SpillStep, spillVars
<1>3. ASSUME NEW t \in Threads, Drain(t)
      PROVE  SpillStep
  BY <1>3 DEF Drain, SkipDrain, EnterDrain, DrainLine, EndDrain, DrainFails,
              SpillStep, spillVars
<1>4. CASE Worker
  BY <1>4 DEF Worker, GetItem, GetTimeout, Normalize, Commit, CommitFails, TaskDone,
              CommitUnchanged, SpillStep, spillVars
<1>5. CASE Flusher \/ Stop
  BY <1>5 DEF Flusher, Flush, Join, Pending, FlushReturns, FlushUnchanged, Stop,
              SpillStep, spillVars
<1>6. CASE Crash
  <2>1. \A s \in Spans : 1..(LineLen[s] - 1) \subseteq 0..LineLen[s]
    BY LineLenAssumption
  <2> QED
    BY <1>6, <2>1 DEF Crash, SpillStep
<1>7. CASE Restart
  BY <1>7 DEF Restart, SpillStep
<1>8. CASE UNCHANGED vars
  BY <1>8 DEF vars, SpillStep, spillVars
<1> QED
  BY <1>1, <1>2, <1>3, <1>4, <1>5, <1>6, <1>7, <1>8 DEF Next

\* Appending to the queue and taking from it, and the lengths.
LEMMA QueueTypes ==
    ASSUME queue \in Seq(Spans \cup {Sentinel})
    PROVE  /\ Len(queue) \in Nat
           /\ \A x \in Spans \cup {Sentinel} :
                  /\ Append(queue, x) \in Seq(Spans \cup {Sentinel})
                  /\ Len(Append(queue, x)) = Len(queue) + 1
           /\ queue # <<>> =>
                  /\ Head(queue) \in Spans \cup {Sentinel}
                  /\ Tail(queue) \in Seq(Spans \cup {Sentinel})
                  /\ Len(Tail(queue)) = Len(queue) - 1
                  /\ Len(queue) > 0
           /\ <<>> \in Seq(Spans \cup {Sentinel}) /\ Len(<<>>) = 0
BY LenProperties, AppendProperties, HeadTailProperties, EmptySeq

\* The journal holds a number, whatever becomes of its write.
LEMMA JournalType ==
    ASSUME journal \in Nat, faults \in 0..MaxFaults, NEW n \in Nat, JournalBecomes(n)
    PROVE  journal' \in Nat /\ faults' \in 0..MaxFaults
BY PipelineAssumption DEF JournalBecomes, NoFault, Fault

\* A fault is one of those the bound allows.
LEMMA FaultType ==
    ASSUME faults \in 0..MaxFaults, NEW kind, Fault(kind)
    PROVE  faults' \in 0..MaxFaults
BY PipelineAssumption DEF Fault


\* The types, in three parts that are proved one by one.
CountTypes ==
    /\ emitter \in Threads \cup {None}
    /\ {batch, undeclared, journal, attested, dropped, seen} \subseteq Nat
    /\ faults \in 0..MaxFaults

SpanTypes ==
    /\ stage \in [Spans -> {"new", "full", "failed", "queued", "spilled",
                            "dropped", "lost"}]
    /\ recorded \in [Spans -> Nat]
    /\ errored \subseteq Spans
    /\ drainer \in Threads \cup {None}
    /\ stopped \in BOOLEAN /\ quiet \in BOOLEAN

WorkTypes ==
    /\ queue \in Seq(Spans \cup {Sentinel})
    /\ unfinished \in Nat
    /\ pc \in [Threads -> WorkerSteps \cup FlusherSteps]
    /\ pc["worker"] \in WorkerSteps /\ pc["flusher"] \in FlusherSteps
    /\ item \in Spans \cup {Sentinel, None}
    /\ attempt \in 0..CommitRetries

\* The types of the module are the types of its parts.
LEMMA TypeParts == TypeOK <=> SpillTypeOK /\ CountTypes /\ SpanTypes /\ WorkTypes
BY DEF TypeOK, CountTypes, SpanTypes, WorkTypes

\* Every step keeps the types of the counters.
LEMMA CountNext == CountTypes /\ [Next]_vars => CountTypes'
<1> SUFFICES ASSUME CountTypes, [Next]_vars
             PROVE  CountTypes'
  OBVIOUS
<1> USE DEF CountTypes
<1>1. ASSUME NEW s \in Spans, Submit(s)
      PROVE  CountTypes'
  <2>1. CASE Enqueue(s) \/ Overflow(s) \/ SpillSpan(s)
    BY <2>1 DEF Enqueue, Overflow, SpillSpan, SubmitVars, workVars, emitVars, historyVars
  <2>2. CASE SpillFails(s)
    BY <2>2, FaultType DEF SpillFails, workVars, emitVars, historyVars
  <2>3. CASE Drop(s)
    BY <2>3, JournalType DEF Drop, SubmitVars, workVars
  <2> QED
    BY <1>1, <2>1, <2>2, <2>3 DEF Submit
<1>2. ASSUME NEW t \in Threads, Emit(t)
      PROVE  CountTypes'
  <2> USE DEF EmitUnchanged, workVars, emitVars, historyVars
  <2>1. CASE EmitNothing(t) \/ EmitBegin(t) \/ Attest(t)
    BY <2>1 DEF EmitNothing, EmitBegin, Attest, NoFault
  <2>2. CASE AttestFails(t)
    BY <2>2, FaultType DEF AttestFails
  <2>3. CASE Settle(t)
    <3>1. undeclared' \in Nat
      BY <2>3 DEF Settle
    <3> QED
      BY <2>3, <3>1, JournalType DEF Settle
  <2> QED
    BY <1>2, <2>1, <2>2, <2>3 DEF Emit
<1>3. ASSUME NEW t \in Threads, Drain(t)
      PROVE  CountTypes'
  BY <1>3, FaultType DEF Drain, SkipDrain, EnterDrain, DrainLine, EndDrain, DrainFails,
        DrainUnchanged, NoFault, emitVars, historyVars
<1>4. CASE Worker
  BY <1>4, FaultType DEF Worker, GetItem, GetTimeout, Normalize, Commit, CommitFails,
        TaskDone, CommitUnchanged, workVars, emitVars, historyVars
<1>5. CASE Flusher \/ Stop
  BY <1>5 DEF Flusher, Flush, Join, Pending, FlushReturns, FlushUnchanged, Stop,
              workVars, emitVars, historyVars
<1>6. CASE Crash
  BY <1>6, FaultType DEF Crash, historyVars
<1>7. CASE Restart
  BY <1>7 DEF Restart, workVars, historyVars
<1>8. CASE UNCHANGED vars
  BY <1>8 DEF vars, workVars, emitVars, historyVars
<1> QED
  BY <1>1, <1>2, <1>3, <1>4, <1>5, <1>6, <1>7, <1>8 DEF Next

\* Every step keeps the types of what is known of spans.
LEMMA SpanNext == SpanTypes /\ HandInv /\ [Next]_vars => SpanTypes'
<1> SUFFICES ASSUME SpanTypes, HandInv, [Next]_vars
             PROVE  SpanTypes'
  OBVIOUS
<1> USE DEF SpanTypes
<1>1. ASSUME NEW s \in Spans, Submit(s)
      PROVE  SpanTypes'
  BY <1>1 DEF Submit, Enqueue, Overflow, SpillSpan, SpillFails, Drop, SubmitVars,
              historyVars
<1>2. ASSUME NEW t \in Threads, Emit(t)
      PROVE  SpanTypes'
  BY <1>2 DEF Emit, EmitNothing, EmitBegin, Attest, AttestFails, Settle,
              EmitUnchanged, historyVars
<1>3. ASSUME NEW t \in Threads, Drain(t)
      PROVE  SpanTypes'
  BY <1>3 DEF Drain, SkipDrain, EnterDrain, DrainLine, EndDrain, DrainFails, LeaveDrain,
              DrainUnchanged, historyVars
<1>4. CASE Worker
  <2>1. CASE GetItem \/ GetTimeout \/ TaskDone
    BY <2>1 DEF GetItem, GetTimeout, TaskDone, historyVars
  <2>2. CASE Normalize
    BY <2>2, PipelineAssumption DEF Normalize
  <2>3. CASE Commit
    <3>1. item \in Spans
      BY <2>3 DEF Commit, HandInv, At
    <3> QED
      BY <2>3, <3>1 DEF Commit, CommitUnchanged
  <2>4. CASE CommitFails
    <3>1. item \in Spans
      BY <2>4 DEF CommitFails, HandInv, At
    <3> QED
      BY <2>4, <3>1 DEF CommitFails, CommitUnchanged
  <2> QED
    BY <1>4, <2>1, <2>2, <2>3, <2>4 DEF Worker
<1>5. CASE Flusher
  BY <1>5 DEF Flusher, Flush, Join, Pending, FlushReturns, FlushUnchanged, historyVars
<1>6. CASE Stop
  BY <1>6 DEF Stop, historyVars
<1>7. CASE Crash
  BY <1>7 DEF Crash, historyVars
<1>8. CASE Restart
  BY <1>8 DEF Restart, historyVars
<1>9. CASE UNCHANGED vars
  BY <1>9 DEF vars, historyVars
<1> QED
  BY <1>1, <1>2, <1>3, <1>4, <1>5, <1>6, <1>7, <1>8, <1>9 DEF Next

WorkInv == WorkTypes /\ HandInv /\ JoinCountsWork

\* Every step keeps the types of the threads, and the queue counts its unfinished work.
LEMMA WorkNext == WorkInv /\ [Next]_vars => WorkInv'
<1> SUFFICES ASSUME WorkInv, [Next]_vars
             PROVE  WorkInv'
  OBVIOUS
<1> USE DEF WorkInv, WorkTypes, HandInv, JoinCountsWork, Threads, CallSteps, WorkerSteps,
        FlusherSteps, At, GoTo
<1>1. ASSUME NEW x \in Spans \cup {Sentinel}, Put(x),
             UNCHANGED <<pc, item, attempt, drainer>>
      PROVE  WorkInv'
  BY <1>1, QueueTypes DEF Put
<1>2. ASSUME UNCHANGED <<queue, unfinished, pc, item, attempt, drainer>>
      PROVE  WorkInv'
  BY <1>2
<1>3. ASSUME NEW s \in Spans, Submit(s)
      PROVE  WorkInv'
  <2>1. CASE Enqueue(s)
    BY <2>1, <1>1 DEF Enqueue, SubmitVars, workVars
  <2>2. CASE Overflow(s) \/ SpillSpan(s) \/ SpillFails(s) \/ Drop(s)
    <3>1. UNCHANGED <<queue, unfinished, pc, item, attempt, drainer>>
      BY <2>2 DEF Overflow, SpillSpan, SpillFails, Drop, SubmitVars, workVars, queueVars
    <3> QED
      BY <3>1, <1>2
  <2> QED
    BY <1>3, <2>1, <2>2 DEF Submit
<1>4. ASSUME NEW t \in Threads, Emit(t)
      PROVE  WorkInv'
  <2>1. UNCHANGED <<queue, unfinished, item, attempt, drainer>>
    BY <1>4 DEF Emit, EmitNothing, EmitBegin, Attest, AttestFails, Settle, EmitUnchanged,
                queueVars, workVars
  <2>2. /\ pc[t] \in {"emit", "attest", "settle"}
        /\ \/ pc' = [pc EXCEPT ![t] = "attest"]
           \/ pc' = [pc EXCEPT ![t] = "settle"]
           \/ pc' = [pc EXCEPT ![t] = AfterEmit(t)]
    BY <1>4 DEF Emit, EmitNothing, EmitBegin, Attest, AttestFails, Settle
  <2>3. CASE t = "flusher"
    BY <2>1, <2>2, <2>3 DEF AfterEmit
  <2>4. CASE t = "worker"
    <3>1. /\ item = None => AfterEmit(t) = "get"
          /\ item = Sentinel => AfterEmit(t) = "done"
          /\ item \in Spans => AfterEmit(t) = "normalize"
      BY <2>4, PipelineAssumption DEF AfterEmit
    <3> QED
      BY <2>1, <2>2, <2>4, <3>1, PipelineAssumption
  <2> QED
    BY <2>3, <2>4
<1>5. ASSUME NEW t \in Threads, Drain(t)
      PROVE  WorkInv'
  <2>1. CASE EnterDrain(t)
    BY <2>1 DEF EnterDrain, DrainUnchanged, queueVars
  <2>2. CASE DrainLine(t)
    <3>1. CASE \E s \in Spans : Put(s)
      BY <2>2, <3>1, <1>1 DEF DrainLine, DrainUnchanged
    <3>2. CASE UNCHANGED queueVars
      BY <2>2, <3>2, <1>2 DEF DrainLine, DrainUnchanged, queueVars
    <3> QED
      BY <2>2, <3>1, <3>2 DEF DrainLine
  <2>3. CASE SkipDrain(t) \/ EndDrain(t) \/ DrainFails(t)
    <3>1. UNCHANGED <<queue, unfinished, attempt>>
      BY <2>3 DEF SkipDrain, EndDrain, DrainFails, DrainUnchanged, queueVars
    <3>2. PICK label \in {AfterDrain(t), DrainRaised(t)} : LeaveDrain(t, label)
      BY <2>3 DEF SkipDrain, EndDrain, DrainFails
    <3>3. pc[t] = "draining"
      BY <2>3 DEF SkipDrain, EndDrain, DrainFails
    <3>4. drainer' = None /\ pc' = [pc EXCEPT ![t] = label]
          /\ item' = IF t = "worker" THEN None ELSE item
      BY <3>2 DEF LeaveDrain
    <3>5. CASE t = "flusher"
      <4>1. label \in {"join", "idle"}
        BY <3>2, <3>5 DEF AfterDrain, DrainRaised
      <4> QED
        BY <3>1, <3>3, <3>4, <3>5, <4>1, PipelineAssumption
    <3>6. CASE t = "worker"
      <4>1. label \in {"emit", "exited", "get", "dead"}
        BY <3>2, <3>6 DEF AfterDrain, DrainRaised
      <4> QED
        BY <3>1, <3>3, <3>4, <3>6, <4>1, PipelineAssumption
    <3> QED
      BY <3>5, <3>6
  <2> QED
    BY <1>5, <2>1, <2>2, <2>3 DEF Drain
<1>6. CASE Worker
  <2>1. CASE GetItem
    BY <2>1, QueueTypes, PipelineAssumption DEF GetItem
  <2>2. CASE GetTimeout
    BY <2>2 DEF GetTimeout, queueVars, workVars
  <2>3. CASE Normalize
    BY <2>3, PipelineAssumption DEF Normalize, queueVars
  <2>4. CASE Commit
    BY <2>4, PipelineAssumption DEF Commit, CommitUnchanged, queueVars
  <2>5. CASE CommitFails
    BY <2>5, PipelineAssumption DEF CommitFails, CommitUnchanged, queueVars
  <2>6. CASE TaskDone
    BY <2>6, QueueTypes DEF TaskDone, workVars
  <2> QED
    BY <1>6, <2>1, <2>2, <2>3, <2>4, <2>5, <2>6 DEF Worker
<1>7. CASE Flusher
  <2>1. UNCHANGED <<queue, unfinished, item, attempt, drainer>>
    BY <1>7 DEF Flusher, Flush, Join, Pending, FlushReturns, FlushUnchanged, queueVars,
                workVars
  <2>2. PICK label \in FlusherSteps \ {"down"} : pc' = [pc EXCEPT !["flusher"] = label]
    BY <1>7 DEF Flusher, Flush, Join, Pending, FlushReturns
  <2>3. pc["flusher"] \notin {"draining", "down"}
    BY <1>7 DEF Flusher, Flush, Join, Pending, FlushReturns
  <2> QED
    BY <2>1, <2>2, <2>3
<1>8. CASE Stop
  BY <1>8, <1>1 DEF Stop, workVars
<1>9. CASE Crash
  <2>1. queue' = <<>> /\ unfinished' = 0 /\ item' = None /\ attempt' = 0 /\ drainer' = None
        /\ pc' = [t \in Threads |-> "down"]
    BY <1>9 DEF Crash
  <2> QED
    BY <2>1, QueueTypes, PipelineAssumption
<1>10. CASE Restart
  <2>1. /\ UNCHANGED <<queue, unfinished, item, attempt, drainer>>
        /\ pc' = [t \in Threads |-> IF t = "worker" THEN "get" ELSE "idle"]
        /\ pc["worker"] = "down"
    BY <1>10 DEF Restart, Up, queueVars, workVars
  <2>2. drainer = None
    BY <1>10 DEF Restart, Up
  <2> QED
    BY <2>1, <2>2, PipelineAssumption
<1>11. CASE UNCHANGED vars
  BY <1>11, <1>2 DEF vars, queueVars, workVars
<1> QED
  BY <1>3, <1>4, <1>5, <1>6, <1>7, <1>8, <1>9, <1>10, <1>11 DEF Next

\* The first state has the types.
LEMMA TypeInit == Init => TypeInv
<1> SUFFICES ASSUME Init
             PROVE  TypeInv
  OBVIOUS
<1>1. SpillTypeOK
  <2>1. <<>> \in Seq(Byte)
    BY EmptySeq
  <2> QED
    BY <2>1 DEF Init, SpillInit, SpillTypeOK
<1>2. CountTypes
  BY PipelineAssumption DEF Init, CountTypes
<1>3. SpanTypes
  BY DEF Init, SpanTypes
<1>4. pc = [t \in Threads |-> IF t = "worker" THEN "get" ELSE "idle"]
      /\ queue = <<>> /\ unfinished = 0 /\ item = None /\ attempt = 0 /\ drainer = None
  BY DEF Init
<1>5. queue \in Seq(Spans \cup {Sentinel}) /\ Len(queue) = 0
  BY <1>4, EmptySeq
<1>6. pc["worker"] = "get" /\ pc["flusher"] = "idle"
      /\ pc \in [Threads -> WorkerSteps \cup FlusherSteps]
  BY <1>4 DEF Threads, WorkerSteps, FlusherSteps
<1>7. WorkTypes
  BY <1>4, <1>5, <1>6, PipelineAssumption DEF WorkTypes, WorkerSteps, FlusherSteps
<1>8. HandInv /\ JoinCountsWork
  BY <1>4, <1>5, <1>6, PipelineAssumption DEF HandInv, JoinCountsWork, Threads
<1> QED
  BY <1>1, <1>2, <1>3, <1>7, <1>8, TypeParts DEF TypeInv

\* Every step keeps them.
LEMMA TypeNext == TypeInv /\ [Next]_vars => TypeInv'
<1> SUFFICES ASSUME TypeInv, [Next]_vars
             PROVE  TypeInv'
  OBVIOUS
<1>1. SpillTypeOK /\ CountTypes /\ SpanTypes /\ WorkTypes
  BY TypeParts DEF TypeInv
<1>2. SpillTypeOK'
  BY <1>1, NextIsSpillStep, SpillTypes
<1>3. CountTypes' /\ SpanTypes'
  BY <1>1, CountNext, SpanNext DEF TypeInv
<1>4. WorkTypes' /\ HandInv' /\ JoinCountsWork'
  BY <1>1, WorkNext DEF TypeInv, WorkInv
<1>5. TypeOK'
  BY <1>2, <1>3, <1>4 DEF TypeOK, SpillTypeOK, CountTypes, SpanTypes, WorkTypes
<1> QED
  BY <1>4, <1>5 DEF TypeInv

\* Every variable keeps its type, for every number of spans, queue length, retry
\* count and fault budget: unfinished_tasks, on which task_done() raises below
\* zero, stays a natural number.
THEOREM TypeCorrect == Spec => []TypeOK
<1>1. TypeInv => TypeOK
  BY DEF TypeInv
<1> QED
  BY <1>1, TypeInit, TypeNext, PTL DEF Spec

\* The count join() waits on, in _q of pipeline.py, is exactly the items queued
\* plus the one whose finally clause has not run.
THEOREM JoinCorrect == Spec => []JoinCountsWork
<1>1. TypeInv => JoinCountsWork
  BY DEF TypeInv
<1> QED
  BY <1>1, TypeInit, TypeNext, PTL DEF Spec

(***************************************************************************)
(* Drop accounting.  _emit_lock is held exactly in the two steps of a marker *)
(* commit, and the batch in flight is part of the count until it is settled. *)
(* The count is in memory while the process runs, where a journal whose     *)
(* writes succeed equals it, and what the journal holds while it is down.   *)
(***************************************************************************)
LockInv ==
    /\ \A t \in Threads : emitter = t <=> pc[t] \in {"attest", "settle"}
    /\ emitter = None => batch = 0
    /\ batch <= undeclared

\* The journal is configured and its writes succeed; the process does not die.
Journaled == HasJournal /\ "journal" \notin Faults
Deathless == {"crash", "tear"} \cap Faults = {}

LedgerInv ==
    /\ Journaled /\ Up => journal = undeclared
    /\ Deathless => Up
    /\ Journaled \/ Deathless =>
           dropped + InFlight <= attested + (IF Up THEN undeclared ELSE journal)

DropInv == TypeInv /\ LockInv /\ LedgerInv

\* Without faults of the journal it is what was last written.
LEMMA JournalFollows ==
    ASSUME Journaled, NEW n \in Nat, JournalBecomes(n)
    PROVE  journal' = n
BY DEF Journaled, JournalBecomes, Fault

\* A step that neither enters nor leaves the commit of a marker, and touches none
\* of its variables.
LEMMA DropStutter ==
    ASSUME DropInv, UNCHANGED <<emitVars, dropped>>, Up' = Up,
           \A t \in Threads : pc'[t] = pc[t]
               \/ {pc[t], pc'[t]} \cap {"attest", "settle"} = {}
    PROVE  LockInv' /\ LedgerInv'
<1>1. UNCHANGED <<emitter, batch, undeclared, journal, attested, dropped>>
  BY DEF emitVars
<1>2. \A t \in Threads : /\ pc'[t] = "settle" <=> pc[t] = "settle"
                         /\ pc'[t] = "attest" <=> pc[t] = "attest"
  OBVIOUS
<1>3. LockInv'
  BY <1>1, <1>2 DEF DropInv, LockInv
<1>4. InFlight' = InFlight
  BY <1>1, <1>2 DEF InFlight, At
<1> QED
  BY <1>1, <1>3, <1>4 DEF DropInv, LedgerInv

\* Every step keeps the lock over the drop window and the ledger of its markers.
LEMMA DropNext == DropInv /\ [Next]_vars => DropInv'
<1> SUFFICES ASSUME DropInv, [Next]_vars
             PROVE  LockInv' /\ LedgerInv'
  BY TypeNext DEF DropInv
<1>1. CountTypes /\ WorkTypes /\ HandInv
  BY TypeParts DEF DropInv, TypeInv
<1>2. ASSUME UNCHANGED <<emitVars, dropped, pc>>
      PROVE  LockInv' /\ LedgerInv'
  BY <1>2, DropStutter DEF Up
<1>3. ASSUME NEW t \in Threads, NEW label,
             UNCHANGED <<emitVars, dropped>>,
             pc' = [pc EXCEPT ![t] = label],
             {pc[t], label} \cap {"attest", "settle", "down"} = {}
      PROVE  LockInv' /\ LedgerInv'
  <2>1. Up' = Up
    BY <1>1, <1>3 DEF Up, WorkTypes, Threads
  <2>2. \A u \in Threads : pc'[u] = pc[u]
            \/ {pc[u], pc'[u]} \cap {"attest", "settle"} = {}
    BY <1>1, <1>3 DEF WorkTypes
  <2> QED
    BY <1>3, <2>1, <2>2, DropStutter
<1>4. ASSUME NEW s \in Spans, Submit(s)
      PROVE  LockInv' /\ LedgerInv'
  <2>1. CASE Enqueue(s) \/ Overflow(s) \/ SpillSpan(s) \/ SpillFails(s)
    <3>1. UNCHANGED <<emitVars, dropped, pc>>
      BY <2>1 DEF Enqueue, Overflow, SpillSpan, SpillFails, SubmitVars, emitVars,
                  historyVars
    <3> QED
      BY <3>1, <1>2
  <2>2. CASE Drop(s)
    <3>1. Journaled => journal' = undeclared + 1
      BY <1>1, <2>2, JournalFollows DEF Drop, CountTypes
    <3>2. /\ dropped' = dropped + 1 /\ undeclared' = undeclared + 1
          /\ UNCHANGED <<emitter, batch, attested, pc>> /\ Up
      BY <2>2 DEF Drop, SubmitVars
    <3>3. InFlight' = InFlight /\ Up' = Up /\ InFlight \in Nat
      BY <1>1, <3>2 DEF InFlight, At, Up, CountTypes
    <3> QED
      BY <1>1, <3>1, <3>2, <3>3 DEF DropInv, LockInv, LedgerInv, CountTypes
  <2> QED
    BY <1>4, <2>1, <2>2 DEF Submit
<1>5. ASSUME NEW t \in Threads, Emit(t)
      PROVE  LockInv' /\ LedgerInv'
  <2>1. AfterEmit(t) \notin {"attest", "settle", "down"}
    BY DEF AfterEmit
  <2>2. \A u \in Threads : pc[u] \in {"attest", "settle"} => emitter = u
    BY DEF DropInv, LockInv
  <2>3. CASE EmitNothing(t)
    <3>1. UNCHANGED <<emitVars, dropped>> /\ pc' = [pc EXCEPT ![t] = AfterEmit(t)]
          /\ pc[t] = "emit"
      BY <2>3 DEF EmitNothing, EmitUnchanged, historyVars, GoTo, At
    <3> QED
      BY <2>1, <3>1, <1>3
  <2> DEFINE label == pc'[t]
  <2>4. ASSUME pc[t] \in {"emit", "attest", "settle"}, 
               pc' = [pc EXCEPT ![t] = label], label # "down"
        PROVE  Up' = Up /\ \A u \in Threads \ {t} : pc'[u] = pc[u]
    BY <1>1, <2>4 DEF WorkTypes, Up, Threads
  <2>5. CASE EmitBegin(t)
    <3>1. /\ pc[t] = "emit" /\ emitter = None
          /\ emitter' = t /\ batch' = undeclared
          /\ pc' = [pc EXCEPT ![t] = "attest"]
          /\ UNCHANGED <<undeclared, journal, attested, dropped>>
      BY <2>5 DEF EmitBegin, EmitUnchanged, historyVars, GoTo, At
    <3>2. label = "attest"
      BY <1>1, <3>1 DEF WorkTypes
    <3>3. Up' = Up /\ \A u \in Threads \ {t} : pc'[u] = pc[u]
      BY <2>4, <3>1, <3>2
    <3>4. \A u \in Threads : pc[u] \notin {"attest", "settle"}
      BY <2>2, <3>1, PipelineAssumption DEF Threads
    <3>5. InFlight' = 0 /\ InFlight = 0
      BY <3>2, <3>3, <3>4 DEF InFlight, At
    <3> QED
      BY <1>1, <3>1, <3>2, <3>3, <3>4, <3>5, PipelineAssumption
      DEF DropInv, LockInv, LedgerInv, CountTypes, Threads
  <2>6. CASE Attest(t)
    <3>1. /\ pc[t] = "attest" /\ attested' = attested + batch
          /\ pc' = [pc EXCEPT ![t] = "settle"]
          /\ UNCHANGED <<emitter, batch, undeclared, journal, dropped>>
      BY <2>6 DEF Attest, EmitUnchanged, historyVars, GoTo, At
    <3>2. label = "settle"
      BY <1>1, <3>1 DEF WorkTypes
    <3>3. Up' = Up /\ \A u \in Threads \ {t} : pc'[u] = pc[u]
      BY <2>4, <3>1, <3>2
    <3>4. \A u \in Threads : pc[u] # "settle"
      BY <2>2, <3>1
    <3>5. InFlight' = batch /\ InFlight = 0
      BY <3>1, <3>2, <3>4 DEF InFlight, At
    <3> QED
      BY <1>1, <3>1, <3>2, <3>3, <3>5 DEF DropInv, LockInv, LedgerInv, CountTypes
  <2>7. CASE AttestFails(t)
    <3>1. /\ pc[t] = "attest" /\ attested' \in {attested, attested + batch}
          /\ pc' = [pc EXCEPT ![t] = AfterEmit(t)]
          /\ emitter' = None /\ batch' = 0
          /\ UNCHANGED <<undeclared, journal, dropped>>
      BY <2>7 DEF AttestFails, EmitUnchanged, historyVars, GoTo, At
    <3>2. label = AfterEmit(t)
      BY <1>1, <3>1 DEF WorkTypes
    <3>3. Up' = Up /\ \A u \in Threads \ {t} : pc'[u] = pc[u]
      BY <2>1, <2>4, <3>1, <3>2
    <3>4. \A u \in Threads : pc'[u] \notin {"attest", "settle"}
      BY <2>1, <2>2, <3>1, <3>2, <3>3
    <3>5. InFlight' = 0 /\ InFlight \in Nat
      BY <1>1, <3>4 DEF InFlight, At, CountTypes
    <3> QED
      BY <1>1, <3>1, <3>3, <3>4, <3>5, PipelineAssumption
      DEF DropInv, LockInv, LedgerInv, CountTypes, Threads
  <2>8. CASE Settle(t)
    <3>1. /\ pc[t] = "settle"
          /\ undeclared' = IF undeclared > batch THEN undeclared - batch ELSE 0
          /\ pc' = [pc EXCEPT ![t] = AfterEmit(t)]
          /\ emitter' = None /\ batch' = 0
          /\ UNCHANGED <<attested, dropped>>
      BY <2>8 DEF Settle, EmitUnchanged, historyVars, GoTo, At
    <3>2. undeclared' = undeclared - batch /\ undeclared' \in Nat
      BY <1>1, <3>1 DEF DropInv, LockInv, CountTypes
    <3>3. Journaled => journal' = undeclared'
      BY <2>8, <3>2, JournalFollows DEF Settle
    <3>4. label = AfterEmit(t)
      BY <1>1, <3>1 DEF WorkTypes
    <3>5. Up' = Up /\ \A u \in Threads \ {t} : pc'[u] = pc[u]
      BY <2>1, <2>4, <3>1, <3>4
    <3>6. \A u \in Threads : pc'[u] \notin {"attest", "settle"}
      BY <2>1, <2>2, <3>1, <3>4, <3>5
    <3>7. InFlight' = 0 /\ InFlight = batch
      BY <3>1, <3>6 DEF InFlight, At
    <3>8. Up
      BY <1>1, <3>1 DEF Up, HandInv, Threads
    <3> QED
      BY <1>1, <3>1, <3>2, <3>3, <3>5, <3>6, <3>7, <3>8, PipelineAssumption
      DEF DropInv, LockInv, LedgerInv, CountTypes, Threads
  <2> QED
    BY <1>5, <2>3, <2>5, <2>6, <2>7, <2>8 DEF Emit
<1>6. ASSUME NEW t \in Threads, Drain(t)
      PROVE  LockInv' /\ LedgerInv'
  <2>1. UNCHANGED <<emitVars, dropped>> /\ pc[t] = "draining"
    BY <1>1, <1>6 DEF Drain, SkipDrain, EnterDrain, DrainLine, EndDrain, DrainFails,
          DrainUnchanged, historyVars, HandInv, At
  <2>2. \/ UNCHANGED pc
        \/ pc' = [pc EXCEPT ![t] = AfterDrain(t)]
        \/ pc' = [pc EXCEPT ![t] = DrainRaised(t)]
    BY <1>6 DEF Drain, SkipDrain, EnterDrain, DrainLine, EndDrain, DrainFails,
          LeaveDrain, GoTo
  <2>3. {AfterDrain(t), DrainRaised(t)} \cap {"attest", "settle", "down"} = {}
    BY DEF AfterDrain, DrainRaised
  <2> QED
    BY <2>1, <2>2, <2>3, <1>2, <1>3
<1>7. CASE Worker
  <2>1. UNCHANGED <<emitVars, dropped>>
    BY <1>7 DEF Worker, GetItem, GetTimeout, Normalize, Commit, CommitFails, TaskDone,
          CommitUnchanged, historyVars
  <2>2. /\ pc["worker"] \in {"get", "normalize", "commit", "done"}
        /\ \E label \in {"emit", "draining", "done", "commit"} :
               UNCHANGED pc \/ pc' = [pc EXCEPT !["worker"] = label]
    BY <1>7 DEF Worker, GetItem, GetTimeout, Normalize, Commit, CommitFails, TaskDone,
          GoTo, At
  <2>3. "worker" \in Threads
    BY DEF Threads
  <2> QED
    BY <2>1, <2>2, <2>3, <1>2, <1>3
<1>8. CASE Flusher
  <2>1. UNCHANGED <<emitVars, dropped>>
    BY <1>8 DEF Flusher, Flush, Join, Pending, FlushReturns, FlushUnchanged, historyVars
  <2>2. /\ pc["flusher"] \in {"idle", "join", "rejoin", "pending", "repending", "flushed"}
        /\ \E label \in {"idle", "draining", "pending", "emit", "rejoin", "repending"} :
               pc' = [pc EXCEPT !["flusher"] = label]
    BY <1>8 DEF Flusher, Flush, Join, Pending, FlushReturns, GoTo, At
  <2>3. "flusher" \in Threads
    BY DEF Threads
  <2> QED
    BY <2>1, <2>2, <2>3, <1>3
<1>9. CASE Stop \/ UNCHANGED vars
  BY <1>9, <1>2 DEF Stop, vars, historyVars
<1>10. CASE Crash
  <2>1. /\ pc' = [t \in Threads |-> "down"] /\ emitter' = None /\ batch' = 0
        /\ undeclared' = 0 /\ UNCHANGED <<journal, attested, dropped>>
    BY <1>10 DEF Crash, historyVars
  <2>2. InFlight' = 0 /\ InFlight \in Nat /\ ~Up'
    BY <1>1, <2>1 DEF InFlight, At, CountTypes, Up, Threads
  <2>3. ~Deathless /\ Up
    BY <1>10 DEF Crash, Fault, Deathless
  <2> QED
    BY <1>1, <2>1, <2>2, <2>3, PipelineAssumption
    DEF DropInv, LockInv, LedgerInv, CountTypes, Threads
<1>11. CASE Restart
  <2>1. /\ pc' = [t \in Threads |-> IF t = "worker" THEN "get" ELSE "idle"]
        /\ undeclared' = journal /\ UNCHANGED <<emitter, batch, journal, attested, dropped>>
        /\ pc["worker"] = "down"
    BY <1>11 DEF Restart, historyVars, Up
  <2>2. pc["flusher"] = "down"
    BY <1>1, <2>1 DEF HandInv
  <2>3. emitter \notin Threads /\ batch = 0
    BY <1>1, <2>1, <2>2 DEF DropInv, LockInv, CountTypes, Threads
  <2>4. \A t \in Threads : pc'[t] \notin {"attest", "settle"}
    BY <2>1
  <2>5. InFlight' = 0 /\ InFlight \in Nat
    BY <1>1, <2>4 DEF InFlight, At, CountTypes
  <2>6. ~Up /\ Up'
    BY <2>1 DEF Up, Threads
  <2> QED
    BY <1>1, <2>1, <2>3, <2>4, <2>5, <2>6, PipelineAssumption
    DEF DropInv, LockInv, LedgerInv, CountTypes, Threads
<1> QED
  BY <1>4, <1>5, <1>6, <1>7, <1>8, <1>9, <1>10, <1>11 DEF Next

\* The first state has this invariant.
LEMMA DropInit == Init => DropInv
<1> SUFFICES ASSUME Init
             PROVE  LockInv /\ LedgerInv
  BY TypeInit DEF DropInv
<1>1. \A t \in Threads : pc[t] \in {"get", "idle"}
  BY DEF Init
<1>2. emitter = None /\ batch = 0 /\ undeclared = 0 /\ journal = 0
      /\ attested = 0 /\ dropped = 0
  BY DEF Init
<1>3. InFlight = 0
  BY <1>1 DEF InFlight, At
<1>4. Up
  BY <1>1 DEF Up, Threads
<1> QED
  BY <1>1, <1>2, <1>3, <1>4, PipelineAssumption DEF LockInv, LedgerInv, Threads

\* pipeline.py:171-177: with a journal whose writes succeed, no drop is forgotten,
\* whatever the interleaving of submit(), the two callers of the marker's commit
\* and any number of crashes; nor without a journal, in a process that does not die.
THEOREM DropsRemembered ==
    ASSUME Journaled \/ (Deathless /\ ~HasJournal)
    PROVE  Spec => []NoDropForgotten
<1>1. DropInv => NoDropForgotten
  <2> SUFFICES ASSUME DropInv
               PROVE  NoDropForgotten
    OBVIOUS
  <2>1. CountTypes /\ InFlight \in Nat
    BY TypeParts DEF DropInv, TypeInv, CountTypes, InFlight
  <2>2. dropped + InFlight <= attested + (IF HasJournal THEN journal ELSE undeclared)
    BY DEF DropInv, LedgerInv, Journaled
  <2> QED
    BY <2>1, <2>2 DEF NoDropForgotten, CountTypes
<1>2. DropInv /\ [Next]_vars => DropInv'
  BY DropNext
<1> QED
  BY <1>1, <1>2, DropInit, PTL DEF Spec

(***************************************************************************)
(* The position of a marker.  The worker takes note of the drops when it    *)
(* gets an item; it leaves the marker's call with all of them declared, and *)
(* nothing un-declares them.                                               *)
(***************************************************************************)
\* The commits of the markers succeed.
MarkersCommit == {"commit", "fsync"} \cap Faults = {}

SeenInv ==
    /\ seen <= dropped
    /\ At("worker", "attest") => seen <= attested + batch
    /\ ~At("worker", "emit") /\ ~At("worker", "attest") => seen <= attested

\* Every step keeps what a drop marker has seen declared, if markers commit.
LEMMA SeenNext ==
    MarkersCommit /\ (Journaled \/ Deathless) /\ DropInv /\ SeenInv /\ [Next]_vars => SeenInv'
<1> SUFFICES ASSUME MarkersCommit, Journaled \/ Deathless, DropInv, SeenInv, [Next]_vars
             PROVE  SeenInv'
  OBVIOUS
<1>1. CountTypes /\ WorkTypes /\ HandInv
  BY TypeParts DEF DropInv, TypeInv
<1>2. ASSUME UNCHANGED <<attested, seen>>, dropped' \in {dropped, dropped + 1},
             UNCHANGED batch \/ ~At("worker", "attest"),
             \/ pc'["worker"] = pc["worker"]
             \/ {pc["worker"], pc'["worker"]} \cap {"emit", "attest"} = {}
             \/ pc'["worker"] = "emit"
      PROVE  SeenInv'
  <2>1. {attested, seen, dropped, batch} \subseteq Nat
    BY <1>1 DEF CountTypes
  <2>2. seen' <= dropped'
    BY <1>2, <2>1 DEF SeenInv
  <2>3. CASE pc'["worker"] = pc["worker"]
    BY <1>2, <2>1, <2>2, <2>3 DEF SeenInv, At
  <2>4. CASE {pc["worker"], pc'["worker"]} \cap {"emit", "attest"} = {}
    <3>1. pc["worker"] \notin {"emit", "attest"} /\ pc'["worker"] \notin {"emit", "attest"}
      BY <2>4
    <3> QED
      BY <1>2, <2>2, <3>1 DEF SeenInv, At
  <2>5. CASE pc'["worker"] = "emit"
    BY <2>2, <2>5 DEF SeenInv, At
  <2> QED
    BY <1>2, <2>3, <2>4, <2>5
<1>3. ASSUME NEW s \in Spans, Submit(s)
      PROVE  SeenInv'
  <2>1. /\ UNCHANGED <<attested, seen, batch, pc>> /\ dropped' \in {dropped, dropped + 1}
    BY <1>3 DEF Submit, Enqueue, Overflow, SpillSpan, SpillFails, Drop, SubmitVars,
                workVars, emitVars, historyVars
  <2> QED
    BY <2>1, <1>2
<1>4. ASSUME NEW t \in Threads, Drain(t)
      PROVE  SeenInv'
  <2>1. UNCHANGED <<attested, seen, batch, dropped>>
    BY <1>4 DEF Drain, SkipDrain, EnterDrain, DrainLine, EndDrain, DrainFails,
          DrainUnchanged, historyVars, emitVars
  <2>2. \/ UNCHANGED pc
        \/ /\ pc[t] = "draining"
           /\ \E label \in {AfterDrain(t), DrainRaised(t)} : pc' = [pc EXCEPT ![t] = label]
    BY <1>1, <1>4 DEF Drain, SkipDrain, EnterDrain, DrainLine, EndDrain, DrainFails,
          LeaveDrain, GoTo, HandInv, At
  <2>3. {AfterDrain(t), DrainRaised(t)} \subseteq {"emit", "join", "get", "exited", "dead", "idle"}
    BY DEF AfterDrain, DrainRaised
  <2>4. \/ pc'["worker"] = pc["worker"]
        \/ pc["worker"] = "draining"
            /\ pc'["worker"] \in {"emit", "join", "get", "exited", "dead", "idle"}
    <3>1. ASSUME NEW label, pc' = [pc EXCEPT ![t] = label], pc[t] = "draining"
          PROVE  \/ pc'["worker"] = pc["worker"]
                 \/ pc["worker"] = "draining" /\ pc'["worker"] = label
      BY <1>1, <3>1 DEF WorkTypes
    <3> QED
      BY <2>2, <2>3, <3>1
  <2> QED
    BY <2>1, <2>4, <1>2
<1>5. ASSUME NEW t \in Threads, Emit(t)
      PROVE  SeenInv'
  <2>1. /\ UNCHANGED <<seen, dropped>> /\ {attested, seen, dropped, batch, undeclared} \subseteq Nat
    BY <1>1, <1>5 DEF CountTypes, Emit, EmitNothing, EmitBegin, Attest, AttestFails, Settle,
          EmitUnchanged, workVars, historyVars
  <2>2. AfterEmit(t) \notin {"emit", "attest", "settle", "down"}
    BY DEF AfterEmit
  <2>3. \A u \in Threads : pc[u] \in {"attest", "settle"} => emitter = u
    BY DEF DropInv, LockInv
  <2>4. Up
    BY <1>1, <1>5 DEF Emit, EmitNothing, EmitBegin, Attest, AttestFails, Settle, Up, HandInv, At,
          Threads
  <2>5. emitter = None => dropped <= attested + undeclared
    <3>1. emitter = None => InFlight = 0
      BY <2>3, PipelineAssumption DEF InFlight, At, Threads
    <3> QED
      BY <2>1, <2>4, <3>1 DEF DropInv, LedgerInv
  <2>6. CASE EmitNothing(t)
    <3>1. /\ emitter = None /\ undeclared = 0 /\ UNCHANGED <<attested, batch>>
          /\ pc' = [pc EXCEPT ![t] = AfterEmit(t)] /\ pc[t] = "emit"
      BY <2>6 DEF EmitNothing, emitVars, GoTo, At
    <3>2. seen <= attested
      BY <2>1, <2>5, <3>1 DEF SeenInv
    <3>3. pc'["worker"] \in {pc["worker"], AfterEmit(t)}
      BY <1>1, <3>1 DEF WorkTypes
    <3> QED
      BY <2>1, <2>2, <3>1, <3>2, <3>3 DEF SeenInv, At
  <2>7. CASE EmitBegin(t)
    <3>1. /\ emitter = None /\ batch' = undeclared /\ UNCHANGED attested
          /\ pc' = [pc EXCEPT ![t] = "attest"] /\ pc[t] = "emit"
      BY <2>7 DEF EmitBegin, GoTo, At
    <3>2. seen <= attested + batch'
      BY <2>1, <2>5, <3>1 DEF SeenInv
    <3>3. pc["worker"] # "attest" /\ pc'["worker"] \in {pc["worker"], "attest"}
      BY <1>1, <2>3, <3>1, PipelineAssumption DEF WorkTypes, Threads
    <3> QED
      BY <2>1, <3>1, <3>2, <3>3 DEF SeenInv, At
  <2>8. CASE Attest(t)
    <3>1. /\ pc[t] = "attest" /\ attested' = attested + batch /\ UNCHANGED batch
          /\ pc' = [pc EXCEPT ![t] = "settle"]
      BY <2>8 DEF Attest, GoTo, At
    <3>2. CASE t = "worker"
      <4>1. pc'["worker"] = "settle"
        BY <1>1, <3>1, <3>2 DEF WorkTypes
      <4> QED
        BY <2>1, <3>1, <3>2, <4>1 DEF SeenInv, At
    <3>3. CASE t # "worker"
      <4>1. pc'["worker"] = pc["worker"]
        BY <1>1, <3>1, <3>3 DEF WorkTypes
      <4> QED
        BY <2>1, <3>1, <4>1 DEF SeenInv, At
    <3> QED
      BY <3>2, <3>3
  <2>9. CASE AttestFails(t)
    BY <2>9 DEF AttestFails, MarkersCommit, Fault
  <2>10. CASE Settle(t)
    <3>1. /\ pc[t] = "settle" /\ UNCHANGED attested
          /\ pc' = [pc EXCEPT ![t] = AfterEmit(t)]
      BY <2>10 DEF Settle, EmitUnchanged, GoTo, At
    <3>2. pc["worker"] # "attest"
      BY <2>3, <3>1 DEF Threads
    <3>3. \/ pc'["worker"] = pc["worker"]
          \/ pc["worker"] = "settle" /\ pc'["worker"] = AfterEmit(t)
      BY <1>1, <3>1 DEF WorkTypes
    <3> QED
      BY <2>1, <2>2, <3>1, <3>2, <3>3 DEF SeenInv, At
  <2> QED
    BY <1>5, <2>6, <2>7, <2>8, <2>9, <2>10 DEF Emit
<1>6. CASE GetItem
  <2>1. seen' = dropped /\ dropped' = dropped /\ pc' = [pc EXCEPT !["worker"] = "emit"]
    BY <1>6 DEF GetItem, historyVars, GoTo
  <2>2. pc'["worker"] = "emit" /\ dropped \in Nat
    BY <1>1, <2>1 DEF WorkTypes, Threads, CountTypes
  <2> QED
    BY <2>1, <2>2 DEF SeenInv, At
<1>7. CASE GetTimeout \/ Normalize \/ Commit \/ CommitFails \/ TaskDone
  <2>1. /\ UNCHANGED <<attested, seen, batch, dropped>>
        /\ pc["worker"] \in {"get", "normalize", "commit", "done"}
        /\ \E label \in {"draining", "done", "commit"} :
               UNCHANGED pc \/ pc' = [pc EXCEPT !["worker"] = label]
    BY <1>7 DEF GetTimeout, Normalize, Commit, CommitFails, TaskDone, CommitUnchanged,
          workVars, emitVars, historyVars, GoTo, At
  <2>2. pc'["worker"] \in {pc["worker"], "draining", "done", "commit"}
    BY <1>1, <2>1 DEF WorkTypes
  <2> QED
    BY <2>1, <2>2, <1>2
<1>8. CASE Flusher
  <2>1. /\ UNCHANGED <<attested, seen, batch, dropped>>
        /\ \E label : pc' = [pc EXCEPT !["flusher"] = label]
    BY <1>8 DEF Flusher, Flush, Join, Pending, FlushReturns, FlushUnchanged, workVars, emitVars,
          historyVars, GoTo
  <2>2. pc'["worker"] = pc["worker"]
    BY <1>1, <2>1 DEF WorkTypes, Threads
  <2> QED
    BY <2>1, <2>2, <1>2
<1>9. CASE Stop \/ UNCHANGED vars
  BY <1>9, <1>2 DEF Stop, vars, workVars, emitVars, historyVars
<1>10. CASE Crash
  <2>1. seen' = 0 /\ UNCHANGED <<attested, dropped>> /\ pc'["worker"] = "down"
    BY <1>10 DEF Crash, historyVars, Threads
  <2> QED
    BY <1>1, <2>1 DEF SeenInv, At, CountTypes
<1>11. CASE Restart
  <2>1. /\ UNCHANGED <<attested, seen, batch, dropped>>
        /\ pc["worker"] = "down" /\ pc'["worker"] = "get"
    BY <1>11 DEF Restart, workVars, historyVars, Up, Threads
  <2> QED
    BY <2>1, <1>2
<1> QED
  BY <1>3, <1>4, <1>5, <1>6, <1>7, <1>8, <1>9, <1>10, <1>11 DEF Next, Worker

\* pipeline.py:236-237: when the commits of markers succeed, a drop seen before a span
\* is attested before that span commits, and one seen before the Sentinel before the
\* worker ends; over restarts too, if the journal's writes succeed.
THEOREM MarkersPrecedeSpans ==
    ASSUME MarkersCommit, Journaled \/ Deathless
    PROVE  Spec => []DropsAttestedFirst
<1>1. DropInv /\ SeenInv /\ [Next]_vars => (DropInv /\ SeenInv)'
  BY DropNext, SeenNext
<1>2. Init => SeenInv
  BY DEF Init, SeenInv, At
<1>3. SeenInv => DropsAttestedFirst
  BY DEF SeenInv, DropsAttestedFirst, At
<1> QED
  BY <1>1, <1>2, <1>3, DropInit, PTL DEF Spec
(***************************************************************************)
(* Repetition.  What a step does to the counts of drops, and so how often a *)
(* drop can be declared: once, and once more for each fault.               *)
(***************************************************************************)
Undisturbed == UNCHANGED <<undeclared, journal, attested, dropped, InFlight, Up>>

Counted ==
    /\ Up /\ Up' /\ dropped' = dropped + 1 /\ undeclared' = undeclared + 1
    /\ journal' \in {journal, undeclared + 1}
    /\ UNCHANGED <<attested, InFlight>>

Declared ==
    /\ Up /\ Up' /\ InFlight = 0 /\ UNCHANGED <<undeclared, journal, dropped>>
    /\ attested' = attested + batch
    /\ \/ InFlight' = batch
       \/ InFlight' = 0 /\ "fsync" \in Faults /\ faults' = faults + 1

Subtracted ==
    /\ Up /\ Up' /\ InFlight = batch /\ InFlight' = 0
    /\ undeclared' = undeclared - batch
    /\ journal' \in {journal, undeclared'}
    /\ UNCHANGED <<attested, dropped>>

Died ==
    /\ Up /\ ~Up' /\ InFlight' = 0 /\ faults' = faults + 1 /\ ~Deathless
    /\ undeclared' = 0
    /\ UNCHANGED <<journal, attested, dropped>>

Recovered ==
    /\ ~Up /\ Up' /\ InFlight = 0 /\ InFlight' = 0
    /\ undeclared' = journal
    /\ UNCHANGED <<journal, attested, dropped>>

CountStep ==
    /\ faults' \in {faults, faults + 1}
    /\ Undisturbed \/ Counted \/ Declared \/ Subtracted \/ Died \/ Recovered

\* Each step of the pipeline is, for the counters of dropped spans, one of a few.
LEMMA NextIsCountStep == DropInv /\ [Next]_vars => CountStep
<1> SUFFICES ASSUME DropInv, [Next]_vars
             PROVE  CountStep
  OBVIOUS
<1>1. CountTypes /\ WorkTypes /\ HandInv
  BY TypeParts DEF DropInv, TypeInv
<1>2. \A u \in Threads : pc[u] \in {"attest", "settle"} <=> emitter = u
  BY DEF DropInv, LockInv
<1>3. faults' \in {faults, faults + 1}
  <2>1. ASSUME NEW s \in Spans, Submit(s)
        PROVE  faults' \in {faults, faults + 1}
    BY <2>1 DEF Submit, Enqueue, Overflow, SpillSpan, SpillFails, Drop, JournalBecomes, Fault,
                NoFault
  <2>2. ASSUME NEW t \in Threads, Emit(t)
        PROVE  faults' \in {faults, faults + 1}
    BY <2>2 DEF Emit, EmitNothing, EmitBegin, Attest, AttestFails, Settle, JournalBecomes, Fault,
                NoFault
  <2>3. ASSUME NEW t \in Threads, Drain(t)
        PROVE  faults' \in {faults, faults + 1}
    BY <2>3 DEF Drain, SkipDrain, EnterDrain, DrainLine, EndDrain, DrainFails, Fault, NoFault
  <2>4. CASE Worker
    BY <2>4 DEF Worker, GetItem, GetTimeout, Normalize, Commit, CommitFails, TaskDone, Fault
  <2>5. CASE Flusher \/ Stop
    BY <2>5 DEF Flusher, Flush, Join, Pending, FlushReturns, FlushUnchanged, Stop
  <2>6. CASE Crash \/ Restart \/ UNCHANGED vars
    BY <2>6 DEF Crash, Restart, Fault, vars
  <2> QED
    BY <2>1, <2>2, <2>3, <2>4, <2>5, <2>6 DEF Next
<1>4. ASSUME UNCHANGED <<emitVars, dropped, pc>>
      PROVE  CountStep
  BY <1>3, <1>4 DEF CountStep, Undisturbed, emitVars, InFlight, At, Up
<1>5. ASSUME NEW t \in Threads, NEW label,
             UNCHANGED <<undeclared, journal, attested, dropped>>,
             pc' = [pc EXCEPT ![t] = label],
             {pc[t], label} \cap {"settle", "down"} = {},
             UNCHANGED batch \/ \A u \in Threads : pc[u] # "settle"
      PROVE  CountStep
  <2>1. Up' = Up
    BY <1>1, <1>5 DEF Up, WorkTypes, Threads
  <2>2. \A u \in Threads : pc'[u] = "settle" <=> pc[u] = "settle"
    BY <1>1, <1>5 DEF WorkTypes
  <2>3. InFlight' = InFlight
    BY <1>5, <2>2 DEF InFlight, At
  <2> QED
    BY <1>3, <1>5, <2>1, <2>3 DEF CountStep, Undisturbed
<1>6. ASSUME NEW s \in Spans, Submit(s)
      PROVE  CountStep
  <2>1. CASE Enqueue(s) \/ Overflow(s) \/ SpillSpan(s) \/ SpillFails(s)
    <3>1. UNCHANGED <<emitVars, dropped, pc>>
      BY <2>1 DEF Enqueue, Overflow, SpillSpan, SpillFails, SubmitVars, emitVars, historyVars
    <3> QED
      BY <3>1, <1>4
  <2>2. CASE Drop(s)
    <3>1. /\ dropped' = dropped + 1 /\ undeclared' = undeclared + 1
          /\ UNCHANGED <<emitter, batch, attested, pc>> /\ Up
      BY <2>2 DEF Drop, SubmitVars
    <3>2. journal' \in {journal, undeclared + 1}
      BY <2>2 DEF Drop, JournalBecomes
    <3>3. InFlight' = InFlight /\ Up'
      BY <3>1 DEF InFlight, At, Up
    <3> QED
      BY <1>3, <3>1, <3>2, <3>3 DEF CountStep, Counted
  <2> QED
    BY <1>6, <2>1, <2>2 DEF Submit
<1>7. ASSUME NEW t \in Threads, Emit(t)
      PROVE  CountStep
  <2>1. AfterEmit(t) \notin {"attest", "settle", "down"}
    BY DEF AfterEmit
  <2>2. /\ pc[t] \in {"emit", "attest", "settle"} /\ Up
    BY <1>1, <1>7 DEF Emit, EmitNothing, EmitBegin, Attest, AttestFails, Settle, At, Up, HandInv,
                Threads
  <2>3. ASSUME NEW label, label # "down", pc' = [pc EXCEPT ![t] = label]
        PROVE  Up' /\ pc'[t] = label /\ \A u \in Threads \ {t} : pc'[u] = pc[u]
    BY <1>1, <2>2, <2>3 DEF WorkTypes, Up, Threads
  <2>4. CASE EmitNothing(t)
    <3>1. /\ UNCHANGED <<emitVars, dropped>> /\ pc' = [pc EXCEPT ![t] = AfterEmit(t)]
          /\ pc[t] = "emit"
      BY <2>4 DEF EmitNothing, EmitUnchanged, historyVars, GoTo, At
    <3> QED
      BY <2>1, <3>1, <1>5 DEF emitVars
  <2>5. CASE EmitBegin(t)
    <3>1. /\ pc[t] = "emit" /\ emitter = None
          /\ pc' = [pc EXCEPT ![t] = "attest"]
          /\ UNCHANGED <<undeclared, journal, attested, dropped>>
      BY <2>5 DEF EmitBegin, EmitUnchanged, historyVars, GoTo, At
    <3>2. \A u \in Threads : pc[u] # "settle"
      BY <1>2, <3>1, PipelineAssumption DEF Threads
    <3> QED
      BY <3>1, <3>2, <1>5
  <2>6. ASSUME pc[t] = "attest"
        PROVE  InFlight = 0
    <3>1. \A u \in Threads : pc[u] # "settle"
      BY <1>2, <2>6
    <3> QED
      BY <3>1 DEF InFlight, At
  <2>7. CASE Attest(t)
    <3>1. /\ pc[t] = "attest" /\ attested' = attested + batch
          /\ pc' = [pc EXCEPT ![t] = "settle"]
          /\ UNCHANGED <<batch, undeclared, journal, dropped>>
      BY <2>7 DEF Attest, EmitUnchanged, historyVars, GoTo, At
    <3>2. Up' /\ pc'[t] = "settle"
      BY <2>3, <3>1
    <3>3. InFlight' = batch
      BY <3>1, <3>2 DEF InFlight, At
    <3> QED
      BY <1>3, <2>2, <2>6, <3>1, <3>2, <3>3 DEF CountStep, Declared
  <2>8. CASE AttestFails(t)
    <3>1. /\ pc[t] = "attest" /\ pc' = [pc EXCEPT ![t] = AfterEmit(t)]
          /\ UNCHANGED <<undeclared, journal, dropped>>
          /\ \/ attested' = attested
             \/ attested' = attested + batch /\ "fsync" \in Faults /\ faults' = faults + 1
      BY <2>8 DEF AttestFails, Fault, EmitUnchanged, historyVars, GoTo, At
    <3>2. Up' /\ pc'[t] = AfterEmit(t) /\ \A u \in Threads \ {t} : pc'[u] = pc[u]
      BY <2>1, <2>3, <3>1
    <3>3. \A u \in Threads : pc'[u] # "settle"
      BY <1>2, <2>1, <3>1, <3>2
    <3>4. InFlight' = 0 /\ InFlight = 0
      BY <3>1, <3>3, <2>6 DEF InFlight, At
    <3>5. CASE attested' = attested
      BY <1>3, <2>2, <3>1, <3>2, <3>4, <3>5 DEF CountStep, Undisturbed
    <3>6. CASE attested' = attested + batch /\ "fsync" \in Faults /\ faults' = faults + 1
      BY <1>3, <2>2, <3>1, <3>2, <3>4, <3>6 DEF CountStep, Declared
    <3> QED
      BY <3>1, <3>5, <3>6
  <2>9. CASE Settle(t)
    <3>1. /\ pc[t] = "settle"
          /\ undeclared' = IF undeclared > batch THEN undeclared - batch ELSE 0
          /\ pc' = [pc EXCEPT ![t] = AfterEmit(t)]
          /\ journal' \in {journal, undeclared'}
          /\ UNCHANGED <<attested, dropped>>
      BY <2>9 DEF Settle, JournalBecomes, EmitUnchanged, historyVars, GoTo, At
    <3>2. undeclared' = undeclared - batch
      BY <1>1, <3>1 DEF DropInv, LockInv, CountTypes
    <3>3. Up' /\ pc'[t] = AfterEmit(t) /\ \A u \in Threads \ {t} : pc'[u] = pc[u]
      BY <2>1, <2>3, <3>1
    <3>4. \A u \in Threads : pc'[u] # "settle"
      BY <1>2, <2>1, <3>1, <3>3
    <3>5. InFlight' = 0 /\ InFlight = batch
      BY <3>1, <3>4 DEF InFlight, At
    <3> QED
      BY <1>3, <2>2, <3>1, <3>2, <3>3, <3>5 DEF CountStep, Subtracted
  <2> QED
    BY <1>7, <2>4, <2>5, <2>7, <2>8, <2>9 DEF Emit
<1>8. ASSUME NEW t \in Threads, Drain(t)
      PROVE  CountStep
  <2>1. UNCHANGED <<emitVars, dropped>> /\ pc[t] = "draining"
    BY <1>1, <1>8 DEF Drain, SkipDrain, EnterDrain, DrainLine, EndDrain, DrainFails,
          DrainUnchanged, historyVars, HandInv, At
  <2>2. \/ UNCHANGED pc
        \/ pc' = [pc EXCEPT ![t] = AfterDrain(t)]
        \/ pc' = [pc EXCEPT ![t] = DrainRaised(t)]
    BY <1>8 DEF Drain, SkipDrain, EnterDrain, DrainLine, EndDrain, DrainFails,
          LeaveDrain, GoTo
  <2>3. {AfterDrain(t), DrainRaised(t)} \cap {"settle", "down"} = {}
    BY DEF AfterDrain, DrainRaised
  <2> QED
    BY <2>1, <2>2, <2>3, <1>4, <1>5 DEF emitVars
<1>9. CASE Worker
  <2>1. UNCHANGED <<emitVars, dropped>>
    BY <1>9 DEF Worker, GetItem, GetTimeout, Normalize, Commit, CommitFails, TaskDone,
          CommitUnchanged, historyVars
  <2>2. /\ pc["worker"] \in {"get", "normalize", "commit", "done"}
        /\ \E label \in {"emit", "draining", "done", "commit"} :
               UNCHANGED pc \/ pc' = [pc EXCEPT !["worker"] = label]
    BY <1>9 DEF Worker, GetItem, GetTimeout, Normalize, Commit, CommitFails, TaskDone,
          GoTo, At
  <2>3. "worker" \in Threads
    BY DEF Threads
  <2> QED
    BY <2>1, <2>2, <2>3, <1>4, <1>5 DEF emitVars
<1>10. CASE Flusher
  <2>1. UNCHANGED <<emitVars, dropped>>
    BY <1>10 DEF Flusher, Flush, Join, Pending, FlushReturns, FlushUnchanged, historyVars
  <2>2. /\ pc["flusher"] \in {"idle", "join", "rejoin", "pending", "repending", "flushed"}
        /\ \E label \in {"idle", "draining", "pending", "emit", "rejoin", "repending"} :
               pc' = [pc EXCEPT !["flusher"] = label]
    BY <1>10 DEF Flusher, Flush, Join, Pending, FlushReturns, GoTo, At
  <2>3. "flusher" \in Threads
    BY DEF Threads
  <2> QED
    BY <2>1, <2>2, <2>3, <1>5 DEF emitVars
<1>11. CASE Stop \/ UNCHANGED vars
  BY <1>11, <1>4 DEF Stop, vars, historyVars
<1>12. CASE Crash
  <2>1. /\ pc' = [t \in Threads |-> "down"] /\ UNCHANGED <<journal, attested, dropped>> /\ Up
        /\ undeclared' = 0
        /\ faults' = faults + 1 /\ ~Deathless
    BY <1>12 DEF Crash, historyVars, Fault, Deathless
  <2>2. InFlight' = 0 /\ ~Up'
    BY <2>1 DEF InFlight, At, Up, Threads
  <2> QED
    BY <1>3, <2>1, <2>2 DEF CountStep, Died
<1>13. CASE Restart
  <2>1. /\ pc' = [t \in Threads |-> IF t = "worker" THEN "get" ELSE "idle"]
        /\ undeclared' = journal /\ UNCHANGED <<batch, journal, attested, dropped>>
        /\ pc["worker"] = "down"
    BY <1>13 DEF Restart, historyVars, Up
  <2>2. pc["flusher"] = "down"
    BY <1>1, <2>1 DEF HandInv
  <2>3. \A t \in Threads : pc[t] # "settle" /\ pc'[t] # "settle"
    BY <2>1, <2>2 DEF Threads
  <2>4. InFlight' = 0 /\ InFlight = 0
    BY <2>3 DEF InFlight, At
  <2>5. ~Up /\ Up'
    BY <2>1 DEF Up, Threads
  <2> QED
    BY <1>3, <2>1, <2>4, <2>5 DEF CountStep, Recovered
<1> QED
  BY <1>6, <1>7, <1>8, <1>9, <1>10, <1>11, <1>12, <1>13 DEF Next

\* What n faults allow to be declared of d drops.
Budget(n, d) == (1 + n) * d

\* How the bound on what is declared grows with a fault and with a dropped span.
LEMMA BudgetGrows ==
    ASSUME NEW n \in Nat, NEW d \in Nat
    PROVE  /\ Budget(n, d) \in Nat /\ d <= Budget(n, d)
           /\ Budget(n + 1, d) = Budget(n, d) + d
           /\ Budget(n, d + 1) = Budget(n, d) + n + 1
           /\ Budget(n + 1, d + 1) = Budget(n, d) + n + 1 + d + 1
BY DEF Budget

\* Without a crash, and without a commit that raises after it was made, there is no
\* second declaration at all.
Reliable == Deathless /\ "fsync" \notin Faults

DeclareInv ==
    /\ undeclared <= dropped /\ journal <= dropped
    /\ attested + (IF Up THEN undeclared ELSE journal) <= Budget(faults, dropped) + InFlight
    /\ Reliable => Up /\ attested + undeclared = dropped + InFlight

\* Every step keeps what is declared within the bound.
LEMMA DeclareNext == DropInv /\ DeclareInv /\ [Next]_vars => DeclareInv'
<1> SUFFICES ASSUME DropInv, DeclareInv, [Next]_vars
             PROVE  DeclareInv'
  OBVIOUS
<1>1. CountStep
  BY NextIsCountStep
<1>2. CountTypes /\ LockInv
  BY TypeParts DEF DropInv, TypeInv
<1>3. PICK f \in Nat, d \in Nat, u \in Nat, j \in Nat, a \in Nat, b \in Nat, k \in Nat :
          /\ f = faults /\ d = dropped /\ u = undeclared /\ j = journal /\ a = attested
          /\ b = batch /\ k = InFlight
  <2>1. InFlight \in Nat /\ faults \in Nat
    BY <1>2 DEF InFlight, CountTypes
  <2> QED
    BY <1>2, <2>1 DEF CountTypes
<1>4. b <= u /\ u <= d /\ j <= d /\ k <= b
  BY <1>2, <1>3 DEF LockInv, DeclareInv, InFlight
<1>5. PICK B \in Nat : B = Budget(f, d)
  BY BudgetGrows
<1>6. d <= B /\ Budget(f + 1, d) = B + d /\ Budget(f, d + 1) = B + f + 1
      /\ Budget(f + 1, d + 1) = B + f + 1 + d + 1
  BY <1>5, BudgetGrows
<1>7. /\ Up => a + u <= B + k
      /\ ~Up => a + j <= B + k
      /\ Reliable => Up /\ a + u = d + k
  BY <1>3, <1>5 DEF DeclareInv
<1>8. faults' \in {f, f + 1}
  BY <1>1, <1>3 DEF CountStep
<1>9. CASE Undisturbed
  <2>1. undeclared' = u /\ journal' = j /\ attested' = a /\ dropped' = d /\ InFlight' = k /\ Up' = Up
    BY <1>3, <1>9 DEF Undisturbed
  <2>2. Budget(faults', dropped') >= B
    BY <1>5, <1>6, <1>8, <2>1
  <2> QED
    BY <1>4, <1>5, <1>6, <1>7, <1>8, <2>1 DEF DeclareInv
<1>10. CASE Counted
  <2>1. undeclared' = u + 1 /\ journal' \in {j, u + 1} /\ attested' = a /\ dropped' = d + 1 /\ InFlight' = k
        /\ Up /\ Up'
    BY <1>3, <1>10 DEF Counted
  <2>2. Budget(faults', dropped') >= B + 1
    BY <1>6, <1>8, <2>1
  <2> QED
    BY <1>4, <1>6, <1>7, <1>8, <2>1, <2>2 DEF DeclareInv
<1>11. CASE Declared
  <2>1. /\ undeclared' = u /\ journal' = j /\ attested' = a + b /\ dropped' = d /\ k = 0
        /\ Up /\ Up'
        /\ InFlight' = b \/ (InFlight' = 0 /\ ~Reliable /\ faults' = f + 1)
    <3>1. /\ undeclared' = u /\ journal' = j /\ attested' = a + b /\ dropped' = d /\ k = 0
          /\ Up /\ Up'
      BY <1>3, <1>11 DEF Declared
    <3>2. InFlight' = b \/ (InFlight' = 0 /\ "fsync" \in Faults /\ faults' = f + 1)
      BY <1>3, <1>11 DEF Declared
    <3> QED
      BY <3>1, <3>2 DEF Reliable
  <2> QED
    BY <1>4, <1>5, <1>6, <1>7, <1>8, <2>1 DEF DeclareInv
<1>12. CASE Subtracted
  <2>1. /\ undeclared' = u - b /\ journal' \in {j, u - b} /\ attested' = a /\ dropped' = d
        /\ k = b /\ InFlight' = 0 /\ Up /\ Up'
    BY <1>3, <1>12 DEF Subtracted
  <2> QED
    BY <1>4, <1>5, <1>6, <1>7, <1>8, <2>1 DEF DeclareInv
<1>13. CASE Died
  <2>1. /\ journal' = j /\ attested' = a /\ dropped' = d /\ InFlight' = 0 /\ Up /\ ~Up'
        /\ faults' = f + 1 /\ ~Reliable
    BY <1>3, <1>13 DEF Died, Reliable
  <2>2. undeclared' <= dropped'
    <3>1. undeclared' = 0
      BY <1>13 DEF Died
    <3> QED
      BY <1>3, <2>1, <3>1
  <2> QED
    BY <1>4, <1>5, <1>6, <1>7, <2>1, <2>2 DEF DeclareInv
<1>14. CASE Recovered
  <2>1. /\ undeclared' = j /\ journal' = j /\ attested' = a /\ dropped' = d /\ k = 0 /\ InFlight' = 0
        /\ ~Up /\ Up'
    BY <1>3, <1>14 DEF Recovered
  <2> QED
    BY <1>4, <1>5, <1>6, <1>7, <1>8, <2>1 DEF DeclareInv
<1> QED
  BY <1>1, <1>9, <1>10, <1>11, <1>12, <1>13, <1>14 DEF CountStep
\* The first state is within it.
LEMMA DeclareInit == Init => DeclareInv
<1> SUFFICES ASSUME Init
             PROVE  DeclareInv
  OBVIOUS
<1>1. pc["worker"] = "get" /\ pc["flusher"] = "idle"
  BY DEF Init, Threads
<1>2. undeclared = 0 /\ journal = 0 /\ attested = 0 /\ dropped = 0 /\ faults = 0
  BY DEF Init
<1>3. InFlight = 0 /\ Up
  <2>1. \A t \in Threads : pc[t] # "settle"
    BY <1>1 DEF Threads
  <2> QED
    BY <1>1, <2>1 DEF InFlight, At, Up
<1>4. Budget(0, 0) = 0
  BY DEF Budget
<1> QED
  BY <1>2, <1>3, <1>4 DEF DeclareInv

(***************************************************************************)
(* Where a span can be: in the queue, in the worker's hands, or behind the  *)
(* cursor's position in the file.  It is in at most one of them, and once;  *)
(* only a fault puts a span that was recorded there again.                 *)
(***************************************************************************)
On(q, x) == \E i \in 1..Len(q) : q[i] = x
Once(q) == \A i, j \in 1..Len(q) : q[i] = q[j] /\ q[i] \in Spans => i = j

\* To be in the queue is to be one of its elements.
LEMMA OnQueue ==
    ASSUME queue \in Seq(Spans \cup {Sentinel}), NEW s
    PROVE  InQueue(s) <=> On(queue, s)
<1>1. DOMAIN queue = 1..Len(queue)
  BY LenProperties
<1> QED
  BY <1>1 DEF InQueue, On

\* What is in a queue after put().
LEMMA OnAppend ==
    ASSUME NEW T, NEW q \in Seq(T), NEW x \in T
    PROVE  /\ \A s : On(Append(q, x), s) <=> (On(q, s) \/ s = x)
           /\ Once(q) /\ ~On(q, x) => Once(Append(q, x))
           /\ Once(q) /\ x \notin Spans => Once(Append(q, x))
<1>1. PICK r \in Seq(T) : r = Append(q, x)
  BY AppendProperties
<1>2. PICK n \in Nat : n = Len(q)
  BY LenProperties
<1>3. /\ Len(r) = n + 1 /\ r[n+1] = x
      /\ \A i \in 1..n : r[i] = q[i]
  BY <1>1, <1>2, AppendProperties
<1>4. \A i \in 1..(n+1) : i \in 1..n \/ i = n + 1
  OBVIOUS
<1>5. n + 1 \in 1..(n+1) /\ \A i \in 1..n : i \in 1..(n+1)
  OBVIOUS
<1>6. \A s : On(r, s) <=> (On(q, s) \/ s = x)
  BY <1>2, <1>3, <1>4, <1>5 DEF On
<1>7. ASSUME Once(q), ~On(q, x) \/ x \notin Spans
      PROVE  Once(r)
  <2> SUFFICES ASSUME NEW i \in 1..(n+1), NEW j \in 1..(n+1), r[i] = r[j], r[i] \in Spans
               PROVE  i = j
    BY <1>3 DEF Once
  <2>1. i \in 1..n /\ j \in 1..n => i = j
    BY <1>2, <1>3, <1>7 DEF Once
  <2>2. ~(i \in 1..n /\ j = n + 1) /\ ~(j \in 1..n /\ i = n + 1)
    BY <1>2, <1>3, <1>7 DEF On
  <2> QED
    BY <2>1, <2>2, <1>4
<1> QED
  BY <1>1, <1>6, <1>7

\* What is in a queue after get().
LEMMA OnTail ==
    ASSUME NEW T, NEW q \in Seq(T), q # <<>>
    PROVE  /\ \A s : On(q, s) <=> (s = Head(q) \/ On(Tail(q), s))
           /\ Once(q) => Once(Tail(q))
           /\ Once(q) /\ Head(q) \in Spans => ~On(Tail(q), Head(q))
<1>1. PICK r \in Seq(T), h \in T : r = Tail(q) /\ h = Head(q)
  BY HeadTailProperties
<1>2. PICK n \in Nat : n = Len(r)
  BY LenProperties
<1>3. /\ Len(q) = n + 1 /\ q[1] = h
      /\ \A i \in 1..n : r[i] = q[i+1]
  <2>1. Len(r) = Len(q) - 1 /\ Len(q) \in Nat
    BY <1>1, HeadTailProperties, LenProperties
  <2>2. \A i \in 1..Len(r) : r[i] = q[i+1]
    BY <1>1, HeadTailProperties
  <2>3. q[1] = h
    BY <1>1
  <2> QED
    BY <1>2, <2>1, <2>2, <2>3
<1>4. \A i \in 1..(n+1) : i = 1 \/ (i - 1 \in 1..n /\ (i - 1) + 1 = i)
  OBVIOUS
<1>5. 1 \in 1..(n+1) /\ \A i \in 1..n : i + 1 \in 1..(n+1) /\ i + 1 # 1
  OBVIOUS
<1>6. \A s : On(q, s) <=> (s = h \/ On(r, s))
  <2> TAKE s
  <2>1. On(q, s) => s = h \/ On(r, s)
    <3> SUFFICES ASSUME NEW i \in 1..(n+1), q[i] = s
                 PROVE  s = h \/ On(r, s)
      BY <1>3 DEF On
    <3> QED
      BY <1>2, <1>3, <1>4 DEF On
  <2>2. s = h \/ On(r, s) => On(q, s)
    BY <1>2, <1>3, <1>5 DEF On
  <2> QED
    BY <2>1, <2>2
<1>7. ASSUME Once(q)
      PROVE  Once(r) /\ (h \in Spans => ~On(r, h))
  <2>1. \A i, j \in 1..(n+1) : q[i] = q[j] /\ q[i] \in Spans => i = j
    BY <1>3, <1>7 DEF Once
  <2>2. Once(r)
    <3> SUFFICES ASSUME NEW i \in 1..n, NEW j \in 1..n, r[i] = r[j], r[i] \in Spans
                 PROVE  i = j
      BY <1>2 DEF Once
    <3>1. i + 1 = j + 1
      BY <1>3, <1>5, <2>1
    <3> QED
      BY <3>1
  <2>3. h \in Spans => ~On(r, h)
    BY <1>2, <1>3, <1>5, <2>1 DEF On
  <2> QED
    BY <2>2, <2>3
<1> QED
  BY <1>1, <1>6, <1>7

\* No byte is in a file twice.
NoneTwice(f) == \A p, r \in 1..Len(f) : f[p] = f[r] => p = r

\* g is f with bytes of s behind it.
Grown(f, g, s) ==
    /\ \A t : t # s => (HasByte(g, t) => HasByte(f, t))
    /\ \A t, c : t # s => (Passed(f, c, t) => Passed(g, c, t))
    /\ NoneTwice(f) /\ ~HasByte(f, s) => NoneTwice(g)

\* An append to the spill file, torn or whole, leaves the lines before it.
LEMMA FileGrows ==
    ASSUME SpillTypeOK, NEW s \in Spans, NEW k \in 0..LineLen[s],
           NEW g, g = file \o SubSeq(Line(s), 1, k)
    PROVE  Grown(file, g, s)
<1>1. PICK e \in Nat : e = Len(file)
  BY LenProperties DEF SpillTypeOK
<1>2. Adds(g, e, s, k)
  BY <1>1, BytesAdded
<1>3. /\ k \in Nat /\ Len(g) = e + k
      /\ \A p \in 1..e : g[p] = file[p]
      /\ \A p \in (e + 1)..(e + k) : g[p] = <<s, p - e>>
  BY <1>2 DEF Adds
<1>4. \A p \in 1..(e + k) : p \in 1..e \/ p \in (e + 1)..(e + k)
  <2>1. k \in Nat
    BY <1>3
  <2> QED
    BY <2>1
<1>5. \A p \in (e + 1)..(e + k) : g[p][1] = s /\ g[p][2] = p - e
  <2> TAKE p \in (e + 1)..(e + k)
  <2>1. <<s, p - e>>[1] = s /\ <<s, p - e>>[2] = p - e
    OBVIOUS
  <2>2. g[p] = <<s, p - e>>
    BY <1>3
  <2> QED
    BY <2>1, <2>2
<1>6. \A t : t # s => (HasByte(g, t) => HasByte(file, t))
  BY <1>1, <1>3, <1>4, <1>5 DEF HasByte
<1>7. \A t, c : t # s => (Passed(file, c, t) => Passed(g, c, t))
  <2> SUFFICES ASSUME NEW t, NEW c, t # s, Passed(file, c, t), NEW p \in 1..(e + k), g[p] = <<t, 1>>
               PROVE  p <= c
    BY <1>3 DEF Passed
  <2>1. g[p][1] = t
    <3>1. <<t, 1>>[1] = t
      OBVIOUS
    <3> QED
      BY <3>1
  <2>2. p \in 1..e
    BY <2>1, <1>4, <1>5
  <2> QED
    BY <2>2, <1>1, <1>3 DEF Passed
<1>8. ASSUME NoneTwice(file), ~HasByte(file, s)
      PROVE  NoneTwice(g)
  <2> SUFFICES ASSUME NEW p \in 1..(e + k), NEW r \in 1..(e + k), g[p] = g[r]
               PROVE  p = r
    BY <1>3 DEF NoneTwice
  <2>1. CASE p \in 1..e /\ r \in 1..e
    BY <2>1, <1>1, <1>3, <1>8 DEF NoneTwice
  <2>2. CASE p \in (e + 1)..(e + k) /\ r \in (e + 1)..(e + k)
    <3>1. p - e = r - e
      BY <2>2, <1>5
    <3> QED
      BY <3>1
  <2>3. ~(p \in 1..e /\ r \in (e + 1)..(e + k)) /\ ~(r \in 1..e /\ p \in (e + 1)..(e + k))
    BY <1>1, <1>3, <1>5, <1>8 DEF HasByte
  <2> QED
    BY <2>1, <2>2, <2>3, <1>4
<1> QED
  BY <1>6, <1>7, <1>8 DEF Grown

\* No fault leaves a record, or the line of a span submit() gave up, behind.
Genuine == {"fsync", "torn", "crash", "tear"} \cap Faults = {}

TakenOver(s) == stage[s] \in {"queued", "spilled"}
Held(s) == item = s /\ pc["worker"] \notin {"done", "draining"}
Ahead(s) == ~Passed(file, consumed, s)
Waits(s) == InQueue(s) \/ Held(s) \/ Ahead(s)
SpanInv(s) ==
    /\ stage[s] \in {"new", "full"} =>
           /\ recorded[s] = 0 /\ s \notin errored
           /\ ~InQueue(s) /\ item # s /\ ~HasByte(file, s)
    /\ InQueue(s) => item # s
    /\ InQueue(s) \/ item = s => ~Ahead(s)
    /\ Waits(s) \/ ~Up => recorded[s] <= faults
    /\ recorded[s] <= 1 + faults
    /\ Genuine => /\ InQueue(s) \/ item = s \/ HasByte(file, s) => TakenOver(s)
                  /\ Waits(s) => recorded[s] = 0 /\ s \notin errored

FlowInv ==
    /\ NoneTwice(file) /\ Once(queue)
    /\ ~Up => queue = <<>>
    /\ \A s \in Spans : SpanInv(s)

\* A span that is nowhere it was not before, with the record it had.
LEMMA SpanFrame ==
    ASSUME NEW s \in Spans, SpanInv(s), recorded[s] \in Nat, faults \in Nat,
           stage'[s] = stage[s], recorded'[s] = recorded[s], s \in errored' <=> s \in errored,
           InQueue(s)' => InQueue(s), item' = s => item = s,
           HasByte(file, s)' => HasByte(file, s), Ahead(s)' => Ahead(s),
           Held(s)' => Held(s), faults' \in {faults, faults + 1}, ~Up' => ~Up
    PROVE  SpanInv(s)'
<1>1. Waits(s)' => Waits(s)
  BY DEF Waits
<1>2. stage[s] \in {"new", "full"} =>
           /\ recorded[s] = 0 /\ s \notin errored
           /\ ~InQueue(s) /\ item # s /\ ~HasByte(file, s)
  BY DEF SpanInv
<1>3. /\ InQueue(s) => item # s
      /\ InQueue(s) \/ item = s => ~Ahead(s)
      /\ Genuine => /\ InQueue(s) \/ item = s \/ HasByte(file, s) => TakenOver(s)
                    /\ Waits(s) => recorded[s] = 0 /\ s \notin errored
  BY DEF SpanInv
<1>4. /\ Waits(s) \/ ~Up => recorded[s] <= faults
      /\ recorded[s] <= 1 + faults
  BY DEF SpanInv
<1>5. /\ Waits(s)' \/ ~Up' => recorded'[s] <= faults'
      /\ recorded'[s] <= 1 + faults'
  BY <1>1, <1>4
<1>6. TakenOver(s)' <=> TakenOver(s)
  BY DEF TakenOver
<1> QED
  BY <1>1, <1>2, <1>3, <1>5, <1>6, Zenon DEF SpanInv

\* A step that moves no span forward keeps what is known of the way of each.
LEMMA FlowFrame ==
    ASSUME FlowInv, CountTypes, SpanTypes,
           UNCHANGED <<stage, queue, recorded, errored>>,
           \A s \in Spans : item' = s => item = s,
           UNCHANGED file \/ file' = <<>>, \A s \in Spans : Ahead(s)' => Ahead(s),
           \A s \in Spans : Held(s)' => Held(s), faults' \in {faults, faults + 1}, Up' = Up
    PROVE  FlowInv'
<1>1. ASSUME NEW s \in Spans
      PROVE  SpanInv(s)'
  <2>1. SpanInv(s) /\ recorded[s] \in Nat /\ faults \in Nat
    BY DEF FlowInv, SpanTypes, CountTypes
  <2>2. InQueue(s)' => InQueue(s)
    BY DEF InQueue
  <2>3. HasByte(file, s)' => HasByte(file, s)
    BY DEF HasByte
  <2> QED
    BY <2>1, <2>2, <2>3, SpanFrame
<1>2. NoneTwice(file)'
  BY DEF FlowInv, NoneTwice
<1>3. Once(queue)' /\ (~Up' => queue' = <<>>)
  BY DEF FlowInv, Once
<1> QED
  BY <1>1, <1>2, <1>3 DEF FlowInv

\* Steps that leave the file, the cursor and the queue alone.
LEMMA FlowStutter ==
    ASSUME FlowInv, CountTypes, SpanTypes,
           UNCHANGED <<stage, queue, item, recorded, errored, file, consumed>>,
           pc'["worker"] = pc["worker"] \/ pc["worker"] \notin {"done", "draining"}
               \/ pc'["worker"] \in {"done", "draining"},
           faults' \in {faults, faults + 1}, Up' = Up
    PROVE  FlowInv'
<1>1. \A s \in Spans : Held(s)' => Held(s)
  BY DEF Held
<1>2. \A s \in Spans : Ahead(s)' => Ahead(s)
  BY DEF Ahead, Passed
<1> QED
  BY <1>1, <1>2, FlowFrame

\* It holds in the first state.
LEMMA FlowInit == Init => FlowInv
<1> SUFFICES ASSUME Init
             PROVE  FlowInv
  OBVIOUS
<1>1. file = <<>> /\ queue = <<>> /\ consumed = 0 /\ item = None /\ errored = {} /\ faults = 0
      /\ recorded = [s \in Spans |-> 0] /\ stage = [s \in Spans |-> "new"]
  BY DEF Init, SpillInit
<1>2. Len(<<>>) = 0
  OBVIOUS
<1>3. \A f : Len(f) = 0 => NoneTwice(f) /\ Once(f)
              /\ \A s : ~HasByte(f, s) /\ (\A c : Passed(f, c, s)) /\ ~On(f, s)
  BY DEF NoneTwice, Once, HasByte, Passed, On
<1>4. Up
  BY DEF Init, Up, Threads
<1>5. queue \in Seq(Spans \cup {Sentinel})
  BY <1>1
<1>6. ASSUME NEW s \in Spans
      PROVE  SpanInv(s)
  <2>1. ~InQueue(s) /\ ~HasByte(file, s) /\ ~Ahead(s)
    BY <1>1, <1>2, <1>3, <1>5, OnQueue DEF Ahead
  <2>2. item # s
    BY <1>1, PipelineAssumption
  <2>3. ~Waits(s)
    BY <2>1, <2>2 DEF Waits, Held
  <2>4. recorded[s] = 0 /\ s \notin errored /\ faults = 0
    BY <1>1
  <2> QED
    BY <1>4, <2>1, <2>2, <2>3, <2>4 DEF SpanInv
<1> QED
  BY <1>1, <1>2, <1>3, <1>4, <1>6 DEF FlowInv

\* submit() keeps it.
LEMMA FlowSubmit ==
    ASSUME TypeInv, FlowInv, NEW s \in Spans, Submit(s), faults' \in {faults, faults + 1}
    PROVE  FlowInv'
<1>1. SpillTypeOK /\ CountTypes /\ SpanTypes /\ WorkTypes
  BY TypeParts DEF TypeInv
<1>2. \A t \in Spans : SpanInv(t) /\ recorded[t] \in Nat
  BY <1>1 DEF FlowInv, SpanTypes
<1>3. /\ UNCHANGED <<pc, item, consumed, recorded, errored>> /\ Up /\ Up' /\ faults \in Nat
      /\ \A t \in Spans \ {s} : stage'[t] = stage[t]
  BY <1>1, <1>2 DEF Submit, Enqueue, Overflow, SpillSpan, SpillFails, Drop, SubmitVars, spillVars,
              workVars, historyVars, Up, SpanTypes, AppendLine, AppendRaises, CountTypes
<1>4. \A t : Held(t)' <=> Held(t)
  BY <1>3 DEF Held
<1>5. ASSUME NEW t \in Spans, t # s, InQueue(t)' => InQueue(t),
             HasByte(file, t)' => HasByte(file, t), Ahead(t)' => Ahead(t)
      PROVE  SpanInv(t)'
  BY <1>2, <1>3, <1>4, <1>5, SpanFrame
<1>6. CASE Enqueue(s)
  <2>1. /\ queue' = Append(queue, s) /\ stage'[s] = "queued" /\ stage[s] = "new" /\ file' = file
    BY <1>1, <1>6 DEF Enqueue, Put, SubmitVars, spillVars, SpanTypes
  <2>2. queue \in Seq(Spans \cup {Sentinel}) /\ queue' \in Seq(Spans \cup {Sentinel})
    BY <1>1, <2>1, QueueTypes DEF WorkTypes
  <2>3. \A t : InQueue(t)' <=> (InQueue(t) \/ t = s)
    BY <2>1, <2>2, OnAppend, OnQueue DEF InQueue, On
  <2>4. \A t : (HasByte(file, t)' <=> HasByte(file, t)) /\ (Ahead(t)' <=> Ahead(t))
    BY <1>3, <2>1 DEF HasByte, Ahead, Passed
  <2>5. /\ recorded[s] = 0 /\ s \notin errored /\ ~InQueue(s) /\ item # s /\ ~HasByte(file, s)
    BY <1>2, <2>1 DEF SpanInv
  <2>6. ~Ahead(s)
    <3>1. <<s, 1>>[1] = s
      OBVIOUS
    <3> QED
      BY <2>5, <3>1 DEF HasByte, Ahead, Passed
  <2>7. SpanInv(s)'
    <3>1. recorded'[s] = 0 /\ s \notin errored' /\ recorded'[s] <= faults' /\ recorded'[s] <= 1 + faults'
      <4>1. recorded' = recorded /\ errored' = errored
        BY <1>3
      <4>2. faults' \in Nat
        BY <1>3
      <4> QED
        BY <2>5, <4>1, <4>2
    <3>2. stage'[s] \notin {"new", "full"} /\ TakenOver(s)'
      BY <2>1 DEF TakenOver
    <3>3. item' # s /\ ~Ahead(s)'
      BY <1>3, <2>4, <2>5, <2>6
    <3> QED
      BY <3>1, <3>2, <3>3, Zenon DEF SpanInv
  <2>8. ASSUME NEW t \in Spans
        PROVE  SpanInv(t)'
    BY <1>5, <2>3, <2>4, <2>7
  <2>9. Once(queue)'
    BY <2>1, <2>2, <2>5, OnAppend, OnQueue DEF FlowInv
  <2>10. NoneTwice(file)'
    BY <2>1 DEF FlowInv, NoneTwice
  <2> QED
    BY <1>3, <2>8, <2>9, <2>10 DEF FlowInv
<1>7. ASSUME queue' = queue, SpanInv(s)', NoneTwice(file)',
             \A t \in Spans \ {s} : HasByte(file, t)' => HasByte(file, t),
             \A t \in Spans \ {s} : Ahead(t)' => Ahead(t)
      PROVE  FlowInv'
  <2>1. \A t \in Spans : SpanInv(t)'
    BY <1>5, <1>7 DEF InQueue
  <2>2. Once(queue)'
    BY <1>7 DEF FlowInv, Once
  <2> QED
    BY <1>3, <1>7, <2>1, <2>2 DEF FlowInv
<1>8. CASE Overflow(s) \/ Drop(s)
  <2>1. /\ queue' = queue /\ file' = file
        /\ \/ stage[s] = "new" /\ stage'[s] \in {"full", "failed"}
           \/ stage[s] = "failed" /\ stage'[s] = "dropped"
    BY <1>1, <1>8 DEF Overflow, Drop, SubmitVars, spillVars, queueVars, SpanTypes
  <2>2. \A t : /\ HasByte(file, t)' <=> HasByte(file, t)
               /\ Ahead(t)' <=> Ahead(t)
               /\ InQueue(t)' <=> InQueue(t)
    BY <1>3, <2>1 DEF HasByte, Ahead, Passed, InQueue
  <2>3. Waits(s)' <=> Waits(s)
    BY <1>4, <2>2 DEF Waits
  <2>4. ~TakenOver(s) /\ (stage'[s] \in {"new", "full"} => stage[s] \in {"new", "full"})
    BY <2>1 DEF TakenOver
  <2>5. /\ Waits(s)' \/ ~Up' => recorded'[s] <= faults'
        /\ recorded'[s] <= 1 + faults'
    BY <1>2, <1>3, <2>3 DEF SpanInv
  <2>6. SpanInv(s)'
    BY <1>2, <1>3, <2>2, <2>3, <2>4, <2>5, Zenon DEF SpanInv
  <2>7. NoneTwice(file)'
    BY <2>1 DEF FlowInv, NoneTwice
  <2> QED
    BY <1>7, <2>1, <2>2, <2>6, <2>7
<1>9. ASSUME NEW k \in 0..LineLen[s], file' = file \o SubSeq(Line(s), 1, k), queue' = queue,
             stage[s] = "full", stage'[s] \in {"spilled", "failed"},
             stage'[s] = "failed" /\ Genuine => k = 0
      PROVE  FlowInv'
  <2>1. PICK g : g = file \o SubSeq(Line(s), 1, k)
    OBVIOUS
  <2>2. /\ \A t : t # s => (HasByte(g, t) => HasByte(file, t))
        /\ \A t, c : t # s => (Passed(file, c, t) => Passed(g, c, t))
        /\ NoneTwice(file) /\ ~HasByte(file, s) => NoneTwice(g)
    <3>1. Grown(file, g, s)
      BY <1>1, <2>1, FileGrows
    <3> QED
      BY <3>1 DEF Grown
  <2>3. file' = g /\ consumed' = consumed
    BY <1>3, <1>9, <2>1
  <2>4. /\ recorded[s] = 0 /\ s \notin errored /\ ~InQueue(s) /\ item # s /\ ~HasByte(file, s)
    BY <1>2, <1>9 DEF SpanInv
  <2>5. \A t \in Spans \ {s} : (HasByte(file, t)' => HasByte(file, t)) /\ (Ahead(t)' => Ahead(t))
    BY <2>2, <2>3 DEF HasByte, Ahead, Passed
  <2>6. NoneTwice(file)'
    BY <2>2, <2>3, <2>4 DEF FlowInv, NoneTwice
  <2>7. ~InQueue(s)' /\ item' # s
    BY <1>3, <1>9, <2>4 DEF InQueue
  <2>8. stage'[s] = "failed" /\ Genuine => ~HasByte(file, s)'
    <3>1. ASSUME k = 0
          PROVE  file' = file
      BY <1>1, <1>9, <3>1, PrefixType, ConcatEmptySeq DEF SpillTypeOK
    <3> QED
      BY <1>9, <2>4, <3>1 DEF HasByte
  <2>9. stage'[s] = "failed" /\ Genuine => ~Ahead(s)'
    <3>1. <<s, 1>>[1] = s
      OBVIOUS
    <3> QED
      BY <2>8, <3>1 DEF HasByte, Ahead, Passed
  <2>10. SpanInv(s)'
    <3>1. recorded'[s] = 0 /\ s \notin errored' /\ recorded'[s] <= faults' /\ recorded'[s] <= 1 + faults'
      <4>1. recorded' = recorded /\ errored' = errored
        BY <1>3
      <4>2. faults' \in Nat
        BY <1>3
      <4> QED
        BY <2>4, <4>1, <4>2
    <3>2. stage'[s] \notin {"new", "full"}
      BY <1>9
    <3>3. Genuine /\ HasByte(file, s)' => TakenOver(s)'
      BY <1>9, <2>8 DEF TakenOver
    <3> QED
      BY <2>7, <3>1, <3>2, <3>3, Zenon DEF SpanInv
  <2> QED
    BY <1>7, <1>9, <2>5, <2>6, <2>10
<1>10. CASE SpillSpan(s)
  <2>1. LineLen[s] \in 0..LineLen[s]
    BY LineType
  <2>2. file' = file \o SubSeq(Line(s), 1, LineLen[s])
    BY <1>10, <2>1, PrefixType DEF SpillSpan, AppendLine
  <2>3. queue' = queue /\ stage[s] = "full" /\ stage'[s] = "spilled"
    BY <1>1, <1>10 DEF SpillSpan, queueVars, SpanTypes
  <2> QED
    BY <1>9, <2>1, <2>2, <2>3
<1>11. CASE SpillFails(s)
  <2>1. PICK k \in 0..LineLen[s] : file' = file \o SubSeq(Line(s), 1, k) /\ (Genuine => k = 0)
    <3>1. PICK k : AppendRaises(s, k) /\ (Genuine => k = 0)
      BY <1>11 DEF SpillFails, Fault, Genuine
    <3> QED
      BY <3>1 DEF AppendRaises
  <2>2. queue' = queue /\ stage[s] = "full" /\ stage'[s] = "failed"
    BY <1>1, <1>11 DEF SpillFails, queueVars, SpanTypes
  <2> QED
    BY <1>9, <2>1, <2>2
<1> QED
  BY <1>6, <1>8, <1>10, <1>11 DEF Submit

\* So does refilling the queue from the spill file.
LEMMA FlowDrain ==
    ASSUME TypeInv, FlowInv, NEW t \in Threads, Drain(t), faults' \in {faults, faults + 1}
    PROVE  FlowInv'
<1>1. SpillTypeOK /\ CountTypes /\ SpanTypes /\ WorkTypes /\ HandInv
  BY TypeParts DEF TypeInv
<1>2. UNCHANGED <<stage, recorded, errored>>
  BY DEF Drain, SkipDrain, EnterDrain, DrainLine, EndDrain, DrainFails, DrainUnchanged, historyVars
<1>3. pc[t] = "draining" /\ Up
  BY <1>1 DEF Drain, SkipDrain, EnterDrain, DrainLine, EndDrain, DrainFails, HandInv, At, Up, Threads
<1>4. CASE SkipDrain(t) \/ EndDrain(t) \/ DrainFails(t)
  <2>1. UNCHANGED <<queue, file, consumed>>
    BY <1>4 DEF SkipDrain, EndDrain, DrainFails, SaveCursor, SaveCursorRaises, ParseError,
                queueVars, spillVars
  <2>2. PICK label \in {AfterDrain(t), DrainRaised(t)} : LeaveDrain(t, label)
    BY <1>4 DEF SkipDrain, EndDrain, DrainFails
  <2>3. pc' = [pc EXCEPT ![t] = label] /\ item' = IF t = "worker" THEN None ELSE item
    BY <2>2 DEF LeaveDrain, GoTo
  <2>4. label # "down"
    BY <2>2 DEF AfterDrain, DrainRaised
  <2>5. Up' = Up
    BY <1>1, <1>3, <2>3, <2>4 DEF Up, WorkTypes, Threads
  <2>6. \A s \in Spans : /\ item' = s => item = s
                         /\ Held(s)' => Held(s)
    <3>1. CASE t = "worker"
      BY <2>3, <3>1, PipelineAssumption DEF Held
    <3>2. CASE t = "flusher"
      BY <1>1, <2>3, <3>2 DEF Held, WorkTypes
    <3> QED
      BY <3>1, <3>2 DEF Threads
  <2>7. \A s \in Spans : Ahead(s)' => Ahead(s)
    BY <2>1 DEF Ahead, Passed
  <2> QED
    BY <1>1, <1>2, <2>1, <2>5, <2>6, <2>7, FlowFrame
<1>5. CASE EnterDrain(t)
  <2>1. UNCHANGED <<queue, item, file, consumed, pc>>
    BY <1>5 DEF EnterDrain, BeginDrain, DrainUnchanged, queueVars
  <2> QED
    BY <1>1, <1>2, <2>1, FlowStutter DEF Up
<1>6. CASE DrainLine(t)
  <2>1. UNCHANGED <<item, pc>> /\ Up' = Up
    BY <1>6 DEF DrainLine, DrainUnchanged, Up
  <2>2. CASE UNCHANGED queueVars
    <3>1. queue' = queue
      BY <2>2 DEF queueVars
    <3>2. CASE UNCHANGED <<file, consumed>>
      BY <1>1, <1>2, <2>1, <3>1, <3>2, FlowStutter
    <3>3. \A s \in Spans : /\ item' = s => item = s
                           /\ Held(s)' => Held(s)
      BY <2>1 DEF Held
    <3>4. CASE SkipBlank
      <4>1. file' = file /\ consumed' = consumed + 1 /\ consumed \in Nat
        BY <1>1, <3>4 DEF SkipBlank, SpillTypeOK
      <4>2. \A s \in Spans : Ahead(s)' => Ahead(s)
        BY <4>1 DEF Ahead, Passed
      <4> QED
        BY <1>1, <1>2, <2>1, <3>1, <4>1, <4>2, FlowFrame DEF Held
    <3>5. CASE Compact /\ ~UNCHANGED <<file, consumed>>
      <4>1. file' = <<>>
        BY <3>5 DEF Compact
      <4>2. \A s \in Spans : Ahead(s)' => Ahead(s)
        BY <4>1 DEF Ahead, Passed
      <4> QED
        BY <1>1, <1>2, <2>1, <3>1, <4>1, <4>2, FlowFrame DEF Held
    <3>6. \/ UNCHANGED <<file, consumed>> \/ SkipBlank \/ Compact
          \/ \E s \in Spans : Take(s) /\ Put(s)
      BY <1>6 DEF DrainLine, Decline, EndOfFile
    <3>7. ~\E s \in Spans : Put(s)
      <4>1. \A s \in Spans : Len(Append(queue, s)) # Len(queue)
        BY <1>1, QueueTypes DEF WorkTypes
      <4> QED
        BY <3>1, <4>1 DEF Put
    <3> QED
      BY <3>2, <3>4, <3>5, <3>6, <3>7
  <2>3. CASE \E s \in Spans : Take(s) /\ Put(s)
    <3>1. PICK s \in Spans : Take(s) /\ Put(s)
      BY <2>3
    <3>2. PICK c \in Nat, d \in Nat : /\ c = consumed /\ consumed' = d /\ d >= c + 1
                                      /\ c + 1 <= Len(file) /\ file[c + 1] = <<s, 1>>
      <4>1. /\ Len(NextLine) \in Nat \ {0} /\ consumed + 1 <= Len(file)
            /\ file[consumed + 1] = <<s, 1>> /\ consumed' = consumed + Len(NextLine)
        BY <1>1, <3>1, ParsesFirst DEF Take
      <4>2. consumed \in Nat
        BY <1>1 DEF SpillTypeOK
      <4> QED
        BY <4>1, <4>2
    <3>3. file' = file /\ queue' = Append(queue, s)
      BY <3>1 DEF Take, Put
    <3>4. PICK e \in Nat : e = Len(file)
      BY <1>1, LenProperties DEF SpillTypeOK
    <3>5. Ahead(s)
      <4>1. c + 1 \in 1..e /\ ~(c + 1 <= c)
        BY <3>2, <3>4
      <4> QED
        BY <3>2, <3>4, <4>1 DEF Ahead, Passed
    <3>6. ~Ahead(s)'
      <4>1. ASSUME NEW p \in 1..e, file[p] = <<s, 1>>
            PROVE  p <= d
        <5>1. c + 1 \in 1..e
          BY <3>2, <3>4
        <5>2. p = c + 1
          BY <3>2, <3>4, <4>1, <5>1 DEF FlowInv, NoneTwice
        <5> QED
          BY <3>2, <5>2
      <4> QED
        BY <3>2, <3>3, <3>4, <4>1 DEF Ahead, Passed
    <3>7. \A u \in Spans : Ahead(u)' => Ahead(u)
      <4>1. \A p \in 1..e : p <= c => p <= d
        BY <3>2
      <4> QED
        BY <3>2, <3>3, <3>4, <4>1 DEF Ahead, Passed
    <3>8. queue \in Seq(Spans \cup {Sentinel}) /\ queue' \in Seq(Spans \cup {Sentinel})
      BY <1>1, <3>3, QueueTypes DEF WorkTypes
    <3>9. \A u : InQueue(u)' <=> (InQueue(u) \/ u = s)
      BY <3>3, <3>8, OnAppend, OnQueue DEF InQueue, On
    <3>10. HasByte(file, s)
      <4>1. <<s, 1>>[1] = s /\ c + 1 \in 1..e
        BY <3>2, <3>4
      <4> QED
        BY <3>2, <3>4, <4>1 DEF HasByte
    <3>11. SpanInv(s)
      BY DEF FlowInv
    <3>12. ~InQueue(s) /\ item # s /\ stage[s] \notin {"new", "full"}
      BY <3>5, <3>10, <3>11 DEF SpanInv
    <3>13. /\ recorded[s] <= faults
           /\ Genuine => TakenOver(s) /\ recorded[s] = 0 /\ s \notin errored
      BY <3>5, <3>10, <3>11 DEF SpanInv, Waits
    <3>14. recorded[s] \in Nat /\ faults \in Nat
      BY <1>1 DEF SpanTypes, CountTypes
    <3>15. recorded'[s] <= faults' /\ recorded'[s] <= 1 + faults'
      BY <1>2, <3>13, <3>14
    <3>16. SpanInv(s)'
      BY <1>2, <2>1, <3>6, <3>12, <3>13, <3>15, Zenon DEF SpanInv, TakenOver
    <3>17. ASSUME NEW u \in Spans, u # s
           PROVE  SpanInv(u)'
      <4>1. SpanInv(u) /\ recorded[u] \in Nat
        BY <1>1 DEF FlowInv, SpanTypes
      <4>2. HasByte(file, u)' => HasByte(file, u)
        BY <3>3 DEF HasByte
      <4>3. Held(u)' => Held(u)
        BY <2>1 DEF Held
      <4> QED
        BY <1>2, <2>1, <3>7, <3>9, <3>14, <3>17, <4>1, <4>2, <4>3, SpanFrame
    <3>18. Once(queue)'
      <4>1. ~On(queue, s) /\ Once(queue)
        BY <3>8, <3>12, OnQueue DEF FlowInv
      <4> QED
        BY <3>3, <3>8, <4>1, OnAppend
    <3>19. NoneTwice(file)'
      BY <3>3 DEF FlowInv, NoneTwice
    <3> QED
      BY <1>3, <2>1, <3>16, <3>17, <3>18, <3>19 DEF FlowInv
  <2> QED
    BY <1>6, <2>2, <2>3 DEF DrainLine
<1> QED
  BY <1>4, <1>5, <1>6 DEF Drain

\* So does the worker.
LEMMA FlowWorker ==
    ASSUME TypeInv, FlowInv, Worker, faults' \in {faults, faults + 1}
    PROVE  FlowInv'
<1>1. SpillTypeOK /\ CountTypes /\ SpanTypes /\ WorkTypes /\ HandInv
  BY TypeParts DEF TypeInv
<1>2. UNCHANGED <<stage, file, consumed>>
  BY DEF Worker, GetItem, GetTimeout, Normalize, Commit, CommitFails, TaskDone, CommitUnchanged,
         spillVars
<1>3. Up /\ Up'
  <2>1. \E label \in {"emit", "draining", "done", "commit"} :
            UNCHANGED pc \/ pc' = [pc EXCEPT !["worker"] = label]
    BY DEF Worker, GetItem, GetTimeout, Normalize, Commit, CommitFails, TaskDone, GoTo
  <2>2. pc["worker"] # "down"
    BY DEF Worker, GetItem, GetTimeout, Normalize, Commit, CommitFails, TaskDone, At
  <2> QED
    BY <1>1, <2>1, <2>2 DEF Up, WorkTypes, Threads
<1>4. \A s : /\ HasByte(file, s)' <=> HasByte(file, s)
             /\ Ahead(s)' <=> Ahead(s)
  BY <1>2 DEF HasByte, Ahead, Passed
<1>5. NoneTwice(file)'
  BY <1>2 DEF FlowInv, NoneTwice
<1>6. \A s \in Spans : SpanInv(s) /\ recorded[s] \in Nat
  BY <1>1 DEF FlowInv, SpanTypes
<1>7. faults \in Nat
  BY <1>1 DEF CountTypes
<1>8. CASE GetTimeout \/ TaskDone
  <2>1. /\ UNCHANGED <<queue, item, recorded, errored>>
        /\ pc' = [pc EXCEPT !["worker"] = "draining"]
    BY <1>8 DEF GetTimeout, TaskDone, queueVars, workVars, historyVars, GoTo
  <2>2. pc'["worker"] = "draining"
    BY <1>1, <2>1 DEF WorkTypes, Threads
  <2> QED
    BY <1>1, <1>2, <1>3, <2>1, <2>2, FlowStutter
<1>9. CASE GetItem
  <2>1. /\ queue # <<>> /\ item' = Head(queue) /\ queue' = Tail(queue)
        /\ pc' = [pc EXCEPT !["worker"] = "emit"] /\ pc["worker"] = "get"
        /\ UNCHANGED <<recorded, errored>>
    BY <1>9 DEF GetItem, historyVars, GoTo, At
  <2>2. queue \in Seq(Spans \cup {Sentinel}) /\ queue' \in Seq(Spans \cup {Sentinel})
    BY <1>1, <2>1, QueueTypes DEF WorkTypes
  <2>3. /\ \A s : On(queue, s) <=> (s = item' \/ On(queue', s))
        /\ Once(queue) => Once(queue')
        /\ Once(queue) /\ item' \in Spans => ~On(queue', item')
    BY <2>1, <2>2, OnTail
  <2>4. Once(queue) /\ Once(queue)'
    BY <2>3 DEF FlowInv, Once
  <2>5. \A s : /\ InQueue(s) <=> (s = item' \/ InQueue(s)')
               /\ s \in Spans /\ s = item' => ~InQueue(s)'
    <3>1. \A s : InQueue(s) <=> On(queue, s)
      BY <2>2, OnQueue
    <3>2. DOMAIN queue' = 1..Len(queue')
      BY <2>2, LenProperties
    <3>3. \A s : InQueue(s)' <=> On(queue', s)
      BY <3>2 DEF InQueue, On
    <3>4. Once(queue)
      BY <2>4
    <3> QED
      BY <2>3, <3>1, <3>3, <3>4
  <2>6. pc'["worker"] = "emit" /\ item = None
    BY <1>1, <2>1 DEF WorkTypes, Threads, HandInv
  <2>7. ASSUME NEW s \in Spans, s # item'
        PROVE  SpanInv(s)'
    <3>1. ~Held(s)'
      BY <2>7 DEF Held
    <3> QED
      BY <1>2, <1>3, <1>4, <1>6, <1>7, <2>1, <2>5, <2>7, <3>1, SpanFrame
  <2>8. ASSUME NEW s \in Spans, s = item'
        PROVE  SpanInv(s)'
    <3>1. InQueue(s) /\ ~InQueue(s)' /\ ~Ahead(s)'
      BY <1>4, <1>6, <2>5, <2>8 DEF SpanInv
    <3>2. stage[s] \notin {"new", "full"}
      BY <1>6, <3>1 DEF SpanInv
    <3>3. /\ recorded[s] <= faults
          /\ Genuine => TakenOver(s) /\ recorded[s] = 0 /\ s \notin errored
      BY <1>6, <3>1 DEF SpanInv, Waits
    <3>4. recorded'[s] <= faults' /\ recorded'[s] <= 1 + faults'
      BY <1>6, <1>7, <2>1, <3>3
    <3> QED
      BY <1>2, <2>1, <3>1, <3>2, <3>3, <3>4, Zenon DEF SpanInv, TakenOver
  <2> QED
    BY <1>3, <1>5, <2>4, <2>7, <2>8 DEF FlowInv
<1>10. ASSUME item \in Spans, item' = item, queue' = queue,
              pc["worker"] \notin {"done", "draining"},
              \A s \in Spans \ {item} : /\ recorded'[s] = recorded[s]
                                        /\ s \in errored' <=> s \in errored,
              \/ /\ pc'["worker"] = "done"
                 /\ \/ recorded'[item] = recorded[item]
                    \/ recorded'[item] = recorded[item] + 1
              \/ recorded'[item] = recorded[item] /\ errored' = errored
              \/ recorded'[item] = recorded[item] + 1 /\ faults' = faults + 1 /\ ~Genuine
       PROVE  FlowInv'
  <2>1. \A s : InQueue(s)' <=> InQueue(s)
    BY <1>10 DEF InQueue
  <2>2. ASSUME NEW s \in Spans, s # item
        PROVE  SpanInv(s)'
    <3>1. ~Held(s)'
      BY <1>10, <2>2 DEF Held
    <3> QED
      BY <1>2, <1>3, <1>4, <1>6, <1>7, <1>10, <2>1, <2>2, <3>1, SpanFrame
  <2>3. Held(item)
    BY <1>10 DEF Held
  <2>4. ~InQueue(item)' /\ ~Ahead(item)' /\ stage'[item] \notin {"new", "full"} /\ recorded[item] <= faults
        /\ (Genuine => TakenOver(item) /\ recorded[item] = 0 /\ item \notin errored)
    BY <1>2, <1>4, <1>6, <1>10, <2>1, <2>3 DEF SpanInv, Waits
  <2>5. pc'["worker"] = "done" => ~Held(item)'
    BY <1>10 DEF Held
  <2>6. Waits(item)' => Held(item)'
    BY <2>4, <1>10 DEF Waits
  <2>7. Waits(item)' => recorded'[item'] <= faults'
    BY <1>6, <1>7, <1>10, <2>4, <2>5, <2>6
  <2>8. recorded'[item'] <= 1 + faults'
    BY <1>6, <1>7, <1>10, <2>4
  <2>9. Genuine /\ Waits(item)' => recorded'[item'] = 0 /\ item' \notin errored'
    BY <1>10, <2>4, <2>5, <2>6
  <2>10. TakenOver(item)' <=> TakenOver(item)
    BY <1>2, <1>10 DEF TakenOver
  <2>11. PICK s \in Spans : s = item /\ item' = s
    BY <1>10
  <2>12. SpanInv(s)'
    BY <1>3, <2>4, <2>7, <2>8, <2>9, <2>10, <2>11 DEF SpanInv
  <2>13. \A u \in Spans : SpanInv(u)'
    BY <2>2, <2>11, <2>12
  <2>14. Once(queue)'
    BY <1>10 DEF FlowInv, Once
  <2> QED
    BY <1>3, <1>5, <2>13, <2>14 DEF FlowInv
<1>11. CASE Normalize
  <2>1. /\ UNCHANGED <<queue, item, recorded>> /\ pc["worker"] = "normalize"
        /\ \/ errored' = errored \cup {item} /\ pc' = [pc EXCEPT !["worker"] = "done"]
           \/ errored' = errored
    BY <1>11 DEF Normalize, queueVars, GoTo, At
  <2>2. item \in Spans
    BY <1>1, <2>1 DEF HandInv
  <2>3. pc' = [pc EXCEPT !["worker"] = "done"] => pc'["worker"] = "done"
    BY <1>1 DEF WorkTypes, Threads
  <2> QED
    BY <1>10, <2>1, <2>2, <2>3
<1>12. CASE Commit
  <2>1. /\ UNCHANGED <<queue, item, errored>> /\ pc["worker"] = "commit"
        /\ pc' = [pc EXCEPT !["worker"] = "done"]
        /\ recorded' = [recorded EXCEPT ![item] = @ + 1]
    BY <1>12 DEF Commit, CommitUnchanged, queueVars, GoTo, At
  <2>2. item \in Spans /\ pc'["worker"] = "done"
    BY <1>1, <2>1 DEF HandInv, WorkTypes, Threads
  <2>3. recorded'[item] = recorded[item] + 1 /\ \A s \in Spans \ {item} : recorded'[s] = recorded[s]
    BY <1>1, <2>1, <2>2 DEF SpanTypes
  <2> QED
    BY <1>10, <2>1, <2>2, <2>3
<1>13. CASE CommitFails
  <2>1. /\ UNCHANGED <<queue, item>> /\ pc["worker"] = "commit"
        /\ \/ recorded' = recorded
           \/ recorded' = [recorded EXCEPT ![item] = @ + 1] /\ faults' = faults + 1 /\ ~Genuine
        /\ \/ errored' = errored
           \/ errored' = errored \cup {item} /\ pc' = [pc EXCEPT !["worker"] = "done"]
    BY <1>13 DEF CommitFails, Fault, Genuine, CommitUnchanged, queueVars, GoTo, At
  <2>2. item \in Spans /\ (pc' = [pc EXCEPT !["worker"] = "done"] => pc'["worker"] = "done")
    BY <1>1, <2>1 DEF HandInv, WorkTypes, Threads
  <2>3. /\ recorded' = [recorded EXCEPT ![item] = @ + 1] => recorded'[item] = recorded[item] + 1
        /\ \A s \in Spans \ {item} : recorded'[s] = recorded[s]
    BY <1>1, <2>1, <2>2 DEF SpanTypes
  <2>4. recorded'[item] \in {recorded[item], recorded[item] + 1}
    BY <2>1, <2>3
  <2>5. \A s \in Spans \ {item} : s \in errored' <=> s \in errored
    BY <2>1
  <2>6. \/ pc'["worker"] = "done" /\ recorded'[item] \in {recorded[item], recorded[item] + 1}
        \/ recorded'[item] = recorded[item] /\ errored' = errored
        \/ recorded'[item] = recorded[item] + 1 /\ faults' = faults + 1 /\ ~Genuine
    BY <2>1, <2>2, <2>3, <2>4
  <2> QED
    BY <1>10, <2>1, <2>2, <2>3, <2>5, <2>6
<1> QED
  BY <1>8, <1>9, <1>11, <1>12, <1>13 DEF Worker

\* So does every step.
LEMMA FlowNext == DropInv /\ FlowInv /\ [Next]_vars => FlowInv'
<1> SUFFICES ASSUME DropInv, FlowInv, [Next]_vars
             PROVE  FlowInv'
  OBVIOUS
<1>1. TypeInv /\ SpillTypeOK /\ CountTypes /\ SpanTypes /\ WorkTypes /\ HandInv
  BY TypeParts DEF DropInv, TypeInv
<1>2. faults' \in {faults, faults + 1}
  BY NextIsCountStep DEF CountStep
<1>3. CASE \E s \in Spans : Submit(s)
  BY <1>1, <1>2, <1>3, FlowSubmit
<1>4. CASE \E t \in Threads : Drain(t)
  BY <1>1, <1>2, <1>4, FlowDrain
<1>5. CASE Worker
  BY <1>1, <1>2, <1>5, FlowWorker
<1>6. ASSUME NEW t \in Threads, Emit(t)
      PROVE  FlowInv'
  <2>1. UNCHANGED <<stage, queue, item, recorded, errored, file, consumed>>
    BY <1>6 DEF Emit, EmitNothing, EmitBegin, Attest, AttestFails, Settle, EmitUnchanged,
                queueVars, workVars, spillVars, historyVars
  <2>2. /\ pc[t] \in {"emit", "attest", "settle"}
        /\ \E label : pc' = [pc EXCEPT ![t] = label] /\ label # "down"
    BY <1>6 DEF Emit, EmitNothing, EmitBegin, Attest, AttestFails, Settle, AfterEmit, GoTo, At
  <2>3. Up' = Up
    BY <1>1, <2>2 DEF Up, WorkTypes, HandInv, Threads
  <2>4. pc'["worker"] = pc["worker"] \/ pc["worker"] \notin {"done", "draining"}
    BY <1>1, <2>2 DEF WorkTypes
  <2> QED
    BY <1>1, <1>2, <2>1, <2>3, <2>4, FlowStutter
<1>7. CASE Flusher
  <2>1. /\ UNCHANGED <<stage, queue, item, recorded, errored, file, consumed>>
        /\ \E label : pc' = [pc EXCEPT !["flusher"] = label]
    BY <1>7 DEF Flusher, Flush, Join, Pending, FlushReturns, FlushUnchanged, queueVars, workVars,
                spillVars, historyVars, GoTo
  <2>2. pc'["worker"] = pc["worker"]
    BY <1>1, <2>1 DEF WorkTypes, Threads
  <2> QED
    BY <1>1, <1>2, <2>1, <2>2, FlowStutter DEF Up
<1>8. CASE Stop
  <2>1. /\ queue' = Append(queue, Sentinel) /\ Up
        /\ UNCHANGED <<stage, item, recorded, errored, file, consumed, pc>>
    BY <1>8 DEF Stop, Put, spillVars, workVars, historyVars
  <2>2. queue \in Seq(Spans \cup {Sentinel}) /\ queue' \in Seq(Spans \cup {Sentinel})
    BY <1>1, <2>1, QueueTypes DEF WorkTypes
  <2>3. \A s \in Spans : InQueue(s)' => InQueue(s)
    BY <2>1, <2>2, OnAppend, OnQueue, PipelineAssumption DEF InQueue, On
  <2>4. Once(queue)'
    BY <2>1, <2>2, OnAppend, PipelineAssumption DEF FlowInv
  <2>5. ASSUME NEW s \in Spans
        PROVE  SpanInv(s)'
    <3>1. SpanInv(s) /\ recorded[s] \in Nat /\ faults \in Nat
      BY <1>1 DEF FlowInv, SpanTypes, CountTypes
    <3>2. (HasByte(file, s)' => HasByte(file, s)) /\ (Ahead(s)' => Ahead(s)) /\ (Held(s)' => Held(s))
          /\ (~Up' => ~Up)
      BY <2>1 DEF HasByte, Ahead, Passed, Held, Up
    <3> QED
      BY <1>2, <2>1, <2>3, <3>1, <3>2, SpanFrame
  <2>6. NoneTwice(file)' /\ Up'
    BY <2>1 DEF FlowInv, NoneTwice, Up
  <2> QED
    BY <2>4, <2>5, <2>6 DEF FlowInv
<1>9. CASE UNCHANGED vars
  BY <1>1, <1>2, <1>9, FlowStutter DEF vars, queueVars, workVars, spillVars, historyVars, Up
<1>10. CASE Crash
  <2>1. /\ queue' = <<>> /\ item' = None /\ UNCHANGED <<recorded, errored>>
        /\ pc' = [t \in Threads |-> "down"] /\ faults' = faults + 1 /\ ~Genuine
        /\ stage' = [s \in Spans |-> IF stage[s] \in {"full", "failed"} THEN "lost" ELSE stage[s]]
    BY <1>10 DEF Crash, historyVars, Fault, Genuine
  <2>2. ~Up'
    BY <2>1 DEF Up, Threads
  <2>3. /\ Len(<<>>) = 0 /\ queue' \in Seq(Spans \cup {Sentinel})
    BY <2>1
  <2>4. Once(queue)' /\ \A s : ~InQueue(s)'
    BY <2>1, <2>3, EmptySeq DEF Once, InQueue
  <2>5. NoneTwice(file)' /\ \A s \in Spans : stage[s] = "new" => ~HasByte(file, s)'
    <3>1. CASE file' = file
      <4>1. \A s \in Spans : stage[s] = "new" => ~HasByte(file, s)
        BY DEF FlowInv, SpanInv
      <4> QED
        BY <3>1, <4>1 DEF FlowInv, NoneTwice, HasByte
    <3>2. CASE file' # file
      <4>0. PICK s \in Spans : /\ stage[s] = "full"
                              /\ \E k \in 1..(LineLen[s] - 1) : DieAppending(s, k)
        BY <1>10, <3>2 DEF Crash, Die
      <4>1. PICK k \in 1..(LineLen[s] - 1) : stage[s] = "full" /\ DieAppending(s, k)
        BY <4>0
      <4>2. k \in 0..LineLen[s] /\ file' = file \o SubSeq(Line(s), 1, k)
        BY <4>1, LineType DEF DieAppending
      <4>3. PICK g : g = file \o SubSeq(Line(s), 1, k)
        OBVIOUS
      <4>4. Grown(file, g, s)
        BY <1>1, <4>2, <4>3, FileGrows
      <4>5. ~HasByte(file, s) /\ NoneTwice(file)
        BY <4>1 DEF FlowInv, SpanInv
      <4>6. NoneTwice(file)'
        BY <4>2, <4>3, <4>4, <4>5 DEF Grown, NoneTwice
      <4>7. ASSUME NEW u \in Spans, stage[u] = "new"
            PROVE  ~HasByte(file, u)'
        <5>1. u # s /\ ~HasByte(file, u)
          BY <4>1, <4>7 DEF FlowInv, SpanInv
        <5> QED
          BY <4>2, <4>3, <4>4, <5>1 DEF Grown, HasByte
      <4> QED
        BY <4>6, <4>7
    <3> QED
      BY <3>1, <3>2
  <2>6. ASSUME NEW s \in Spans
        PROVE  SpanInv(s)'
    <3>1. SpanInv(s) /\ recorded[s] \in Nat /\ faults \in Nat
      BY <1>1 DEF FlowInv, SpanTypes, CountTypes
    <3>2. stage'[s] = IF stage[s] \in {"full", "failed"} THEN "lost" ELSE stage[s]
      BY <2>1
    <3>3. stage'[s] \in {"new", "full"} => stage[s] = "new"
      BY <3>2
    <3>4. recorded'[s] <= faults' /\ recorded'[s] <= 1 + faults'
      BY <2>1, <3>1 DEF SpanInv
    <3>5. item' # s
      BY <2>1, PipelineAssumption
    <3>6. stage'[s] \in {"new", "full"} => recorded'[s] = 0 /\ s \notin errored'
      BY <2>1, <3>1, <3>3 DEF SpanInv
    <3> QED
      BY <2>1, <2>4, <2>5, <3>3, <3>4, <3>5, <3>6 DEF SpanInv
  <2> QED
    BY <2>1, <2>4, <2>5, <2>6 DEF FlowInv
<1>11. CASE Restart
  <2>1. /\ UNCHANGED <<queue, item, stage, recorded, errored, file, faults>>
        /\ ~Up /\ pc' = [t \in Threads |-> IF t = "worker" THEN "get" ELSE "idle"]
    BY <1>11 DEF Restart, Reopen, queueVars, workVars, historyVars
  <2>2. item = None /\ queue = <<>> /\ Up'
    BY <1>1, <2>1 DEF HandInv, Up, FlowInv, Threads
  <2>3. \A s : ~InQueue(s)'
    <3>1. DOMAIN queue' = {}
      BY <2>1, <2>2
    <3> QED
      BY <3>1 DEF InQueue
  <2>4. ~Genuine
    BY <2>1 DEF DropInv, LedgerInv, Deathless, Genuine
  <2>5. ASSUME NEW s \in Spans
        PROVE  SpanInv(s)'
    <3>1. SpanInv(s) /\ recorded[s] \in Nat /\ faults \in Nat
      BY <1>1 DEF FlowInv, SpanTypes, CountTypes
    <3>2. item' # s
      BY <2>1, <2>2, PipelineAssumption
    <3>3. stage'[s] \in {"new", "full"} =>
              recorded'[s] = 0 /\ s \notin errored' /\ ~HasByte(file, s)'
      BY <2>1, <3>1 DEF SpanInv, HasByte
    <3>4. recorded'[s] <= faults' /\ recorded'[s] <= 1 + faults'
      BY <2>1, <3>1 DEF SpanInv
    <3> QED
      BY <2>3, <2>4, <3>2, <3>3, <3>4 DEF SpanInv
  <2>6. Once(queue)' /\ NoneTwice(file)'
    BY <2>1 DEF FlowInv, Once, NoneTwice
  <2> QED
    BY <2>2, <2>5, <2>6 DEF FlowInv
<1> QED
  BY <1>3, <1>4, <1>5, <1>6, <1>7, <1>8, <1>9, <1>10, <1>11 DEF Next

\* pipeline.py:178, and what crashes and commits that raise late make of it: a span is
\* recorded, and a drop declared, at most once more for each fault, of any kind, in
\* every interleaving and over any number of restarts.
THEOREM RepeatedOncePerFault == Spec => []RecordedOncePerFault
<1>1. DropInv /\ DeclareInv /\ FlowInv => RecordedOncePerFault
  <2> SUFFICES ASSUME DropInv, DeclareInv, FlowInv
               PROVE  RecordedOncePerFault
    OBVIOUS
  <2>1. CountTypes /\ InFlight \in Nat
    BY TypeParts DEF DropInv, TypeInv, CountTypes, InFlight
  <2>2. \A s \in Spans : recorded[s] <= 1 + faults
    BY DEF FlowInv, SpanInv
  <2>3. PICK B \in Nat : B = Budget(faults, dropped)
    BY <2>1, BudgetGrows DEF CountTypes
  <2>4. Up => InFlight <= undeclared
    BY <2>1 DEF DropInv, LockInv, InFlight, CountTypes
  <2>5. ~Up => InFlight = 0
    <3>1. ~Up => \A t \in Threads : pc[t] = "down"
      BY DEF DropInv, TypeInv, HandInv, Up, Threads
    <3> QED
      BY <3>1 DEF InFlight, At
  <2>6. attested <= B
    BY <2>1, <2>3, <2>4, <2>5 DEF DeclareInv, CountTypes
  <2> QED
    BY <2>2, <2>3, <2>6 DEF RecordedOncePerFault, Budget
<1>2. (DropInv /\ DeclareInv /\ FlowInv) /\ [Next]_vars => (DropInv /\ DeclareInv /\ FlowInv)'
  BY DropNext, DeclareNext, FlowNext
<1>3. Init => DropInv /\ DeclareInv /\ FlowInv
  BY DropInit, DeclareInit, FlowInit
<1> QED
  BY <1>1, <1>2, <1>3, PTL DEF Spec
(***************************************************************************)
(* The pipeline is an EvidenceIntake: unless a process dies, or a call that *)
(* raises has left its record or a line behind.                            *)
(***************************************************************************)
LEMMA IntakeStep ==
    ASSUME Genuine, DropInv, DeclareInv, FlowInv, [Next]_vars
    PROVE  [Intake!Next]_(Intake!vars)
<1> DEFINE taken == {s \in Spans : stage[s] \in {"queued", "spilled"}}
<1>1. SpillTypeOK /\ CountTypes /\ SpanTypes /\ WorkTypes /\ HandInv
  BY TypeParts DEF DropInv, TypeInv
<1>2. ASSUME UNCHANGED <<recorded, errored, dropped, attested>>, taken' = taken
      PROVE  UNCHANGED (Intake!vars)
  BY <1>2 DEF Intake!vars
<1>3. ASSUME UNCHANGED <<stage, recorded, errored, dropped, attested>>
      PROVE  UNCHANGED (Intake!vars)
  BY <1>3, <1>2
<1>4. ASSUME NEW s \in Spans, UNCHANGED <<recorded, errored, dropped, attested>>,
             NEW old, NEW new, stage' = [stage EXCEPT ![s] = new], stage[s] = old,
             old \in {"new", "full"}
      PROVE  [Intake!Next]_(Intake!vars)
  <2>1. stage'[s] = new /\ \A u \in Spans \ {s} : stage'[u] = stage[u]
    BY <1>1, <1>4 DEF SpanTypes
  <2>2. s \notin taken
    BY <1>4
  <2>3. CASE new \in {"queued", "spilled"}
    <3>1. taken' = taken \cup {s}
      BY <2>1, <2>3
    <3>2. Intake!TakeOver(s)
      BY <1>4, <2>2, <3>1 DEF Intake!TakeOver
    <3> QED
      BY <3>2 DEF Intake!Next
  <2>4. CASE new \notin {"queued", "spilled"}
    <3>1. taken' = taken
      BY <2>1, <2>2, <2>4
    <3> QED
      BY <1>2, <1>4, <3>1
  <2> QED
    BY <2>3, <2>4
<1>5. ASSUME NEW s \in Spans, Submit(s)
      PROVE  [Intake!Next]_(Intake!vars)
  <2>1. CASE Enqueue(s) \/ Overflow(s)
    BY <2>1, <1>4 DEF Enqueue, Overflow, SubmitVars
  <2>2. CASE SpillSpan(s) \/ SpillFails(s)
    BY <2>2, <1>4 DEF SpillSpan, SpillFails, emitVars, historyVars
  <2>3. CASE Drop(s)
    <3>1. /\ UNCHANGED <<recorded, errored, attested>> /\ dropped' = dropped + 1
          /\ stage' = [stage EXCEPT ![s] = "dropped"] /\ stage[s] = "failed"
      BY <2>3 DEF Drop, SubmitVars
    <3>2. taken' = taken
      BY <1>1, <3>1 DEF SpanTypes
    <3>3. dropped' - attested' = (dropped - attested) + 1
      BY <1>1, <3>1 DEF CountTypes
    <3>4. Intake!Refuse
      BY <3>1, <3>2, <3>3 DEF Intake!Refuse
    <3> QED
      BY <3>4 DEF Intake!Next
  <2> QED
    BY <1>5, <2>1, <2>2, <2>3 DEF Submit
<1>6. ASSUME NEW t \in Threads, Emit(t)
      PROVE  [Intake!Next]_(Intake!vars)
  <2>1. UNCHANGED <<stage, recorded, errored, dropped>>
    BY <1>6 DEF Emit, EmitNothing, EmitBegin, Attest, AttestFails, Settle, EmitUnchanged, historyVars
  <2>2. CASE attested' = attested
    BY <1>3, <2>1, <2>2
  <2>3. CASE attested' # attested
    <3>1. pc[t] = "attest" /\ attested' = attested + batch
      BY <1>6, <2>3 DEF Emit, EmitNothing, EmitBegin, Attest, AttestFails, Settle, emitVars, At
    <3>2. InFlight = 0
      <4>1. \A u \in Threads : pc[u] # "settle"
        BY <3>1 DEF DropInv, LockInv
      <4> QED
        BY <4>1 DEF InFlight, At
    <3>3. {attested, batch, undeclared, dropped} \subseteq Nat
      BY <1>1 DEF CountTypes
    <3>4. attested + undeclared = dropped /\ batch <= undeclared
      BY <3>2, <3>3 DEF DropInv, LockInv, DeclareInv, Reliable, Genuine, Deathless
    <3>5. /\ batch \in 1..(dropped - attested) /\ batch <= dropped - attested
          /\ dropped' - attested' = (dropped - attested) - batch
      BY <2>1, <2>3, <3>1, <3>3, <3>4
    <3>6. Intake!Declare(batch)
      BY <2>1, <3>5 DEF Intake!Declare
    <3> QED
      BY <3>5, <3>6 DEF Intake!Next
  <2> QED
    BY <2>2, <2>3
<1>7. ASSUME NEW t \in Threads, Drain(t)
      PROVE  [Intake!Next]_(Intake!vars)
  BY <1>3, <1>7 DEF Drain, SkipDrain, EnterDrain, DrainLine, EndDrain, DrainFails,
        DrainUnchanged, emitVars, historyVars
<1>8. ASSUME item \in Spans, pc["worker"] \in {"normalize", "commit"},
             UNCHANGED <<stage, dropped, attested>>,
             \/ UNCHANGED <<recorded, errored>>
             \/ recorded' = recorded /\ errored' = errored \cup {item}
             \/ recorded' = [recorded EXCEPT ![item] = @ + 1] /\ errored' = errored
      PROVE  [Intake!Next]_(Intake!vars)
  <2>1. Held(item)
    BY <1>8 DEF Held
  <2>2. item \in taken /\ recorded[item] = 0 /\ item \notin errored
    BY <1>8, <2>1 DEF FlowInv, SpanInv, Waits, TakenOver
  <2>3. taken' = taken
    BY <1>8
  <2>4. CASE UNCHANGED <<recorded, errored>>
    BY <1>3, <1>8, <2>4
  <2>5. CASE recorded' = recorded /\ errored' = errored \cup {item}
    <3>1. Intake!GiveUp(item)
      BY <1>8, <2>2, <2>3, <2>5 DEF Intake!GiveUp
    <3> QED
      BY <1>8, <3>1 DEF Intake!Next
  <2>6. CASE recorded' = [recorded EXCEPT ![item] = @ + 1] /\ errored' = errored
    <3>1. recorded' = [recorded EXCEPT ![item] = 1]
      BY <2>2, <2>6
    <3>2. Intake!Record(item)
      BY <1>8, <2>2, <2>3, <2>6, <3>1 DEF Intake!Record
    <3> QED
      BY <1>8, <3>2 DEF Intake!Next
  <2> QED
    BY <1>8, <2>4, <2>5, <2>6
<1>9. CASE Worker
  <2>1. CASE GetItem \/ GetTimeout \/ TaskDone
    BY <1>3, <2>1 DEF GetItem, GetTimeout, TaskDone, emitVars, historyVars
  <2>2. CASE Normalize \/ Commit \/ CommitFails
    <3>1. pc["worker"] \in {"normalize", "commit"} /\ UNCHANGED <<stage, dropped, attested>>
      BY <2>2 DEF Normalize, Commit, CommitFails, CommitUnchanged, emitVars, At
    <3>2. \/ UNCHANGED <<recorded, errored>>
          \/ recorded' = recorded /\ errored' = errored \cup {item}
          \/ recorded' = [recorded EXCEPT ![item] = @ + 1] /\ errored' = errored
      BY <2>2 DEF Normalize, Commit, CommitFails, Fault, Genuine
    <3>3. item \in Spans
      BY <1>1, <3>1 DEF HandInv
    <3> QED
      BY <1>8, <3>1, <3>2, <3>3
  <2> QED
    BY <1>9, <2>1, <2>2 DEF Worker
<1>10. CASE Flusher \/ Stop \/ UNCHANGED vars
  BY <1>3, <1>10 DEF Flusher, Flush, Join, Pending, FlushReturns, FlushUnchanged, Stop, vars,
        emitVars, historyVars
<1>11. ~Crash
  BY DEF Crash, Fault, Genuine
<1>12. ~Restart
  BY DEF Restart, DropInv, LedgerInv, Deathless, Genuine
<1> QED
  BY <1>5, <1>6, <1>7, <1>9, <1>10, <1>11, <1>12 DEF Next

\* Seen from outside, the pipeline records each span it took over at most once, and not
\* after giving it up, and declares each drop once (pipeline.py:178), whatever else
\* fails: commits, spill appends, journal and cursor writes that raise and wrote nothing.
THEOREM IntakeImplemented ==
    ASSUME Genuine
    PROVE  Spec => IntakeSpec
<1>1. (DropInv /\ DeclareInv /\ FlowInv) /\ [Next]_vars
         => (DropInv /\ DeclareInv /\ FlowInv)' /\ [Intake!Next]_(Intake!vars)
  BY DropNext, DeclareNext, FlowNext, IntakeStep
<1>2. Init => DropInv /\ DeclareInv /\ FlowInv
  BY DropInit, DeclareInit, FlowInit
<1>3. Init => Intake!Init
  BY DEF Init, Intake!Init
<1> QED
  BY <1>1, <1>2, <1>3, PTL DEF Spec, IntakeSpec, Intake!Spec
(***************************************************************************)
(* Nothing is lost.  As long as no process dies and no line is torn, the    *)
(* spill file is whole lines, so the cursor passes a line only when its     *)
(* span enters the queue, and the worker lets go of a span only when it is  *)
(* recorded or given up.                                                   *)
(***************************************************************************)
Whole == {"torn", "crash", "tear"} \cap Faults = {}

Kept(s) == TakenOver(s) => Settled(s) \/ item = s \/ InQueue(s) \/ Ahead(s)

\* The worker is done with its item only when that is settled.
HandSettled == item \in Spans /\ pc["worker"] \in {"done", "draining"} => Settled(item)

\* Without a spill buffer nothing is written.
SpillUsed == ~HasSpill => file = <<>> /\ \A s \in Spans : stage[s] # "full"

StayInv == Lines /\ HandSettled /\ SpillUsed /\ \A s \in Spans : Kept(s)

\* A span of which the step loses no trace.
LEMMA KeptFrame ==
    ASSUME NEW s \in Spans, Kept(s), TakenOver(s)' => TakenOver(s), Settled(s) => Settled(s)',
           item = s => item' = s \/ Settled(s)', InQueue(s) => InQueue(s)' \/ item' = s,
           Ahead(s) => Ahead(s)' \/ InQueue(s)'
    PROVE  Kept(s)'
  BY DEF Kept

\* Steps that leave the file, the cursor and the spans alone.
LEMMA StayStutter ==
    ASSUME StayInv, UNCHANGED <<stage, queue, item, recorded, errored, file, consumed>>,
           item \in Spans /\ pc'["worker"] \in {"done", "draining"} =>
               pc["worker"] \in {"done", "draining"}
    PROVE  StayInv'
<1>1. Lines'
  BY DEF StayInv, Lines, Cut
<1>2. \A s : (Settled(s)' <=> Settled(s)) /\ (InQueue(s)' <=> InQueue(s)) /\ (Ahead(s)' <=> Ahead(s))
             /\ (TakenOver(s)' <=> TakenOver(s))
  BY DEF Settled, InQueue, Ahead, Passed, TakenOver
<1>3. \A s \in Spans : Kept(s)'
  BY <1>2 DEF StayInv, Kept
<1>4. HandSettled'
  BY <1>2 DEF StayInv, HandSettled, Settled
<1> QED
  BY <1>1, <1>3, <1>4 DEF StayInv, SpillUsed

\* In the first state no span that was taken over is missing.
LEMMA StayInit == Init => StayInv
<1> SUFFICES ASSUME Init
             PROVE  StayInv
  OBVIOUS
<1>1. Lines
  BY LinesInit DEF Init
<1>2. /\ file = <<>> /\ item = None /\ \A s \in Spans : stage[s] = "new"
  BY DEF Init, SpillInit
<1> QED
  BY <1>1, <1>2, PipelineAssumption DEF StayInv, HandSettled, SpillUsed, Kept, TakenOver

\* submit() loses none.
LEMMA StaySubmit ==
    ASSUME Whole, TypeInv, StayInv, NEW s \in Spans, Submit(s)
    PROVE  StayInv'
<1>1. SpillTypeOK /\ SpanTypes /\ WorkTypes
  BY TypeParts DEF TypeInv
<1>2. /\ UNCHANGED <<item, pc, consumed, recorded, errored>>
      /\ \A t \in Spans \ {s} : stage'[t] = stage[t]
  BY <1>1 DEF Submit, Enqueue, Overflow, SpillSpan, SpillFails, Drop, SubmitVars, spillVars, workVars,
              historyVars, SpanTypes, AppendLine, AppendRaises
<1>3. HandSettled' /\ \A t : Settled(t)' <=> Settled(t)
  BY <1>2 DEF StayInv, HandSettled, Settled
<1>4. ASSUME Lines', SpillUsed', \A t : InQueue(t) => InQueue(t)', \A t : Ahead(t) => Ahead(t)',
             TakenOver(s)' => InQueue(s)' \/ Ahead(s)'
      PROVE  StayInv'
  <2>1. ASSUME NEW t \in Spans, t # s
        PROVE  Kept(t)'
    BY <1>2, <1>3, <1>4, <2>1 DEF StayInv, Kept, TakenOver
  <2>2. Kept(s)'
    BY <1>4 DEF Kept
  <2> QED
    BY <1>3, <1>4, <2>1, <2>2 DEF StayInv
<1>5. CASE file' = file /\ ~SpillSpan(s)
  <2>1. Lines' /\ \A t : Ahead(t) => Ahead(t)'
    BY <1>2, <1>5 DEF StayInv, Lines, Cut, Ahead, Passed
  <2>2. stage'[s] = "full" => HasSpill
    BY <1>1, <1>5 DEF Submit, Enqueue, Overflow, SpillFails, Drop, SpanTypes
  <2>3. SpillUsed'
    BY <1>2, <1>5, <2>2 DEF StayInv, SpillUsed
  <2>4. \/ queue' = Append(queue, s)
        \/ queue' = queue /\ stage'[s] \in {"full", "failed", "dropped"}
    BY <1>1, <1>5 DEF Submit, Enqueue, Overflow, SpillFails, Drop, SpanTypes, Put, SubmitVars, queueVars
  <2>5. queue \in Seq(Spans \cup {Sentinel}) /\ queue' \in Seq(Spans \cup {Sentinel})
    BY <1>1, <2>4, QueueTypes DEF WorkTypes
  <2>6. CASE queue' = Append(queue, s)
    <3>1. \A t : On(queue', t) <=> (On(queue, t) \/ t = s)
      BY <2>5, <2>6, OnAppend
    <3>2. DOMAIN queue' = 1..Len(queue') /\ DOMAIN queue = 1..Len(queue)
      BY <2>5, LenProperties
    <3>3. \A t : (InQueue(t) => InQueue(t)') /\ InQueue(s)'
      BY <3>1, <3>2 DEF InQueue, On
    <3> QED
      BY <1>4, <2>1, <2>3, <3>3
  <2>7. CASE queue' = queue /\ stage'[s] \in {"full", "failed", "dropped"}
    BY <1>4, <2>1, <2>3, <2>7 DEF InQueue, TakenOver
  <2> QED
    BY <2>4, <2>6, <2>7
<1>6. CASE file' = file \o Line(s) /\ (SpillSpan(s) \/ SpillFails(s))
  <2>1. stage[s] = "full" /\ queue' = queue /\ stage'[s] # "full"
    BY <1>1, <1>6 DEF SpillSpan, SpillFails, queueVars, SpanTypes
  <2>2. Lines' /\ ~Passed(file', consumed', s)
        /\ \A t : ~Passed(file, consumed, t) => ~Passed(file', consumed', t)
    BY <1>1, <1>2, <1>6, LinesAppend DEF StayInv
  <2>3. SpillUsed'
    BY <2>1 DEF StayInv, SpillUsed
  <2> QED
    BY <1>4, <2>1, <2>2, <2>3 DEF Ahead, InQueue
<1>7. ASSUME SpillFails(s)
      PROVE  file' = file \/ file' = file \o Line(s)
  <2>1. AppendRaises(s, 0) \/ AppendRaises(s, LineLen[s])
    BY <1>7 DEF SpillFails, Fault, Whole
  <2>2. 0 \in 0..LineLen[s] /\ LineLen[s] \in 0..LineLen[s] /\ file \in Seq(Byte)
    BY <1>1, LineType DEF SpillTypeOK
  <2>3. SubSeq(Line(s), 1, 0) = <<>> /\ SubSeq(Line(s), 1, LineLen[s]) = Line(s)
    BY <2>2, PrefixType
  <2>4. file \o <<>> = file
    BY <2>2, ConcatEmptySeq
  <2> QED
    BY <2>1, <2>3, <2>4 DEF AppendRaises
<1>8. \/ file' = file /\ ~SpillSpan(s)
      \/ file' = file \o Line(s) /\ SpillSpan(s)
      \/ SpillFails(s) /\ ~SpillSpan(s)
  <2>1. SpillSpan(s) => file' = file \o Line(s)
    BY DEF SpillSpan, AppendLine
  <2>2. Enqueue(s) \/ Overflow(s) \/ Drop(s) => file' = file
    BY DEF Enqueue, Overflow, Drop, SubmitVars, spillVars
  <2> QED
    BY <2>1, <2>2 DEF Submit
<1> QED
  BY <1>5, <1>6, <1>7, <1>8
\* So does refilling the queue from the spill file.
LEMMA StayDrain ==
    ASSUME TypeInv, StayInv, NEW t \in Threads, Drain(t)
    PROVE  StayInv'
<1>1. SpillTypeOK /\ SpanTypes /\ WorkTypes /\ HandInv
  BY TypeParts DEF TypeInv
<1>2. UNCHANGED <<stage, recorded, errored>> /\ pc[t] = "draining"
  BY <1>1 DEF Drain, SkipDrain, EnterDrain, DrainLine, EndDrain, DrainFails, DrainUnchanged, historyVars,
              HandInv, At
<1>3. \A s : (Settled(s)' <=> Settled(s)) /\ (TakenOver(s)' <=> TakenOver(s))
  BY <1>2 DEF Settled, TakenOver
<1>4. CASE SkipDrain(t) \/ EndDrain(t) \/ DrainFails(t)
  <2>1. UNCHANGED <<queue, file, consumed>>
    BY <1>4 DEF SkipDrain, EndDrain, DrainFails, SaveCursor, SaveCursorRaises, ParseError, queueVars,
                spillVars
  <2>2. PICK label : pc' = [pc EXCEPT ![t] = label] /\ item' = IF t = "worker" THEN None ELSE item
    BY <1>4 DEF SkipDrain, EndDrain, DrainFails, LeaveDrain, GoTo
  <2>3. CASE t = "flusher"
    <3>1. item' = item /\ pc'["worker"] = pc["worker"]
      BY <1>1, <2>2, <2>3 DEF WorkTypes, Threads
    <3> QED
      BY <1>2, <2>1, <3>1, StayStutter
  <2>4. CASE t = "worker"
    <3>1. item' = None /\ HandSettled'
      BY <2>2, <2>4, PipelineAssumption DEF HandSettled
    <3>2. Lines' /\ SpillUsed'
      BY <1>2, <2>1 DEF StayInv, Lines, Cut, SpillUsed
    <3>3. ASSUME NEW s \in Spans
          PROVE  Kept(s)'
      <4>1. (InQueue(s)' <=> InQueue(s)) /\ (Ahead(s)' <=> Ahead(s))
        BY <2>1 DEF InQueue, Ahead, Passed
      <4>2. item = s => Settled(s)
        BY <1>2, <2>4 DEF StayInv, HandSettled
      <4> QED
        BY <1>3, <4>1, <4>2 DEF StayInv, Kept
    <3> QED
      BY <3>1, <3>2, <3>3 DEF StayInv
  <2> QED
    BY <2>3, <2>4 DEF Threads
<1>5. CASE EnterDrain(t)
  <2>1. UNCHANGED <<queue, item, pc, file, consumed>>
    BY <1>5 DEF EnterDrain, BeginDrain, queueVars
  <2> QED
    BY <1>2, <2>1, StayStutter
<1>6. CASE DrainLine(t)
  <2>1. UNCHANGED <<item, pc>>
    BY <1>6 DEF DrainLine
  <2>2. HandSettled'
    BY <1>3, <2>1 DEF StayInv, HandSettled
  <2>3. ~SkipBlank
    BY <1>1, LinesOnly DEF StayInv
  <2>4. CASE UNCHANGED <<queue, file, consumed>>
    BY <1>2, <2>1, <2>4, StayStutter
  <2>5. CASE Compact /\ queue' = queue
    <3>1. Lines' /\ \A s : ~Passed(file, consumed, s) => ~Passed(file', consumed', s)
      BY <1>1, <2>5, LinesCompact DEF StayInv
    <3>2. SpillUsed'
      BY <1>2, <2>5 DEF StayInv, SpillUsed, Compact
    <3>3. \A s \in Spans : Kept(s)'
      BY <1>3, <2>1, <2>5, <3>1 DEF StayInv, Kept, InQueue, Ahead
    <3> QED
      BY <2>2, <3>1, <3>2, <3>3 DEF StayInv
  <2>6. ASSUME NEW s \in Spans, Take(s), Put(s)
        PROVE  StayInv'
    <3>1. /\ Lines'
          /\ \A u : u # s /\ ~Passed(file, consumed, u) => ~Passed(file', consumed', u)
      BY <1>1, <2>6, LinesTake DEF StayInv
    <3>2. queue' = Append(queue, s) /\ file' = file
      BY <2>6 DEF Put, Take
    <3>3. \A u : (InQueue(u) => InQueue(u)') /\ InQueue(s)'
      <4>1. queue \in Seq(Spans \cup {Sentinel}) /\ queue' \in Seq(Spans \cup {Sentinel})
        BY <1>1, <3>2, QueueTypes DEF WorkTypes
      <4>2. \A u : On(queue', u) <=> (On(queue, u) \/ u = s)
        BY <3>2, <4>1, OnAppend
      <4>3. DOMAIN queue' = 1..Len(queue') /\ DOMAIN queue = 1..Len(queue)
        BY <4>1, LenProperties
      <4> QED
        BY <4>2, <4>3 DEF InQueue, On
    <3>4. SpillUsed'
      BY <1>2, <3>2 DEF StayInv, SpillUsed
    <3>5. \A u \in Spans : Kept(u)'
      BY <1>3, <2>1, <3>1, <3>3 DEF StayInv, Kept, Ahead
    <3> QED
      BY <2>2, <3>1, <3>4, <3>5 DEF StayInv
  <2>7. \/ UNCHANGED <<queue, file, consumed>>
        \/ Compact /\ queue' = queue
        \/ \E s \in Spans : Take(s) /\ Put(s)
    BY <1>6, <2>3 DEF DrainLine, Decline, EndOfFile, queueVars
  <2> QED
    BY <2>4, <2>5, <2>6, <2>7
<1> QED
  BY <1>4, <1>5, <1>6 DEF Drain

\* So does the worker.
LEMMA StayWorker ==
    ASSUME TypeInv, StayInv, Worker
    PROVE  StayInv'
<1>1. SpanTypes /\ WorkTypes /\ HandInv
  BY TypeParts DEF TypeInv
<1>2. UNCHANGED <<stage, file, consumed>>
  BY DEF Worker, GetItem, GetTimeout, Normalize, Commit, CommitFails, TaskDone, CommitUnchanged,
         spillVars
<1>3. Lines' /\ SpillUsed' /\ \A s : (Ahead(s)' <=> Ahead(s)) /\ (TakenOver(s)' <=> TakenOver(s))
  BY <1>2 DEF StayInv, Lines, Cut, SpillUsed, Ahead, Passed, TakenOver
<1>4. CASE GetTimeout \/ TaskDone
  <2>1. /\ UNCHANGED <<queue, item, recorded, errored>>
        /\ (pc["worker"] = "get" /\ item = None) \/ pc["worker"] = "done"
    BY <1>1, <1>4 DEF GetTimeout, TaskDone, queueVars, workVars, historyVars, At, HandInv
  <2> QED
    BY <1>2, <2>1, StayStutter, PipelineAssumption
<1>5. CASE GetItem
  <2>1. /\ queue # <<>> /\ item' = Head(queue) /\ queue' = Tail(queue)
        /\ pc' = [pc EXCEPT !["worker"] = "emit"] /\ pc["worker"] = "get"
        /\ UNCHANGED <<recorded, errored>>
    BY <1>5 DEF GetItem, historyVars, GoTo, At
  <2>2. item = None /\ pc'["worker"] = "emit"
    BY <1>1, <2>1 DEF HandInv, WorkTypes, Threads
  <2>3. queue \in Seq(Spans \cup {Sentinel}) /\ queue' \in Seq(Spans \cup {Sentinel})
    BY <1>1, <2>1, QueueTypes DEF WorkTypes
  <2>4. \A s : On(queue, s) <=> (s = item' \/ On(queue', s))
    BY <2>1, <2>3, OnTail
  <2>5. \A s : InQueue(s) => InQueue(s)' \/ item' = s
    <3>1. DOMAIN queue' = 1..Len(queue') /\ DOMAIN queue = 1..Len(queue)
      BY <2>3, LenProperties
    <3> QED
      BY <2>4, <3>1 DEF InQueue, On
  <2>6. \A s \in Spans : Kept(s)'
    BY <1>3, <2>1, <2>2, <2>5, PipelineAssumption DEF StayInv, Kept, Settled
  <2>7. HandSettled'
    BY <2>2 DEF HandSettled
  <2> QED
    BY <1>3, <2>6, <2>7 DEF StayInv
<1>6. CASE Normalize \/ Commit \/ CommitFails
  <2>1. UNCHANGED <<queue, item>> /\ item \in Spans /\ pc["worker"] \in {"normalize", "commit"}
    BY <1>1, <1>6 DEF Normalize, Commit, CommitFails, CommitUnchanged, queueVars, At, HandInv
  <2>2. /\ \/ recorded' = recorded
           \/ recorded' = [recorded EXCEPT ![item] = @ + 1]
        /\ errored' = errored \/ errored' = errored \cup {item}
    BY <1>6 DEF Normalize, Commit, CommitFails, CommitUnchanged
  <2>3. \A s \in Spans : Settled(s) => Settled(s)'
    BY <1>1, <2>1, <2>2 DEF Settled, SpanTypes
  <2>4. pc'["worker"] \in {"done", "draining"} => Settled(item)'
    <3>1. \/ recorded' = [recorded EXCEPT ![item] = @ + 1] \/ errored' = errored \cup {item}
          \/ pc' = pc \/ pc' = [pc EXCEPT !["worker"] = "commit"]
      BY <1>6 DEF Normalize, Commit, CommitFails, GoTo
    <3>2. recorded' = [recorded EXCEPT ![item] = @ + 1] => recorded'[item] > 0
      BY <1>1, <2>1 DEF SpanTypes
    <3>3. pc' = pc \/ pc' = [pc EXCEPT !["worker"] = "commit"] =>
              pc'["worker"] \in {"normalize", "commit"}
      BY <1>1, <2>1 DEF WorkTypes, Threads
    <3>4. item' = item
      BY <2>1
    <3> QED
      BY <3>1, <3>2, <3>3, <3>4 DEF Settled
  <2>5. HandSettled'
    BY <2>1, <2>4 DEF HandSettled, Settled
  <2>6. \A s \in Spans : Kept(s)'
    BY <1>3, <2>1, <2>3 DEF StayInv, Kept, InQueue
  <2> QED
    BY <1>3, <2>5, <2>6 DEF StayInv
<1> QED
  BY <1>4, <1>5, <1>6 DEF Worker

\* So does every step, if faults lose no line.
LEMMA StayNext ==
    ASSUME Whole
    PROVE  DropInv /\ StayInv /\ [Next]_vars => StayInv'
<1> SUFFICES ASSUME DropInv, StayInv, [Next]_vars
             PROVE  StayInv'
  OBVIOUS
<1>1. TypeInv /\ WorkTypes /\ HandInv /\ Up
  BY TypeParts DEF DropInv, TypeInv, LedgerInv, Whole, Deathless
<1>2. CASE \E s \in Spans : Submit(s)
  BY <1>1, <1>2, StaySubmit
<1>3. CASE \E t \in Threads : Drain(t)
  BY <1>1, <1>3, StayDrain
<1>4. CASE Worker
  BY <1>1, <1>4, StayWorker
<1>5. ASSUME NEW t \in Threads, Emit(t)
      PROVE  StayInv'
  <2>1. UNCHANGED <<stage, queue, item, recorded, errored, file, consumed>>
    BY <1>5 DEF Emit, EmitNothing, EmitBegin, Attest, AttestFails, Settle, EmitUnchanged,
                queueVars, workVars, spillVars, historyVars
  <2>2. PICK label : /\ pc' = [pc EXCEPT ![t] = label]
                     /\ label \in {"attest", "settle"} \/ label = AfterEmit(t)
    BY <1>5 DEF Emit, EmitNothing, EmitBegin, Attest, AttestFails, Settle, GoTo
  <2>3. CASE t = "flusher"
    <3>1. pc'["worker"] = pc["worker"]
      BY <1>1, <2>2, <2>3 DEF WorkTypes, Threads
    <3> QED
      BY <2>1, <3>1, StayStutter
  <2>4. CASE t = "worker"
    <3>1. pc'["worker"] = label
      BY <1>1, <2>2, <2>4 DEF WorkTypes, Threads
    <3>2. item \in Spans => AfterEmit(t) = "normalize"
      BY <2>4, PipelineAssumption DEF AfterEmit
    <3> QED
      BY <2>1, <2>2, <3>1, <3>2, StayStutter
  <2> QED
    BY <2>3, <2>4 DEF Threads
<1>6. CASE Flusher
  <2>1. /\ UNCHANGED <<stage, queue, item, recorded, errored, file, consumed>>
        /\ \E label : pc' = [pc EXCEPT !["flusher"] = label]
    BY <1>6 DEF Flusher, Flush, Join, Pending, FlushReturns, FlushUnchanged, queueVars, workVars,
                spillVars, historyVars, GoTo
  <2>2. pc'["worker"] = pc["worker"]
    BY <1>1, <2>1 DEF WorkTypes, Threads
  <2> QED
    BY <2>1, <2>2, StayStutter
<1>7. CASE Stop
  <2>1. queue' = Append(queue, Sentinel) /\ UNCHANGED <<stage, item, recorded, errored, file, consumed, pc>>
    BY <1>7 DEF Stop, Put, spillVars, workVars, historyVars
  <2>2. queue \in Seq(Spans \cup {Sentinel}) /\ queue' \in Seq(Spans \cup {Sentinel})
    BY <1>1, <2>1, QueueTypes DEF WorkTypes
  <2>3. \A s : InQueue(s) => InQueue(s)'
    <3>1. \A s : On(queue', s) <=> (On(queue, s) \/ s = Sentinel)
      BY <2>1, <2>2, OnAppend
    <3>2. DOMAIN queue' = 1..Len(queue') /\ DOMAIN queue = 1..Len(queue)
      BY <2>2, LenProperties
    <3> QED
      BY <3>1, <3>2 DEF InQueue, On
  <2>4. Lines' /\ SpillUsed' /\ HandSettled'
    BY <2>1 DEF StayInv, Lines, Cut, SpillUsed, HandSettled, Settled
  <2>5. \A s \in Spans : Kept(s)'
    BY <2>1, <2>3 DEF StayInv, Kept, TakenOver, Settled, Ahead, Passed
  <2> QED
    BY <2>4, <2>5 DEF StayInv
<1>8. CASE UNCHANGED vars
  BY <1>8, StayStutter DEF vars, queueVars, workVars, spillVars, historyVars
<1>9. ~Crash /\ ~Restart
  BY <1>1 DEF Crash, Restart, Fault, Whole
<1> QED
  BY <1>2, <1>3, <1>4, <1>5, <1>6, <1>7, <1>8, <1>9 DEF Next

\* As long as no process dies and no line is torn, a span submit() took over is recorded
\* or given up, or in the worker's hands, in the queue, or on a line of the spill file
\* behind the cursor, whatever else fails.
THEOREM TakenOverIsKept ==
    ASSUME Whole
    PROVE  Spec => []NoSpanVanishes
<1>1. DropInv /\ StayInv => NoSpanVanishes
  <2> SUFFICES ASSUME DropInv, StayInv, NEW s \in Spans, stage[s] \in {"queued", "spilled"}
               PROVE  Settled(s) \/ item = s \/ InQueue(s) \/ StoredFrom(consumed, s)
    BY DEF NoSpanVanishes
  <2>1. SpillTypeOK
    BY TypeParts DEF DropInv, TypeInv
  <2>2. Ahead(s) => StoredFrom(consumed, s)
    BY <2>1, LinesStored DEF Ahead, StayInv
  <2> QED
    BY <2>2 DEF StayInv, Kept, TakenOver
<1>2. Init => DropInv /\ StayInv
  BY DropInit, StayInit
<1>3. (DropInv /\ StayInv) /\ [Next]_vars => (DropInv /\ StayInv)'
  BY DropNext, StayNext
<1> QED
  BY <1>1, <1>2, <1>3, PTL DEF Spec
(***************************************************************************)
(* What flush() has waited for.  After its first join() with nothing left   *)
(* pending nothing of the file is ahead of the cursor, and after its second  *)
(* one everything taken over is settled, unless a submit() ran meanwhile.    *)
(* The batch it then declares is all that is undeclared.                   *)
(***************************************************************************)
NoneAhead == \A s \in Spans : ~Ahead(s)
AllSettled == \A s \in Spans : TakenOver(s) => Settled(s)

FlushInv ==
    quiet =>
        /\ pc["flusher"] = "rejoin" => NoneAhead
        /\ pc["flusher"] \in {"repending", "emit", "attest", "settle", "flushed"} => AllSettled
        /\ pc["flusher"] \in {"attest", "settle"} => batch = undeclared
        /\ pc["flusher"] = "flushed" /\ undeclared > 0 => faults > 0

\* A step of another thread keeps what flush() has waited for.
LEMMA FlushFrame ==
    ASSUME FlushInv, undeclared \in Nat, undeclared' \in Nat, faults \in Nat, faults' \in {faults, faults + 1},
           quiet' => quiet, pc'["flusher"] = pc["flusher"], stage' = stage,
           \A s \in Spans : Settled(s) => Settled(s)', \A s \in Spans : Ahead(s)' => Ahead(s),
           pc["flusher"] \in {"attest", "settle"} => batch' = batch /\ undeclared' = undeclared,
           undeclared' <= undeclared
    PROVE  FlushInv'
<1> SUFFICES ASSUME quiet'
             PROVE  /\ pc'["flusher"] = "rejoin" => NoneAhead'
                    /\ pc'["flusher"] \in {"repending", "emit", "attest", "settle", "flushed"} => AllSettled'
                    /\ pc'["flusher"] \in {"attest", "settle"} => batch' = undeclared'
                    /\ pc'["flusher"] = "flushed" /\ undeclared' > 0 => faults' > 0
  BY DEF FlushInv
<1>1. pc["flusher"] = "rejoin" => NoneAhead'
  BY DEF FlushInv, NoneAhead
<1>2. AllSettled => AllSettled'
  BY DEF AllSettled, TakenOver
<1>3. pc["flusher"] \in {"attest", "settle"} => batch' = undeclared'
  BY DEF FlushInv
<1>4. pc["flusher"] = "flushed" /\ undeclared' > 0 => faults' > 0
  BY DEF FlushInv
<1> QED
  BY <1>1, <1>2, <1>3, <1>4 DEF FlushInv

\* Where nothing is ahead of the cursor, the end of join() finds everything settled.
LEMMA JoinSettles ==
    ASSUME TypeInv, StayInv, NoneAhead, unfinished = 0
    PROVE  AllSettled
<1>1. WorkTypes
  BY TypeParts DEF TypeInv
<1>2. PICK len \in Nat : len = Len(queue)
  BY <1>1, LenProperties DEF WorkTypes
<1>3. len = 0 /\ (item = None \/ pc["worker"] = "draining")
  BY <1>2 DEF TypeInv, JoinCountsWork, At
<1>4. \A s : ~InQueue(s)
  <2>1. DOMAIN queue = 1..len
    BY <1>1, <1>2, LenProperties DEF WorkTypes
  <2>2. DOMAIN queue = {}
    BY <1>3, <2>1
  <2> QED
    BY <2>2 DEF InQueue
<1>5. \A s \in Spans : item = s => Settled(s)
  BY <1>3, PipelineAssumption DEF StayInv, HandSettled
<1> QED
  BY <1>4, <1>5 DEF AllSettled, NoneAhead, StayInv, Kept

\* Without a file nothing is ahead of the cursor.
LEMMA NoFileNoneAhead ==
    ASSUME StayInv, ~HasSpill
    PROVE  NoneAhead
<1>1. Len(file) = 0
  BY DEF StayInv, SpillUsed
<1> QED
  BY <1>1 DEF NoneAhead, Ahead, Passed

\* The first state has the invariant of flush().
LEMMA FlushInit == Init => FlushInv
  BY DEF Init, FlushInv, Threads

\* drain() never sets the cursor back behind the first byte of a line it has passed.
LEMMA DrainPasses ==
    ASSUME TypeInv, StayInv, NEW t \in Threads, Drain(t)
    PROVE  \A s \in Spans : Ahead(s)' => Ahead(s)
<1>1. SpillTypeOK
  BY TypeParts DEF TypeInv
<1>2. CASE UNCHANGED <<file, consumed>>
  BY <1>2 DEF Ahead, Passed
<1>3. CASE file' = <<>>
  <2>1. Len(<<>>) = 0
    OBVIOUS
  <2> QED
    BY <1>3, <2>1 DEF Ahead, Passed
<1>4. ASSUME NEW s \in Spans, Take(s)
      PROVE  \A u \in Spans : Ahead(u)' => Ahead(u)
  <2>1. PICK c \in Nat, d \in Nat : c = consumed /\ consumed' = c + d
    BY <1>1, <1>4, ParsesFirst DEF Take, SpillTypeOK
  <2>2. \A p \in 1..Len(file) : p <= c => p <= c + d
    BY <1>1, <2>1, LenProperties DEF SpillTypeOK
  <2> QED
    BY <1>4, <2>1, <2>2 DEF Ahead, Passed, Take
<1>5. ~SkipBlank
  BY <1>1, LinesOnly DEF StayInv
<1>6. UNCHANGED <<file, consumed>> \/ file' = <<>> \/ \E s \in Spans : Take(s)
  BY <1>5 DEF Drain, SkipDrain, EnterDrain, DrainLine, EndDrain, DrainFails, BeginDrain, Decline,
              EndOfFile, Compact, SaveCursor, SaveCursorRaises, ParseError, spillVars
<1> QED
  BY <1>2, <1>3, <1>4, <1>6

\* Declaring dropped spans keeps it.
LEMMA FlushEmit ==
    ASSUME DropInv, FlushInv, NEW t \in Threads, Emit(t), faults' \in {faults, faults + 1}
    PROVE  FlushInv'
<1>1. CountTypes /\ WorkTypes /\ CountTypes'
  <2>1. CountTypes /\ WorkTypes
    BY TypeParts DEF DropInv, TypeInv
  <2>2. [Next]_vars
    BY DEF Next
  <2> QED
    BY <2>1, <2>2, CountNext
<1>2. UNCHANGED <<stage, recorded, errored, file, consumed, quiet>>
  BY DEF Emit, EmitNothing, EmitBegin, Attest, AttestFails, Settle, EmitUnchanged, spillVars, historyVars
<1>3. \A s : (Settled(s)' <=> Settled(s)) /\ (Ahead(s)' <=> Ahead(s)) /\ (TakenOver(s)' <=> TakenOver(s))
  BY <1>2 DEF Settled, Ahead, Passed, TakenOver
<1>4. undeclared \in Nat /\ undeclared' \in Nat /\ faults \in Nat /\ batch \in Nat /\ batch <= undeclared
  BY <1>1 DEF CountTypes, DropInv, LockInv
<1>5. undeclared' <= undeclared
  BY <1>4 DEF Emit, EmitNothing, EmitBegin, Attest, AttestFails, Settle, emitVars
<1>6. PICK label : pc' = [pc EXCEPT ![t] = label]
  BY DEF Emit, EmitNothing, EmitBegin, Attest, AttestFails, Settle, GoTo
<1>7. CASE t = "worker"
  <2>1. pc'["flusher"] = pc["flusher"]
    BY <1>1, <1>6, <1>7 DEF WorkTypes, Threads
  <2>2. pc["flusher"] \notin {"attest", "settle"}
    <3>1. emitter = None \/ pc[t] \in {"attest", "settle"}
      BY DEF Emit, EmitNothing, EmitBegin, Attest, AttestFails, Settle, At
    <3>2. emitter \in {None, "worker"}
      BY <1>7, <3>1 DEF DropInv, LockInv
    <3> QED
      BY <3>2, PipelineAssumption DEF DropInv, LockInv, Threads
  <2> QED
    BY <1>2, <1>3, <1>4, <1>5, <2>1, <2>2, FlushFrame
<1>8. CASE t = "flusher"
  <2> SUFFICES ASSUME quiet
               PROVE  FlushInv'
    BY <1>2 DEF FlushInv
  <2>1. AllSettled'
    <3>1. pc["flusher"] \in {"emit", "attest", "settle"}
      BY <1>8 DEF Emit, EmitNothing, EmitBegin, Attest, AttestFails, Settle, At
    <3>2. AllSettled
      BY <3>1 DEF FlushInv
    <3> QED
      BY <1>3, <3>2 DEF AllSettled
  <2>2. pc'["flusher"] = label
    BY <1>1, <1>6, <1>8 DEF WorkTypes, Threads
  <2>3. CASE EmitBegin(t)
    <3>1. pc'["flusher"] = "attest" /\ batch' = undeclared'
      BY <1>1, <1>8, <2>3 DEF EmitBegin, GoTo, WorkTypes, Threads
    <3> QED
      BY <2>1, <3>1 DEF FlushInv
  <2>4. CASE Attest(t)
    <3>1. pc'["flusher"] = "settle" /\ pc["flusher"] = "attest" /\ UNCHANGED <<batch, undeclared>>
      BY <1>1, <1>8, <2>4 DEF Attest, GoTo, At, WorkTypes, Threads
    <3>2. batch' = undeclared'
      BY <3>1 DEF FlushInv
    <3> QED
      BY <2>1, <3>1, <3>2 DEF FlushInv
  <2>5. CASE EmitNothing(t) \/ AttestFails(t) \/ Settle(t)
    <3>1. pc'["flusher"] = "flushed"
      BY <1>1, <1>8, <2>5 DEF EmitNothing, AttestFails, Settle, AfterEmit, GoTo, WorkTypes, Threads
    <3>2. undeclared' > 0 => faults' > 0
      <4>1. CASE EmitNothing(t)
        BY <1>4, <4>1 DEF EmitNothing, emitVars
      <4>2. CASE AttestFails(t)
        BY <1>4, <4>2 DEF AttestFails, Fault
      <4>3. CASE Settle(t)
        <5>1. batch = undeclared
          BY <1>8, <4>3 DEF FlushInv, Settle, At
        <5> QED
          BY <1>4, <4>3, <5>1 DEF Settle
      <4> QED
        BY <2>5, <4>1, <4>2, <4>3
    <3> QED
      BY <2>1, <3>1, <3>2 DEF FlushInv
  <2> QED
    BY <2>3, <2>4, <2>5 DEF Emit
<1> QED
  BY <1>7, <1>8 DEF Threads

\* So does every step.
LEMMA FlushNext ==
    ASSUME Whole
    PROVE  DropInv /\ StayInv /\ FlushInv /\ [Next]_vars => FlushInv'
<1> SUFFICES ASSUME DropInv, StayInv, FlushInv, [Next]_vars
             PROVE  FlushInv'
  OBVIOUS
<1>1. /\ TypeInv /\ SpillTypeOK /\ CountTypes /\ SpanTypes /\ WorkTypes /\ HandInv /\ Up
      /\ undeclared \in Nat /\ undeclared' \in Nat /\ faults \in Nat
  <2>1. TypeInv /\ SpillTypeOK /\ CountTypes /\ SpanTypes /\ WorkTypes /\ HandInv
    BY TypeParts DEF DropInv, TypeInv
  <2>2. CountTypes'
    BY <2>1, CountNext
  <2> QED
    BY <2>1, <2>2 DEF CountTypes, DropInv, LedgerInv, Whole, Deathless
<1>2. faults' \in {faults, faults + 1}
  BY NextIsCountStep DEF CountStep
<1>3. CASE \E s \in Spans : Submit(s)
  <2>1. quiet' = FALSE
    BY <1>3 DEF Submit, Enqueue, Overflow, SpillSpan, SpillFails, Drop
  <2> QED
    BY <2>1 DEF FlushInv
<1>4. CASE \E t \in Threads : Emit(t)
  BY <1>2, <1>4, FlushEmit
<1>5. ASSUME NEW t \in Threads, Drain(t)
      PROVE  FlushInv'
  <2>1. /\ UNCHANGED <<stage, recorded, errored, batch, undeclared, quiet>>
        /\ pc[t] = "draining"
    BY <1>1, <1>5 DEF Drain, SkipDrain, EnterDrain, DrainLine, EndDrain, DrainFails, DrainUnchanged,
                      emitVars, historyVars, HandInv, At
  <2>2. pc' = pc \/ \E label \in {AfterDrain(t), DrainRaised(t)} : pc' = [pc EXCEPT ![t] = label]
    BY <1>5 DEF Drain, SkipDrain, EnterDrain, DrainLine, EndDrain, DrainFails, LeaveDrain, GoTo
  <2>3. CASE t = "flusher"
    <3>1. pc'["flusher"] \in {"draining", "join", "idle"}
      BY <1>1, <2>1, <2>2, <2>3 DEF AfterDrain, DrainRaised, WorkTypes, Threads
    <3> QED
      BY <3>1 DEF FlushInv
  <2>4. CASE t = "worker"
    <3>1. pc'["flusher"] = pc["flusher"]
      BY <1>1, <2>2, <2>4 DEF WorkTypes, Threads
    <3>2. \A s \in Spans : (Settled(s) => Settled(s)') /\ (Ahead(s)' => Ahead(s))
      BY <1>1, <1>5, <2>1, DrainPasses DEF Settled
    <3> QED
      BY <1>1, <1>2, <2>1, <3>1, <3>2, FlushFrame
  <2> QED
    BY <2>3, <2>4 DEF Threads
<1>6. CASE Worker
  <2>1. UNCHANGED <<stage, file, consumed, batch, undeclared, quiet>>
    BY <1>6 DEF Worker, GetItem, GetTimeout, Normalize, Commit, CommitFails, TaskDone, CommitUnchanged,
                spillVars, emitVars
  <2>2. pc' = pc \/ \E label : pc' = [pc EXCEPT !["worker"] = label]
    BY <1>6 DEF Worker, GetItem, GetTimeout, Normalize, Commit, CommitFails, TaskDone, GoTo
  <2>3. pc'["flusher"] = pc["flusher"]
    BY <1>1, <2>2 DEF WorkTypes, Threads
  <2>4. /\ recorded' = recorded \/ recorded' = [recorded EXCEPT ![item] = @ + 1]
        /\ errored' = errored \/ errored' = errored \cup {item}
    BY <1>6 DEF Worker, GetItem, GetTimeout, Normalize, Commit, CommitFails, TaskDone, CommitUnchanged,
                historyVars
  <2>5. \A s \in Spans : (Settled(s) => Settled(s)') /\ (Ahead(s)' => Ahead(s))
    BY <1>1, <2>1, <2>4 DEF Settled, SpanTypes, Ahead, Passed
  <2> QED
    BY <1>1, <1>2, <2>1, <2>3, <2>5, FlushFrame
<1>7. CASE Flusher
  <2>1. UNCHANGED <<stage, recorded, errored, file, consumed, batch, undeclared>>
    BY <1>7 DEF Flusher, Flush, Join, Pending, FlushReturns, FlushUnchanged, spillVars, emitVars, historyVars
  <2>2. (NoneAhead' <=> NoneAhead) /\ (AllSettled' <=> AllSettled)
    BY <2>1 DEF NoneAhead, AllSettled, Ahead, Passed, Settled, TakenOver
  <2>3. ASSUME NEW label, pc' = [pc EXCEPT !["flusher"] = label]
        PROVE  pc'["flusher"] = label
    BY <1>1, <2>3 DEF WorkTypes, Threads
  <2>4. CASE Flush \/ FlushReturns
    <3>1. pc'["flusher"] \in {"draining", "idle"}
      BY <2>3, <2>4 DEF Flush, FlushReturns, GoTo
    <3> QED
      BY <3>1 DEF FlushInv
  <2>5. CASE Join
    <3>1. unfinished = 0 /\ quiet' = quiet
      BY <2>5 DEF Join
    <3>2. CASE At("flusher", "join") /\ GoTo("flusher", IF HasSpill THEN "pending" ELSE "emit")
      <4>1. CASE HasSpill
        <5>1. pc'["flusher"] = "pending"
          BY <2>3, <3>2, <4>1 DEF GoTo
        <5> QED
          BY <5>1 DEF FlushInv
      <4>2. CASE ~HasSpill
        <5>1. pc'["flusher"] = "emit"
          BY <2>3, <3>2, <4>2 DEF GoTo
        <5>2. AllSettled
          BY <1>1, <3>1, <4>2, NoFileNoneAhead, JoinSettles
        <5> QED
          BY <2>2, <5>1, <5>2 DEF FlushInv
      <4> QED
        BY <4>1, <4>2
    <3>3. CASE At("flusher", "rejoin") /\ GoTo("flusher", "repending")
      <4>1. pc'["flusher"] = "repending" /\ pc["flusher"] = "rejoin"
        BY <2>3, <3>3 DEF GoTo, At
      <4>2. quiet => AllSettled
        BY <1>1, <3>1, <4>1, JoinSettles DEF FlushInv
      <4> QED
        BY <2>2, <3>1, <4>1, <4>2 DEF FlushInv
    <3> QED
      BY <2>5, <3>2, <3>3 DEF Join
  <2>6. CASE Pending
    <3>1. quiet' = quiet
      BY <2>6 DEF Pending
    <3>2. CASE HasPending
      <4>1. pc'["flusher"] = "draining"
        BY <2>3, <2>6, <3>2 DEF Pending, GoTo
      <4> QED
        BY <4>1 DEF FlushInv
    <3>3. CASE ~HasPending /\ pc["flusher"] = "pending"
      <4>1. pc'["flusher"] = "rejoin"
        BY <2>3, <2>6, <3>3 DEF Pending, GoTo, At
      <4>2. NoneAhead
        <5>1. consumed = Len(file)
          BY <1>1, <3>3, LinesRead DEF StayInv
        <5>2. \A p \in 1..Len(file) : p <= consumed
          BY <1>1, <5>1, LenProperties DEF SpillTypeOK
        <5> QED
          BY <5>2 DEF NoneAhead, Ahead, Passed
      <4> QED
        BY <2>2, <4>1, <4>2 DEF FlushInv
    <3>4. CASE ~HasPending /\ pc["flusher"] = "repending"
      <4>1. pc'["flusher"] = "emit"
        BY <2>3, <2>6, <3>4 DEF Pending, GoTo, At
      <4>2. quiet => AllSettled
        BY <3>4 DEF FlushInv
      <4> QED
        BY <2>2, <3>1, <4>1, <4>2 DEF FlushInv
    <3> QED
      BY <2>6, <3>2, <3>3, <3>4 DEF Pending, At
  <2> QED
    BY <1>7, <2>4, <2>5, <2>6 DEF Flusher
<1>8. CASE Stop \/ UNCHANGED vars
  <2>1. UNCHANGED <<stage, recorded, errored, file, consumed, batch, undeclared, quiet, pc>>
    BY <1>8 DEF Stop, vars, spillVars, emitVars, historyVars
  <2>2. \A s \in Spans : (Settled(s) => Settled(s)') /\ (Ahead(s)' => Ahead(s))
    BY <2>1 DEF Settled, Ahead, Passed
  <2> QED
    BY <1>1, <1>2, <2>1, <2>2, FlushFrame
<1>9. ~Crash /\ ~Restart
  BY <1>1 DEF Crash, Restart, Fault, Whole
<1> QED
  BY <1>3, <1>4, <1>5, <1>6, <1>7, <1>8, <1>9 DEF Next

\* As long as no process dies and no line is torn, a flush() that no submit() overlaps
\* returns only when every span taken over is recorded or given up, and every drop is
\* declared unless something failed (pipeline.py, flush).
THEOREM FlushIsComplete ==
    ASSUME Whole
    PROVE  Spec => []FlushComplete
<1>1. FlushInv => FlushComplete
  BY DEF FlushInv, FlushComplete, AllSettled, TakenOver, At
<1>2. Init => DropInv /\ StayInv /\ FlushInv
  BY DropInit, StayInit, FlushInit
<1>3. (DropInv /\ StayInv /\ FlushInv) /\ [Next]_vars => (DropInv /\ StayInv /\ FlushInv)'
  BY DropNext, StayNext, FlushNext
<1> QED
  BY <1>1, <1>2, <1>3, PTL DEF Spec
=============================================================================
