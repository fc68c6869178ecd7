----------------------------- MODULE SpillQueue -----------------------------
(***************************************************************************)
(* SpillBuffer on its own, under every client: spans are appended once     *)
(* each, drain() is called at any time with an accept that may decline at  *)
(* any line, writes fail and the process dies as often as MaxFaults lets   *)
(* them.                                                                   *)
(***************************************************************************)
EXTENDS SpillBuffer, FiniteSets

CONSTANTS Faults,      \* the kinds of fault that can happen, see FaultKinds
          MaxFaults    \* bound of the model: how many happen in a behaviour

FaultKinds == {"append",   \* append() raises with none or all of the line written
               "torn",     \* append() raises with part of the line written
               "save",     \* the write of the cursor file raises
               "crash",    \* the process dies between two steps
               "tear"}     \* the process dies inside an append

ASSUME FaultsAssumption == Faults \subseteq FaultKinds /\ MaxFaults \in Nat

VARIABLES up,        \* a process has the buffer open
          faults,    \* how many faults have happened
          appended,  \* history: the spans whose line was written whole, in order
          taken,     \* history: the spans handed to accept and accepted, in order
          torn,      \* history: the spans whose append() left part of their line
          deaths,    \* history: how many processes have died
          behind     \* history: "yes" from a truncation to the writing of its cursor,
                     \* "lost" once a process has died in between

historyVars == <<appended, taken, torn, deaths, behind>>
queueVars == <<up, faults, historyVars>>
vars == <<spillVars, queueVars>>

Occurs(s, seq) == \E i \in DOMAIN seq : seq[i] = s

\* A fault of this kind happens now.
Fault(kind) ==
    /\ kind \in Faults
    /\ faults < MaxFaults
    /\ faults' = faults + 1

TypeOK ==
    /\ SpillTypeOK
    /\ up \in BOOLEAN
    /\ faults \in 0..MaxFaults
    /\ appended \in Seq(Spans)
    /\ taken \in Seq(Spans)
    /\ torn \subseteq Spans
    /\ deaths \in 0..faults
    /\ behind \in {"no", "yes", "lost"}

Init ==
    /\ SpillInit
    /\ up = TRUE
    /\ faults = 0
    /\ appended = <<>>
    /\ taken = <<>>
    /\ torn = {}
    /\ deaths = 0
    /\ behind = "no"

----------------------------------------------------------------------------
\* submit() appends a span once; an append that raises is not repeated.
New(s) == ~Occurs(s, appended) /\ s \notin torn

AppendSpan(s) ==
    /\ up /\ New(s)
    /\ AppendLine(s)
    /\ appended' = Append(appended, s)
    /\ UNCHANGED <<up, faults, taken, torn, deaths, behind>>

AppendFails(s) ==
    /\ up /\ New(s)
    /\ \/ Fault("append") /\ AppendRaises(s, 0) /\ UNCHANGED <<appended, torn>>
       \/ /\ Fault("append") /\ AppendRaises(s, LineLen[s])
          /\ appended' = Append(appended, s)
          /\ UNCHANGED torn
       \/ /\ Fault("torn")
          /\ \E k \in 1..(LineLen[s] - 1) : AppendRaises(s, k)
          /\ torn' = torn \cup {s}
          /\ UNCHANGED appended
    /\ UNCHANGED <<up, taken, deaths, behind>>

Accept(s) ==
    /\ up /\ Take(s)
    /\ taken' = Append(taken, s)
    /\ UNCHANGED <<up, faults, appended, torn, deaths, behind>>

\* The steps of drain() that no client sees.
DrainStep ==
    /\ up
    /\ \/ /\ \/ BeginDrain \/ SkipBlank \/ EndOfFile \/ ParseError
             \/ \E s \in Spans : Decline(s)
          /\ UNCHANGED behind
       \/ /\ Compact
          /\ behind' = IF behind = "no" /\ file' = <<>> /\ cursorFile # 0 THEN "yes" ELSE behind
       \/ /\ SaveCursor
          /\ behind' = IF behind = "yes" THEN "no" ELSE behind
    /\ UNCHANGED <<up, faults, appended, taken, torn, deaths>>

SaveFails ==
    /\ up /\ SaveCursorRaises
    /\ Fault("save")
    /\ UNCHANGED <<up, historyVars>>

Crash ==
    /\ up
    /\ \/ Fault("crash") /\ Die /\ UNCHANGED torn
       \/ /\ Fault("tear")
          /\ \E s \in Spans : /\ New(s)
                              /\ \E k \in 1..LineLen[s] : DieAppending(s, k)
                              /\ torn' = torn \cup {s}
    /\ up' = FALSE
    /\ deaths' = deaths + 1
    /\ behind' = IF behind = "yes" THEN "lost" ELSE behind
    /\ UNCHANGED <<appended, taken>>

Restart ==
    /\ ~up
    /\ Reopen
    /\ up' = TRUE
    /\ UNCHANGED <<faults, historyVars>>

Next ==
    \/ \E s \in Spans : AppendSpan(s) \/ AppendFails(s) \/ Accept(s)
    \/ DrainStep \/ SaveFails \/ Crash \/ Restart

Spec == Init /\ [][Next]_vars

\* drain() is called again and again and its loop does not stop half-way; an
\* accept that only ever declines would hand out nothing, so Accept is strongly
\* fair: the worker keeps taking spans off the queue that accept puts them on.
FairSpec ==
    /\ Spec
    /\ WF_vars(DrainStep)
    /\ SF_vars(\E s \in Spans : Accept(s))
----------------------------------------------------------------------------
(* Properties.                                                             *)

\* No process has died and no line was torn.
Clean == deaths = 0 /\ torn = {}

\* The buffer is a FIFO: the file, the cursor in memory, the compaction and the
\* lock together hand out each appended span once and in order, whatever accept
\* declines and whichever appends and writes of the cursor raise, until a process
\* dies or a line is torn.
Buffered == INSTANCE Fifo WITH Elements <- Spans,
                waiting <- SubSeq(appended, Len(taken) + 1, Len(appended)),
                out <- taken

FifoWhileClean == Buffered!Init /\ [][Clean' => Buffered!Next]_<<appended, taken>>

\* pending() is 0 exactly when everything appended has been taken: the answer
\* flush() decides on is right at every point where it can take the lock.
PendingIsExact == Clean => (HasPending <=> Len(taken) < Len(appended))

\* drain() called often enough empties the buffer, compactions included.
EverySpanDrained == \A s \in Spans : Occurs(s, appended) ~> Occurs(s, taken) \/ ~Clean

\* A span is handed out at most once by each process: drain() repeats what a
\* process that died had taken (durable.py:77-80), not what its own took, also when
\* the write of the cursor failed.
RedeliveredOncePerDeath ==
    \A s \in Spans :
        Cardinality({i \in DOMAIN taken : taken[i] = s}) <= 1 + deaths

\* durable.py:74-75: "On restart the cursor is reloaded, so un-consumed spilled
\* spans are recovered."  An appended span no accept has taken is in the file at
\* or after the offset a restart would read from, unless a line was torn, or
\* the file was truncated and its cursor not written: the old cursor file then lies
\* ahead, and a restart skips what is appended below it (durable.py:141-143).
UnconsumedSurvivesRestart ==
    torn = {} /\ behind = "no" =>
        \A s \in Spans :
            Occurs(s, appended) /\ ~Occurs(s, taken) => StoredFrom(cursorFile, s)

\* What a restart does to the spans: it loses none that was not taken, and repeats
\* none more often than processes have died (durable.py:74-80).
RestartIsExact == RedeliveredOncePerDeath /\ UnconsumedSurvivesRestart
============================================================================
