------------------------------- MODULE Report -------------------------------
(***************************************************************************)
(* runtime.py and cli.py: reports are built while events are committed.     *)
(* Either the report scheduler builds them again and again and keeps them   *)
(* in a directory under names made from the size of the ledger, or a caller *)
(* does (Runtime.report, openwright report); builds share nothing but the   *)
(* ledger, which they only read, so one thread of either kind is enough.    *)
(*                                                                         *)
(* Building takes several reads of the ledger: the events are evaluated,    *)
(* then a checkpoint is signed, then the events up to it are read again.    *)
(* A report is what these three found, so its state is their three sizes.   *)
(* The ledger itself is the append-only log that EvidenceLedger implements. *)
(***************************************************************************)
EXTENDS Verification

CONSTANTS Templates,  \* the events that are committed, each any number of times
          CrosswalkId,\* the crosswalk that is asked for
          Key,        \* the signing key
          Torn,       \* a file that was truncated and is not written yet
          Absent,     \* no file of this name
          MaxEvents,  \* bound of the model: the length of the log
          MaxFaults   \* bound of the model: how many builds or writes fail

ASSUME ReportAssumption ==
    /\ CrosswalkId \in DOMAIN Builtins
    /\ MaxEvents \in Nat /\ MaxFaults \in Nat
    /\ Key # Null

VARIABLES scheduled,  \* the thread is the report scheduler's
          log,        \* the ledger's records
          task,       \* what the thread has done of its report so far
          packs,      \* durable: report-<size>.json, as a function of the size
          faults      \* how many builds or writes have failed

vars == <<scheduled, log, task, packs, faults>>

Sizes == 0..MaxEvents

\* The sizes of the log when a report was named, evaluated, signed and put together.
Reads == [name : Sizes, evaluated : Sizes, signed : Sizes, built : Sizes]

\* The reads of a task.
ReadsOf(t) == [f \in {"name", "evaluated", "signed", "built"} |-> t[f]]

Idle == [pc |-> "idle", name |-> 0, evaluated |-> 0, signed |-> 0, built |-> 0]

TypeOK ==
    /\ scheduled \in BOOLEAN
    /\ log \in Seq({Committed(ev) : ev \in Templates})
    /\ task.pc \in {"idle", "ended", "evaluate", "sign", "build", "write"}
    /\ ReadsOf(task) \in Reads
    /\ \A n \in DOMAIN packs : packs[n] \in {Torn, Absent} \/ packs[n] \in Reads
    /\ faults \in 0..MaxFaults

Init ==
    /\ scheduled \in BOOLEAN
    /\ log = <<>>
    /\ task = Idle
    /\ packs = [n \in 1..MaxEvents |-> Absent]
    /\ faults = 0

Commit(ev) ==
    /\ Len(log) < MaxEvents
    /\ log' = Append(log, Committed(ev))
    /\ UNCHANGED <<scheduled, task, packs, faults>>

\* A call of report(); persist_report() first reads the size that names the file, and
\* the scheduler makes none of an empty ledger.
Begin ==
    /\ task.pc = "idle"
    /\ scheduled => log # <<>>
    /\ task' = [task EXCEPT !.pc = "evaluate", !.name = IF scheduled THEN Len(log) ELSE 0]
    /\ UNCHANGED <<scheduled, log, packs, faults>>

\* evaluate(load_builtin(crosswalk), list(ledger.events())).
EvaluateEvents ==
    /\ task.pc = "evaluate"
    /\ task' = [task EXCEPT !.pc = "sign", !.evaluated = Len(log)]
    /\ UNCHANGED <<scheduled, log, packs, faults>>

\* build_report: ledger.checkpoint(key).
SignHead ==
    /\ task.pc = "sign"
    /\ task' = [task EXCEPT !.pc = "build", !.signed = Len(log)]
    /\ UNCHANGED <<scheduled, log, packs, faults>>

\* build_report: the events, the proofs and the signature.  The scheduler's file is
\* opened, which truncates it; the caller's report is returned.
Build ==
    /\ task.pc = "build"
    /\ task' = [task EXCEPT !.pc = "write", !.built = Len(log)]
    /\ packs' = IF scheduled THEN [packs EXCEPT ![task.name] = Torn] ELSE packs
    /\ UNCHANGED <<scheduled, log, faults>>

\* Mutant: the file is named by the size of the log now.
WriteNamedLate ==
    /\ task.pc = "write"
    /\ task' = Idle
    /\ packs' = IF scheduled THEN [packs EXCEPT ![Len(log)] = ReadsOf(task)] ELSE packs
    /\ UNCHANGED <<scheduled, log, faults>>

Write ==
    /\ task.pc = "write"
    /\ task' = Idle
    /\ packs' = IF scheduled THEN [packs EXCEPT ![task.name] = ReadsOf(task)] ELSE packs
    /\ UNCHANGED <<scheduled, log, faults>>

\* Mutant: the scheduler's loop ends with the exception.
FailsForGood ==
    /\ task.pc \notin {"idle", "ended", "dead"}
    /\ faults < MaxFaults /\ faults' = faults + 1
    /\ task' = [Idle EXCEPT !.pc = "dead"]
    /\ UNCHANGED <<scheduled, log, packs>>

\* An exception, which the scheduler logs and goes on after.  A process that dies and
\* starts again finds the same: all of a build is volatile but its file.
Fails ==
    /\ task.pc \notin {"idle", "ended"}
    /\ faults < MaxFaults /\ faults' = faults + 1
    /\ task' = Idle
    /\ UNCHANGED <<scheduled, log, packs>>

\* The scheduler asks for the size of the ledger before it guards against exceptions.  With
\* a SQL backend that is a query; if it raises, the thread ends.
SizeRaises ==
    /\ scheduled /\ task.pc = "idle"
    /\ task' = [Idle EXCEPT !.pc = "ended"]
    /\ UNCHANGED <<scheduled, log, packs, faults>>

\* The process ends and is started again, and the scheduler with it.
StartsAgain ==
    /\ task.pc = "ended"
    /\ task' = Idle
    /\ UNCHANGED <<scheduled, log, packs, faults>>

Proceed == Begin \/ EvaluateEvents \/ SignHead \/ Build \/ Write

Next == (\E ev \in Templates : Commit(ev)) \/ Proceed \/ Fails \/ SizeRaises \/ StartsAgain

\* The scheduler's loop wakes up again after each interval.
Spec == Init /\ [][Next]_vars /\ WF_vars(scheduled /\ Proceed)

----------------------------------------------------------------------------
(* Properties.                                                              *)

\* The report of these reads.
ReportOf(reads) ==
    LET upTo(n) == SubSeq(log, 1, n)
    IN  BuildReport(upTo(reads.built),
                    Evaluate(Builtins[CrosswalkId], upTo(reads.evaluated)),
                    SignCheckpoint(Key, LeavesOf(upTo(reads.signed))), Key)

\* The names of the complete files.
Complete == {n \in DOMAIN packs : packs[n] \notin {Torn, Absent}}

\* What the report read that is about to be written or returned.
InHand == IF task.pc = "write" THEN {ReadsOf(task)} ELSE {}

Go == INSTANCE CoreGo

\* The Go core knows all fields of the report's events.
KnownToGo(report) == \A e \in ToSet(report.events) : \A path \in DOMAIN e.event : Go!Keeps(path)

\* What the Go core builds of the same events.
GoReport(reads) ==
    Go!BuildReport([i \in 1..reads.signed |->
                       [event |-> log[i], leaf_hash |-> Get(log[i], LeafHashPath)]],
                   Key, Origin, CrosswalkId)

\* report.py:76-77, proofs "verify against the signed root even if the ledger grew
\* during report build": every report verifies, after any growth, with the three
\* verifiers, and so does the Go core's report of its events; its checkpoint is
\* consistent with the log; and for the gate, OSCAL and SARIF its verdicts mean the same.
ReportsVerify ==
    \A reads \in InHand :
        LET report == ReportOf(reads)
            passes == Gate(report, {}, Key, FALSE) = 0
            leaves == LeavesOf(log)
        IN  /\ VerifyReport(report, Key, FALSE, Null) = {}
            /\ VerifyReport(report, Null, FALSE, Null) = {}
            /\ VerifyInBrowser(report, Key) = {}
            /\ KnownToGo(report) =>
                  /\ Go!VerifyReportRoot(report)
                  /\ VerifyReport(GoReport(reads), Key, FALSE, Null) = {}
                  /\ VerifyInBrowser(GoReport(reads), Key) = {}
            /\ VerifyConsistencyBetween(report.checkpoint, SignCheckpoint(Key, leaves),
                   IF reads.signed = 0 THEN <<>> ELSE ConsistencyProof(leaves, reads.signed), Key)
            /\ passes <=> ToSarif(report) = <<>>
            /\ passes <=> \A f \in ToSet(ToOscal(report)) : f.state[1] = "satisfied"

\* crosswalk.py:87-89, such an obligation "cannot be "satisfied" while the log itself
\* attests lost events": a report that shows evidence gaps has no control satisfied
\* that asks for completeness.
GapsCount(report) ==
    report.evidence_gaps # {} =>
        \A c \in DOMAIN report.controls :
            Builtins[CrosswalkId].controls[c].completeness_sensitive
                => report.controls[c].status # "satisfied"

\* docs/WHITEPAPER.md:153, each verdict "actually follows": a report passes the deep
\* verification if no commit came between its evaluation and its checkpoint, fails for
\* its verdicts alone if one did, and if it passes no completeness control is satisfied
\* beside a declared gap.
VerdictsFollow ==
    \A reads \in InHand :
        LET report == ReportOf(reads)
            failed == VerifyReport(report, Key, TRUE, Null)
        IN  /\ failed \subseteq {"deep_verify"}
            /\ reads.evaluated = reads.signed => failed = {}
            /\ failed = {} => GapsCount(report)

\* The report with one entry put together from the others and from other events, and
\* the report with some of its entries; the signer signs what is left.
Remixed(report) ==
    LET entries == ToSet(report.events)
        events == {e.event : e \in entries} \cup {Committed(ev) : ev \in Templates}
        mixed == [event : events, leaf_index : {e.leaf_index : e \in entries},
                  leaf_hash : {Get(ev, LeafHashPath) : ev \in events},
                  inclusion_proof : {e.inclusion_proof : e \in entries}]
    IN  {Signed([Unsigned(report) EXCEPT !.events[n] = entry], Key) :
            n \in DOMAIN report.events, entry \in mixed}

Disclosed(report, kept) ==
    Signed([Unsigned(report) EXCEPT !.events =
               LET positions == Ascending(kept)
               IN  [n \in DOMAIN positions |-> report.events[positions[n]]]], Key)

\* verify.py:7-16: whatever report the signer signs, what verifies carries events of
\* the log at their places, in both verifiers; and some of the events verify by
\* themselves if those that verdicts cite are among them.
AcceptedIsGenuine ==
    \A reads \in InHand :
        LET report == ReportOf(reads)
        IN  (~scheduled /\ reads.evaluated = Len(log)) =>
              /\ \A other \in Remixed(report) :
                    LET failed == VerifyInBrowser(other, Key)
                    IN  /\ failed = VerifyReport(other, Key, FALSE, Null)
                        /\ failed = {} => \A e \in ToSet(other.events) :
                                             LeafContent(e.event) = LeafContent(log[e.leaf_index + 1])
              /\ \A kept \in SUBSET DOMAIN report.events :
                    LET some == Disclosed(report, kept)
                        cited == UNION {ToSet(c.evidence) : c \in ToSet(report.controls)}
                    IN  /\ VerifyInBrowser(some, Key) = {} <=>
                              cited \subseteq {Get(report.events[n].event, EventId) : n \in kept}
                        /\ Go!VerifyReportRoot(some) => kept = DOMAIN report.events

\* runtime.py:136, "a stable, ordered, retained artifact": a file covers the size that
\* it is named by, and files with later names cover no less.
PacksInOrder ==
    \A n \in Complete :
        /\ n <= packs[n].signed
        /\ \A m \in Complete : m <= n => packs[m].signed <= packs[n].signed

\* runtime.py:146-148, "so auditors always have durable, retained packs" and failures
\* "never crash the loop": whatever is committed is covered by a complete file in the end,
\* whatever build or write fails, unless it is the query for the size that raised and
\* ended the thread.  (Not for good: as long as nothing more is committed the scheduler
\* truncates that file and writes it again.)
CommitsGetReported ==
    \A n \in 1..MaxEvents :
        scheduled /\ Len(log) = n ~>
            task.pc = "ended" \/ \E m \in Complete : packs[m].signed >= n
=============================================================================
