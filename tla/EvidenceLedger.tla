--------------------------- MODULE EvidenceLedger ---------------------------
(***************************************************************************)
(* Ledger over a FileLedgerBackend, both of ledger.py: threads that commit  *)
(* events and sign tree heads, appends that fail, the death of the process, *)
(* and the reopening of the file with the healing of a torn last line.      *)
(*                                                                         *)
(* A leaf hash is the event it is computed from, and a root is the sequence *)
(* of leaves it commits to: the hash functions are taken to be injective.   *)
(* The file is a sequence of lines; a line that was not written whole has   *)
(* its kind.                                                                *)
(***************************************************************************)
EXTENDS Integers, SequencesExt

CONSTANTS Events,     \* the events that are committed, each any number of times
          Writers,    \* the threads that call commit()
          Faults,     \* the kinds of fault that can happen, see FaultKinds
          MaxFaults,  \* bound of the model: how many happen in a behaviour
          MaxLines,   \* bound of the model: the length of the file
          None        \* nothing in hand

FaultKinds == {"write",   \* append_record raises and wrote nothing
               "torn",    \* append_record raises; part of the line is written
               "fsync",   \* append_record raises after the line was written
               "crash",   \* the process dies between two steps
               "tear",    \* the process dies inside append_record
               "heal"}    \* the process dies while it rewrites the file

Kinds == {"whole",    \* a record and its newline
          "bare",     \* the record without its newline; it parses
          "torn",     \* part of a record; the file ends here
          "garbage"}  \* a line with the record after part of another one

Lines == [event : Events, index : Nat, kind : Kinds]

\* A commit whose line is written: the index it took and the number of the line.
Commits == [event : Events, index : Nat, line : Nat]

ASSUME LedgerAssumption ==
    /\ Faults \subseteq FaultKinds
    /\ MaxFaults \in Nat /\ MaxLines \in Nat
    /\ None \notin Commits /\ None \notin Seq(Lines)

VARIABLES
    file,     \* durable: the lines of events.jsonl
    rewrite,  \* the lines _heal_torn_tail is writing back, or None
    up,       \* a process has the ledger open
    offsets,  \* memory: _offsets, as numbers of lines
    leaves,   \* memory: _leaves, and the leaves of _tree
    pending,  \* the commit each writer holds _lock for, or None
    faults,   \* how many faults have happened
    heads,    \* history: the signed tree heads
    acked,    \* history: the events and the indices that commit() returned
    clean     \* history: no append that raised has left anything in the file, and no
              \* healing was cut short

memory == <<offsets, leaves, pending>>
history == <<heads, acked, clean>>
vars == <<file, rewrite, up, memory, faults, history>>

TypeOK ==
    /\ file \in Seq(Lines)
    /\ rewrite \in Seq(Lines) \cup {None}
    /\ up \in BOOLEAN
    /\ offsets \in Seq(Nat)
    /\ leaves \in Seq(Events)
    /\ pending \in [Writers -> Commits \cup {None}]
    /\ faults \in 0..MaxFaults
    /\ \A h \in heads : h \in Seq(Events)
    /\ acked \subseteq Events \X Nat
    /\ clean \in BOOLEAN

Init ==
    /\ file = <<>> /\ rewrite = None
    /\ up = TRUE
    /\ offsets = <<>> /\ leaves = <<>>
    /\ pending = [w \in Writers |-> None]
    /\ faults = 0
    /\ heads = {} /\ acked = {} /\ clean = TRUE

----------------------------------------------------------------------------
(* Lines. *)

\* The file ends with a line that has no newline.
OpenTail(f) == f # <<>> /\ Last(f).kind \in {"bare", "torn"}

\* What the lines of f parse to; a torn or a garbage line parses to nothing.
Parses(f) == \A i \in DOMAIN f : f[i].kind \in {"whole", "bare"}
EventsOf(f) == [i \in DOMAIN f |-> f[i].event]

\* The file once l is written at its end, where it may continue an open line.
Extended(f, l) ==
    IF OpenTail(f)
      THEN Append(Front(f), [l EXCEPT !.kind = IF @ = "whole" THEN "garbage" ELSE "torn"])
      ELSE Append(f, l)

\* The line commit() writes for e: its leaf_index is the backend's size.
Record(e, kind) == [event |-> e, index |-> Len(offsets), kind |-> kind]

\* A fault of this kind happens now.
Fault(kind) ==
    /\ kind \in Faults
    /\ faults < MaxFaults
    /\ faults' = faults + 1

LockFree == \A w \in Writers : pending[w] = None

----------------------------------------------------------------------------
(* commit(event), from the acquisition of _lock on: append_record() writes  *)
(* the line, and then the offset, the leaf and the tree follow.             *)

\* Mutant: without _lock.
WriteUnlocked(w, e) ==
    /\ up /\ pending[w] = None
    /\ Len(file) < MaxLines
    /\ file' = Extended(file, Record(e, "whole"))
    /\ pending' = [pending EXCEPT ![w] =
                      [event |-> e, index |-> Len(offsets), line |-> Len(file')]]
    /\ UNCHANGED <<rewrite, up, offsets, leaves, faults, history>>

Write(w, e) ==
    /\ up /\ LockFree
    /\ Len(file) < MaxLines
    /\ file' = Extended(file, Record(e, "whole"))
    /\ pending' = [pending EXCEPT ![w] =
                      [event |-> e, index |-> Len(offsets), line |-> Len(file')]]
    /\ UNCHANGED <<rewrite, up, offsets, leaves, faults, history>>

\* Mutant: the offset follows from the count of records.
PublishCounted(w) ==
    /\ up /\ pending[w] # None
    /\ offsets' = Append(offsets, Len(offsets) + 1)
    /\ leaves' = Append(leaves, pending[w].event)
    /\ acked' = acked \cup {<<pending[w].event, pending[w].index>>}
    /\ pending' = [pending EXCEPT ![w] = None]
    /\ UNCHANGED <<file, rewrite, up, faults, heads, clean>>

Publish(w) ==
    /\ up /\ pending[w] # None
    /\ offsets' = Append(offsets, pending[w].line)
    /\ leaves' = Append(leaves, pending[w].event)
    /\ acked' = acked \cup {<<pending[w].event, pending[w].index>>}
    /\ pending' = [pending EXCEPT ![w] = None]
    /\ UNCHANGED <<file, rewrite, up, faults, heads, clean>>

\* append_record raises: the lock is released, memory is as it was, the file is
\* left with what had been written.
CommitFails(e) ==
    /\ up /\ LockFree
    /\ Len(file) < MaxLines
    /\ \/ Fault("write") /\ UNCHANGED <<file, clean>>
       \/ /\ Fault("torn") /\ clean' = FALSE
          /\ \E k \in {"bare", "torn"} : file' = Extended(file, Record(e, k))
       \/ /\ Fault("fsync") /\ clean' = FALSE
          /\ file' = Extended(file, Record(e, "whole"))
    /\ UNCHANGED <<rewrite, up, memory, heads, acked>>

----------------------------------------------------------------------------
(* checkpoint(): size and root are read together under _lock.               *)

Sign ==
    /\ up /\ LockFree
    /\ heads' = heads \cup {leaves}
    /\ UNCHANGED <<file, rewrite, up, memory, faults, acked, clean>>

----------------------------------------------------------------------------
(* The process dies; another one opens the ledger.                          *)

Crash ==
    /\ up
    /\ \/ Fault("crash") /\ UNCHANGED file
       \/ /\ Fault("tear") /\ LockFree
          /\ Len(file) < MaxLines
          /\ \E e \in Events, k \in {"bare", "torn"} : file' = Extended(file, Record(e, k))
    /\ up' = FALSE
    /\ offsets' = <<>> /\ leaves' = <<>>
    /\ pending' = [w \in Writers |-> None]
    /\ UNCHANGED <<rewrite, history>>

\* Mutant: the last line is left as it is.
HealNothing ==
    /\ ~up /\ rewrite = None
    /\ OpenTail(file)
    /\ rewrite' = file
    /\ file' = <<>>
    /\ UNCHANGED <<up, memory, faults, history>>

\* Mutant: the newline before the open line is cut off with it.
HealCutsNewline ==
    /\ ~up /\ rewrite = None
    /\ OpenTail(file)
    /\ rewrite' = LET whole == Front(file)
                  IN  IF whole = <<>> THEN <<>> ELSE [whole EXCEPT ![Len(whole)].kind = "bare"]
    /\ file' = <<>>
    /\ UNCHANGED <<up, memory, faults, history>>

\* _heal_torn_tail(): write_bytes() truncates the file, then writes all lines but
\* the open one.
HealBegin ==
    /\ ~up /\ rewrite = None
    /\ OpenTail(file)
    /\ rewrite' = Front(file)
    /\ file' = <<>>
    /\ UNCHANGED <<up, memory, faults, history>>

HealEnd ==
    /\ rewrite # None
    /\ file' = rewrite
    /\ rewrite' = None
    /\ UNCHANGED <<up, memory, faults, history>>

\* The first n lines, the last of them written in part.
CutInside(f, n, k) == [SubSeq(f, 1, n) EXCEPT ![n].kind = k]

\* The process dies when part of the lines is written back.
HealCrash ==
    /\ rewrite # None
    /\ Fault("heal")
    /\ \E n \in 0..Len(rewrite) :
          \/ file' = SubSeq(rewrite, 1, n)
          \/ /\ n > 0
             /\ \E k \in {"bare", "torn"} :
                    file' = CutInside(rewrite, n, k)
    /\ rewrite' = None /\ clean' = FALSE
    /\ UNCHANGED <<up, memory, heads, acked>>

\* FileLedgerBackend.__init__ without a torn line, then Ledger.__init__, which
\* reads the leaves from the records and raises on one that does not parse.
Open ==
    /\ ~up /\ rewrite = None
    /\ ~OpenTail(file) /\ Parses(file)
    /\ up' = TRUE
    /\ offsets' = [i \in DOMAIN file |-> i]
    /\ leaves' = EventsOf(file)
    /\ UNCHANGED <<file, rewrite, pending, faults, history>>

----------------------------------------------------------------------------
Next ==
    \/ \E w \in Writers : Publish(w) \/ \E e \in Events : Write(w, e)
    \/ \E e \in Events : CommitFails(e)
    \/ Sign
    \/ Crash \/ HealBegin \/ HealEnd \/ HealCrash \/ Open

Spec == Init /\ [][Next]_vars

\* A process that is down is started again, and finishes opening the ledger.
FairSpec == Spec /\ WF_vars(HealBegin \/ HealEnd \/ Open)

----------------------------------------------------------------------------
(* Properties.                                                              *)

\* What the next process to open the ledger will find.
Durable == IF rewrite # None THEN rewrite
           ELSE IF OpenTail(file) THEN Front(file) ELSE file

\* docs/ARCHITECTURE.md:67: "a newer, larger tree is an append-only extension of
\* an older one".  Whatever was signed, before or after any number of restarts,
\* commits to a prefix of the log as it stands, unless an append has left something
\* behind: an fsync that raises after its line is written makes two records share an
\* index, and the restart counts both.
HeadsExtend == clean /\ up => \A h \in heads : IsPrefix(h, leaves)

\* docs/SCALABILITY.md:215: "what was recorded stays verifiable".  The log can be
\* opened, and an event commit() returned is at the index it returned.
AckedKept ==
    clean => /\ Parses(Durable)
             /\ \A a \in acked : a[2] < Len(Durable) /\ Durable[a[2] + 1].event = a[1]

\* events() reads the file without the lock while threads commit: it sees the
\* leaves the tree has, or one more whose commit is under way, and each record
\* carries its position.
ReadsAgree ==
    clean /\ up =>
          /\ Parses(file)
          /\ \/ EventsOf(file) = leaves
             \/ \E w \in Writers : /\ pending[w] # None
                                   /\ EventsOf(file) = Append(leaves, pending[w].event)
          /\ \A i \in DOMAIN file : file[i].index = i - 1

\* get_event(i) reads at an offset without the lock: it finds the event whose leaf
\* the tree has at i, whatever faults have left between the records of the file.
\* (An offset points at the record itself, also on a garbage line.)
OffsetsAgree ==
    up => \A i \in DOMAIN offsets :
              offsets[i] <= Len(file) /\ file[offsets[i]].event = leaves[i]

\* After a crash the ledger is open again in the end.
Reopens == ~up ~> up \/ ~clean

\* The ledger is an append-only log (see AppendOnlyLog) as long as it is clean.
Log == INSTANCE AppendOnlyLog WITH Entries <- Events,
           log <- EventsOf(Durable)

LogSpec == Log!Init /\ [][clean' => Log!Next]_<<EventsOf(Durable), heads>>
=============================================================================
