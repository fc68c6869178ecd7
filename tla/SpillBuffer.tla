---------------------------- MODULE SpillBuffer ----------------------------
(***************************************************************************)
(* The durable overflow buffer of ingest/durable.py: an append-only file   *)
(* of one JSON line per span, a read cursor in memory and its copy in a    *)
(* second file.  The module defines one action per step of the class's     *)
(* operations at which another thread or a crash can be observed; the      *)
(* modules that use it decide who calls them (SpillQueue, on its own;      *)
(* EvidencePipeline, from the worker, the flusher and the submitters).     *)
(*                                                                         *)
(* The file is a sequence of bytes.  What a byte says is abstracted to     *)
(* "byte i of the line of span s": enough to tell a whole line from a torn *)
(* one, and a cursor on a line boundary from one inside a line.            *)
(***************************************************************************)
EXTENDS Integers, Sequences, FiniteSetsExt

CONSTANTS Spans,    \* the spans that may overflow into the buffer
          LineLen   \* the length of each span's line, its newline included

ASSUME LineLenAssumption == LineLen \in [Spans -> Nat \ {0, 1}]

VARIABLES file,        \* durable: the bytes of spill.jsonl
          cursorFile,  \* durable: the number in spill.jsonl.cursor (0 if absent)
          consumed,    \* memory: _consumed, the offset of the next line to read
          drain        \* memory: the step drain() has reached; it holds _lock
                       \* in all of them but "idle"

spillVars == <<file, cursorFile, consumed, drain>>

Byte == Spans \X (Nat \ {0})

SpillTypeOK ==
    /\ file \in Seq(Byte)
    /\ cursorFile \in Nat
    /\ consumed \in Nat
    /\ drain \in {"idle", "reading", "compacting", "saving"}

SpillInit ==
    /\ file = <<>>
    /\ cursorFile = 0
    /\ consumed = 0
    /\ drain = "idle"

----------------------------------------------------------------------------
(* Lines and bytes. *)

Line(s) == [i \in 1..LineLen[s] |-> <<s, i>>]

IsNewline(b) == b[2] = LineLen[b[1]]

\* The bytes readline() can still see.  A cursor beyond the end sees none.
Unread == SubSeq(file, consumed + 1, Len(file))

\* readline(): up to and with the first newline, or to the end of the file.
NextLine ==
    LET newlines == {i \in 1..Len(Unread) : IsNewline(Unread[i])}
    IN  IF newlines = {} THEN Unread ELSE SubSeq(Unread, 1, Min(newlines))

\* json.loads succeeds on a span's whole line; the newline is optional.  A line
\* begun inside another one, or two lines run together, does not parse.
Parses(line, s) == line \in {Line(s), SubSeq(Line(s), 1, LineLen[s] - 1)}

\* A line of nothing but its newline, which drain() skips.
IsBlank(line) == Len(line) = 1 /\ IsNewline(line[1])

IsCorrupt(line) ==
    line # <<>> /\ ~IsBlank(line) /\ \A s \in Spans : ~Parses(line, s)

\* pending() # 0: some line after the cursor is not blank.
HasPending == \E i \in 1..Len(Unread) : ~IsNewline(Unread[i])

\* The line of s is in the file at or after offset c, on a line boundary.
StoredFrom(c, s) ==
    \E o \in c..Len(file) :
        /\ o + LineLen[s] <= Len(file)
        /\ SubSeq(file, o + 1, o + LineLen[s]) = Line(s)
        /\ o = c \/ IsNewline(file[o])

----------------------------------------------------------------------------
(* append(): one atomic step under _lock, which drain() must not hold.     *)

AppendLine(s) ==
    /\ drain = "idle"
    /\ file' = file \o Line(s)
    /\ UNCHANGED <<cursorFile, consumed, drain>>

\* append() raises: the open or the write failed with k bytes written, or (k the
\* whole line) the fsync failed after the write.  Nothing removes the bytes.
AppendRaises(s, k) ==
    /\ drain = "idle"
    /\ k \in 0..LineLen[s]
    /\ file' = file \o SubSeq(Line(s), 1, k)
    /\ UNCHANGED <<cursorFile, consumed, drain>>

----------------------------------------------------------------------------
(* drain(accept).                                                          *)

BeginDrain ==
    /\ drain = "idle"
    /\ drain' = "reading"
    /\ UNCHANGED <<file, cursorFile, consumed>>

\* Mutant: the cursor is not moved.
TakeAgain(s) ==
    /\ drain = "reading"
    /\ Parses(NextLine, s)
    /\ UNCHANGED spillVars

\* accept(s) returned True: the cursor in memory moves past the line at once.
Take(s) ==
    /\ drain = "reading"
    /\ Parses(NextLine, s)
    /\ consumed' = consumed + Len(NextLine)
    /\ UNCHANGED <<file, cursorFile, drain>>

SkipBlank ==
    /\ drain = "reading"
    /\ IsBlank(NextLine)
    /\ consumed' = consumed + 1
    /\ UNCHANGED <<file, cursorFile, drain>>

\* Mutant: the cursor is moved before accept is asked.
DeclineSkips(s) ==
    /\ drain = "reading"
    /\ Parses(NextLine, s)
    /\ consumed' = consumed + Len(NextLine)
    /\ drain' = "compacting"
    /\ UNCHANGED <<file, cursorFile>>

\* accept(s) returned False: the cursor stays at this line.
Decline(s) ==
    /\ drain = "reading"
    /\ Parses(NextLine, s)
    /\ drain' = "compacting"
    /\ UNCHANGED <<file, cursorFile, consumed>>

EndOfFile ==
    /\ drain = "reading"
    /\ NextLine = <<>>
    /\ drain' = "compacting"
    /\ UNCHANGED <<file, cursorFile, consumed>>

\* json.loads raises out of drain(): neither compaction nor the cursor is reached.
ParseError ==
    /\ drain = "reading"
    /\ IsCorrupt(NextLine)
    /\ drain' = "idle"
    /\ UNCHANGED <<file, cursorFile, consumed>>

\* Mutant: the file is truncated whether or not a line was declined.
CompactAlways ==
    /\ drain = "compacting"
    /\ file' = <<>> /\ consumed' = 0
    /\ drain' = "saving"
    /\ UNCHANGED cursorFile

\* Mutant: the cursor is not reset with the file.
CompactKeepsCursor ==
    /\ drain = "compacting"
    /\ file' = IF consumed >= Len(file) THEN <<>> ELSE file
    /\ drain' = "saving"
    /\ UNCHANGED <<cursorFile, consumed>>

\* Truncate a fully consumed file, else leave it; the cursor is saved next.
Compact ==
    /\ drain = "compacting"
    /\ IF consumed >= Len(file)
         THEN file' = <<>> /\ consumed' = 0
         ELSE UNCHANGED <<file, consumed>>
    /\ drain' = "saving"
    /\ UNCHANGED cursorFile

\* Mutant: what is saved is the end of the file.
SaveCursorEnd ==
    /\ drain = "saving"
    /\ cursorFile' = Len(file)
    /\ drain' = "idle"
    /\ UNCHANGED <<file, consumed>>

SaveCursor ==
    /\ drain = "saving"
    /\ cursorFile' = consumed
    /\ drain' = "idle"
    /\ UNCHANGED <<file, consumed>>

\* _atomic_write raised before its os.replace: the old cursor file stands.
SaveCursorRaises ==
    /\ drain = "saving"
    /\ drain' = "idle"
    /\ UNCHANGED <<file, cursorFile, consumed>>

----------------------------------------------------------------------------
(* The process dies, perhaps in the middle of an append; later a new one   *)
(* opens the buffer (__init__ and _load_cursor).                           *)

Die ==
    /\ consumed' = 0
    /\ drain' = "idle"
    /\ UNCHANGED <<file, cursorFile>>

DieAppending(s, k) ==
    /\ drain = "idle"
    /\ k \in 1..(LineLen[s] - 1)
    /\ file' = file \o SubSeq(Line(s), 1, k)
    /\ consumed' = 0
    /\ UNCHANGED <<cursorFile, drain>>

Reopen ==
    /\ consumed' = cursorFile
    /\ drain' = "idle"
    /\ UNCHANGED <<file, cursorFile>>
============================================================================
