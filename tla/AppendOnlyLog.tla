---------------------------- MODULE AppendOnlyLog ----------------------------
(***************************************************************************)
(* What a transparency log promises: entries are appended and nothing else  *)
(* ever happens to the log, and whatever head is signed, then or later,     *)
(* commits to a prefix of it.                                               *)
(***************************************************************************)
EXTENDS Naturals, Sequences

CONSTANT Entries

VARIABLES log,     \* the entries, in order
          heads    \* the prefixes that signed heads commit to

Init == log = <<>> /\ heads = {}

AppendEntry(e) == log' = Append(log, e) /\ UNCHANGED heads

SignHead(n) == heads' = heads \cup {SubSeq(log, 1, n)} /\ UNCHANGED log

Next ==
    \/ \E e \in Entries : AppendEntry(e)
    \/ \E n \in 0..Len(log) : SignHead(n)

Spec == Init /\ [][Next]_<<log, heads>>
=============================================================================
