--------------------------- MODULE EvidenceIntake ---------------------------
(***************************************************************************)
(* What an evidence pipeline promises the log it feeds: a span taken over  *)
(* is recorded at most once, and never after it was given up; a span that  *)
(* is refused is owed a declaration, and each one is declared once.        *)
(***************************************************************************)
EXTENDS Naturals

CONSTANT Spans

VARIABLES taken,     \* the spans taken over
          recorded,  \* how many records each of them has
          given,     \* the spans given up
          dropped,   \* how many spans were refused
          owed       \* how many of those are not declared yet

vars == <<taken, recorded, given, dropped, owed>>

Init ==
    /\ taken = {} /\ given = {}
    /\ recorded = [s \in Spans |-> 0]
    /\ dropped = 0 /\ owed = 0

TakeOver(s) ==
    /\ s \notin taken
    /\ taken' = taken \cup {s}
    /\ UNCHANGED <<recorded, given, dropped, owed>>

Record(s) ==
    /\ s \in taken \ given
    /\ recorded[s] = 0
    /\ recorded' = [recorded EXCEPT ![s] = 1]
    /\ UNCHANGED <<taken, given, dropped, owed>>

GiveUp(s) ==
    /\ s \in taken
    /\ recorded[s] = 0
    /\ given' = given \cup {s}
    /\ UNCHANGED <<taken, recorded, dropped, owed>>

Refuse ==
    /\ dropped' = dropped + 1
    /\ owed' = owed + 1
    /\ UNCHANGED <<taken, recorded, given>>

Declare(n) ==
    /\ n <= owed
    /\ owed' = owed - n
    /\ UNCHANGED <<taken, recorded, given, dropped>>

Next ==
    \/ \E s \in Spans : TakeOver(s) \/ Record(s) \/ GiveUp(s)
    \/ Refuse
    \/ \E n \in 1..owed : Declare(n)

Spec == Init /\ [][Next]_vars
=============================================================================
