------------------------ MODULE EvidenceLedgerProofs ------------------------
(***************************************************************************)
(* Proofs about EvidenceLedger for every set of events and writers, every   *)
(* file length and every number of faults of any kind.                      *)
(***************************************************************************)
EXTENDS EvidenceLedger, SequenceTheorems, TLAPS

(***************************************************************************)
(* The inductive invariant.  All lines are whole but for the last one, and  *)
(* that one only while no process has the ledger open; memory is the file,  *)
(* less the record of the one commit that holds the lock; what was signed   *)
(* and acknowledged is in the lines a restart would keep.  This holds while *)
(* the ledger is clean.                                                     *)
(***************************************************************************)
DiskInv ==
    /\ \A i \in 1..Len(file) :
          /\ file[i].index = i - 1
          /\ \/ file[i].kind = "whole"
             \/ ~up /\ i = Len(file) /\ file[i].kind \in {"bare", "torn"}
    /\ rewrite # None =>
          /\ ~up /\ file = <<>>
          /\ \A i \in 1..Len(rewrite) : rewrite[i].kind = "whole" /\ rewrite[i].index = i - 1

MemoryInv ==
    IF up
      THEN /\ Len(offsets) = Len(leaves)
           /\ Len(leaves) <= Len(file)
           /\ \A i \in 1..Len(leaves) : offsets[i] = i /\ leaves[i] = file[i].event
           /\ LockFree => Len(file) = Len(leaves)
           /\ \A w \in Writers : pending[w] # None =>
                 /\ Len(file) = Len(leaves) + 1
                 /\ pending[w] = [event |-> file[Len(file)].event,
                                  index |-> Len(leaves), line |-> Len(file)]
                 /\ \A v \in Writers : pending[v] # None => v = w
      ELSE LockFree

HistoryInv ==
    /\ \A h \in heads : /\ Len(h) <= Len(Durable)
                        /\ \A i \in 1..Len(h) : h[i] = Durable[i].event
                        /\ up => Len(h) <= Len(leaves)
    /\ \A a \in acked : a[2] < Len(Durable) /\ Durable[a[2] + 1].event = a[1]

LedgerInv == TypeOK /\ DiskInv /\ MemoryInv /\ HistoryInv

----------------------------------------------------------------------------
(* Lines and sequences of them. *)

\* What commit() makes of an event is a line of the file.
LEMMA RecordType ==
    ASSUME offsets \in Seq(Nat), NEW e \in Events, NEW k \in Kinds
    PROVE  /\ Record(e, k) \in Lines
           /\ Record(e, k).event = e /\ Record(e, k).kind = k
           /\ Record(e, k).index = Len(offsets)
<1>1. Len(offsets) \in Nat
  BY LenProperties
<1> QED
  BY <1>1 DEF Record, Lines

\* All lines but the last.
LEMMA FrontProperties ==
    ASSUME NEW f \in Seq(Lines), f # <<>>
    PROVE  /\ Len(f) \in Nat \ {0}
           /\ Front(f) \in Seq(Lines)
           /\ Len(Front(f)) = Len(f) - 1
           /\ \A i \in 1..(Len(f) - 1) : Front(f)[i] = f[i]
<1>1. Len(f) \in Nat \ {0}
  BY EmptySeq
<1> DEFINE n == Len(f) - 1
<1>2. n \in Nat /\ \A i \in 1..n : f[i] \in Lines
  BY <1>1, ElementOfSeq
<1> HIDE DEF n
<1>3. /\ SubSeq(f, 1, n) \in Seq(Lines)
      /\ Len(SubSeq(f, 1, n)) = IF 1 <= n THEN n - 1 + 1 ELSE 0
      /\ \A i \in 1..(n - 1 + 1) : SubSeq(f, 1, n)[i] = f[1 + i - 1]
  BY <1>2, SubSeqProperties
<1>4. /\ SubSeq(f, 1, n) \in Seq(Lines)
      /\ Len(SubSeq(f, 1, n)) = n
      /\ \A i \in 1..n : SubSeq(f, 1, n)[i] = f[i]
  BY <1>2, <1>3
<1> QED
  BY <1>1, <1>4 DEF Front, n

\* An open ledger has a file of whole lines, and what is on disk is that file.
LEMMA UpIsClosed ==
    ASSUME TypeOK, DiskInv, up
    PROVE  ~OpenTail(file) /\ rewrite = None /\ Durable = file
<1>1. Len(file) \in Nat /\ (file # <<>> => Len(file) \in 1..Len(file))
  BY EmptySeq, LenProperties DEF TypeOK
<1>2. ~OpenTail(file)
  BY <1>1 DEF DiskInv, OpenTail, Last
<1> QED
  BY <1>2 DEF DiskInv, Durable

\* What an append adds to an open ledger's file.
LEMMA ExtendedIsAppend ==
    ASSUME TypeOK, DiskInv, up, NEW e \in Events, NEW k \in Kinds
    PROVE  /\ Extended(file, Record(e, k)) = Append(file, Record(e, k))
           /\ Extended(file, Record(e, k)) \in Seq(Lines)
           /\ Len(Extended(file, Record(e, k))) = Len(file) + 1
           /\ \A i \in 1..Len(file) : Extended(file, Record(e, k))[i] = file[i]
           /\ Extended(file, Record(e, k))[Len(file) + 1] = Record(e, k)
<1>1. Extended(file, Record(e, k)) = Append(file, Record(e, k))
  BY UpIsClosed DEF Extended
<1>2. Record(e, k) \in Lines /\ file \in Seq(Lines)
  BY RecordType DEF TypeOK
<1> QED
  BY <1>1, <1>2, AppendProperties

----------------------------------------------------------------------------
\* A step either leaves what is on disk as it is, or is a Write that adds a line.
LEMMA DurableGrows ==
    ASSUME clean', TypeOK, DiskInv, [Next]_vars
    PROVE  \/ Durable' = Durable
           \/ \E w \in Writers, e \in Events :
                  Write(w, e) /\ Durable' = Append(Durable, Record(e, "whole"))
<1> USE DEF TypeOK
<1>1. ASSUME NEW w \in Writers, NEW e \in Events, Write(w, e)
      PROVE  Durable' = Append(Durable, Record(e, "whole"))
  <2>1. "whole" \in Kinds /\ up
    BY <1>1 DEF Kinds, Write
  <2>2. file' = Append(file, Record(e, "whole")) /\ rewrite' = rewrite
    BY <1>1, <2>1, ExtendedIsAppend DEF Write
  <2>3. Durable = file /\ rewrite = None
    BY <2>1, UpIsClosed
  <2>4. Last(file').kind = "whole"
    <3>1. /\ file'[Len(file) + 1] = Record(e, "whole")
          /\ Len(file') = Len(file) + 1
      BY <1>1, <2>1, ExtendedIsAppend DEF Write
    <3> QED
      BY <3>1, <2>1, RecordType DEF Last
  <2> QED
    BY <2>2, <2>3, <2>4 DEF Durable, OpenTail
<1>2. ASSUME UNCHANGED <<file, rewrite>>
      PROVE  Durable' = Durable
  BY <1>2 DEF Durable, OpenTail
<1>3. ASSUME NEW w \in Writers, Publish(w)
      PROVE  Durable' = Durable
  BY <1>2, <1>3 DEF Publish
<1>4. ASSUME NEW e \in Events, CommitFails(e)
      PROVE  Durable' = Durable
  <2>1. UNCHANGED <<file, rewrite>>
    BY <1>4 DEF CommitFails, Fault
  <2> QED
    BY <1>2, <2>1
<1>5. CASE Sign \/ Open
  BY <1>2, <1>5 DEF Sign, Open
<1>6. CASE Crash
  <2>1. CASE UNCHANGED file
    BY <1>2, <1>6, <2>1 DEF Crash
  <2>2. CASE \E e \in Events, k \in {"bare", "torn"} : file' = Extended(file, Record(e, k))
    <3>1. PICK e \in Events, k \in {"bare", "torn"} : file' = Extended(file, Record(e, k))
      BY <2>2
    <3>2. k \in Kinds /\ up /\ rewrite' = rewrite
      BY <1>6 DEF Kinds, Crash
    <3>3. /\ file' \in Seq(Lines) /\ Len(file') = Len(file) + 1
          /\ \A i \in 1..Len(file) : file'[i] = file[i]
          /\ file'[Len(file) + 1].kind = k
      BY <3>1, <3>2, ExtendedIsAppend, RecordType
    <3>4. Durable = file /\ rewrite = None
      BY <3>2, UpIsClosed
    <3>5. Len(file) \in Nat
      BY LenProperties
    <3>6. file' # <<>> /\ OpenTail(file')
      BY <3>3, <3>5, EmptySeq DEF OpenTail, Last
    <3>7. Front(file') = file
      <4>1. /\ Front(file') \in Seq(Lines) /\ Len(Front(file')) = Len(file') - 1
            /\ \A i \in 1..(Len(file') - 1) : Front(file')[i] = file'[i]
        BY <3>3, <3>6, FrontProperties
      <4>2. /\ Len(Front(file')) = Len(file)
            /\ \A i \in 1..Len(Front(file')) : Front(file')[i] = file[i]
        BY <3>3, <3>5, <4>1
      <4> QED
        BY <4>1, <4>2, SeqEqual
    <3> QED
      BY <3>2, <3>4, <3>6, <3>7 DEF Durable
  <2> QED
    BY <1>6, <2>1, <2>2 DEF Crash
<1>7. CASE HealBegin
  <2>1. /\ file # <<>> /\ OpenTail(file) /\ rewrite = None
        /\ rewrite' = Front(file) /\ Front(file) \in Seq(Lines)
    BY <1>7, FrontProperties DEF HealBegin, OpenTail
  <2>2. rewrite' # None
    BY <2>1, LedgerAssumption
  <2> QED
    BY <2>1, <2>2 DEF Durable
<1>8. CASE HealEnd
  <2>1. rewrite # None /\ file' = rewrite /\ rewrite' = None
    BY <1>8 DEF HealEnd
  <2>2. rewrite \in Seq(Lines)
    BY <2>1
  <2>3. ~OpenTail(rewrite)
    <3>1. rewrite # <<>> => Len(rewrite) \in 1..Len(rewrite)
      BY <2>2, EmptySeq
    <3> QED
      BY <2>1, <3>1 DEF OpenTail, Last, DiskInv
  <2> QED
    BY <2>1, <2>3 DEF Durable, OpenTail
<1>9. CASE HealCrash
  BY <1>9 DEF HealCrash, Fault
<1>10. CASE UNCHANGED vars
  BY <1>2, <1>10 DEF vars
<1> QED
  BY <1>1, <1>3, <1>4, <1>5, <1>6, <1>7, <1>8, <1>9, <1>10 DEF Next

\* What is on disk is a sequence of lines.
LEMMA DurableType == ASSUME TypeOK PROVE Durable \in Seq(Lines) /\ Len(Durable) \in Nat
<1>1. OpenTail(file) => file # <<>>
  BY DEF OpenTail
<1>2. Durable \in Seq(Lines)
  BY <1>1, FrontProperties DEF Durable, TypeOK
<1> QED
  BY <1>2, LenProperties

----------------------------------------------------------------------------
(* The invariant holds initially and every step preserves each of its parts. *)

\* The first state has the invariant.
LEMMA LedgerInit == ASSUME Init PROVE LedgerInv
<1>1. TypeOK
  BY LedgerAssumption, EmptySeq DEF Init, TypeOK, history
<1>2. Len(file) = 0 /\ Len(leaves) = 0 /\ Len(offsets) = 0 /\ LockFree
  BY EmptySeq DEF Init, LockFree
<1>3. DiskInv /\ MemoryInv
  BY <1>2 DEF Init, DiskInv, MemoryInv, LockFree
<1>4. HistoryInv
  BY DEF Init, HistoryInv
<1> QED
  BY <1>1, <1>3, <1>4 DEF LedgerInv

\* What Write does, in terms of the sequences of an open ledger.
LEMMA WriteEffect ==
    ASSUME TypeOK, DiskInv, NEW w \in Writers, NEW e \in Events, Write(w, e)
    PROVE  /\ file' \in Seq(Lines) /\ Len(file) \in Nat /\ Len(file') = Len(file) + 1
           /\ \A i \in 1..Len(file) : file'[i] = file[i]
           /\ file'[Len(file) + 1] = Record(e, "whole")
           /\ Record(e, "whole").event = e /\ Record(e, "whole").kind = "whole"
           /\ Record(e, "whole").index = Len(offsets)
           /\ pending' = [pending EXCEPT ![w] =
                 [event |-> e, index |-> Len(offsets), line |-> Len(file) + 1]]
           /\ rewrite = None
<1>1. "whole" \in Kinds /\ up
  BY DEF Kinds, Write
<1>2. /\ file' \in Seq(Lines) /\ Len(file') = Len(file) + 1
      /\ \A i \in 1..Len(file) : file'[i] = file[i]
      /\ file'[Len(file) + 1] = Record(e, "whole")
  BY <1>1, ExtendedIsAppend DEF Write
<1>3. Len(file) \in Nat /\ rewrite = None
  BY <1>1, LenProperties, UpIsClosed DEF TypeOK
<1>4. /\ Record(e, "whole").event = e /\ Record(e, "whole").kind = "whole"
      /\ Record(e, "whole").index = Len(offsets)
  BY <1>1, RecordType DEF TypeOK
<1> QED
  BY <1>2, <1>3, <1>4 DEF Write

\* What Crash adds to the file: nothing, or an open line.
LEMMA CrashEffect ==
    ASSUME TypeOK, DiskInv, Crash
    PROVE  \/ UNCHANGED file
           \/ /\ LockFree
              /\ file' \in Seq(Lines) /\ Len(file) \in Nat /\ Len(file') = Len(file) + 1
              /\ \A i \in 1..Len(file) : file'[i] = file[i]
              /\ file'[Len(file) + 1].kind \in {"bare", "torn"}
              /\ file'[Len(file) + 1].index = Len(offsets)
<1>1. CASE \E e \in Events, k \in {"bare", "torn"} :
               LockFree /\ file' = Extended(file, Record(e, k))
  <2>1. PICK e \in Events, k \in {"bare", "torn"} :
            LockFree /\ file' = Extended(file, Record(e, k))
    BY <1>1
  <2>2. k \in Kinds /\ up /\ Len(file) \in Nat
    BY LenProperties DEF Kinds, Crash, TypeOK
  <2>3. /\ file' \in Seq(Lines) /\ Len(file') = Len(file) + 1
        /\ \A i \in 1..Len(file) : file'[i] = file[i]
        /\ file'[Len(file) + 1] = Record(e, k)
    BY <2>1, <2>2, ExtendedIsAppend
  <2>4. Record(e, k).kind = k /\ Record(e, k).index = Len(offsets)
    BY <2>2, RecordType DEF TypeOK
  <2> QED
    BY <2>1, <2>2, <2>3, <2>4
<1> QED
  BY <1>1 DEF Crash

\* Lines of which the first n are written, the last of them perhaps in part.
LEMMA CutType ==
    ASSUME NEW f \in Seq(Lines), NEW n \in 0..Len(f)
    PROVE  /\ SubSeq(f, 1, n) \in Seq(Lines)
           /\ Len(SubSeq(f, 1, n)) = n
           /\ \A i \in 1..n : SubSeq(f, 1, n)[i] = f[i]
           /\ \A k \in {"bare", "torn"} : n > 0 =>
                 /\ CutInside(f, n, k) \in Seq(Lines)
                 /\ Len(CutInside(f, n, k)) = n
                 /\ \A i \in 1..(n - 1) : CutInside(f, n, k)[i] = f[i]
<1>1. Len(f) \in Nat /\ n \in Nat /\ \A i \in 1..n : f[i] \in Lines
  BY LenProperties, ElementOfSeq
<1>2. /\ SubSeq(f, 1, n) \in Seq(Lines)
      /\ Len(SubSeq(f, 1, n)) = IF 1 <= n THEN n - 1 + 1 ELSE 0
      /\ \A i \in 1..(n - 1 + 1) : SubSeq(f, 1, n)[i] = f[1 + i - 1]
  BY <1>1, SubSeqProperties
<1>3. /\ SubSeq(f, 1, n) \in Seq(Lines)
      /\ Len(SubSeq(f, 1, n)) = n
      /\ \A i \in 1..n : SubSeq(f, 1, n)[i] = f[i]
  BY <1>1, <1>2
<1>4. ASSUME NEW k \in {"bare", "torn"}, n > 0
      PROVE  /\ CutInside(f, n, k) \in Seq(Lines)
             /\ Len(CutInside(f, n, k)) = n
             /\ \A i \in 1..(n - 1) : CutInside(f, n, k)[i] = f[i]
  <2> DEFINE h == SubSeq(f, 1, n)
             l == [h[n] EXCEPT !.kind = k]
  <2>1. n \in 1..Len(h) /\ h[n] \in Lines
    BY <1>1, <1>3, <1>4
  <2>2. l \in Lines
    BY <1>4, <2>1 DEF Lines, Kinds
  <2>3. CutInside(f, n, k) = [h EXCEPT ![n] = l]
    BY DEF CutInside
  <2>4. h \in Seq(Lines) /\ Len(h) = n /\ \A i \in 1..n : h[i] = f[i]
    BY <1>3
  <2> HIDE DEF h, l
  <2>5. /\ [h EXCEPT ![n] = l] \in Seq(Lines)
        /\ Len([h EXCEPT ![n] = l]) = Len(h)
        /\ \A i \in 1..Len(h) : [h EXCEPT ![n] = l][i] = IF i = n THEN l ELSE h[i]
    BY <2>1, <2>2, <2>4, ExceptSeq
  <2>6. \A i \in 1..(n - 1) : CutInside(f, n, k)[i] = f[i]
    BY <1>1, <2>3, <2>4, <2>5
  <2> QED
    BY <2>3, <2>4, <2>5, <2>6
<1> QED
  BY <1>3, <1>4

\* An append leaves a sequence of lines, whatever the file ended with.
LEMMA ExtendedType ==
    ASSUME TypeOK, NEW e \in Events, NEW k \in Kinds
    PROVE  Extended(file, Record(e, k)) \in Seq(Lines)
<1>1. Record(e, k) \in Lines
  BY RecordType DEF TypeOK
<1>2. [Record(e, k) EXCEPT !.kind = IF @ = "whole" THEN "garbage" ELSE "torn"] \in Lines
  BY <1>1 DEF Lines, Kinds
<1>3. OpenTail(file) => Front(file) \in Seq(Lines)
  BY FrontProperties DEF OpenTail, TypeOK
<1> QED
  BY <1>1, <1>2, <1>3, AppendProperties DEF Extended, TypeOK

\* Every step keeps the types.
LEMMA TypeNext == ASSUME TypeOK, [Next]_vars PROVE TypeOK'
<1> USE DEF TypeOK
<1>0. ASSUME NEW k, Fault(k) PROVE faults' \in 0..MaxFaults
  BY <1>0, LedgerAssumption DEF Fault
<1>1. ASSUME NEW w \in Writers, NEW e \in Events, Write(w, e)
      PROVE  TypeOK'
  <2>1. file' \in Seq(Lines)
    BY <1>1, ExtendedType DEF Write, Kinds
  <2>2. Len(file') \in Nat /\ Len(offsets) \in Nat
    BY <2>1, LenProperties
  <2>3. [event |-> e, index |-> Len(offsets), line |-> Len(file')] \in Commits
    BY <2>2 DEF Commits
  <2>4. pending' \in [Writers -> Commits \cup {None}]
    BY <1>1, <2>3 DEF Write
  <2> QED
    BY <1>1, <2>1, <2>4 DEF Write, history
<1>2. ASSUME NEW w \in Writers, Publish(w)
      PROVE  TypeOK'
  <2>1. pending[w] \in Commits
    BY <1>2 DEF Publish
  <2>2. pending[w].event \in Events /\ pending[w].index \in Nat /\ pending[w].line \in Nat
    BY <2>1 DEF Commits
  <2>3. offsets' \in Seq(Nat) /\ leaves' \in Seq(Events)
    BY <1>2, <2>2, AppendProperties DEF Publish
  <2> QED
    BY <1>2, <2>2, <2>3 DEF Publish
<1>3. ASSUME NEW e \in Events, CommitFails(e)
      PROVE  TypeOK'
  <2>1. faults' \in 0..MaxFaults /\ clean' \in BOOLEAN
    BY <1>0, <1>3 DEF CommitFails
  <2>2. file' \in Seq(Lines)
    BY <1>3, ExtendedType DEF CommitFails, Kinds
  <2> QED
    BY <1>3, <2>1, <2>2 DEF CommitFails, memory
<1>4. CASE Sign
  BY <1>4 DEF Sign, memory
<1>5. CASE Crash
  <2>1. faults' \in 0..MaxFaults
    BY <1>0, <1>5 DEF Crash
  <2>2. file' \in Seq(Lines)
    BY <1>5, ExtendedType DEF Crash, Kinds
  <2> QED
    BY <1>5, <2>1, <2>2, EmptySeq DEF Crash, history
<1>6. CASE HealBegin
  <2>1. file # <<>>
    BY <1>6 DEF HealBegin, OpenTail
  <2> QED
    BY <1>6, <2>1, FrontProperties, EmptySeq DEF HealBegin, memory, history
<1>7. CASE HealEnd
  BY <1>7 DEF HealEnd, memory, history
<1>8. CASE HealCrash
  <2>1. faults' \in 0..MaxFaults
    BY <1>0, <1>8 DEF HealCrash
  <2>2. ASSUME NEW n \in 0..Len(rewrite)
        PROVE  /\ SubSeq(rewrite, 1, n) \in Seq(Lines)
               /\ \A k \in {"bare", "torn"} :
                     n > 0 => CutInside(rewrite, n, k) \in Seq(Lines)
    BY <1>8, <2>2, CutType DEF HealCrash
  <2>3. file' \in Seq(Lines)
    BY <1>8, <2>2 DEF HealCrash
  <2> QED
    BY <1>8, <2>1, <2>3 DEF HealCrash, memory
<1>9. CASE Open
  <2>1. Len(file) \in Nat /\ DOMAIN file = 1..Len(file) /\ \A i \in 1..Len(file) : file[i] \in Lines
    BY LenProperties, ElementOfSeq
  <2>2. offsets' = [i \in 1..Len(file) |-> i] /\ leaves' = [i \in 1..Len(file) |-> file[i].event]
    BY <1>9, <2>1 DEF Open, EventsOf
  <2>3. \A i \in 1..Len(file) : file[i].event \in Events
    BY <2>1 DEF Lines
  <2>4. offsets' \in Seq(Nat) /\ leaves' \in Seq(Events)
    BY <2>1, <2>2, <2>3
  <2> QED
    BY <1>9, <2>4 DEF Open, history
<1>10. CASE UNCHANGED vars
  BY <1>10 DEF vars, memory, history
<1> QED
  BY <1>1, <1>2, <1>3, <1>4, <1>5, <1>6, <1>7, <1>8, <1>9, <1>10 DEF Next

\* Every step of commit(), of healing and of reopening keeps what is known of the file.
LEMMA DiskNext == ASSUME clean', LedgerInv, [Next]_vars PROVE DiskInv'
<1> USE DEF LedgerInv
<1>0. /\ Len(file) \in Nat /\ Len(offsets) \in Nat
      /\ file # <<>> => Len(file) # 0
  BY LenProperties, EmptySeq DEF TypeOK
<1>1. ASSUME NEW w \in Writers, NEW e \in Events, Write(w, e)
      PROVE  DiskInv'
  <2>1. up /\ up' /\ LockFree /\ rewrite' = None
    BY <1>1, WriteEffect DEF Write
  <2>2. Len(offsets) = Len(file)
    BY <2>1 DEF MemoryInv
  <2>3. /\ Len(file') = Len(file) + 1
        /\ \A i \in 1..Len(file) : file'[i] = file[i]
        /\ file'[Len(file) + 1].kind = "whole"
        /\ file'[Len(file) + 1].index = Len(file)
    BY <1>1, <2>2, WriteEffect
  <2>4. \A i \in 1..Len(file) : file'[i].index = i - 1 /\ file'[i].kind = "whole"
    BY <2>1, <2>3 DEF DiskInv
  <2> QED
    BY <1>0, <2>1, <2>3, <2>4 DEF DiskInv
<1>2. ASSUME UNCHANGED <<file, rewrite, up>>
      PROVE  DiskInv'
  BY <1>2 DEF DiskInv
<1>3. ASSUME NEW w \in Writers, Publish(w)
      PROVE  DiskInv'
  BY <1>2, <1>3 DEF Publish
<1>4. ASSUME NEW e \in Events, CommitFails(e)
      PROVE  DiskInv'
  BY <1>2, <1>4 DEF CommitFails, Fault
<1>5. CASE Sign
  BY <1>2, <1>5 DEF Sign
<1>6. CASE Crash
  <2>1. up /\ ~up' /\ rewrite = None /\ rewrite' = None
    BY <1>6, UpIsClosed DEF Crash
  <2>2. \A i \in 1..Len(file) : file[i].kind = "whole" /\ file[i].index = i - 1
    BY <2>1 DEF DiskInv
  <2>3. CASE UNCHANGED file
    BY <2>1, <2>2, <2>3 DEF DiskInv
  <2>4. CASE ~ UNCHANGED file
    <3>1. /\ LockFree
          /\ Len(file') = Len(file) + 1
          /\ \A i \in 1..Len(file) : file'[i] = file[i]
          /\ file'[Len(file) + 1].kind \in {"bare", "torn"}
          /\ file'[Len(file) + 1].index = Len(offsets)
      BY <1>6, <2>4, CrashEffect
    <3>2. Len(offsets) = Len(file)
      BY <2>1, <3>1 DEF MemoryInv
    <3> QED
      BY <1>0, <2>1, <2>2, <3>1, <3>2 DEF DiskInv
  <2> QED
    BY <2>3, <2>4
<1>7. CASE HealBegin
  <2>1. /\ ~up /\ ~up' /\ file # <<>> /\ rewrite' = Front(file) /\ file' = <<>>
    BY <1>7 DEF HealBegin, OpenTail
  <2>2. /\ Len(Front(file)) = Len(file) - 1
        /\ \A i \in 1..(Len(file) - 1) : Front(file)[i] = file[i]
    BY <2>1, FrontProperties DEF TypeOK
  <2>3. \A i \in 1..(Len(file) - 1) : file[i].kind = "whole" /\ file[i].index = i - 1
    BY <1>0 DEF DiskInv
  <2> QED
    BY <1>0, <2>1, <2>2, <2>3, EmptySeq DEF DiskInv
<1>8. CASE HealEnd
  BY <1>8 DEF HealEnd, DiskInv
<1>9. CASE HealCrash
  BY <1>9 DEF HealCrash, Fault
<1>10. CASE Open
  <2>1. ~OpenTail(file) /\ rewrite' = None /\ UNCHANGED file
    BY <1>10 DEF Open
  <2>2. \A i \in 1..Len(file) : file[i].kind = "whole" /\ file[i].index = i - 1
    BY <1>0, <2>1, EmptySeq DEF DiskInv, OpenTail, Last
  <2> QED
    BY <2>1, <2>2 DEF DiskInv
<1>11. CASE UNCHANGED vars
  BY <1>2, <1>11 DEF vars
<1> QED
  BY <1>1, <1>3, <1>4, <1>5, <1>6, <1>7, <1>8, <1>9, <1>10, <1>11 DEF Next

\* Every step keeps the list of offsets and the tree in memory in line with the file.
LEMMA MemoryNext == ASSUME clean', LedgerInv, [Next]_vars PROVE MemoryInv'
<1> USE DEF LedgerInv
<1>0. Len(file) \in Nat /\ Len(offsets) \in Nat /\ Len(leaves) \in Nat
  BY LenProperties DEF TypeOK
<1>1. ASSUME NEW w \in Writers, NEW e \in Events, Write(w, e)
      PROVE  MemoryInv'
  <2>1. up /\ up' /\ LockFree /\ UNCHANGED <<offsets, leaves>>
    BY <1>1 DEF Write
  <2>2. /\ Len(offsets) = Len(leaves) /\ Len(file) = Len(leaves)
        /\ \A i \in 1..Len(leaves) : offsets[i] = i /\ leaves[i] = file[i].event
    BY <2>1 DEF MemoryInv
  <2>3. /\ Len(file') = Len(leaves) + 1
        /\ \A i \in 1..Len(leaves) : file'[i] = file[i]
        /\ file'[Len(leaves) + 1].event = e
        /\ pending' = [pending EXCEPT ![w] =
              [event |-> e, index |-> Len(leaves), line |-> Len(leaves) + 1]]
    BY <1>1, <2>2, WriteEffect
  <2>4. /\ \A v \in Writers : v # w => pending'[v] = None
        /\ pending'[w] = [event |-> e, index |-> Len(leaves), line |-> Len(leaves) + 1]
    BY <2>1, <2>3 DEF LockFree, TypeOK
  <2>5. pending'[w] # None
    <3>1. [event |-> e, index |-> Len(leaves), line |-> Len(leaves) + 1] \in Commits
      BY <1>0 DEF Commits
    <3> QED
      BY <2>4, <3>1, LedgerAssumption
  <2>6. ~LockFree'
    BY <2>5 DEF LockFree
  <2> QED
    BY <1>0, <2>1, <2>2, <2>3, <2>4, <2>6 DEF MemoryInv
<1>2. ASSUME UNCHANGED <<file, up, memory>>
      PROVE  MemoryInv'
  BY <1>2 DEF MemoryInv, LockFree, memory
<1>3. ASSUME NEW w \in Writers, Publish(w)
      PROVE  MemoryInv'
  <2>1. up /\ up' /\ pending[w] # None /\ UNCHANGED file
    BY <1>3 DEF Publish
  <2>2. /\ Len(offsets) = Len(leaves) /\ Len(file) = Len(leaves) + 1
        /\ \A i \in 1..Len(leaves) : offsets[i] = i /\ leaves[i] = file[i].event
        /\ pending[w].event = file[Len(file)].event /\ pending[w].line = Len(file)
        /\ \A v \in Writers : pending[v] # None => v = w
    BY <2>1 DEF MemoryInv
  <2>3. pending[w].event \in Events /\ pending[w].line \in Nat
    BY <2>1 DEF TypeOK, Commits
  <2>4. offsets' = Append(offsets, Len(file)) /\ leaves' = Append(leaves, file[Len(file)].event)
    BY <1>3, <2>2 DEF Publish
  <2>5. /\ Len(offsets') = Len(offsets) + 1 /\ Len(leaves') = Len(leaves) + 1
        /\ \A i \in 1..Len(leaves) : offsets'[i] = offsets[i] /\ leaves'[i] = leaves[i]
        /\ offsets'[Len(leaves) + 1] = Len(file)
        /\ leaves'[Len(leaves) + 1] = file[Len(file)].event
    BY <2>2, <2>3, <2>4, AppendProperties DEF TypeOK
  <2>6. \A v \in Writers : pending'[v] = None
    BY <1>3, <2>2 DEF Publish, TypeOK
  <2> QED
    BY <1>0, <2>1, <2>2, <2>5, <2>6 DEF MemoryInv
<1>4. ASSUME NEW e \in Events, CommitFails(e)
      PROVE  MemoryInv'
  BY <1>2, <1>4 DEF CommitFails, Fault
<1>5. CASE Sign
  BY <1>2, <1>5 DEF Sign
<1>6. CASE Crash
  BY <1>6 DEF Crash, MemoryInv, LockFree
<1>7. CASE HealBegin \/ HealEnd
  <2>1. ~up /\ ~up' /\ UNCHANGED pending
    BY <1>7 DEF HealBegin, HealEnd, DiskInv, memory
  <2> QED
    BY <2>1 DEF MemoryInv, LockFree
<1>8. CASE HealCrash
  BY <1>8 DEF HealCrash, Fault
<1>9. CASE Open
  <2>1. ~up /\ up' /\ UNCHANGED <<file, pending>> /\ LockFree
    BY <1>9 DEF Open, MemoryInv
  <2>2. offsets' = [i \in 1..Len(file) |-> i] /\ leaves' = [i \in 1..Len(file) |-> file[i].event]
    BY <1>9, LenProperties DEF Open, EventsOf, TypeOK
  <2>3. Len(offsets') = Len(file) /\ Len(leaves') = Len(file)
    BY <1>0, <2>2
  <2>4. \A i \in 1..Len(leaves') : offsets'[i] = i /\ leaves'[i] = file'[i].event
    BY <2>1, <2>2, <2>3
  <2>5. \A w \in Writers : pending'[w] = None
    BY <2>1 DEF LockFree
  <2> QED
    BY <1>0, <2>1, <2>3, <2>4, <2>5 DEF MemoryInv
<1>10. CASE UNCHANGED vars
  BY <1>2, <1>10 DEF vars
<1> QED
  BY <1>1, <1>3, <1>4, <1>5, <1>6, <1>7, <1>8, <1>9, <1>10 DEF Next

\* The heads and the acknowledgements stay true as the log on disk grows.
LEMMA HistoryNext == ASSUME clean', LedgerInv, [Next]_vars PROVE HistoryInv'
<1> USE DEF LedgerInv
<1>0. /\ Len(file) \in Nat /\ Len(leaves) \in Nat
      /\ \A h \in heads : Len(h) \in Nat
      /\ \A a \in acked : a[2] \in Nat
  BY LenProperties DEF TypeOK
<1>1. /\ Durable \in Seq(Lines) /\ Len(Durable) \in Nat
      /\ Len(Durable') \in Nat /\ Len(Durable) <= Len(Durable')
      /\ \A i \in 1..Len(Durable) : Durable'[i] = Durable[i]
  <2>1. Durable \in Seq(Lines) /\ Len(Durable) \in Nat
    BY DurableType
  <2>2. CASE Durable' = Durable
    BY <2>1, <2>2
  <2>3. CASE \E w \in Writers, e \in Events :
                 Write(w, e) /\ Durable' = Append(Durable, Record(e, "whole"))
    <3>1. PICK w \in Writers, e \in Events :
              Write(w, e) /\ Durable' = Append(Durable, Record(e, "whole"))
      BY <2>3
    <3>2. Record(e, "whole") \in Lines
      BY RecordType DEF Kinds, TypeOK
    <3> QED
      BY <2>1, <3>1, <3>2, AppendProperties
  <2> QED
    BY <2>1, <2>2, <2>3, DurableGrows
<1>2. /\ \A h \in heads : Len(h) <= Len(Durable') /\ \A i \in 1..Len(h) : h[i] = Durable'[i].event
      /\ \A a \in acked : a[2] < Len(Durable') /\ Durable'[a[2] + 1].event = a[1]
  <2>1. ASSUME NEW h \in heads
        PROVE  Len(h) <= Len(Durable') /\ \A i \in 1..Len(h) : h[i] = Durable'[i].event
    BY <1>0, <1>1 DEF HistoryInv
  <2>2. ASSUME NEW a \in acked
        PROVE  a[2] < Len(Durable') /\ Durable'[a[2] + 1].event = a[1]
    <3>1. a[2] < Len(Durable) /\ Durable[a[2] + 1].event = a[1] /\ a[2] + 1 \in 1..Len(Durable)
      BY <1>0, <1>1 DEF HistoryInv
    <3> QED
      BY <1>0, <1>1, <3>1
  <2> QED
    BY <2>1, <2>2
<1>3. ASSUME UNCHANGED <<heads, acked, leaves>>, up' => up
      PROVE  HistoryInv'
  BY <1>2, <1>3 DEF HistoryInv
<1>4. ASSUME NEW w \in Writers, NEW e \in Events, Write(w, e)
      PROVE  HistoryInv'
  BY <1>3, <1>4 DEF Write, history
<1>5. ASSUME NEW w \in Writers, Publish(w)
      PROVE  HistoryInv'
  <2>1. up /\ pending[w] # None /\ Durable = file /\ UNCHANGED heads
    BY <1>5, UpIsClosed DEF Publish
  <2>2. /\ Len(file) = Len(leaves) + 1
        /\ pending[w].index = Len(leaves) /\ pending[w].event = file[Len(file)].event
    BY <2>1 DEF MemoryInv
  <2>3. acked' = acked \cup {<<file[Len(file)].event, Len(leaves)>>}
    BY <1>5, <2>2 DEF Publish
  <2>4. Durable'[Len(leaves) + 1] = file[Len(file)] /\ Len(leaves) < Len(Durable')
    BY <1>0, <1>1, <2>1, <2>2
  <2>5. \A a \in acked' : a[2] < Len(Durable') /\ Durable'[a[2] + 1].event = a[1]
    BY <1>2, <2>3, <2>4
  <2>6. Len(leaves') = Len(leaves) + 1
    <3>1. pending[w].event \in Events
      BY <2>1 DEF TypeOK, Commits
    <3> QED
      BY <1>5, <3>1, AppendProperties DEF Publish, TypeOK
  <2>7. \A h \in heads : Len(h) <= Len(leaves')
    BY <1>0, <2>1, <2>6 DEF HistoryInv
  <2> QED
    BY <1>2, <2>1, <2>5, <2>7 DEF HistoryInv
<1>6. ASSUME NEW e \in Events, CommitFails(e)
      PROVE  HistoryInv'
  BY <1>3, <1>6 DEF CommitFails, memory, history
<1>7. CASE Sign
  <2>1. up /\ LockFree /\ Durable = file /\ heads' = heads \cup {leaves}
        /\ UNCHANGED <<acked, file, rewrite, leaves>> /\ Durable' = file
    BY <1>7, UpIsClosed DEF Sign, memory, Durable, OpenTail
  <2>2. /\ Len(leaves) = Len(file)
        /\ \A i \in 1..Len(leaves) : leaves[i] = file[i].event
    BY <2>1 DEF MemoryInv
  <2>3. \A h \in heads : Len(h) <= Len(leaves)
    BY <2>1 DEF HistoryInv
  <2> QED
    BY <1>0, <1>2, <2>1, <2>2, <2>3 DEF HistoryInv
<1>8. CASE Crash
  BY <1>2, <1>8 DEF Crash, history, HistoryInv
<1>9. CASE HealBegin \/ HealEnd
  BY <1>3, <1>9 DEF HealBegin, HealEnd, memory, history
<1>10. CASE HealCrash
  BY <1>10 DEF HealCrash, Fault
<1>11. CASE Open
  <2>1. UNCHANGED <<heads, acked, file, rewrite>> /\ rewrite = None /\ ~OpenTail(file)
    BY <1>11 DEF Open, history
  <2>2. Durable' = file
    BY <2>1 DEF Durable, OpenTail
  <2>3. Len(leaves') = Len(file)
    <3>1. leaves' = [i \in 1..Len(file) |-> file[i].event]
      BY <1>11, LenProperties DEF Open, EventsOf, TypeOK
    <3> QED
      BY <1>0, <3>1
  <2> QED
    BY <1>2, <2>1, <2>2, <2>3 DEF HistoryInv
<1>12. CASE UNCHANGED vars
  BY <1>3, <1>12 DEF vars, memory, history
<1> QED
  BY <1>4, <1>5, <1>6, <1>7, <1>8, <1>9, <1>10, <1>11, <1>12 DEF Next

----------------------------------------------------------------------------
\* A ledger that is not clean never is again.
LEMMA CleanBefore == ASSUME [Next]_vars, clean' PROVE clean
BY DEF Next, Write, Publish, CommitFails, Sign, Crash, HealBegin, HealEnd, HealCrash, Open,
       history, vars

\* The invariant holds as long as no commit has failed half-way.
LEMMA LedgerInvariant == Spec => [](clean => LedgerInv)
<1>1. Init => LedgerInv
  BY LedgerInit
<1>2. (clean => LedgerInv) /\ [Next]_vars => (clean => LedgerInv)'
  <2> SUFFICES ASSUME clean => LedgerInv, [Next]_vars, clean'
               PROVE  LedgerInv'
    OBVIOUS
  <2>1. LedgerInv /\ TypeOK
    BY CleanBefore DEF LedgerInv
  <2> QED
    BY <2>1, TypeNext, DiskNext, MemoryNext, HistoryNext DEF LedgerInv
<1> QED
  BY <1>1, <1>2, PTL DEF Spec

\* Type correctness of the file, of the process's memory and of the history.
THEOREM TypeCorrect == Spec => []TypeOK
<1>1. Init => TypeOK
  BY LedgerInit DEF LedgerInv
<1>2. TypeOK /\ [Next]_vars => TypeOK'
  BY TypeNext
<1> QED
  BY <1>1, <1>2, PTL DEF Spec

\* ledger.py checkpoint() signs the tree under the lock that commit() holds, and a
\* restart rebuilds the tree from the file: every head signed in the life of the
\* file commits to a prefix of the log, through crashes and torn appends.
THEOREM HeadsAlwaysExtend == Spec => []HeadsExtend
<1>1. (clean => LedgerInv) => HeadsExtend
  <2> SUFFICES ASSUME LedgerInv, clean, up, NEW h \in heads
               PROVE  IsPrefix(h, leaves)
    BY DEF HeadsExtend
  <2>1. Durable = file /\ leaves \in Seq(Events) /\ h \in Seq(Events)
    BY UpIsClosed DEF LedgerInv, TypeOK
  <2>2. /\ Len(h) <= Len(leaves)
        /\ \A i \in 1..Len(h) : h[i] = leaves[i]
    BY <2>1, LenProperties DEF LedgerInv, HistoryInv, MemoryInv
  <2>3. h = SubSeq(leaves, 1, Len(h))
    BY <2>1, <2>2, SubSeqProperties, LenProperties, ElementOfSeq, SeqEqual
  <2> QED
    BY <2>1, <2>2, <2>3 DEF IsPrefix
<1> QED
  BY <1>1, LedgerInvariant, PTL

\* ledger.py commit() returns only after append_record() did: the event it returned
\* is at the index it returned in every later state of the file, and the file opens.
THEOREM AckedAlwaysKept == Spec => []AckedKept
<1>1. (clean => LedgerInv) => AckedKept
  <2> SUFFICES ASSUME LedgerInv, clean
               PROVE  Parses(Durable)
    BY DEF AckedKept, LedgerInv, HistoryInv
  <2> USE DEF LedgerInv, TypeOK, DiskInv
  <2>1. \A i \in 1..Len(Durable) : Durable[i].kind = "whole"
    <3>1. CASE rewrite # None
      BY <3>1 DEF Durable
    <3>2. CASE rewrite = None /\ OpenTail(file)
      <4>1. file # <<>> /\ Durable = Front(file)
        BY <3>2 DEF OpenTail, Durable
      <4>2. /\ Len(file) \in Nat /\ Len(Front(file)) = Len(file) - 1
            /\ \A i \in 1..(Len(file) - 1) : Front(file)[i] = file[i]
        BY <4>1, FrontProperties
      <4> QED
        BY <4>1, <4>2
    <3>3. CASE rewrite = None /\ ~OpenTail(file)
      <4>1. Durable = file /\ Len(file) \in Nat /\ (file = <<>> => Len(file) = 0)
        BY <3>3, LenProperties, EmptySeq DEF Durable
      <4> QED
        BY <3>3, <4>1 DEF OpenTail, Last
    <3> QED
      BY <3>1, <3>2, <3>3
  <2> QED
    BY <2>1, DurableType, LenProperties DEF Parses, LedgerInv
<1> QED
  BY <1>1, LedgerInvariant, PTL

\* ledger.py iter_records() reads without the lock: the file it reads agrees with
\* the tree up to the commit under way.
THEOREM ReadsAlwaysAgree == Spec => []ReadsAgree
<1>1. (clean => LedgerInv) => ReadsAgree
  <2> SUFFICES ASSUME LedgerInv, clean, up
               PROVE  ReadsAgree
    BY DEF ReadsAgree
  <2>1. /\ DOMAIN file = 1..Len(file) /\ Len(file) \in Nat /\ Len(leaves) \in Nat
        /\ leaves \in Seq(Events) /\ DOMAIN offsets = 1..Len(offsets)
        /\ \A i \in 1..Len(file) : file[i].event \in Events
    <3>1. /\ file \in Seq(Lines) /\ leaves \in Seq(Events) /\ offsets \in Seq(Nat)
      BY DEF LedgerInv, TypeOK
    <3>2. \A i \in 1..Len(file) : file[i] \in Lines
      BY <3>1, ElementOfSeq
    <3> QED
      BY <3>1, <3>2, LenProperties DEF Lines
  <2>2. \A i \in 1..Len(file) : file[i].kind = "whole" /\ file[i].index = i - 1
    BY DEF LedgerInv, DiskInv
  <2>3. EventsOf(file) \in Seq(Events) /\ Len(EventsOf(file)) = Len(file)
        /\ \A i \in 1..Len(file) : EventsOf(file)[i] = file[i].event
    BY <2>1 DEF EventsOf
  <2>4. /\ Len(offsets) = Len(leaves) /\ Len(leaves) <= Len(file)
        /\ \A i \in 1..Len(leaves) : offsets[i] = i /\ leaves[i] = file[i].event
    BY DEF LedgerInv, MemoryInv
  <2>5. CASE LockFree
    <3>1. Len(file) = Len(leaves)
      BY <2>5 DEF LedgerInv, MemoryInv
    <3>2. EventsOf(file) = leaves
      BY <2>1, <2>3, <2>4, <3>1, SeqEqual
    <3> QED
      BY <2>1, <2>2, <2>4, <3>2 DEF ReadsAgree, Parses
  <2>6. CASE ~LockFree
    <3>1. PICK w \in Writers : pending[w] # None
      BY <2>6 DEF LockFree
    <3>2. Len(file) = Len(leaves) + 1 /\ pending[w].event = file[Len(file)].event
      BY <3>1 DEF LedgerInv, MemoryInv
    <3>3. pending[w].event \in Events
      BY <2>1, <3>2
    <3>4. /\ Append(leaves, pending[w].event) \in Seq(Events)
          /\ Len(Append(leaves, pending[w].event)) = Len(file)
          /\ \A i \in 1..Len(leaves) : Append(leaves, pending[w].event)[i] = leaves[i]
          /\ Append(leaves, pending[w].event)[Len(file)] = file[Len(file)].event
      BY <2>1, <3>2, <3>3, AppendProperties
    <3>5. \A i \in 1..Len(file) : EventsOf(file)[i] = Append(leaves, pending[w].event)[i]
      BY <2>1, <2>3, <2>4, <3>2, <3>4
    <3>6. EventsOf(file) = Append(leaves, pending[w].event)
      BY <2>3, <3>4, <3>5, SeqEqual
    <3> QED
      BY <2>1, <2>2, <2>4, <3>1, <3>6 DEF ReadsAgree, Parses
  <2> QED
    BY <2>5, <2>6
<1> QED
  BY <1>1, LedgerInvariant, PTL

(***************************************************************************)
(* The offsets stay right whatever happens.  Only the last line of a file   *)
(* can be open, an append that continues an open line changes no other one, *)
(* and no offset in memory points at an open line.                          *)
(***************************************************************************)
ClosedLine(l) == l.kind \in {"whole", "garbage"}

OffsetInv ==
    /\ \A i \in 1..(Len(file) - 1) : ClosedLine(file[i])
    /\ rewrite # None => ~up /\ \A i \in 1..Len(rewrite) : ClosedLine(rewrite[i])
    /\ Len(offsets) = Len(leaves)
    /\ \A i \in 1..Len(offsets) :
          /\ offsets[i] \in 1..Len(file)
          /\ ClosedLine(file[offsets[i]]) /\ file[offsets[i]].event = leaves[i]
    /\ \A w \in Writers : pending[w] # None =>
          /\ pending[w].line \in 1..Len(file)
          /\ ClosedLine(file[pending[w].line])
          /\ file[pending[w].line].event = pending[w].event
          /\ \A v \in Writers : pending[v] # None => v = w
    /\ ~up => offsets = <<>> /\ LockFree

\* An append keeps the lines that are closed where they are.
LEMMA ExtendedKeeps ==
    ASSUME TypeOK, OffsetInv, NEW e \in Events, NEW k \in {"whole", "bare", "torn"}
    PROVE  LET f == Extended(file, Record(e, k))
           IN  /\ f \in Seq(Lines) /\ Len(f) \in Nat \ {0} /\ Len(file) <= Len(f)
               /\ \A i \in 1..Len(file) : ClosedLine(file[i]) => f[i] = file[i]
               /\ \A i \in 1..(Len(f) - 1) : ClosedLine(f[i])
               /\ f[Len(f)].event = e
               /\ k = "whole" => ClosedLine(f[Len(f)])
<1> DEFINE f == Extended(file, Record(e, k))
           r == Record(e, k)
           l == [r EXCEPT !.kind = IF @ = "whole" THEN "garbage" ELSE "torn"]
<1>1. r \in Lines /\ r.event = e /\ r.kind = k
  BY RecordType DEF TypeOK, Kinds
<1>2. l \in Lines /\ l.event = e /\ (k = "whole" => l.kind = "garbage")
  BY <1>1 DEF Lines, Kinds
<1>3. file \in Seq(Lines) /\ Len(file) \in Nat /\ f \in Seq(Lines)
  BY ExtendedType, LenProperties DEF TypeOK, Kinds
<1>4. CASE OpenTail(file)
  <2>1. file # <<>> /\ file[Len(file)].kind \in {"bare", "torn"}
    BY <1>4 DEF OpenTail, Last
  <2>2. /\ Len(file) \in Nat \ {0} /\ Front(file) \in Seq(Lines)
        /\ Len(Front(file)) = Len(file) - 1
        /\ \A i \in 1..(Len(file) - 1) : Front(file)[i] = file[i]
    BY <1>3, <2>1, FrontProperties
  <2>3. f = Append(Front(file), l)
    BY <1>4 DEF Extended
  <2> HIDE DEF l
  <2>4. /\ Len(f) = Len(file) /\ f[Len(file)] = l
        /\ \A i \in 1..(Len(file) - 1) : f[i] = file[i]
    BY <1>2, <2>2, <2>3, AppendProperties
  <2>5. \A i \in 1..Len(file) : ClosedLine(file[i]) => i \in 1..(Len(file) - 1)
    BY <2>1, <2>2 DEF ClosedLine
  <2> QED
    BY <1>2, <1>3, <2>2, <2>4, <2>5 DEF OffsetInv, ClosedLine
<1>5. CASE ~OpenTail(file)
  <2>1. f = Append(file, r)
    BY <1>5 DEF Extended
  <2> HIDE DEF r
  <2>2. /\ Len(f) = Len(file) + 1 /\ f[Len(file) + 1] = r
        /\ \A i \in 1..Len(file) : f[i] = file[i]
    BY <1>1, <1>3, <2>1, AppendProperties
  <2>3. Len(file) > 0 => ClosedLine(file[Len(file)])
    <3>1. ASSUME Len(file) > 0 PROVE file # <<>> /\ file[Len(file)] \in Lines
      BY <1>3, <3>1, EmptySeq, ElementOfSeq
    <3> QED
      BY <1>5, <3>1 DEF OpenTail, Last, ClosedLine, Lines, Kinds
  <2>4. \A i \in 1..Len(file) : ClosedLine(file[i])
    BY <1>3, <2>3 DEF OffsetInv
  <2> QED
    BY <1>1, <1>3, <2>2, <2>4 DEF ClosedLine
<1> QED
  BY <1>4, <1>5

\* Appends that fail, and a torn one the process dies in.
LEMMA OffsetAppend ==
    ASSUME TypeOK, OffsetInv, NEW e \in Events, NEW k \in {"whole", "bare", "torn"},
           file' = Extended(file, Record(e, k)), UNCHANGED <<rewrite, up, memory>>, up
    PROVE  OffsetInv'
<1>1. /\ Len(file') \in Nat \ {0} /\ Len(file) <= Len(file') /\ Len(file) \in Nat
      /\ \A i \in 1..Len(file) : ClosedLine(file[i]) => file'[i] = file[i]
      /\ \A i \in 1..(Len(file') - 1) : ClosedLine(file'[i])
  <2> DEFINE f == Extended(file, Record(e, k))
  <2>1. /\ Len(f) \in Nat \ {0} /\ Len(file) <= Len(f)
        /\ \A i \in 1..Len(file) : ClosedLine(file[i]) => f[i] = file[i]
        /\ \A i \in 1..(Len(f) - 1) : ClosedLine(f[i])
    BY ExtendedKeeps
  <2>2. Len(file) \in Nat
    BY LenProperties DEF TypeOK
  <2>3. file' = f
    OBVIOUS
  <2> HIDE DEF f
  <2> QED
    BY <2>1, <2>2, <2>3
<1>2. UNCHANGED <<offsets, leaves, pending>>
  BY DEF memory
<1>3. \A i \in 1..Len(offsets)' :
          /\ offsets'[i] \in 1..Len(file')
          /\ ClosedLine(file'[offsets'[i]]) /\ file'[offsets'[i]].event = leaves'[i]
  BY <1>1, <1>2 DEF OffsetInv
<1>4. \A w \in Writers : pending'[w] # None =>
          /\ pending'[w].line \in 1..Len(file')
          /\ ClosedLine(file'[pending'[w].line])
          /\ file'[pending'[w].line].event = pending'[w].event
          /\ \A v \in Writers : pending'[v] # None => v = w
  <2> SUFFICES ASSUME NEW w \in Writers, pending[w] # None
               PROVE  /\ pending[w].line \in 1..Len(file')
                      /\ ClosedLine(file'[pending[w].line])
                      /\ file'[pending[w].line].event = pending[w].event
                      /\ \A v \in Writers : pending[v] # None => v = w
    BY <1>2
  <2>1. /\ pending[w].line \in 1..Len(file)
        /\ ClosedLine(file[pending[w].line])
        /\ file[pending[w].line].event = pending[w].event
        /\ \A v \in Writers : pending[v] # None => v = w
    BY DEF OffsetInv
  <2> QED
    BY <1>1, <2>1
<1> QED
  BY <1>1, <1>2, <1>3, <1>4 DEF OffsetInv, ClosedLine

\* Every step keeps the offsets on closed lines that hold the events of the leaves.
LEMMA OffsetNext == ASSUME TypeOK, OffsetInv, [Next]_vars PROVE OffsetInv'
<1>0. Len(file) \in Nat /\ Len(offsets) \in Nat /\ Len(leaves) \in Nat
  BY LenProperties DEF TypeOK
<1>1. ASSUME NEW w \in Writers, NEW e \in Events, Write(w, e)
      PROVE  OffsetInv'
  <2>1. /\ Len(file') \in Nat \ {0} /\ Len(file) <= Len(file')
        /\ \A i \in 1..Len(file) : ClosedLine(file[i]) => file'[i] = file[i]
        /\ \A i \in 1..(Len(file') - 1) : ClosedLine(file'[i])
        /\ file'[Len(file')].event = e /\ ClosedLine(file'[Len(file')])
    <3> DEFINE f == Extended(file, Record(e, "whole"))
    <3>1. /\ Len(f) \in Nat \ {0} /\ Len(file) <= Len(f)
          /\ \A i \in 1..Len(file) : ClosedLine(file[i]) => f[i] = file[i]
          /\ \A i \in 1..(Len(f) - 1) : ClosedLine(f[i])
          /\ f[Len(f)].event = e /\ ClosedLine(f[Len(f)])
      BY ExtendedKeeps
    <3>2. file' = f
      BY <1>1 DEF Write
    <3> HIDE DEF f
    <3> QED
      BY <3>1, <3>2
  <2>2. /\ up /\ LockFree /\ UNCHANGED <<rewrite, up, offsets, leaves>>
        /\ pending' = [pending EXCEPT ![w] =
                          [event |-> e, index |-> Len(offsets), line |-> Len(file')]]
    BY <1>1 DEF Write
  <2>3. \A i \in 1..Len(offsets') :
            /\ offsets'[i] \in 1..Len(file')
            /\ ClosedLine(file'[offsets'[i]]) /\ file'[offsets'[i]].event = leaves'[i]
    BY <1>0, <2>1, <2>2 DEF OffsetInv
  <2>4. /\ pending'[w].event = e /\ pending'[w].line = Len(file')
        /\ \A v \in Writers : pending'[v] # None => v = w
    BY <2>2 DEF LockFree, TypeOK
  <2>5. \A v \in Writers : pending'[v] # None =>
            /\ pending'[v].line \in 1..Len(file')
            /\ ClosedLine(file'[pending'[v].line])
            /\ file'[pending'[v].line].event = pending'[v].event
            /\ \A u \in Writers : pending'[u] # None => u = v
    BY <2>1, <2>4
  <2> QED
    BY <2>1, <2>2, <2>3, <2>5 DEF OffsetInv, ClosedLine
<1>2. ASSUME NEW w \in Writers, Publish(w)
      PROVE  OffsetInv'
  <2>1. /\ pending[w] # None /\ pending[w] \in Commits
        /\ offsets' = Append(offsets, pending[w].line)
        /\ leaves' = Append(leaves, pending[w].event)
        /\ pending' = [pending EXCEPT ![w] = None]
        /\ up /\ UNCHANGED <<file, rewrite, up>>
    BY <1>2 DEF Publish, TypeOK
  <2>2. pending[w].line \in Nat /\ pending[w].event \in Events
    BY <2>1 DEF Commits
  <2>3. /\ Len(offsets') = Len(offsets) + 1 /\ Len(leaves') = Len(leaves) + 1
        /\ \A i \in 1..Len(offsets) : offsets'[i] = offsets[i]
        /\ \A i \in 1..Len(leaves) : leaves'[i] = leaves[i]
        /\ offsets'[Len(offsets) + 1] = pending[w].line
        /\ leaves'[Len(leaves) + 1] = pending[w].event
    BY <2>1, <2>2, AppendProperties DEF TypeOK
  <2>4. \A i \in 1..Len(offsets') :
            /\ offsets'[i] \in 1..Len(file)
            /\ ClosedLine(file[offsets'[i]]) /\ file[offsets'[i]].event = leaves'[i]
    BY <1>0, <2>1, <2>3 DEF OffsetInv
  <2>5. \A v \in Writers : pending'[v] = None
    BY <2>1 DEF OffsetInv, TypeOK
  <2> QED
    BY <1>0, <2>1, <2>3, <2>4, <2>5 DEF OffsetInv, ClosedLine
<1>3. ASSUME UNCHANGED <<file, rewrite, up, memory>>
      PROVE  OffsetInv'
  BY <1>3 DEF memory, OffsetInv, LockFree, ClosedLine
<1>4. ASSUME NEW e \in Events, CommitFails(e)
      PROVE  OffsetInv'
  <2>1. up /\ UNCHANGED <<rewrite, up, memory>>
    BY <1>4 DEF CommitFails
  <2>2. \/ UNCHANGED file
        \/ \E k \in {"whole", "bare", "torn"} : file' = Extended(file, Record(e, k))
    BY <1>4 DEF CommitFails
  <2> QED
    BY <1>3, <2>1, <2>2, OffsetAppend
<1>5. CASE Sign
  BY <1>3, <1>5 DEF Sign
<1>6. CASE Crash
  <2>1. /\ up /\ ~up' /\ rewrite' = rewrite /\ offsets' = <<>> /\ leaves' = <<>>
        /\ pending' = [w \in Writers |-> None]
    BY <1>6 DEF Crash
  <2>2. \A i \in 1..(Len(file') - 1) : ClosedLine(file'[i])
    <3>1. CASE UNCHANGED file
      BY <3>1 DEF OffsetInv, ClosedLine
    <3>2. CASE \E e \in Events, k \in {"bare", "torn"} : file' = Extended(file, Record(e, k))
      BY <3>2, ExtendedKeeps
    <3> QED
      BY <1>6, <3>1, <3>2 DEF Crash
  <2>3. Len(offsets') = 0 /\ Len(leaves') = 0 /\ LockFree'
    BY <2>1, EmptySeq DEF LockFree
  <2>4. rewrite' = None
    BY <2>1 DEF OffsetInv
  <2> QED
    BY <2>1, <2>2, <2>3, <2>4 DEF OffsetInv, ClosedLine, LockFree
<1>7. ASSUME HealBegin \/ HealEnd \/ HealCrash
      PROVE  OffsetInv'
  <2>1. ~up /\ UNCHANGED <<up, offsets, leaves, pending>>
    BY <1>7 DEF HealBegin, HealEnd, HealCrash, memory, OffsetInv
  <2>2. offsets = <<>> /\ Len(offsets) = 0 /\ LockFree
    BY <2>1, EmptySeq DEF OffsetInv
  <2>3. \A i \in 1..(Len(file') - 1) : ClosedLine(file'[i])
    <3>1. CASE HealBegin
      BY <3>1, EmptySeq DEF HealBegin
    <3>2. CASE HealEnd
      <4>1. file' = rewrite /\ rewrite # None /\ Len(rewrite) \in Nat
        BY <3>2, LenProperties DEF HealEnd, TypeOK
      <4> QED
        BY <4>1 DEF OffsetInv
    <3>3. CASE HealCrash
      <4>1. rewrite # None /\ rewrite \in Seq(Lines) /\ Len(rewrite) \in Nat
        BY <3>3, LenProperties DEF HealCrash, TypeOK
      <4>2. PICK n \in 0..Len(rewrite) :
                \/ file' = SubSeq(rewrite, 1, n)
                \/ n > 0 /\ \E k \in {"bare", "torn"} :
                                file' = CutInside(rewrite, n, k)
        BY <3>3 DEF HealCrash
      <4>3. Len(file') = n /\ \A i \in 1..(n - 1) : file'[i] = rewrite[i]
        <5>1. /\ Len(SubSeq(rewrite, 1, n)) = n
              /\ \A i \in 1..n : SubSeq(rewrite, 1, n)[i] = rewrite[i]
          BY <4>1, CutType
        <5>2. ASSUME NEW k \in {"bare", "torn"}, n > 0
              PROVE  /\ Len(CutInside(rewrite, n, k)) = n
                     /\ \A i \in 1..(n - 1) :
                           CutInside(rewrite, n, k)[i] = rewrite[i]
          BY <4>1, <5>2, CutType
        <5> QED
          BY <4>1, <4>2, <5>1, <5>2
      <4>4. \A i \in 1..Len(rewrite) : ClosedLine(rewrite[i])
        BY <4>1 DEF OffsetInv
      <4> QED
        BY <4>1, <4>2, <4>3, <4>4
    <3> QED
      BY <1>7, <3>1, <3>2, <3>3
  <2>4. rewrite' # None => \A i \in 1..Len(rewrite') : ClosedLine(rewrite'[i])
    <3>1. CASE HealBegin
      <4>1. rewrite' = Front(file) /\ file # <<>> /\ file \in Seq(Lines)
        BY <3>1 DEF HealBegin, OpenTail, TypeOK
      <4>2. /\ Len(Front(file)) = Len(file) - 1
            /\ \A i \in 1..(Len(file) - 1) : Front(file)[i] = file[i]
        BY <4>1, FrontProperties
      <4> QED
        BY <4>1, <4>2 DEF OffsetInv
    <3>2. CASE HealEnd \/ HealCrash
      BY <3>2 DEF HealEnd, HealCrash
    <3> QED
      BY <1>7, <3>1, <3>2
  <2> QED
    BY <2>1, <2>2, <2>3, <2>4 DEF OffsetInv, ClosedLine, LockFree
<1>8. CASE Open
  <2>1. /\ ~up /\ up' /\ ~OpenTail(file) /\ Parses(file) /\ rewrite = None
        /\ UNCHANGED <<file, rewrite, pending>>
        /\ offsets' = [i \in DOMAIN file |-> i] /\ leaves' = EventsOf(file)
    BY <1>8 DEF Open
  <2>2. file \in Seq(Lines) /\ DOMAIN file = 1..Len(file)
    BY LenProperties DEF TypeOK
  <2>3. /\ offsets' = [i \in 1..Len(file) |-> i]
        /\ leaves' = [i \in 1..Len(file) |-> file[i].event]
    BY <2>1, <2>2 DEF EventsOf
  <2>4. Len(offsets') = Len(file) /\ Len(leaves') = Len(file)
    BY <1>0, <2>3
  <2>5. \A i \in 1..Len(file) : ClosedLine(file[i])
    <3>1. Len(file) > 0 => file # <<>> /\ file[Len(file)] \in Lines
      BY <1>0, <2>2, EmptySeq, ElementOfSeq
    <3>2. Len(file) > 0 => ClosedLine(file[Len(file)])
      BY <2>1, <3>1 DEF OpenTail, Last, ClosedLine, Lines, Kinds
    <3> QED
      BY <1>0, <3>2 DEF OffsetInv
  <2>6. LockFree /\ LockFree'
    BY <2>1 DEF OffsetInv, LockFree
  <2> QED
    BY <1>0, <2>1, <2>3, <2>4, <2>5, <2>6 DEF OffsetInv, LockFree, ClosedLine
<1>9. CASE UNCHANGED vars
  BY <1>3, <1>9 DEF vars
<1> QED
  BY <1>1, <1>2, <1>4, <1>5, <1>6, <1>7, <1>8, <1>9 DEF Next

\* ledger.py get_record() reads without the lock at an offset append_record() kept:
\* it finds the event of the leaf with that index, whatever appends, crashes and
\* healings have failed before.
THEOREM OffsetsAlwaysAgree == Spec => []OffsetsAgree
<1>1. Init => TypeOK /\ OffsetInv
  <2> SUFFICES ASSUME Init PROVE OffsetInv
    BY LedgerInit DEF LedgerInv
  <2>1. Len(file) = 0 /\ Len(offsets) = 0 /\ Len(leaves) = 0 /\ up /\ rewrite = None
    BY EmptySeq DEF Init
  <2>2. \A w \in Writers : pending[w] = None
    BY DEF Init
  <2> QED
    BY <2>1, <2>2 DEF OffsetInv
<1>2. TypeOK /\ OffsetInv /\ [Next]_vars => (TypeOK /\ OffsetInv)'
  BY TypeNext, OffsetNext
<1>3. TypeOK /\ OffsetInv => OffsetsAgree
  <2> SUFFICES ASSUME TypeOK, OffsetInv, NEW i \in DOMAIN offsets
               PROVE  offsets[i] <= Len(file) /\ file[offsets[i]].event = leaves[i]
    BY DEF OffsetsAgree
  <2>1. i \in 1..Len(offsets) /\ Len(file) \in Nat
    BY LenProperties DEF TypeOK
  <2> QED
    BY <2>1 DEF OffsetInv
<1> QED
  BY <1>1, <1>2, <1>3, PTL DEF Spec

----------------------------------------------------------------------------
\* The events of a file, one for each line.
LEMMA EventsOfType ==
    ASSUME NEW f \in Seq(Lines)
    PROVE  /\ EventsOf(f) \in Seq(Events) /\ Len(EventsOf(f)) = Len(f)
           /\ \A i \in 1..Len(f) : EventsOf(f)[i] = f[i].event
<1>1. DOMAIN f = 1..Len(f) /\ Len(f) \in Nat
  BY LenProperties
<1>2. \A i \in 1..Len(f) : f[i] \in Lines
  BY ElementOfSeq
<1>3. \A i \in 1..Len(f) : f[i].event \in Events
  BY <1>2 DEF Lines
<1>4. EventsOf(f) = [i \in 1..Len(f) |-> f[i].event]
  BY <1>1 DEF EventsOf
<1> QED
  BY <1>1, <1>3, <1>4

\* The ledger implements the append-only log: an event enters the log when its line
\* is written, a head is the whole log at the moment checkpoint() signs it, and no
\* other step, a crash, a healing and a reopening included, changes log or heads.
THEOREM LogImplemented == Spec => LogSpec
<1>1. Init => Log!Init
  <2> SUFFICES ASSUME Init
               PROVE  EventsOf(Durable) = <<>> /\ heads = {}
    BY DEF Log!Init
  <2>1. Durable = <<>> /\ heads = {}
    BY DEF Init, Durable, OpenTail
  <2> QED
    BY <2>1 DEF EventsOf
<1>2. (clean => LedgerInv) /\ [Next]_vars => [clean' => Log!Next]_<<EventsOf(Durable), heads>>
  <2> SUFFICES ASSUME LedgerInv, [Next]_vars, clean'
               PROVE  \/ Log!Next
                      \/ EventsOf(Durable)' = EventsOf(Durable) /\ heads' = heads
    BY CleanBefore
  <2>0. TypeOK /\ DiskInv
    BY DEF LedgerInv
  <2>1. ASSUME NEW w \in Writers, NEW e \in Events,
               Write(w, e), Durable' = Append(Durable, Record(e, "whole"))
        PROVE  Log!Next
    <3>1. /\ Durable \in Seq(Lines) /\ Record(e, "whole") \in Lines
          /\ Record(e, "whole").event = e /\ Len(Durable) \in Nat
      BY <2>0, DurableType, RecordType DEF TypeOK, Kinds
    <3>2. /\ Durable' \in Seq(Lines) /\ Len(Durable') = Len(Durable) + 1
          /\ \A i \in 1..Len(Durable) : Durable'[i] = Durable[i]
          /\ Durable'[Len(Durable) + 1] = Record(e, "whole")
      BY <2>1, <3>1, AppendProperties
    <3>3. /\ EventsOf(Durable) \in Seq(Events) /\ Len(EventsOf(Durable)) = Len(Durable)
          /\ \A i \in 1..Len(Durable) : EventsOf(Durable)[i] = Durable[i].event
      BY <3>1, EventsOfType
    <3>4. /\ EventsOf(Durable') \in Seq(Events) /\ Len(EventsOf(Durable')) = Len(Durable')
          /\ \A i \in 1..Len(Durable') : EventsOf(Durable')[i] = Durable'[i].event
      BY <3>2, EventsOfType
    <3>5. /\ Append(EventsOf(Durable), e) \in Seq(Events)
          /\ Len(Append(EventsOf(Durable), e)) = Len(Durable) + 1
          /\ \A i \in 1..Len(Durable) : Append(EventsOf(Durable), e)[i] = EventsOf(Durable)[i]
          /\ Append(EventsOf(Durable), e)[Len(Durable) + 1] = e
      BY <3>3, AppendProperties
    <3>6. \A i \in 1..Len(Durable') : EventsOf(Durable')[i] = Append(EventsOf(Durable), e)[i]
      BY <3>1, <3>2, <3>3, <3>4, <3>5
    <3>7. EventsOf(Durable') = Append(EventsOf(Durable), e)
      BY <3>2, <3>4, <3>5, <3>6, SeqEqual
    <3>8. EventsOf(Durable)' = EventsOf(Durable')
      BY DEF EventsOf
    <3>9. heads' = heads
      BY <2>1 DEF Write, history
    <3> QED
      BY <3>7, <3>8, <3>9 DEF Log!Next, Log!AppendEntry
  <2>2. CASE Sign
    <3>1. up /\ LockFree /\ heads' = heads \cup {leaves} /\ UNCHANGED <<file, rewrite>>
      BY <2>2 DEF Sign
    <3>2. Durable = file /\ Durable' = Durable /\ file \in Seq(Lines) /\ leaves \in Seq(Events)
      BY <2>0, <3>1, UpIsClosed DEF Durable, OpenTail, TypeOK
    <3>3. /\ Len(leaves) = Len(file)
          /\ \A i \in 1..Len(leaves) : leaves[i] = file[i].event
      BY <3>1 DEF LedgerInv, MemoryInv
    <3>4. leaves = EventsOf(Durable)
      BY <3>2, <3>3, EventsOfType, SeqEqual
    <3>5. leaves = SubSeq(leaves, 1, Len(leaves)) /\ Len(leaves) \in 0..Len(leaves)
      BY <3>2, LenProperties, SubSeqFull
    <3>6. EventsOf(Durable)' = EventsOf(Durable)
      BY <3>2 DEF EventsOf
    <3> QED
      BY <3>1, <3>4, <3>5, <3>6 DEF Log!Next, Log!SignHead
  <2>3. ASSUME Durable' = Durable, ~Sign
        PROVE  EventsOf(Durable)' = EventsOf(Durable) /\ heads' = heads
    <3>1. heads' = heads
      BY <2>3 DEF Next, Write, Publish, CommitFails, Crash, HealBegin, HealEnd, HealCrash,
                  Open, history, vars
    <3> QED
      BY <2>3, <3>1 DEF EventsOf
  <2> QED
    BY <2>0, <2>1, <2>2, <2>3, DurableGrows
<1> QED
  BY <1>1, <1>2, LedgerInvariant, PTL DEF Spec, LogSpec, Log!Spec
=============================================================================
