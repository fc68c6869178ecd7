-------------------------- MODULE SpillQueueProofs --------------------------
(***************************************************************************)
(* SpillQueue, for every set of spans, length of their lines and kind and  *)
(* number of faults: the buffer is a FIFO and pending() is right until a   *)
(* process dies or a line is torn; a restart loses nothing and repeats a   *)
(* span once per death.  Layout says where the lines and the cursors are,  *)
(* Handed how often each span was handed out.                              *)
(***************************************************************************)
EXTENDS SpillQueue, SpillBufferProofs

-----------------------------------------------------------------------------
(* The types, and which modes go together.                                 *)

\* No process is up only after a death; the file is not behind its cursor then.
Modes ==
    /\ ~up => deaths > 0 /\ behind # "yes"
    /\ deaths = 0 => behind # "lost"

Typed == TypeOK /\ Modes

\* The buffer starts empty and open.
LEMMA TypedInit == Init => Typed
<1> SUFFICES ASSUME Init PROVE Typed
  OBVIOUS
<1>1. <<>> \in Seq(Byte) /\ <<>> \in Seq(Spans)
  BY EmptySeq
<1> QED BY <1>1, FaultsAssumption DEF Init, SpillInit, Typed, TypeOK, SpillTypeOK, Modes

\* One more fault is still within the bound.
LEMMA FaultType ==
  ASSUME TypeOK, NEW kind, Fault(kind)
  PROVE  faults' \in 0..MaxFaults /\ deaths \in 0..faults' /\ deaths + 1 \in 0..faults'
         /\ deaths + 1 > 0
BY FaultsAssumption DEF TypeOK, Fault

\* Every step keeps the types and the modes.
LEMMA TypedNext == Typed /\ [Next]_vars => Typed'
<1> SUFFICES ASSUME Typed, [Next]_vars PROVE Typed'
  OBVIOUS
<1>0. TypeOK /\ SpillTypeOK /\ Modes
  BY DEF Typed, TypeOK
<1>1. ASSUME NEW s \in Spans, AppendSpan(s) PROVE Typed'
  <2>1. 0 \in 0..LineLen[s]
    BY LineType
  <2>2. file' \in Seq(Byte)
    BY <1>0, <1>1, <2>1, AppendTyped DEF AppendSpan, AppendLine
  <2>3. appended' \in Seq(Spans)
    BY <1>0, <1>1, AppendProperties DEF AppendSpan, TypeOK
  <2> QED BY <1>0, <1>1, <2>2, <2>3 DEF AppendSpan, AppendLine, Typed, TypeOK, SpillTypeOK, Modes
<1>2. ASSUME NEW s \in Spans, AppendFails(s) PROVE Typed'
  <2>1. PICK k \in 0..LineLen[s] : AppendRaises(s, k)
    BY <1>2, LineType DEF AppendFails, AppendRaises
  <2>2. file' \in Seq(Byte)
    BY <1>0, <2>1, AppendTyped DEF AppendRaises
  <2>3. faults' \in 0..MaxFaults /\ deaths \in 0..faults'
    BY <1>0, <1>2, FaultType DEF AppendFails
  <2>4. Append(appended, s) \in Seq(Spans)
    BY <1>0, AppendProperties DEF TypeOK
  <2>5. appended' \in Seq(Spans) /\ torn' \subseteq Spans
    BY <1>0, <1>2, <2>4 DEF AppendFails, TypeOK
  <2> QED BY <1>0, <1>2, <2>1, <2>2, <2>3, <2>5 DEF AppendFails, AppendRaises, Typed, TypeOK, SpillTypeOK, Modes
<1>3. ASSUME NEW s \in Spans, Accept(s) PROVE Typed'
  <2>1. Len(NextLine) \in Nat
    BY <1>0, <1>3, ParsesFirst DEF Accept, Take
  <2>2. consumed' \in Nat
    BY <1>0, <1>3, <2>1 DEF Accept, Take, SpillTypeOK
  <2>3. taken' \in Seq(Spans)
    BY <1>0, <1>3, AppendProperties DEF Accept, TypeOK
  <2> QED BY <1>0, <1>3, <2>2, <2>3 DEF Accept, Take, Typed, TypeOK, SpillTypeOK, Modes
<1>4. ASSUME DrainStep PROVE Typed'
  <2>1. <<>> \in Seq(Byte)
    BY EmptySeq
  <2>2. SpillTypeOK'
    <3>1. CASE BeginDrain
      BY <3>1, <1>0 DEF BeginDrain, SpillTypeOK
    <3>2. CASE SkipBlank
      BY <3>2, <1>0 DEF SkipBlank, SpillTypeOK
    <3>3. CASE EndOfFile
      BY <3>3, <1>0 DEF EndOfFile, SpillTypeOK
    <3>4. CASE ParseError
      BY <3>4, <1>0 DEF ParseError, SpillTypeOK
    <3>5. CASE \E s \in Spans : Decline(s)
      BY <3>5, <1>0 DEF Decline, SpillTypeOK
    <3>6. CASE Compact
      <4>1. file' \in Seq(Byte) /\ consumed' \in Nat /\ drain' = "saving" /\ cursorFile' = cursorFile
        <5>1. CASE consumed >= Len(file)
          BY <5>1, <3>6, <1>0, <2>1 DEF Compact, SpillTypeOK
        <5>2. CASE ~(consumed >= Len(file))
          BY <5>2, <3>6, <1>0 DEF Compact, SpillTypeOK
        <5> QED BY <5>1, <5>2
      <4> QED BY <4>1, <1>0 DEF SpillTypeOK
    <3>7. CASE SaveCursor
      BY <3>7, <1>0 DEF SaveCursor, SpillTypeOK
    <3> QED BY <1>4, <3>1, <3>2, <3>3, <3>4, <3>5, <3>6, <3>7 DEF DrainStep
  <2>3. /\ up /\ up' = up /\ faults' = faults /\ appended' = appended /\ taken' = taken
        /\ torn' = torn /\ deaths' = deaths /\ behind' \in {behind, "yes", "no"}
    BY <1>4 DEF DrainStep
  <2> QED BY <1>0, <2>2, <2>3 DEF Typed, TypeOK, Modes
<1>5. ASSUME SaveFails PROVE Typed'
  <2>1. faults' \in 0..MaxFaults /\ deaths \in 0..faults'
    BY <1>0, <1>5, FaultType DEF SaveFails
  <2> QED BY <1>0, <1>5, <2>1 DEF SaveFails, SaveCursorRaises, historyVars, Typed, TypeOK, SpillTypeOK, Modes
<1>6. ASSUME Crash PROVE Typed'
  <2>1. faults' \in 0..MaxFaults /\ deaths + 1 \in 0..faults' /\ deaths + 1 > 0
    BY <1>0, <1>6, FaultType DEF Crash
  <2>2. SpillTypeOK' /\ torn' \subseteq Spans
    <3>1. CASE Die /\ UNCHANGED torn
      BY <3>1, <1>0 DEF Die, SpillTypeOK, TypeOK
    <3>2. ASSUME NEW s \in Spans, NEW k \in 1..LineLen[s], DieAppending(s, k), torn' = torn \cup {s}
          PROVE  SpillTypeOK' /\ torn' \subseteq Spans
      <4>1. k \in 0..LineLen[s]
        BY LineType
      <4>2. file' \in Seq(Byte)
        BY <3>2, <4>1, <1>0, AppendTyped DEF DieAppending
      <4> QED BY <3>2, <4>2, <1>0 DEF DieAppending, SpillTypeOK, TypeOK
    <3> QED BY <1>6, <3>1, <3>2 DEF Crash
  <2>3. up' = FALSE /\ deaths' = deaths + 1 /\ appended' = appended /\ taken' = taken
        /\ behind' \in {"no", "lost"}
    BY <1>0, <1>6 DEF Crash, TypeOK
  <2>4. deaths' # 0 /\ deaths' > 0 /\ deaths' \in 0..faults'
    BY <2>1, <2>3, <1>0 DEF TypeOK
  <2>5. Modes'
    BY <2>3, <2>4 DEF Modes
  <2>6. TypeOK'
    BY <1>0, <2>1, <2>2, <2>3, <2>4 DEF TypeOK
  <2> QED BY <2>5, <2>6 DEF Typed
<1>7. ASSUME Restart PROVE Typed'
  BY <1>0, <1>7 DEF Restart, Reopen, historyVars, Typed, TypeOK, SpillTypeOK, Modes
<1>8. ASSUME UNCHANGED vars PROVE Typed'
  BY <1>0, <1>8 DEF vars, queueVars, historyVars, spillVars, Typed, TypeOK, SpillTypeOK, Modes
<1> QED BY <1>1, <1>2, <1>3, <1>4, <1>5, <1>6, <1>7, <1>8 DEF Next

\* SpillBuffer under every client and every fault keeps its types (durable.py).
THEOREM TypeCorrect == Spec => []TypeOK
<1>1. Typed => TypeOK
  BY DEF Typed
<1> QED BY <1>1, TypedInit, TypedNext, PTL DEF Spec
-----------------------------------------------------------------------------
(* Where the lines are.  As long as no line was torn and no process died with *)
(* its cursor file behind, the file is n whole lines; the cursor in memory is *)
(* at the end of the i-th, the one on disk at the end of the c-th, and what   *)
(* lies before either was taken.  Until a process dies the last n spans       *)
(* appended are the ones in the file, and the first ones were taken.          *)

\* Every span appended was taken or has its line after the first a.
KeptFrom(n, sp, a) ==
    \A s \in Spans : Occurs(s, appended) => Occurs(s, taken) \/ \E k \in (a+1)..n : sp[k] = s

InOrder(n, sp, i) ==
    /\ i <= Len(taken) /\ Len(appended) = (Len(taken) - i) + n
    /\ \A k \in 1..n : appended[(Len(taken) - i) + k] = sp[k]
    /\ \A k \in 1..Len(taken) : taken[k] = appended[k]

Shape(n, o, sp, i, c) ==
    /\ Laid(file, LineLen, n, o, sp) /\ i \in 0..n /\ c \in 0..n
    /\ up => consumed = o[i] /\ KeptFrom(n, sp, i)
    /\ behind = "no" => cursorFile = o[c] /\ KeptFrom(n, sp, c)
    /\ deaths = 0 => InOrder(n, sp, i)

Layout == torn = {} /\ behind # "lost" => \E n, o, sp, i, c : Shape(n, o, sp, i, c)

\* What occurs in a sequence one longer.
LEMMA OccursAppend ==
  ASSUME NEW seq \in Seq(Spans), NEW s \in Spans, NEW t
  PROVE  Occurs(t, Append(seq, s)) <=> Occurs(t, seq) \/ t = s
<1>1. PICK L \in Nat : L = Len(seq) /\ DOMAIN seq = 1..L
  BY LenProperties
<1>2. PICK r \in Seq(Spans) : r = Append(seq, s)
  BY AppendProperties
<1>3. Len(r) = L + 1 /\ r[L + 1] = s /\ \A k \in 1..L : r[k] = seq[k]
  BY <1>1, <1>2, AppendProperties
<1>4. DOMAIN r = 1..(L + 1)
  BY <1>2, <1>3, LenProperties
<1>5. 1..(L + 1) = (1..L) \cup {L + 1}
  OBVIOUS
<1> QED BY <1>1, <1>2, <1>3, <1>4, <1>5 DEF Occurs

\* The append of a line, whether or not append() returns.
LEMMA LineAdded ==
  ASSUME Typed, Layout, NEW s \in Spans, file' = file \o Line(s), appended' = Append(appended, s),
         UNCHANGED <<cursorFile, consumed, up, taken, torn, deaths, behind>>
  PROVE  Layout'
<1> SUFFICES ASSUME torn = {}, behind # "lost"
             PROVE  \E n, o, sp, i, c : Shape(n, o, sp, i, c)'
  BY DEF Layout
<1>1. PICK n, o, sp, i, c : Shape(n, o, sp, i, c)
  BY DEF Layout
<1>2. Laid(file, LineLen, n, o, sp) /\ n \in Nat /\ i \in 0..n /\ c \in 0..n /\ sp \in [1..n -> Spans]
  BY <1>1, LaidType DEF Shape
<1>3. LineLen \in [Spans -> Nat \ {0, 1}] /\ file \in Seq(Byte) /\ Line(s) \in Seq(Byte)
      /\ appended \in Seq(Spans) /\ taken \in Seq(Spans)
  BY LineLenAssumption, LineType DEF Typed, TypeOK, SpillTypeOK
<1>4. Line(s) = LineOf(LineLen, s)
  BY DEF Line, LineOf
<1>5. PICK p, q : /\ Laid(file', LineLen, n + 1, p, q)
                  /\ \A k \in 0..n : p[k] = o[k]
                  /\ \A k \in 1..n : q[k] = sp[k]
                  /\ q[n+1] = s
  <2>1. LineOf(LineLen, s) \in Seq(Byte)
    BY <1>3, <1>4
  <2>2. \E p, q : Longer(file \o LineOf(LineLen, s), LineLen, n, o, sp, s, p, q)
    BY <2>1, <1>2, <1>3, LaidAppend
  <2> QED BY <2>2, <1>4 DEF Longer
<1>6. \A a \in 0..n : KeptFrom(n, sp, a) => KeptFrom(n + 1, q, a)'
  <2> SUFFICES ASSUME NEW a \in 0..n, KeptFrom(n, sp, a), NEW t \in Spans, Occurs(t, appended')
               PROVE  Occurs(t, taken) \/ \E k \in (a+1)..(n+1) : q[k] = t
    BY DEF KeptFrom
  <2>1. Occurs(t, appended) \/ t = s
    BY <1>3, OccursAppend
  <2>2. CASE t = s
    <3>1. n + 1 \in (a+1)..(n+1)
      BY <1>2
    <3> QED BY <2>2, <3>1, <1>5
  <2>3. CASE Occurs(t, appended)
    <3>1. Occurs(t, taken) \/ \E k \in (a+1)..n : sp[k] = t
      BY <2>3 DEF KeptFrom
    <3>2. \A k \in (a+1)..n : k \in 1..n /\ k \in (a+1)..(n+1)
      BY <1>2
    <3> QED BY <3>1, <3>2, <1>5
  <2> QED BY <2>1, <2>2, <2>3
<1>7. InOrder(n, sp, i) => InOrder(n + 1, q, i)'
  <2> SUFFICES ASSUME InOrder(n, sp, i) PROVE InOrder(n + 1, q, i)'
    OBVIOUS
  <2>0. Len(taken) \in Nat /\ Len(appended) \in Nat
    BY <1>3, LenProperties
  <2>1. PICK T \in Nat, A \in Nat, r \in {appended'} : T = Len(taken) /\ A = Len(appended)
    BY <2>0
  <2>2. PICK d \in Nat : d = T - i /\ A = d + n /\ i <= T
    <3>1. i <= T /\ A = (T - i) + n
      BY <2>1 DEF InOrder
    <3>2. T - i \in Nat
      BY <3>1, <1>2
    <3> QED BY <3>1, <3>2
  <2>3. Len(r) = A + 1 /\ r[A + 1] = s /\ \A k \in 1..A : r[k] = appended[k]
    BY <2>1, <1>3, AppendProperties
  <2>4. \A k \in 1..n : appended[d + k] = sp[k]
    BY <2>1, <2>2 DEF InOrder
  <2>5. \A k \in 1..(n+1) : r[d + k] = q[k]
    <3> TAKE k \in 1..(n+1)
    <3>1. CASE k = n + 1
      <4>1. d + k = A + 1
        BY <3>1, <2>2, <1>2
      <4> QED BY <4>1, <3>1, <2>3, <1>5
    <3>2. CASE k # n + 1
      <4>1. k \in 1..n /\ d + k \in 1..A
        BY <3>2, <2>2, <1>2
      <4> QED BY <4>1, <2>3, <2>4, <1>5
    <3> QED BY <3>1, <3>2
  <2>6. \A k \in 1..T : taken[k] = r[k]
    <3> TAKE k \in 1..T
    <3>1. k \in 1..A
      BY <2>2, <1>2
    <3> QED BY <3>1, <2>1, <2>3 DEF InOrder
  <2>7. Len(r) = d + (n + 1)
    BY <2>2, <2>3, <1>2
  <2> QED BY <2>1, <2>2, <2>5, <2>6, <2>7 DEF InOrder
<1>8. i \in 0..(n+1) /\ c \in 0..(n+1)
  BY <1>2
<1>9. Shape(n + 1, p, q, i, c)'
  BY <1>1, <1>2, <1>5, <1>6, <1>7, <1>8 DEF Shape
<1> QED BY <1>9
\* accept took the next line.
LEMMA LineTaken ==
  ASSUME Typed, Layout, NEW s \in Spans, Accept(s)
  PROVE  Layout'
<1> SUFFICES ASSUME torn = {}, behind # "lost"
             PROVE  \E n, o, sp, i, c : Shape(n, o, sp, i, c)'
  BY DEF Layout, Accept
<1>1. PICK n, o, sp, i, c : Shape(n, o, sp, i, c)
  BY DEF Layout
<1>2. Laid(file, LineLen, n, o, sp) /\ n \in Nat /\ i \in 0..n /\ c \in 0..n /\ sp \in [1..n -> Spans]
      /\ o[n] = Len(file)
  BY <1>1, LaidType DEF Shape
<1>3. /\ up /\ Parses(NextLine, s) /\ consumed' = consumed + Len(NextLine) /\ taken' = Append(taken, s)
      /\ file' = file /\ cursorFile' = cursorFile /\ drain' = drain
      /\ up' = up /\ appended' = appended /\ torn' = torn /\ deaths' = deaths /\ behind' = behind
  BY DEF Accept, Take
<1>4. SpillTypeOK /\ appended \in Seq(Spans) /\ taken \in Seq(Spans)
  BY DEF Typed, TypeOK
<1>5. consumed = o[i]
  BY <1>1, <1>3 DEF Shape
<1>6. i \in 0..(n-1)
  <2>1. consumed + 1 <= Len(file) /\ consumed \in Nat /\ Len(file) \in Nat
    BY <1>3, <1>4, ParsesFirst, LenProperties DEF SpillTypeOK
  <2>2. i # n
    BY <2>1, <1>2, <1>5
  <2> QED BY <2>2, <1>2
<1>7. s = sp[i+1] /\ NextLine = Line(s) /\ i + 1 \in 0..n /\ i + 1 \in 1..n
  <2>1. Reads(sp[i+1])
    BY <1>2, <1>4, <1>5, <1>6, NextLineIs
  <2> QED BY <2>1, <1>2, <1>3, <1>6 DEF Reads
<1>8. consumed' = o[i+1]
  <2>1. o[i+1] = o[i] + LineLen[sp[i+1]]
    <3>1. LiesAt(file, LineLen, n, o, sp, i)
      BY <1>2, <1>6, LineLenAssumption, LaidLine
    <3> QED BY <3>1 DEF LiesAt
  <2> QED BY <2>1, <1>3, <1>5, <1>7, LineType
<1>9. KeptFrom(n, sp, i) => KeptFrom(n, sp, i + 1)'
  <2> SUFFICES ASSUME KeptFrom(n, sp, i), NEW t \in Spans, Occurs(t, appended)
               PROVE  Occurs(t, taken') \/ \E k \in ((i+1)+1)..n : sp[k] = t
    BY <1>3 DEF KeptFrom
  <2>1. Occurs(t, taken') <=> Occurs(t, taken) \/ t = s
    BY <1>3, <1>4, OccursAppend
  <2>2. Occurs(t, taken) \/ \E k \in (i+1)..n : sp[k] = t
    BY DEF KeptFrom
  <2>3. \A k \in (i+1)..n : k = i + 1 \/ k \in ((i+1)+1)..n
    BY <1>2
  <2> QED BY <2>1, <2>2, <2>3, <1>7
<1>10. KeptFrom(n, sp, c) => KeptFrom(n, sp, c)'
  <2> SUFFICES ASSUME KeptFrom(n, sp, c), NEW t \in Spans, Occurs(t, appended)
               PROVE  Occurs(t, taken') \/ \E k \in (c+1)..n : sp[k] = t
    BY <1>3 DEF KeptFrom
  <2>1. Occurs(t, taken') <=> Occurs(t, taken) \/ t = s
    BY <1>3, <1>4, OccursAppend
  <2> QED BY <2>1 DEF KeptFrom
<1>11. InOrder(n, sp, i) => InOrder(n, sp, i + 1)'
  <2> SUFFICES ASSUME InOrder(n, sp, i) PROVE InOrder(n, sp, i + 1)'
    OBVIOUS
  <2>0. Len(taken) \in Nat /\ Len(appended) \in Nat
    BY <1>4, LenProperties
  <2>1. PICK T \in Nat, A \in Nat, r \in {taken'} : T = Len(taken) /\ A = Len(appended)
    BY <2>0
  <2>2. PICK d \in Nat : d = T - i /\ A = d + n /\ i <= T
    <3>1. i <= T /\ A = (T - i) + n
      BY <2>1 DEF InOrder
    <3>2. T - i \in Nat
      BY <3>1, <1>2
    <3> QED BY <3>1, <3>2
  <2>3. Len(r) = T + 1 /\ r[T + 1] = s /\ \A k \in 1..T : r[k] = taken[k]
    BY <2>1, <1>3, <1>4, AppendProperties
  <2>4. \A k \in 1..n : appended[d + k] = sp[k]
    BY <2>1, <2>2 DEF InOrder
  <2>5. \A k \in 1..T : taken[k] = appended[k]
    BY <2>1 DEF InOrder
  <2>6. appended[T + 1] = s
    <3>1. d + (i + 1) = T + 1
      BY <2>2, <1>2
    <3>2. appended[d + (i + 1)] = sp[i + 1]
      BY <2>4, <1>7
    <3> QED BY <3>1, <3>2, <1>7
  <2>7. \A k \in 1..(T+1) : r[k] = appended[k]
    <3>1. \A k \in 1..(T+1) : k \in 1..T \/ k = T + 1
      OBVIOUS
    <3> QED BY <3>1, <2>3, <2>5, <2>6
  <2>8. i + 1 <= T + 1 /\ (T + 1) - (i + 1) = d
    BY <2>2, <1>2
  <2>9. appended' = appended /\ taken' = r /\ Len(appended) = A
    BY <2>1, <1>3
  <2> QED BY <2>2, <2>3, <2>4, <2>7, <2>8, <2>9 DEF InOrder
<1>12. Shape(n, o, sp, i + 1, c)'
  BY <1>1, <1>2, <1>3, <1>7, <1>8, <1>9, <1>10, <1>11 DEF Shape
<1> QED BY <1>12

\* The file is truncated when its last line was taken.
LEMMA FileCompacted ==
  ASSUME Typed, Layout, up, Compact,
         behind' = IF behind = "no" /\ file' = <<>> /\ cursorFile # 0 THEN "yes" ELSE behind,
         UNCHANGED <<up, faults, appended, taken, torn, deaths>>
  PROVE  Layout'
<1> SUFFICES ASSUME torn = {}, behind # "lost"
             PROVE  \E n, o, sp, i, c : Shape(n, o, sp, i, c)'
  BY DEF Layout
<1>1. PICK n, o, sp, i, c : Shape(n, o, sp, i, c)
  BY DEF Layout
<1>2. Laid(file, LineLen, n, o, sp) /\ n \in Nat /\ i \in 0..n /\ c \in 0..n /\ o[n] = Len(file)
  BY <1>1, LaidType DEF Shape
<1>3. cursorFile' = cursorFile
  BY DEF Compact
<1>4. CASE consumed >= Len(file)
  <2>1. file' = <<>> /\ consumed' = 0
    BY <1>4 DEF Compact
  <2>2. i = n
    <3>1. i < n => o[i] < o[n]
      BY <1>2, LineLenAssumption, LaidOrder
    <3>2. o[i] \in Nat /\ o[n] \in Nat
      BY <1>2, LaidType
    <3>3. o[i] >= o[n]
      BY <1>1, <1>2, <1>4 DEF Shape
    <3>4. ~(i < n)
      BY <3>1, <3>2, <3>3
    <3> QED BY <3>4, <1>2
  <2>3. PICK p, q : Laid(<<>>, LineLen, 0, p, q) /\ p[0] = 0
    BY LineLenAssumption, LaidEmpty
  <2>4. KeptFrom(0, q, 0)'
    <3>1. KeptFrom(n, sp, n)
      BY <1>1, <2>2 DEF Shape
    <3>2. \A k \in (n+1)..n : FALSE
      BY <1>2
    <3>3. \A s \in Spans : Occurs(s, appended) => Occurs(s, taken)
      BY <3>1, <3>2 DEF KeptFrom
    <3> QED BY <3>3 DEF KeptFrom
  <2>5. behind' = "no" => cursorFile = 0
    BY <2>1
  <2>6. deaths = 0 => InOrder(0, q, 0)'
    <3> SUFFICES ASSUME deaths = 0 PROVE InOrder(0, q, 0)'
      OBVIOUS
    <3>1. Len(taken) \in Nat /\ Len(appended) \in Nat
      BY LenProperties DEF Typed, TypeOK
    <3>2. InOrder(n, sp, n)
      BY <1>1, <2>2 DEF Shape
    <3>3. PICK T \in Nat, A \in Nat : T = Len(taken) /\ A = Len(appended)
      BY <3>1
    <3>4. n <= T /\ A = (T - n) + n
      BY <3>2, <3>3 DEF InOrder
    <3>5. 0 <= T /\ A = (T - 0) + 0 /\ \A k \in 1..0 : FALSE
      BY <3>4, <1>2
    <3>6. \A k \in 1..T : taken[k] = appended[k]
      BY <3>2, <3>3 DEF InOrder
    <3> QED BY <3>3, <3>5, <3>6 DEF InOrder
  <2>7. 0 \in 0..0
    OBVIOUS
  <2>8. Shape(0, p, q, 0, 0)'
    BY <2>1, <2>3, <2>4, <2>5, <2>6, <2>7, <1>3 DEF Shape
  <2> QED BY <2>8
<1>5. CASE ~(consumed >= Len(file))
  <2>1. file' = file /\ consumed' = consumed
    BY <1>5 DEF Compact
  <2>2. behind' = "no" => behind = "no"
    OBVIOUS
  <2>3. Shape(n, o, sp, i, c)'
    BY <2>1, <2>2, <1>1, <1>3 DEF Shape, KeptFrom, InOrder
  <2> QED BY <2>3
<1> QED BY <1>4, <1>5
\* An empty file is no lines.
LEMMA LayoutInit == Init => Layout
<1> SUFFICES ASSUME Init PROVE \E n, o, sp, i, c : Shape(n, o, sp, i, c)
  BY DEF Layout
<1>1. PICK o, sp : Laid(<<>>, LineLen, 0, o, sp) /\ o[0] = 0
  BY LineLenAssumption, LaidEmpty
<1>2. /\ file = <<>> /\ consumed = 0 /\ cursorFile = 0 /\ appended = <<>> /\ taken = <<>>
      /\ Len(<<>>) = 0 /\ 0 \in 0..0
  BY DEF Init, SpillInit
<1>3. \A s \in Spans : ~Occurs(s, <<>>)
  BY DEF Occurs
<1>4. KeptFrom(0, sp, 0)
  BY <1>2, <1>3 DEF KeptFrom
<1>5. InOrder(0, sp, 0)
  <2>1. \A k \in 1..0 : FALSE
    OBVIOUS
  <2> QED BY <1>2, <2>1 DEF InOrder
<1>6. Shape(0, o, sp, 0, 0)
  BY <1>1, <1>2, <1>4, <1>5 DEF Shape
<1> QED BY <1>6

\* What the layout depends on.
LEMMA LayoutSame ==
  ASSUME Layout, UNCHANGED <<file, cursorFile, consumed, up, appended, taken, torn, deaths, behind>>
  PROVE  Layout'
BY DEF Layout, Shape, KeptFrom, InOrder

\* drain() never meets a blank or a corrupt line.
LEMMA OnlyLines ==
  ASSUME Typed, Layout, torn = {}, behind # "lost", up
  PROVE  ~SkipBlank /\ ~ParseError
<1>1. PICK n, o, sp, i, c : Shape(n, o, sp, i, c)
  BY DEF Layout
<1>2. Laid(file, LineLen, n, o, sp) /\ n \in Nat /\ i \in 0..n /\ o[n] = Len(file) /\ consumed = o[i]
  BY <1>1, LaidType DEF Shape
<1>3. SpillTypeOK
  BY DEF Typed, TypeOK
<1>4. CASE i = n
  <2>1. consumed >= Len(file)
    BY <1>2, <1>3, <1>4, LenProperties DEF SpillTypeOK
  <2> QED BY <2>1, <1>3, NothingLeft DEF SkipBlank, ParseError
<1>5. CASE i # n
  <2>1. i \in 0..(n-1)
    BY <1>2, <1>5
  <2>2. Reads(sp[i+1])
    BY <1>2, <1>3, <2>1, NextLineIs
  <2> QED BY <2>2 DEF Reads, SkipBlank, ParseError
<1> QED BY <1>4, <1>5

\* Every step keeps the layout.
LEMMA LayoutNext == Typed /\ Layout /\ [Next]_vars => Layout'
<1> SUFFICES ASSUME Typed, Layout, [Next]_vars PROVE Layout'
  OBVIOUS
<1>1. ASSUME NEW s \in Spans, AppendSpan(s) PROVE Layout'
  BY <1>1, LineAdded DEF AppendSpan, AppendLine
<1>2. ASSUME NEW s \in Spans, AppendFails(s) PROVE Layout'
  <2>0. file \in Seq(Byte) /\ UNCHANGED <<cursorFile, consumed, drain, up, taken, deaths, behind>>
    BY <1>2 DEF AppendFails, AppendRaises, Typed, TypeOK, SpillTypeOK
  <2>1. CASE AppendRaises(s, 0) /\ UNCHANGED <<appended, torn>>
    <3>1. 0 \in 0..LineLen[s]
      BY LineType
    <3>2. file' = file
      BY <2>0, <2>1, <3>1, PrefixType, ConcatEmptySeq DEF AppendRaises
    <3> QED BY <2>0, <2>1, <3>2, LayoutSame
  <2>2. CASE AppendRaises(s, LineLen[s]) /\ appended' = Append(appended, s) /\ torn' = torn
    <3>1. LineLen[s] \in 0..LineLen[s]
      BY LineType
    <3>2. file' = file \o Line(s)
      BY <2>2, <3>1, PrefixType DEF AppendRaises
    <3> QED BY <2>0, <2>2, <3>2, LineAdded
  <2>3. CASE torn' = torn \cup {s}
    BY <2>3 DEF Layout
  <2> QED BY <1>2, <2>1, <2>2, <2>3 DEF AppendFails
<1>3. ASSUME NEW s \in Spans, Accept(s) PROVE Layout'
  BY <1>3, LineTaken
<1>4. ASSUME DrainStep PROVE Layout'
  <2>0. up /\ UNCHANGED <<up, faults, appended, taken, torn, deaths>>
    BY <1>4 DEF DrainStep
  <2>1. CASE BeginDrain \/ EndOfFile \/ (\E s \in Spans : Decline(s))
    <3>1. UNCHANGED <<file, cursorFile, consumed>>
      BY <2>1 DEF BeginDrain, EndOfFile, Decline
    <3>2. behind' = behind \/ Compact \/ SaveCursor
      BY <1>4 DEF DrainStep
    <3>3. ~Compact /\ ~SaveCursor
      BY <2>1 DEF BeginDrain, EndOfFile, Decline, Compact, SaveCursor
    <3> QED BY <2>0, <3>1, <3>2, <3>3, LayoutSame
  <2>2. CASE SkipBlank \/ ParseError
    <3>1. torn # {} \/ behind = "lost"
      BY <2>0, <2>2, OnlyLines
    <3>2. behind' = behind
      BY <1>4, <2>2 DEF DrainStep, SkipBlank, ParseError, Compact, SaveCursor
    <3> QED BY <2>0, <3>1, <3>2 DEF Layout
  <2>3. CASE Compact
    <3>1. behind' = IF behind = "no" /\ file' = <<>> /\ cursorFile # 0 THEN "yes" ELSE behind
      BY <1>4, <2>3 DEF DrainStep, BeginDrain, SkipBlank, EndOfFile, ParseError, Decline, Compact, SaveCursor
    <3> QED BY <2>0, <2>3, <3>1, FileCompacted
  <2>4. CASE SaveCursor
    <3>1. behind' = IF behind = "yes" THEN "no" ELSE behind
      BY <1>4, <2>4 DEF DrainStep, BeginDrain, SkipBlank, EndOfFile, ParseError, Decline, Compact, SaveCursor
    <3>2. file' = file /\ consumed' = consumed /\ cursorFile' = consumed
      BY <2>4 DEF SaveCursor
    <3> SUFFICES ASSUME torn = {}, behind # "lost"
                 PROVE  \E n, o, sp, i, c : Shape(n, o, sp, i, c)'
      BY <2>0, <3>1 DEF Layout
    <3>3. PICK n, o, sp, i, c : Shape(n, o, sp, i, c)
      BY DEF Layout
    <3>4. Shape(n, o, sp, i, i)'
      BY <2>0, <3>2, <3>3 DEF Shape, KeptFrom, InOrder
    <3> QED BY <3>4
  <2> QED BY <1>4, <2>1, <2>2, <2>3, <2>4 DEF DrainStep
<1>5. ASSUME SaveFails PROVE Layout'
  BY <1>5, LayoutSame DEF SaveFails, SaveCursorRaises, historyVars
<1>6. ASSUME Crash PROVE Layout'
  <2>0. up' = FALSE /\ deaths' = deaths + 1 /\ appended' = appended /\ taken' = taken
        /\ behind' = IF behind = "yes" THEN "lost" ELSE behind
    BY <1>6 DEF Crash
  <2>1. CASE Die /\ torn' = torn
    <3> SUFFICES ASSUME torn = {}, behind = "no"
                 PROVE  \E n, o, sp, i, c : Shape(n, o, sp, i, c)'
      BY <2>0, <2>1 DEF Layout, Typed, TypeOK
    <3>1. PICK n, o, sp, i, c : Shape(n, o, sp, i, c)
      BY DEF Layout
    <3>2. file' = file /\ cursorFile' = cursorFile /\ behind' = "no"
      BY <2>0, <2>1 DEF Die
    <3>3. deaths' # 0
      BY <2>0 DEF Typed, TypeOK
    <3>4. Shape(n, o, sp, i, c)'
      BY <2>0, <3>1, <3>2, <3>3 DEF Shape, KeptFrom
    <3> QED BY <3>4
  <2>2. CASE \E s \in Spans : torn' = torn \cup {s}
    BY <2>2 DEF Layout
  <2> QED BY <1>6, <2>1, <2>2 DEF Crash
<1>7. ASSUME Restart PROVE Layout'
  <2>0. /\ ~up /\ up' = TRUE /\ consumed' = cursorFile /\ file' = file /\ cursorFile' = cursorFile
        /\ appended' = appended /\ taken' = taken /\ torn' = torn /\ deaths' = deaths /\ behind' = behind
    BY <1>7 DEF Restart, Reopen, historyVars
  <2>1. deaths # 0 /\ behind \in {"no", "lost"}
    BY <2>0 DEF Typed, Modes, TypeOK
  <2> SUFFICES ASSUME torn = {}, behind = "no"
               PROVE  \E n, o, sp, i, c : Shape(n, o, sp, i, c)'
    BY <2>0, <2>1 DEF Layout
  <2>2. PICK n, o, sp, i, c : Shape(n, o, sp, i, c)
    BY DEF Layout
  <2>3. Shape(n, o, sp, c, c)'
    BY <2>0, <2>1, <2>2 DEF Shape, KeptFrom
  <2> QED BY <2>3
<1>8. ASSUME UNCHANGED vars PROVE Layout'
  BY <1>8, LayoutSame DEF vars, queueVars, historyVars, spillVars
<1> QED BY <1>1, <1>2, <1>3, <1>4, <1>5, <1>6, <1>7, <1>8 DEF Next
\* What pending() answers is right until a process dies or a line is torn: it is 0
\* exactly when everything appended has been taken (durable.py, pending).
THEOREM PendingExact == Spec => []PendingIsExact
<1>1. Typed /\ Layout => PendingIsExact
  <2> SUFFICES ASSUME Typed, Layout, Clean PROVE HasPending <=> Len(taken) < Len(appended)
    BY DEF PendingIsExact
  <2>1. torn = {} /\ deaths = 0 /\ behind # "lost" /\ up
    BY DEF Clean, Typed, Modes, TypeOK
  <2>2. PICK n, o, sp, i, c : Shape(n, o, sp, i, c)
    BY <2>1 DEF Layout
  <2>3. Laid(file, LineLen, n, o, sp) /\ n \in Nat /\ i \in 0..n /\ o[n] = Len(file) /\ consumed = o[i]
    BY <2>1, <2>2, LaidType DEF Shape
  <2>4. SpillTypeOK /\ Len(taken) \in Nat
    BY LenProperties DEF Typed, TypeOK
  <2>5. Len(appended) = (Len(taken) - i) + n
    BY <2>1, <2>2 DEF Shape, InOrder
  <2>6. CASE i = n
    <3>1. consumed >= Len(file)
      BY <2>3, <2>4, <2>6, LenProperties DEF SpillTypeOK
    <3>2. ~HasPending
      BY <2>4, <3>1, NothingLeft
    <3> QED BY <2>3, <2>4, <2>5, <2>6, <3>2
  <2>7. CASE i # n
    <3>1. i \in 0..(n-1)
      BY <2>3, <2>7
    <3>2. Reads(sp[i+1])
      BY <2>3, <2>4, <3>1, NextLineIs
    <3>3. Len(taken) < Len(appended)
      BY <2>3, <2>4, <2>5, <2>7
    <3> QED BY <3>2, <3>3 DEF Reads
  <2> QED BY <2>6, <2>7
<1>2. Init => Typed /\ Layout
  BY TypedInit, LayoutInit
<1>3. (Typed /\ Layout) /\ [Next]_vars => (Typed /\ Layout)'
  BY TypedNext, LayoutNext
<1> QED BY <1>1, <1>2, <1>3, PTL DEF Spec
-----------------------------------------------------------------------------
(* The buffer is a FIFO until a process dies or a line is torn.            *)

\* What lies behind the first T elements of a sequence.
LEMMA RestOf ==
  ASSUME NEW S, NEW a \in Seq(S), NEW T \in Nat, NEW A \in Nat, A = Len(a), T <= A,
         NEW w, w = SubSeq(a, T + 1, A)
  PROVE  w \in Seq(S) /\ Len(w) = A - T /\ \A k \in 1..(A - T) : w[k] = a[T + k]
<1>1. T + 1 \in Int /\ A \in Int
  OBVIOUS
<1>2. \A k \in (T + 1)..A : a[k] \in S
  <2> TAKE k \in (T + 1)..A
  <2>1. k \in 1..Len(a)
    OBVIOUS
  <2> QED BY <2>1, ElementOfSeq
<1>3. /\ w \in Seq(S) /\ Len(w) = (IF T + 1 <= A THEN A - (T + 1) + 1 ELSE 0)
      /\ \A k \in 1..(A - (T + 1) + 1) : w[k] = a[T + 1 + k - 1]
  BY <1>1, <1>2, SubSeqProperties
<1>4. Len(w) = A - T
  BY <1>3
<1>5. \A k \in 1..(A - T) : k \in 1..(A - (T + 1) + 1) /\ T + 1 + k - 1 = T + k
  OBVIOUS
<1> QED BY <1>3, <1>4, <1>5

\* What waits after a put ...
LEMMA RestAfterAppend ==
  ASSUME NEW a \in Seq(Spans), NEW s \in Spans, NEW T \in Nat, T <= Len(a)
  PROVE  SubSeq(Append(a, s), T + 1, Len(Append(a, s))) = Append(SubSeq(a, T + 1, Len(a)), s)
<1>1. PICK A \in Nat : A = Len(a) /\ T <= A
  BY LenProperties
<1>9. PICK d \in Nat : d = A - T
  <2>1. A - T \in Nat
    BY <1>1
  <2> QED BY <2>1
<1>2. PICK b \in Seq(Spans) : b = Append(a, s)
  BY AppendProperties
<1>3. Len(b) = A + 1 /\ b[A + 1] = s /\ \A k \in 1..A : b[k] = a[k]
  BY <1>1, <1>2, AppendProperties
<1>4. PICK w, v : w = SubSeq(a, T + 1, A) /\ v = SubSeq(b, T + 1, A + 1)
  OBVIOUS
<1>5. w \in Seq(Spans) /\ Len(w) = A - T /\ \A k \in 1..(A - T) : w[k] = a[T + k]
  <2>1. w = SubSeq(a, T + 1, A)
    BY <1>4
  <2> QED BY <2>1, <1>1, RestOf
<1>6. v \in Seq(Spans) /\ Len(v) = (A + 1) - T /\ \A k \in 1..((A + 1) - T) : v[k] = b[T + k]
  <2>1. A + 1 \in Nat /\ A + 1 = Len(b) /\ T <= A + 1 /\ v = SubSeq(b, T + 1, A + 1)
    BY <1>1, <1>3, <1>4
  <2> QED BY <2>1, RestOf
<1>7. PICK u \in Seq(Spans) : u = Append(w, s)
  BY <1>5, AppendProperties
<1>8. Len(u) = d + 1 /\ u[d + 1] = s /\ \A k \in 1..d : u[k] = w[k]
  <2>1. w \in Seq(Spans) /\ Len(w) = d
    BY <1>5, <1>9
  <2> QED BY <2>1, <1>7, AppendProperties
<1>10. Len(v) = d + 1 /\ Len(u) = d + 1
  BY <1>6, <1>8, <1>9
<1>11. \A k \in 1..(d + 1) : v[k] = u[k]
  <2> TAKE k \in 1..(d + 1)
  <2>1. v[k] = b[T + k]
    <3>1. k \in 1..((A + 1) - T)
      BY <1>9
    <3> QED BY <3>1, <1>6
  <2>2. CASE k = d + 1
    <3>1. T + k = A + 1
      BY <2>2, <1>9
    <3>2. u[k] = s
      BY <2>2, <1>8
    <3> QED BY <3>1, <3>2, <2>1, <1>3
  <2>3. CASE k # d + 1
    <3>1. k \in 1..d /\ k \in 1..(A - T) /\ T + k \in 1..A
      BY <2>3, <1>9
    <3> QED BY <3>1, <2>1, <1>3, <1>5, <1>8
  <2> QED BY <2>2, <2>3
<1>12. v = u
  BY <1>6, <1>7, <1>10, <1>11, SeqEqual
<1> QED BY <1>1, <1>2, <1>3, <1>4, <1>7, <1>12

\* ... and what waits after a get.
LEMMA RestAfterGet ==
  ASSUME NEW a \in Seq(Spans), NEW T \in Nat, T < Len(a)
  PROVE  /\ SubSeq(a, T + 1, Len(a)) # <<>>
         /\ Head(SubSeq(a, T + 1, Len(a))) = a[T + 1]
         /\ Tail(SubSeq(a, T + 1, Len(a))) = SubSeq(a, (T + 1) + 1, Len(a))
<1>1. PICK A \in Nat : A = Len(a)
  BY LenProperties
<1>2. T + 1 \in 1..Len(a) /\ Len(a) \in (T + 1)..Len(a)
  BY <1>1
<1>3. PICK w : w = SubSeq(a, T + 1, A)
  OBVIOUS
<1>4. Len(w) = A - T
  <2>1. T <= A
    BY <1>1
  <2> QED BY <2>1, <1>1, <1>3, RestOf
<1>5. w # <<>>
  <2>1. Len(w) # 0
    BY <1>1, <1>4
  <2> QED BY <2>1
<1> QED BY <1>1, <1>2, <1>3, <1>5, HeadTailOfSubSeq

\* The spans taken are the first ones appended.
Prefix == Clean => /\ Len(taken) <= Len(appended)
                   /\ \A k \in 1..Len(taken) : taken[k] = appended[k]

\* The layout says so.
LEMMA PrefixHolds == Typed /\ Layout => Prefix
<1> SUFFICES ASSUME Typed, Layout, Clean
             PROVE  /\ Len(taken) <= Len(appended)
                    /\ \A k \in 1..Len(taken) : taken[k] = appended[k]
  BY DEF Prefix
<1>1. PICK n, o, sp, i, c : Shape(n, o, sp, i, c)
  BY DEF Clean, Typed, Modes, TypeOK, Layout
<1>2. InOrder(n, sp, i) /\ n \in Nat /\ i \in 0..n
  BY <1>1, LaidType DEF Shape, Clean
<1>3. PICK T \in Nat, A \in Nat : T = Len(taken) /\ A = Len(appended)
  BY LenProperties DEF Typed, TypeOK
<1>4. i <= T /\ A = (T - i) + n
  BY <1>2, <1>3 DEF InOrder
<1>5. T <= A
  BY <1>2, <1>4
<1> QED BY <1>2, <1>3, <1>5 DEF InOrder

\* An append is a put, an accept a get, and every other step a stutter.
LEMMA FifoStep ==
  Typed /\ Prefix /\ Prefix' /\ [Next]_vars => [Clean' => Buffered!Next]_<<appended, taken>>
<1> SUFFICES ASSUME Typed, Prefix, Prefix', [Next]_vars, Clean', ~UNCHANGED <<appended, taken>>
             PROVE  Buffered!Next
  OBVIOUS
<1>1. appended \in Seq(Spans) /\ taken \in Seq(Spans)
  BY DEF Typed, TypeOK
<1>2. PICK T \in Nat, A \in Nat : T = Len(taken) /\ A = Len(appended)
  BY <1>1, LenProperties
<1>3. ASSUME NEW s \in Spans, AppendSpan(s) \/ AppendFails(s) PROVE Buffered!Next
  <2>1. appended' = Append(appended, s) /\ taken' = taken /\ deaths' = deaths /\ torn \subseteq torn'
    BY <1>3 DEF AppendSpan, AppendFails
  <2>2. Clean
    BY <2>1 DEF Clean
  <2>3. T <= Len(appended)
    BY <2>2, <1>2 DEF Prefix
  <2>4. SubSeq(appended', Len(taken') + 1, Len(appended')) = Append(SubSeq(appended, Len(taken) + 1, Len(appended)), s)
    BY <2>1, <2>3, <1>1, <1>2, RestAfterAppend
  <2>5. Buffered!Put(s)
    BY <2>1, <2>4 DEF Buffered!Put
  <2> QED BY <2>5 DEF Buffered!Next
<1>4. ASSUME NEW s \in Spans, Accept(s) PROVE Buffered!Next
  <2>1. taken' = Append(taken, s) /\ appended' = appended
    BY <1>4 DEF Accept
  <2>2. Len(taken') = T + 1 /\ taken'[T + 1] = s
    BY <2>1, <1>1, <1>2, AppendProperties
  <2>3. T + 1 <= A /\ appended[T + 1] = s
    <3>1. T + 1 \in 1..(T + 1)
      OBVIOUS
    <3> QED BY <3>1, <2>1, <2>2, <1>2 DEF Prefix
  <2>4. T < Len(appended)
    BY <2>3, <1>2
  <2>5. /\ SubSeq(appended, T + 1, Len(appended)) # <<>>
        /\ Head(SubSeq(appended, T + 1, Len(appended))) = s
        /\ Tail(SubSeq(appended, T + 1, Len(appended))) = SubSeq(appended, (T + 1) + 1, Len(appended))
    BY <2>3, <2>4, <1>1, RestAfterGet
  <2>6. Buffered!Get
    BY <2>1, <2>2, <2>5, <1>2 DEF Buffered!Get
  <2> QED BY <2>6 DEF Buffered!Next
<1>5. CASE DrainStep \/ SaveFails \/ Crash \/ Restart \/ UNCHANGED vars
  BY <1>5 DEF DrainStep, SaveFails, Crash, Restart, historyVars, queueVars, vars
<1> QED BY <1>3, <1>4, <1>5 DEF Next

\* The file, the cursor, the compaction and the lock together are a FIFO: they hand
\* out each appended span once and in order, whatever accept declines and whichever
\* writes raise, until a process dies or a line is torn (durable.py:66-80).
THEOREM IsFifo == Spec => FifoWhileClean
<1>1. Init => Buffered!Init
  <2> SUFFICES ASSUME Init PROVE Buffered!Init
    OBVIOUS
  <2>1. appended = <<>> /\ taken = <<>> /\ Len(<<>>) = 0
    BY DEF Init
  <2>2. SubSeq(<<>>, 0 + 1, 0) = <<>>
    BY SubSeqEmpty
  <2> QED BY <2>1, <2>2 DEF Buffered!Init
<1>2. Init => Typed /\ Layout
  BY TypedInit, LayoutInit
<1>3. (Typed /\ Layout) /\ [Next]_vars => (Typed /\ Layout)'
  BY TypedNext, LayoutNext
<1>4. Spec => [](Typed /\ Layout)
  BY <1>2, <1>3, PTL DEF Spec
<1>5. Typed /\ Layout => Typed /\ Prefix
  BY PrefixHolds
<1> QED BY <1>1, <1>4, <1>5, FifoStep, PTL DEF Spec, FifoWhileClean
-----------------------------------------------------------------------------
(* How often a span is handed out.  No byte is in the file twice and no byte *)
(* of a new span is; a span whose line can still be read was taken at most   *)
(* once by each process that died, and no span more than once more.          *)

Times(s, seq) == Cardinality({k \in DOMAIN seq : seq[k] = s})
Count(s) == Times(s, taken)

Unique == \A p, q \in 1..Len(file) : file[p] = file[q] => p = q

Fresh == \A s \in Spans : New(s) => /\ \A p \in 1..Len(file) : file[p][1] # s
                                    /\ Count(s) = 0

\* The line of s can still be read.
Readable(s) == \E p \in (consumed + 1)..Len(file) : file[p] = <<s, 1>>

Counts == \A s \in Spans : /\ Count(s) \in Nat /\ Count(s) <= 1 + deaths
                           /\ Readable(s) \/ ~up => Count(s) <= deaths

Handed == Unique /\ Fresh /\ Counts

\* Appending an element to a sequence makes it occur once more.
LEMMA CountAppend ==
  ASSUME NEW a \in Seq(Spans), NEW s \in Spans, NEW t
  PROVE  Times(t, a) \in Nat /\ Times(t, Append(a, s)) = Times(t, a) + (IF t = s THEN 1 ELSE 0)
<1>0. PICK b : b = Append(a, s)
  OBVIOUS
<1>1. PICK A \in Nat : A = Len(a) /\ DOMAIN a = 1..A
  BY LenProperties
<1>2. b \in Seq(Spans) /\ Len(b) = A + 1 /\ b[A + 1] = s /\ \A k \in 1..A : b[k] = a[k]
  BY <1>0, <1>1, AppendProperties
<1>3. DOMAIN b = 1..(A + 1)
  BY <1>2, LenProperties
<1>4. PICK C, D : C = {k \in DOMAIN a : a[k] = t} /\ D = {k \in DOMAIN b : b[k] = t}
  OBVIOUS
<1>5. IsFiniteSet(C) /\ A + 1 \notin C
  <2>1. C \subseteq 1..A /\ IsFiniteSet(1..A)
    BY <1>1, <1>4, FS_Interval
  <2>2. IsFiniteSet(C)
    BY <2>1, FS_Subset
  <2> QED BY <2>1, <2>2
<1>6. Cardinality(C) \in Nat
  BY <1>5, FS_CardinalityType
<1>7. ASSUME t = s PROVE Cardinality(D) = Cardinality(C) + 1
  <2>1. D = C \cup {A + 1}
    <3>1. \A k : k \in 1..(A + 1) <=> k \in 1..A \/ k = A + 1
      OBVIOUS
    <3> QED BY <3>1, <1>1, <1>2, <1>3, <1>4, <1>7
  <2>2. Cardinality(D) = Cardinality(C) + 1
    BY <2>1, <1>5, FS_AddElement
  <2> QED BY <2>2
<1>8. ASSUME t # s PROVE D = C
  <2>1. D = C
    <3>1. \A k : k \in 1..(A + 1) <=> k \in 1..A \/ k = A + 1
      OBVIOUS
    <3> QED BY <3>1, <1>1, <1>2, <1>3, <1>4, <1>8
  <2> QED BY <2>1
<1>9. PICK m \in Nat : m = Cardinality(C)
  BY <1>6
<1>10. Times(t, a) = m /\ Times(t, Append(a, s)) = Cardinality(D)
  BY <1>0, <1>4, <1>9 DEF Times
<1>11. Cardinality(D) = m + (IF t = s THEN 1 ELSE 0)
  BY <1>7, <1>8, <1>9
<1> QED BY <1>9, <1>10, <1>11

\* Nothing was handed out of an empty file.
LEMMA HandedInit == Init => Handed
<1> SUFFICES ASSUME Init PROVE Handed
  OBVIOUS
<1>1. file = <<>> /\ taken = <<>> /\ up /\ deaths = 0 /\ Len(<<>>) = 0
  BY DEF Init, SpillInit
<1>2. \A p \in 1..Len(file) : FALSE
  BY <1>1
<1>3. \A s \in Spans : Count(s) = 0
  <2> TAKE s \in Spans
  <2>1. {k \in DOMAIN taken : taken[k] = s} = {}
    BY <1>1
  <2> QED BY <2>1, FS_EmptySet DEF Count, Times
<1>4. \A s \in Spans : ~Readable(s)
  <2>1. \A p \in (consumed + 1)..Len(file) : FALSE
    BY <1>1 DEF Init, SpillInit
  <2> QED BY <2>1 DEF Readable
<1> QED BY <1>1, <1>2, <1>3, <1>4 DEF Handed, Unique, Fresh, Counts

\* Some bytes of the line of a new span are appended, which is new no longer if
\* there are any; the process may die of it.
LEMMA HandedLonger ==
  ASSUME Typed, Handed, NEW s \in Spans, New(s), NEW k \in 0..LineLen[s],
         file' = file \o SubSeq(Line(s), 1, k), k # 0 => ~New(s)',
         \A t \in Spans : New(t)' => New(t),
         taken' = taken,
         \/ up /\ up' /\ consumed' = consumed /\ deaths' = deaths
         \/ ~up' /\ deaths' = deaths + 1
  PROVE  Handed'
<1>1. SpillTypeOK /\ file \in Seq(Byte) /\ consumed \in Nat /\ deaths \in Nat
  BY FaultsAssumption DEF Typed, TypeOK, SpillTypeOK
<1>2. PICK e \in Nat : e = Len(file)
  BY <1>1, LenProperties
<1>3. PICK g : g = file'
  OBVIOUS
<1>4. /\ k \in Nat /\ Len(g) = e + k
      /\ \A p \in 1..e : g[p] = file[p]
      /\ \A p \in (e + 1)..(e + k) : g[p] = <<s, p - e>>
  <2>1. g = file \o SubSeq(Line(s), 1, k)
    BY <1>3
  <2>2. Adds(g, e, s, k)
    BY <2>1, <1>1, <1>2, BytesAdded
  <2> QED BY <2>2 DEF Adds
<1>5. \A p \in 1..e : file[p] \in Byte /\ file[p][1] # s
  BY <1>1, <1>2, ElementOfSeq DEF Handed, Fresh
<1>6. \A p \in 1..(e + k) : p \in 1..e \/ p \in (e + 1)..(e + k)
  BY <1>2
<1>7. Unique'
  <2> SUFFICES ASSUME NEW p \in 1..(e + k), NEW q \in 1..(e + k), g[p] = g[q] PROVE p = q
    BY <1>3, <1>4 DEF Unique
  <2>1. CASE p \in 1..e /\ q \in 1..e
    BY <2>1, <1>2, <1>4 DEF Handed, Unique
  <2>2. CASE p \in 1..e /\ q \in (e + 1)..(e + k)
    <3>1. file[p] = <<s, q - e>>
      BY <2>2, <1>4
    <3>2. file[p][1] = s
      BY <3>1
    <3> QED BY <3>2, <2>2, <1>5
  <2>3. CASE q \in 1..e /\ p \in (e + 1)..(e + k)
    <3>1. file[q] = <<s, p - e>>
      BY <2>3, <1>4
    <3>2. file[q][1] = s
      BY <3>1
    <3> QED BY <3>2, <2>3, <1>5
  <2>4. CASE p \in (e + 1)..(e + k) /\ q \in (e + 1)..(e + k)
    <3>1. <<s, p - e>> = <<s, q - e>>
      BY <2>4, <1>4
    <3>2. p - e = q - e
      BY <3>1
    <3> QED BY <3>2, <2>4, <1>2
  <2> QED BY <2>1, <2>2, <2>3, <2>4, <1>6
<1>8. \A t \in Spans : Count(t)' = Count(t)
  BY DEF Count
<1>9. Fresh'
  <2> SUFFICES ASSUME NEW t \in Spans, New(t)' PROVE (\A p \in 1..(e + k) : g[p][1] # t) /\ Count(t) = 0
    BY <1>3, <1>4, <1>8 DEF Fresh
  <2>1. New(t) /\ Count(t) = 0 /\ \A p \in 1..e : file[p][1] # t
    BY <1>2 DEF Handed, Fresh
  <2>2. ASSUME NEW p \in 1..(e + k), g[p][1] = t PROVE FALSE
    <3>1. CASE p \in 1..e
      BY <3>1, <2>1, <2>2, <1>4
    <3>2. CASE p \in (e + 1)..(e + k)
      <4>1. t = s
        BY <3>2, <2>2, <1>4
      <4>2. k # 0
        BY <3>2, <1>2
      <4> QED BY <4>1, <4>2
    <3> QED BY <3>1, <3>2, <1>6
  <2> QED BY <2>1, <2>2
<1>10. Counts'
  <2> SUFFICES ASSUME NEW t \in Spans
               PROVE  /\ Count(t) \in Nat /\ Count(t) <= 1 + deaths'
                      /\ Readable(t)' \/ ~up' => Count(t) <= deaths'
    BY <1>8 DEF Counts
  <2>1. PICK m \in Nat : m = Count(t) /\ m <= 1 + deaths /\ (Readable(t) => m <= deaths)
    BY DEF Handed, Counts
  <2>2. CASE ~up' /\ deaths' = deaths + 1
    BY <2>1, <2>2, <1>1
  <2>3. CASE up' /\ consumed' = consumed /\ deaths' = deaths
    <3> SUFFICES ASSUME Readable(t)' PROVE m <= deaths
      BY <2>1, <2>3
    <3>1. PICK p \in (consumed + 1)..(e + k) : g[p] = <<t, 1>>
      BY <2>3, <1>3, <1>4 DEF Readable
    <3>2. CASE p \in 1..e
      <4>1. p \in (consumed + 1)..Len(file) /\ file[p] = <<t, 1>>
        BY <3>1, <3>2, <1>1, <1>2, <1>4
      <4> QED BY <4>1, <2>1 DEF Readable
    <3>3. CASE p \in (e + 1)..(e + k)
      <4>1. t = s
        BY <3>1, <3>3, <1>4
      <4>2. m = 0
        BY <4>1, <2>1 DEF Handed, Fresh
      <4> QED BY <4>2, <1>1
    <3>4. p \in 1..(e + k)
      BY <3>1, <1>1, <1>2
    <3> QED BY <3>2, <3>3, <3>4, <1>6
  <2> QED BY <2>2, <2>3
<1> QED BY <1>7, <1>9, <1>10 DEF Handed

\* The file and what is new stay as they are, and not more of the file can be read.
LEMMA HandedSame ==
  ASSUME Typed, Handed, file' = file, taken' = taken, appended' = appended, torn' = torn,
         \/ up' /\ deaths' = deaths /\ up /\ (consumed' = consumed \/ consumed' = consumed + 1)
         \/ up' = up /\ deaths' = deaths /\ consumed' = consumed
         \/ up' /\ deaths' = deaths /\ ~up
         \/ ~up' /\ deaths' = deaths + 1
  PROVE  Handed'
<1>1. \A t \in Spans : Count(t)' = Count(t) /\ (New(t)' <=> New(t))
  BY DEF Count, New
<1>2. Unique' /\ Fresh'
  BY <1>1 DEF Handed, Unique, Fresh
<1>3. deaths \in Nat /\ consumed \in Nat /\ Len(file) \in Nat
  BY FaultsAssumption, LenProperties DEF Typed, TypeOK, SpillTypeOK
<1>4. Counts'
  <2> SUFFICES ASSUME NEW t \in Spans
               PROVE  /\ Count(t) \in Nat /\ Count(t) <= 1 + deaths'
                      /\ Readable(t)' \/ ~up' => Count(t) <= deaths'
    BY <1>1 DEF Counts
  <2>1. PICK m \in Nat : m = Count(t) /\ m <= 1 + deaths /\ (Readable(t) \/ ~up => m <= deaths)
    BY DEF Handed, Counts
  <2>2. CASE ~up' /\ deaths' = deaths + 1
    BY <2>1, <2>2, <1>3
  <2>3. CASE ~up /\ deaths' = deaths
    BY <2>1, <2>3
  <2>4. CASE up /\ up' /\ deaths' = deaths /\ (consumed' = consumed \/ consumed' = consumed + 1)
    <3>1. \A p \in (consumed' + 1)..Len(file) : p \in (consumed + 1)..Len(file)
      BY <2>4, <1>3
    <3>2. Readable(t)' => Readable(t)
      BY <3>1 DEF Readable
    <3> QED BY <2>1, <2>4, <3>2
  <2> QED BY <2>2, <2>3, <2>4
<1> QED BY <1>2, <1>4 DEF Handed
\* accept took the span whose line came next: it can be read no more.
LEMMA HandedTaken ==
  ASSUME Typed, Handed, NEW s \in Spans, Accept(s)
  PROVE  Handed'
<1>1. /\ up /\ Parses(NextLine, s) /\ consumed' = consumed + Len(NextLine) /\ taken' = Append(taken, s)
      /\ file' = file /\ up' = up /\ appended' = appended /\ torn' = torn /\ deaths' = deaths
  BY DEF Accept, Take
<1>2. SpillTypeOK /\ taken \in Seq(Spans) /\ deaths \in Nat /\ consumed \in Nat /\ Len(file) \in Nat
  BY FaultsAssumption, LenProperties DEF Typed, TypeOK, SpillTypeOK
<1>3. /\ Len(NextLine) \in Nat \ {0} /\ consumed + 1 <= Len(file)
      /\ file[consumed + 1] = <<s, 1>>
  BY <1>1, <1>2, ParsesFirst
<1>4. consumed' \in Nat /\ consumed' >= consumed + 1
  BY <1>1, <1>2, <1>3
<1>5. consumed + 1 \in (consumed + 1)..Len(file) /\ consumed + 1 \in 1..Len(file)
  BY <1>2, <1>3
<1>6. Readable(s) /\ ~New(s)
  <2>1. Readable(s)
    BY <1>3, <1>5 DEF Readable
  <2>2. file[consumed + 1][1] = s
    BY <1>3
  <2> QED BY <2>1, <2>2, <1>5 DEF Handed, Fresh
<1>7. \A t : Count(t)' = Count(t) + (IF t = s THEN 1 ELSE 0)
  <2> TAKE t
  <2>1. Times(t, Append(taken, s)) = Times(t, taken) + (IF t = s THEN 1 ELSE 0)
    BY <1>2, CountAppend
  <2> QED BY <1>1, <2>1 DEF Count
<1>8. \A t \in Spans : New(t)' <=> New(t)
  BY <1>1 DEF New
<1>9. Unique' /\ Fresh'
  <2>1. Fresh'
    <3> SUFFICES ASSUME NEW t \in Spans, New(t)
                 PROVE  (\A p \in 1..Len(file) : file[p][1] # t) /\ Count(t)' = 0
      BY <1>1, <1>8 DEF Fresh
    <3>1. t # s /\ Count(t) = 0 /\ \A p \in 1..Len(file) : file[p][1] # t
      BY <1>6 DEF Handed, Fresh
    <3> QED BY <3>1, <1>7
  <2> QED BY <2>1, <1>1 DEF Handed, Unique
<1>10. \A t \in Spans : Readable(t)' => Readable(t) /\ t # s
  <2> SUFFICES ASSUME NEW t \in Spans, Readable(t)' PROVE Readable(t) /\ t # s
    OBVIOUS
  <2>1. PICK p \in (consumed' + 1)..Len(file) : file[p] = <<t, 1>>
    BY <1>1 DEF Readable
  <2>2. p \in (consumed + 1)..Len(file) /\ p \in 1..Len(file) /\ p # consumed + 1
    <3>1. PICK c \in Nat : c = consumed' /\ c >= consumed + 1
      BY <1>4
    <3>2. p \in (c + 1)..Len(file)
      BY <3>1
    <3>3. PICK E \in Nat : E = Len(file)
      BY <1>2
    <3>4. p \in Int /\ c + 1 <= p /\ p <= E
      BY <3>2, <3>3
    <3>5. PICK d \in Nat : d = consumed
      BY <1>2
    <3>6. c >= d + 1
      BY <3>1, <3>5
    <3>7. p \in (d + 1)..E /\ p \in 1..E /\ p # d + 1
      BY <3>4, <3>6
    <3> QED BY <3>3, <3>5, <3>7
  <2>3. t # s
    <3>1. ASSUME t = s PROVE FALSE
      <4>1. file[p] = file[consumed + 1]
        BY <3>1, <2>1, <1>3
      <4> QED BY <4>1, <2>2, <1>5 DEF Handed, Unique
    <3> QED BY <3>1
  <2> QED BY <2>1, <2>2, <2>3 DEF Readable
<1>11. Counts'
  <2> SUFFICES ASSUME NEW t \in Spans
               PROVE  /\ Count(t)' \in Nat /\ Count(t)' <= 1 + deaths
                      /\ Readable(t)' => Count(t)' <= deaths
    BY <1>1 DEF Counts
  <2>1. PICK m \in Nat : m = Count(t) /\ m <= 1 + deaths /\ (Readable(t) => m <= deaths)
    BY DEF Handed, Counts
  <2>2. PICK c : c = Count(t)'
    OBVIOUS
  <2>3. c = m + (IF t = s THEN 1 ELSE 0)
    BY <2>1, <2>2, <1>7
  <2>4. CASE t = s
    BY <2>1, <2>2, <2>3, <2>4, <1>2, <1>6, <1>10
  <2>5. CASE t # s
    BY <2>1, <2>2, <2>3, <2>5, <1>2, <1>10
  <2> QED BY <2>4, <2>5
<1> QED BY <1>9, <1>11 DEF Handed

\* Every step keeps what was handed out within its bound.
LEMMA HandedNext == Typed /\ Handed /\ [Next]_vars => Handed'
<1> SUFFICES ASSUME Typed, Handed, [Next]_vars PROVE Handed'
  OBVIOUS
<1>0. SpillTypeOK /\ appended \in Seq(Spans)
  BY DEF Typed, TypeOK
<1>1. ASSUME NEW s \in Spans, AppendSpan(s) PROVE Handed'
  <2>1. PICK k \in 0..LineLen[s] : k = LineLen[s]
    BY LineType
  <2>2. file' = file \o SubSeq(Line(s), 1, k)
    BY <1>1, <2>1, PrefixType DEF AppendSpan, AppendLine
  <2>3. \A t \in Spans : Occurs(t, appended') <=> Occurs(t, appended) \/ t = s
    BY <1>0, <1>1, OccursAppend DEF AppendSpan
  <2> QED BY <1>1, <2>2, <2>3, HandedLonger DEF AppendSpan, AppendLine, New
<1>2. ASSUME NEW s \in Spans, AppendFails(s) PROVE Handed'
  <2>0. /\ up /\ New(s) /\ UNCHANGED <<cursorFile, consumed, drain, up, taken, deaths, behind>>
    BY <1>2 DEF AppendFails, AppendRaises
  <2>1. CASE AppendRaises(s, 0) /\ UNCHANGED <<appended, torn>>
    <3>1. PICK k \in 0..LineLen[s] : k = 0
      BY LineType
    <3>2. file' = file \o SubSeq(Line(s), 1, k)
      BY <2>1, <3>1 DEF AppendRaises
    <3> QED BY <2>0, <2>1, <3>1, <3>2, HandedLonger DEF New
  <2>2. CASE AppendRaises(s, LineLen[s]) /\ appended' = Append(appended, s) /\ torn' = torn
    <3>1. PICK k \in 0..LineLen[s] : k = LineLen[s]
      BY LineType
    <3>2. file' = file \o SubSeq(Line(s), 1, k)
      BY <2>2, <3>1 DEF AppendRaises
    <3>3. \A t \in Spans : Occurs(t, appended') <=> Occurs(t, appended) \/ t = s
      BY <1>0, <2>2, OccursAppend
    <3> QED BY <2>0, <2>2, <3>2, <3>3, HandedLonger DEF New
  <2>3. CASE /\ \E k \in 1..(LineLen[s] - 1) : AppendRaises(s, k)
             /\ torn' = torn \cup {s} /\ appended' = appended
    <3>1. PICK k \in 1..(LineLen[s] - 1) : AppendRaises(s, k)
      BY <2>3
    <3>2. k \in 0..LineLen[s] /\ file' = file \o SubSeq(Line(s), 1, k)
      BY <3>1 DEF AppendRaises
    <3> QED BY <2>0, <2>3, <3>2, HandedLonger DEF New
  <2> QED BY <1>2, <2>1, <2>2, <2>3 DEF AppendFails
<1>3. ASSUME NEW s \in Spans, Accept(s) PROVE Handed'
  BY <1>3, HandedTaken
<1>4. ASSUME DrainStep PROVE Handed'
  <2>0. up /\ UNCHANGED <<up, appended, taken, torn, deaths>>
    BY <1>4 DEF DrainStep
  <2>1. CASE BeginDrain \/ SkipBlank \/ EndOfFile \/ ParseError \/ SaveCursor \/ \E s \in Spans : Decline(s)
    <3>1. file' = file /\ (consumed' = consumed \/ consumed' = consumed + 1)
      BY <2>1 DEF BeginDrain, SkipBlank, EndOfFile, ParseError, SaveCursor, Decline
    <3> QED BY <2>0, <3>1, HandedSame
  <2>2. CASE Compact
    <3>1. CASE file' = file /\ consumed' = consumed
      BY <2>0, <3>1, HandedSame
    <3>2. CASE file' = <<>> /\ consumed' = 0
      <4>1. \A p \in 1..Len(file') : FALSE
        BY <3>2
      <4>2. \A p \in (consumed' + 1)..Len(file') : FALSE
        BY <3>2
      <4>3. \A t \in Spans : Count(t)' = Count(t) /\ (New(t)' <=> New(t)) /\ ~Readable(t)'
        BY <2>0, <4>2 DEF Count, New, Readable
      <4> QED BY <2>0, <4>1, <4>3 DEF Handed, Unique, Fresh, Counts
    <3> QED BY <2>2, <3>1, <3>2 DEF Compact
  <2> QED BY <1>4, <2>1, <2>2 DEF DrainStep
<1>5. ASSUME SaveFails PROVE Handed'
  BY <1>5, HandedSame DEF SaveFails, SaveCursorRaises, historyVars
<1>6. ASSUME Crash PROVE Handed'
  <2>0. ~up' /\ deaths' = deaths + 1 /\ appended' = appended /\ taken' = taken
    BY <1>6 DEF Crash
  <2>1. CASE Die /\ torn' = torn
    BY <2>0, <2>1, HandedSame DEF Die
  <2>2. CASE \E s \in Spans : /\ New(s) /\ torn' = torn \cup {s}
                              /\ \E k \in 1..LineLen[s] : DieAppending(s, k)
    <3>0. PICK s \in Spans : /\ New(s) /\ torn' = torn \cup {s}
                             /\ \E k \in 1..LineLen[s] : DieAppending(s, k)
      BY <2>2
    <3>1. PICK k \in 1..LineLen[s] : New(s) /\ torn' = torn \cup {s} /\ DieAppending(s, k)
      BY <3>0
    <3>2. k \in 0..LineLen[s] /\ file' = file \o SubSeq(Line(s), 1, k)
      BY <3>1, LineType DEF DieAppending
    <3> QED BY <2>0, <3>1, <3>2, HandedLonger DEF New
  <2> QED BY <1>6, <2>1, <2>2 DEF Crash
<1>7. ASSUME Restart PROVE Handed'
  BY <1>7, HandedSame DEF Restart, Reopen, historyVars
<1>8. ASSUME UNCHANGED vars PROVE Handed'
  BY <1>8, HandedSame DEF vars, queueVars, historyVars, spillVars
<1> QED BY <1>1, <1>2, <1>3, <1>4, <1>5, <1>6, <1>7, <1>8 DEF Next
\* A restart loses no span that was not taken, unless a line was torn or the file
\* was truncated and its cursor not written (durable.py:74-75), and a span is
\* repeated no more often than processes have died (durable.py:77-80).
THEOREM RestartExact == Spec => []RestartIsExact
<1>1. Handed => RedeliveredOncePerDeath
  BY DEF Handed, Counts, Count, Times, RedeliveredOncePerDeath
<1>2. Typed /\ Layout => UnconsumedSurvivesRestart
  <2> SUFFICES ASSUME Typed, Layout, torn = {}, behind = "no",
                      NEW s \in Spans, Occurs(s, appended), ~Occurs(s, taken)
               PROVE  StoredFrom(cursorFile, s)
    BY DEF UnconsumedSurvivesRestart
  <2>1. PICK n, o, sp, i, c : Shape(n, o, sp, i, c)
    BY DEF Layout
  <2>2. Laid(file, LineLen, n, o, sp) /\ n \in Nat /\ c \in 0..n /\ cursorFile = o[c] /\ KeptFrom(n, sp, c)
    BY <2>1, LaidType DEF Shape
  <2>3. PICK k \in (c+1)..n : sp[k] = s
    BY <2>2 DEF KeptFrom
  <2>4. PICK j \in c..(n-1) : j + 1 = k
    <3>1. k - 1 \in c..(n-1) /\ (k - 1) + 1 = k
      BY <2>2
    <3> QED BY <3>1
  <2>5. SpillTypeOK
    BY DEF Typed, TypeOK
  <2>6. StoredFrom(o[c], sp[j+1])
    BY <2>2, <2>5, StoredLine
  <2> QED BY <2>2, <2>3, <2>4, <2>6
<1>3. Init => Typed /\ Layout /\ Handed
  BY TypedInit, LayoutInit, HandedInit
<1>4. (Typed /\ Layout /\ Handed) /\ [Next]_vars => (Typed /\ Layout /\ Handed)'
  BY TypedNext, LayoutNext, HandedNext
<1>5. Typed /\ Layout /\ Handed => RestartIsExact
  BY <1>1, <1>2 DEF RestartIsExact
<1> QED BY <1>3, <1>4, <1>5, PTL DEF Spec
=============================================================================
