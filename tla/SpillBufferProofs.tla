-------------------------- MODULE SpillBufferProofs --------------------------
(***************************************************************************)
(* What the operators of SpillBuffer find in a file that consists of whole *)
(* lines, and what an append adds to it: the facts the proofs about        *)
(* SpillQueue and about EvidencePipeline share.                            *)
(***************************************************************************)
EXTENDS SpillBuffer, DataLemmas

\* A span's line is a sequence of its bytes.
LEMMA LineType ==
  ASSUME NEW s \in Spans
  PROVE  /\ Line(s) \in Seq(Byte) /\ Len(Line(s)) = LineLen[s]
         /\ \A k \in 1..LineLen[s] : Line(s)[k] = <<s, k>>
         /\ LineLen[s] \in Nat \ {0, 1}
<1>1. LineLen[s] \in Nat \ {0, 1}
  BY LineLenAssumption
<1>2. PICK L \in Nat : L = LineLen[s]
  BY <1>1
<1>3. \A k \in 1..L : <<s, k>> \in Byte
  BY DEF Byte
<1>4. [k \in 1..L |-> <<s, k>>] \in [1..L -> Byte]
  BY <1>3
<1>5. Line(s) \in Seq(Byte)
  BY <1>2, <1>4, SeqDef DEF Line
<1>6. DOMAIN Line(s) = 1..L
  BY <1>2 DEF Line
<1>7. Len(Line(s)) = L
  BY <1>5, <1>6, <1>2, LenProperties
<1> QED BY <1>1, <1>2, <1>5, <1>7 DEF Line

\* The next line is the one of t: it parses as t and as no other span, it is
\* neither blank nor corrupt, and something is pending.
Reads(t) ==
    /\ t \in Spans /\ NextLine = Line(t)
    /\ \A s \in Spans : Parses(NextLine, s) <=> s = t
    /\ ~IsBlank(NextLine) /\ ~IsCorrupt(NextLine) /\ NextLine # <<>>
    /\ HasPending

\* At the end of one line, the next one is read.
LEMMA NextLineIs ==
  ASSUME SpillTypeOK, NEW n, NEW o, NEW sp, Laid(file, LineLen, n, o, sp),
         NEW i \in 0..(n-1), consumed = o[i]
  PROVE  Reads(sp[i+1])
<1>1. LineLen \in [Spans -> Nat \ {0, 1}] /\ file \in Seq(Byte)
  BY LineLenAssumption DEF SpillTypeOK
<1>2. sp[i+1] \in Spans
  BY <1>1, LaidLine DEF LiesAt
<1>3. PICK t \in Spans : t = sp[i+1]
  BY <1>2
<1>4. Line(t) = LineOf(LineLen, sp[i+1]) /\ Unread = Behind(file, o[i])
  BY <1>3 DEF Line, LineOf, Unread, Behind
<1>5. LineOf(LineLen, sp[i+1]) \in Seq(Byte)
  BY <1>3, <1>4, LineType
<1>6. StartsWith(LineLen, Behind(file, o[i]), sp[i+1])
  BY <1>1, <1>5, LaidNext
<1>7. NextLine = Line(t)
  BY <1>4, <1>6 DEF NextLine, Breaks, IsNewline, StartsWith
<1>8. \A s \in Spans : Parses(NextLine, s) <=> s = t
  <2> TAKE s \in Spans
  <2>1. s = t => Parses(NextLine, s)
    BY <1>7 DEF Parses
  <2>2. ASSUME Parses(NextLine, s) PROVE s = t
    <3>1. PICK K \in Nat \ {0, 1} : K = LineLen[s]
      BY LineType
    <3>2. PICK b \in Seq(Byte) : b = Line(s) /\ Len(b) = K /\ b[1] = <<s, 1>>
      <4>1. 1 \in 1..LineLen[s]
        BY <3>1
      <4> QED BY <4>1, <3>1, LineType
    <3>3. /\ SubSeq(b, 1, K - 1)[1] = b[1] /\ K - 1 \in Nat
      <4>1. 1 \in Int /\ K - 1 \in Int /\ 1 \in 1..((K - 1) - 1 + 1) /\ 1 + 1 - 1 = 1
        BY <3>1
      <4>2. \A k \in 1..(K - 1) : b[k] \in Byte
        BY <3>2, ElementOfSeq
      <4>3. SubSeq(b, 1, K - 1)[1] = b[1 + 1 - 1]
        BY <4>1, <4>2, SubSeqProperties
      <4> QED BY <4>1, <4>3
    <3>4. NextLine[1] = <<s, 1>>
      BY <2>2, <3>1, <3>2, <3>3 DEF Parses
    <3>5. NextLine[1] = <<t, 1>>
      <4>1. 1 \in 1..LineLen[t]
        BY LineType
      <4> QED BY <4>1, <1>7, LineType
    <3> QED BY <3>4, <3>5
  <2> QED BY <2>1, <2>2
<1>9. Len(NextLine) \in Nat \ {0, 1}
  BY <1>7, LineType
<1>10. HasPending
  <2>1. 1 \in 1..Len(Unread)
    BY <1>3, <1>4, <1>6, LineType DEF StartsWith
  <2>2. ~IsNewline(Unread[1])
    <3>1. Unread[1] = <<t, 1>> /\ LineLen[t] # 1
      BY <1>3, <1>4, <1>6, LineType DEF StartsWith
    <3> QED BY <3>1 DEF IsNewline
  <2> QED BY <2>1, <2>2 DEF HasPending
<1>11. NextLine # <<>>
  BY <1>9
<1> QED BY <1>3, <1>7, <1>8, <1>9, <1>10, <1>11 DEF IsBlank, IsCorrupt, Reads

\* Behind the last byte there is nothing to read.
LEMMA NothingLeft ==
  ASSUME SpillTypeOK, consumed >= Len(file)
  PROVE  Unread = <<>> /\ NextLine = <<>> /\ ~HasPending /\ ~IsBlank(NextLine) /\ ~IsCorrupt(NextLine)
         /\ \A s \in Spans : ~Parses(NextLine, s)
<1>1. consumed + 1 \in Int /\ Len(file) \in Int /\ Len(file) < consumed + 1
  BY LenProperties DEF SpillTypeOK
<1>2. Unread = <<>>
  BY <1>1, SubSeqEmpty DEF Unread
<1>3. Len(Unread) = 0
  BY <1>2
<1>4. \A k \in 1..Len(Unread) : FALSE
  BY <1>3
<1>5. NextLine = <<>>
  <2>1. {i \in 1..Len(Unread) : IsNewline(Unread[i])} = {}
    BY <1>4
  <2> QED BY <2>1, <1>2 DEF NextLine
<1>6. \A s \in Spans : ~Parses(NextLine, s)
  <2> TAKE s \in Spans
  <2>1. PICK K \in Nat \ {0, 1} : K = LineLen[s]
    BY LineType
  <2>2. Line(s) \in Seq(Byte) /\ Len(Line(s)) = K
    BY <2>1, LineType
  <2>3. Len(SubSeq(Line(s), 1, K - 1)) = K - 1
    <3>1. 1 \in Int /\ K - 1 \in Int /\ 1 <= K - 1 /\ (K - 1) - 1 + 1 = K - 1
      BY <2>1
    <3>2. PICK b \in Seq(Byte) : b = Line(s)
      BY <2>2
    <3>3. \A k \in 1..(K - 1) : b[k] \in Byte
      BY <2>1, <2>2, <3>2, ElementOfSeq
    <3>4. Len(SubSeq(b, 1, K - 1)) = IF 1 <= K - 1 THEN (K - 1) - 1 + 1 ELSE 0
      BY <3>1, <3>3, SubSeqProperties
    <3> QED BY <3>1, <3>2, <3>4
  <2>4. Len(NextLine) = 0
    BY <1>5
  <2> QED BY <2>1, <2>2, <2>3, <2>4 DEF Parses
<1>7. Len(NextLine) = 0
  BY <1>5
<1> QED BY <1>2, <1>4, <1>5, <1>6, <1>7 DEF HasPending, IsBlank, IsCorrupt
\* The first k bytes of a span's line.
LEMMA PrefixType ==
  ASSUME NEW s \in Spans, NEW k \in 0..LineLen[s]
  PROVE  /\ SubSeq(Line(s), 1, k) \in Seq(Byte) /\ Len(SubSeq(Line(s), 1, k)) = k
         /\ \A j \in 1..k : SubSeq(Line(s), 1, k)[j] = <<s, j>>
         /\ k = 0 => SubSeq(Line(s), 1, k) = <<>>
         /\ k = LineLen[s] => SubSeq(Line(s), 1, k) = Line(s)
<1>1. PICK K \in Nat \ {0, 1} : K = LineLen[s]
  BY LineType
<1>2. PICK b \in Seq(Byte) : b = Line(s)
  BY LineType
<1>3. Len(b) = K /\ \A j \in 1..K : b[j] = <<s, j>>
  BY <1>1, <1>2, LineType
<1>4. k \in 0..K /\ k \in Nat
  BY <1>1
<1>5. PICK c : c = SubSeq(b, 1, k)
  OBVIOUS
<1>6. c \in Seq(Byte) /\ Len(c) = k /\ \A j \in 1..k : c[j] = <<s, j>>
  <2>1. \A j \in 1..k : b[j] \in Byte
    <3> TAKE j \in 1..k
    <3>1. j \in 1..Len(b)
      BY <1>3, <1>4
    <3> QED BY <3>1, ElementOfSeq
  <2>2. /\ c \in Seq(Byte) /\ Len(c) = (IF 1 <= k THEN k - 1 + 1 ELSE 0)
        /\ \A j \in 1..(k - 1 + 1) : c[j] = b[1 + j - 1]
    <3>1. 1 \in Int /\ k \in Int
      BY <1>4
    <3> QED BY <2>1, <3>1, <1>5, SubSeqProperties
  <2>3. Len(c) = k
    BY <2>2, <1>4
  <2>4. \A j \in 1..k : j \in 1..(k - 1 + 1) /\ 1 + j - 1 = j /\ j \in 1..K
    BY <1>4
  <2> QED BY <2>2, <2>3, <2>4, <1>3
<1>7. k = 0 => c = <<>>
  BY <1>6, EmptySeq
<1>8. k = K => c = b
  BY <1>3, <1>6, SeqEqual
<1> QED BY <1>1, <1>2, <1>5, <1>6, <1>7, <1>8

\* What parses begins with the first byte of its span, and is not empty.
LEMMA ParsesFirst ==
  ASSUME SpillTypeOK, NEW s \in Spans, Parses(NextLine, s)
  PROVE  /\ Len(NextLine) \in Nat \ {0} /\ consumed + 1 <= Len(file)
         /\ file[consumed + 1] = <<s, 1>>
<1>1. PICK K \in Nat \ {0, 1} : K = LineLen[s]
  BY LineType
<1>2. PICK line : line = NextLine
  OBVIOUS
<1>3. Len(line) \in Nat \ {0} /\ line[1] = <<s, 1>>
  <2>1. CASE line = Line(s)
    <3>1. 1 \in 1..LineLen[s]
      BY <1>1
    <3> QED BY <2>1, <3>1, LineType
  <2>2. CASE line = SubSeq(Line(s), 1, LineLen[s] - 1)
    <3>1. PICK k \in Nat \ {0} : k = LineLen[s] - 1 /\ k \in 0..LineLen[s]
      <4>1. K - 1 \in Nat \ {0} /\ K - 1 \in 0..K
        OBVIOUS
      <4> QED BY <1>1, <4>1
    <3>2. 1 \in 1..k
      OBVIOUS
    <3>3. line = SubSeq(Line(s), 1, k)
      BY <2>2, <3>1
    <3> QED BY <3>1, <3>2, <3>3, PrefixType
  <2> QED BY <1>2, <2>1, <2>2 DEF Parses
<1>4. consumed < Len(file)
  <2>1. consumed \in Nat /\ Len(file) \in Nat
    BY LenProperties DEF SpillTypeOK
  <2>2. ~(consumed >= Len(file))
    BY NothingLeft
  <2> QED BY <2>1, <2>2
<1>5. PICK e \in Nat : e = Len(file)
  BY LenProperties DEF SpillTypeOK
<1>6. PICK u : u = Unread
  OBVIOUS
<1>7. u \in Seq(Byte) /\ Len(u) = e - consumed /\ u[1] = file[consumed + 1]
  <2>1. consumed + 1 \in Int /\ e \in Int /\ consumed + 1 <= e /\ 1 \in 1..(e - (consumed + 1) + 1)
        /\ consumed + 1 + 1 - 1 = consumed + 1 /\ e - (consumed + 1) + 1 = e - consumed
    BY <1>4, <1>5 DEF SpillTypeOK
  <2>2. \A j \in (consumed + 1)..e : file[j] \in Byte
    <3> TAKE j \in (consumed + 1)..e
    <3>1. j \in 1..Len(file)
      BY <1>5 DEF SpillTypeOK
    <3> QED BY <3>1, ElementOfSeq DEF SpillTypeOK
  <2>3. u = SubSeq(file, consumed + 1, e)
    BY <1>5, <1>6 DEF Unread
  <2>4. /\ u \in Seq(Byte) /\ Len(u) = (IF consumed + 1 <= e THEN e - (consumed + 1) + 1 ELSE 0)
        /\ u[1] = file[consumed + 1 + 1 - 1]
    BY <2>1, <2>2, <2>3, SubSeqProperties
  <2> QED BY <2>1, <2>4
<1>8. line[1] = u[1]
  <2> DEFINE newlines == {j \in 1..Len(u) : IsNewline(u[j])}
  <2>1. line = IF newlines = {} THEN u ELSE SubSeq(u, 1, Min(newlines))
    BY <1>2, <1>6 DEF NextLine
  <2>2. CASE newlines = {}
    BY <2>1, <2>2
  <2>3. CASE newlines # {}
    <3>1. newlines \subseteq Nat
      OBVIOUS
    <3>2. Min(newlines) \in newlines
      <4> HIDE DEF newlines
      <4>1. PICK j \in newlines : \A k \in newlines : j <= k
        BY <2>3, <3>1, Least
      <4> QED BY <4>1 DEF Min
    <3>3. PICK m \in 1..Len(u) : m = Min(newlines)
      BY <3>2
    <3>4. line = SubSeq(u, 1, m)
      BY <2>1, <2>3, <3>3
    <3>5. 1 \in Int /\ m \in Int /\ 1 \in 1..(m - 1 + 1) /\ 1 + 1 - 1 = 1
      BY <1>4, <1>5, <1>7 DEF SpillTypeOK
    <3>6. \A j \in 1..m : u[j] \in Byte
      <4> TAKE j \in 1..m
      <4>1. j \in 1..Len(u)
        BY <1>4, <1>5, <1>7 DEF SpillTypeOK
      <4> QED BY <4>1, <1>7, ElementOfSeq
    <3>7. SubSeq(u, 1, m)[1] = u[1 + 1 - 1]
      BY <3>5, <3>6, SubSeqProperties
    <3> QED BY <3>4, <3>5, <3>7
  <2> QED BY <2>2, <2>3
<1>9. consumed \in Nat /\ consumed + 1 <= e
  BY <1>4, <1>5 DEF SpillTypeOK
<1> QED BY <1>2, <1>3, <1>5, <1>7, <1>8, <1>9

\* The bytes stay bytes.
LEMMA AppendTyped ==
  ASSUME SpillTypeOK, NEW s \in Spans, NEW k \in 0..LineLen[s]
  PROVE  /\ file \o SubSeq(Line(s), 1, k) \in Seq(Byte)
         /\ file \o Line(s) \in Seq(Byte)
<1>1. file \in Seq(Byte)
  BY DEF SpillTypeOK
<1> QED BY <1>1, LineType, PrefixType, ConcatProperties

\* A layout of the file is one by the lengths of its spans' lines.
LEMMA LaidType ==
  ASSUME NEW f, NEW n, NEW o, NEW sp, Laid(f, LineLen, n, o, sp)
  PROVE  n \in Nat /\ o \in [0..n -> Nat] /\ sp \in [1..n -> Spans] /\ o[0] = 0 /\ o[n] = Len(f)
BY LineLenAssumption DEF Laid

\* g is the file, e bytes long, with the first k bytes of the line of s behind it.
Adds(g, e, s, k) ==
    /\ k \in Nat /\ Len(g) = e + k
    /\ \A p \in 1..e : g[p] = file[p]
    /\ \A p \in (e + 1)..(e + k) : g[p] = <<s, p - e>>

\* What k bytes of a line add to the file.
LEMMA BytesAdded ==
  ASSUME SpillTypeOK, NEW s \in Spans, NEW k \in 0..LineLen[s],
         NEW g, g = file \o SubSeq(Line(s), 1, k), NEW e \in Nat, e = Len(file)
  PROVE  Adds(g, e, s, k)
<1>1. PICK b \in Seq(Byte) : b = SubSeq(Line(s), 1, k) /\ Len(b) = k /\ \A j \in 1..k : b[j] = <<s, j>>
  BY PrefixType
<1>2. k \in Nat /\ file \in Seq(Byte)
  BY LineType DEF SpillTypeOK
<1>3. g = file \o b
  BY <1>1
<1>4. Len(g) = e + k /\ \A p \in 1..(e + k) : g[p] = IF p <= e THEN file[p] ELSE b[p - e]
  BY <1>1, <1>2, <1>3, ConcatProperties
<1>5. \A p \in 1..e : g[p] = file[p]
  BY <1>2, <1>4
<1>6. \A p \in (e + 1)..(e + k) : g[p] = <<s, p - e>>
  <2> TAKE p \in (e + 1)..(e + k)
  <2>1. p \in 1..(e + k) /\ ~(p <= e) /\ p - e \in 1..k
    BY <1>2
  <2> QED BY <2>1, <1>1, <1>4
<1> QED BY <1>2, <1>4, <1>5, <1>6 DEF Adds
\* A line of the file is stored from every offset on a line's end before it.
LEMMA StoredLine ==
  ASSUME SpillTypeOK, NEW n, NEW o, NEW sp, Laid(file, LineLen, n, o, sp),
         NEW c \in 0..n, NEW j \in c..(n-1)
  PROVE  StoredFrom(o[c], sp[j+1])
<1>1. LineLen \in [Spans -> Nat \ {0, 1}] /\ file \in Seq(Byte) /\ n \in Nat /\ j \in 0..(n-1)
  BY LineLenAssumption, LaidType DEF SpillTypeOK
<1>2. LiesAt(file, LineLen, n, o, sp, j)
  BY <1>1, LaidLine
<1>3. PICK t \in Spans : t = sp[j+1]
  BY <1>1, <1>2 DEF LiesAt
<1>4. PICK L \in Nat \ {0, 1} : L = LineLen[t]
  BY LineType
<1>5. PICK a \in Nat, e \in Nat : a = o[j] /\ e = Len(file) /\ a + L <= e
  BY <1>2, <1>3, <1>4, LenProperties DEF LiesAt, SpillTypeOK
<1>6. \A k \in 1..L : file[a + k] = <<t, k>>
  BY <1>2, <1>3, <1>4, <1>5 DEF LiesAt
<1>7. SubSeq(file, a + 1, a + L) = Line(t)
  <2>1. \A k \in (a + 1)..(a + L) : file[k] \in Byte
    <3> TAKE k \in (a + 1)..(a + L)
    <3>1. k \in 1..Len(file)
      BY <1>5
    <3> QED BY <3>1, <1>1, ElementOfSeq
  <2>2. PICK u : u = SubSeq(file, a + 1, a + L)
    OBVIOUS
  <2>3. /\ u \in Seq(Byte) /\ Len(u) = (IF a + 1 <= a + L THEN (a + L) - (a + 1) + 1 ELSE 0)
        /\ \A k \in 1..((a + L) - (a + 1) + 1) : u[k] = file[a + 1 + k - 1]
    <3>1. a + 1 \in Int /\ a + L \in Int
      OBVIOUS
    <3> QED BY <2>1, <2>2, <3>1, SubSeqProperties
  <2>4. Len(u) = L
    BY <2>3
  <2>5. \A k \in 1..L : k \in 1..((a + L) - (a + 1) + 1) /\ a + 1 + k - 1 = a + k
    OBVIOUS
  <2>6. \A k \in 1..L : u[k] = <<t, k>>
    BY <2>3, <2>5, <1>6
  <2>7. PICK b \in Seq(Byte) : b = Line(t) /\ Len(b) = L /\ \A k \in 1..L : b[k] = <<t, k>>
    BY <1>4, LineType
  <2>8. \A k \in 1..Len(u) : u[k] = b[k]
    BY <2>4, <2>6, <2>7
  <2> QED BY <2>2, <2>3, <2>4, <2>7, <2>8, SeqEqual
<1>8. o[c] \in Nat /\ o[c] <= a /\ (a = o[c] \/ IsNewline(file[a]))
  <2>1. CASE j = c
    BY <2>1, <1>5
  <2>2. CASE j # c
    <3>1. c < j /\ j \in 0..n
      BY <2>2, <1>1
    <3>2. o[c] < o[j]
      BY <3>1, <1>1, LaidOrder
    <3>3. o[c] \in Nat
      <4>1. o \in [0..n -> Nat]
        BY <1>1, LaidType
      <4> QED BY <4>1
    <3>4. PICK m \in 0..(n-1) : m + 1 = j
      <4>1. j - 1 \in 0..(n-1) /\ (j - 1) + 1 = j
        BY <3>1, <1>1
      <4> QED BY <4>1
    <3>5. LiesAt(file, LineLen, n, o, sp, m)
      BY <1>1, LaidLine
    <3>6. file[o[j]] = <<sp[j], LineLen[sp[j]]>>
      BY <3>4, <3>5 DEF LiesAt
    <3>7. IsNewline(file[o[j]])
      BY <3>6 DEF IsNewline
    <3> QED BY <3>2, <3>3, <3>7, <1>5
  <2> QED BY <2>1, <2>2
<1>9. a \in o[c]..Len(file)
  BY <1>5, <1>8
<1>10. StoredFrom(o[c], t)
  BY <1>4, <1>5, <1>7, <1>8, <1>9 DEF StoredFrom
<1> QED BY <1>3, <1>10

(***************************************************************************)
(* A file that holds whole lines, with the cursor at the end of one, is     *)
(* read line by line: what drain() reads next is the line of a span, the    *)
(* cursor passes that span alone, and what it has not passed is stored.     *)
(***************************************************************************)
Cut(n, o, sp, i) == Laid(file, LineLen, n, o, sp) /\ i \in 0..n /\ consumed = o[i]

Lines == \E n, o, sp, i : Cut(n, o, sp, i)

\* The bytes of a span's line in a file, and whether a cursor has passed the first.
HasByte(f, s) == \E p \in 1..Len(f) : f[p][1] = s
Passed(f, c, s) == \A p \in 1..Len(f) : f[p] = <<s, 1>> => p <= c

\* The numbers and the spans of a layout, and its last offset.
LEMMA CutType ==
  ASSUME NEW n, NEW o, NEW sp, NEW i, Cut(n, o, sp, i)
  PROVE  /\ Laid(file, LineLen, n, o, sp) /\ consumed = o[i]
         /\ n \in Nat /\ i \in Nat /\ i \in 0..n /\ i <= n
         /\ o \in [0..n -> Nat] /\ sp \in [1..n -> Spans] /\ o[0] = 0 /\ o[n] = Len(file)
         /\ i # n => i \in 0..(n-1)
<1>1. Laid(file, LineLen, n, o, sp) /\ i \in 0..n /\ consumed = o[i]
  BY DEF Cut
<1>2. n \in Nat /\ o \in [0..n -> Nat] /\ sp \in [1..n -> Spans] /\ o[0] = 0 /\ o[n] = Len(file)
  BY <1>1, LaidType
<1>3. i \in Nat /\ i <= n /\ (i # n => i \in 0..(n-1))
  BY <1>1, <1>2
<1> QED BY <1>1, <1>2, <1>3

\* No line of a new buffer.
LEMMA LinesInit == SpillInit => Lines
<1> SUFFICES ASSUME SpillInit PROVE Lines
  OBVIOUS
<1>1. PICK o, sp : Laid(<<>>, LineLen, 0, o, sp) /\ o[0] = 0
  BY LineLenAssumption, LaidEmpty
<1>2. Cut(0, o, sp, 0)
  BY <1>1 DEF SpillInit, Cut
<1> QED BY <1>2 DEF Lines

\* drain() meets no blank and no corrupt line, and never passes the end.
LEMMA LinesOnly ==
  ASSUME SpillTypeOK, Lines
  PROVE  ~SkipBlank /\ ~ParseError /\ consumed <= Len(file)
<1>1. PICK n, o, sp, i : Cut(n, o, sp, i)
  BY DEF Lines
<1>2. CASE i = n
  <2>1. consumed >= Len(file) /\ consumed <= Len(file)
    BY <1>1, <1>2, CutType, LenProperties DEF SpillTypeOK
  <2> QED BY <2>1, NothingLeft DEF SkipBlank, ParseError
<1>3. CASE i # n
  <2>1. Reads(sp[i+1])
    BY <1>1, <1>3, CutType, NextLineIs
  <2>2. o[i] < o[n]
    <3>1. i < n /\ n \in 0..n
      BY <1>1, <1>3, CutType
    <3> QED BY <3>1, <1>1, CutType, LineLenAssumption, LaidOrder
  <2>3. consumed <= Len(file)
    BY <2>2, <1>1, CutType, LenProperties DEF SpillTypeOK
  <2> QED BY <2>1, <2>3 DEF Reads, SkipBlank, ParseError
<1> QED BY <1>2, <1>3

\* Nothing is pending only where the cursor has passed everything.
LEMMA LinesRead ==
  ASSUME SpillTypeOK, Lines, ~HasPending
  PROVE  consumed = Len(file)
<1>1. PICK n, o, sp, i : Cut(n, o, sp, i)
  BY DEF Lines
<1>2. i = n
  <2> SUFFICES ASSUME i # n PROVE FALSE
    OBVIOUS
  <2>1. Reads(sp[i+1])
    BY <1>1, CutType, NextLineIs
  <2> QED BY <2>1 DEF Reads
<1> QED BY <1>1, <1>2, CutType

\* The append of a line, whether or not append() returns.
LEMMA LinesAppend ==
  ASSUME SpillTypeOK, Lines, NEW s \in Spans, file' = file \o Line(s), consumed' = consumed
  PROVE  /\ Lines' /\ ~Passed(file', consumed', s)
         /\ \A t : ~Passed(file, consumed, t) => ~Passed(file', consumed', t)
<1>1. PICK n, o, sp, i : Cut(n, o, sp, i)
  BY DEF Lines
<1>2. LineLen \in [Spans -> Nat \ {0, 1}] /\ file \in Seq(Byte) /\ Line(s) \in Seq(Byte)
  BY LineLenAssumption, LineType DEF SpillTypeOK
<1>3. Line(s) = LineOf(LineLen, s)
  BY DEF Line, LineOf
<1>4. PICK p, q : Longer(file', LineLen, n, o, sp, s, p, q)
  <2>1. LineOf(LineLen, s) \in Seq(Byte)
    BY <1>2, <1>3
  <2>2. Laid(file, LineLen, n, o, sp)
    BY <1>1, CutType
  <2>3. \E p, q : Longer(file \o LineOf(LineLen, s), LineLen, n, o, sp, s, p, q)
    BY <2>1, <2>2, <1>2, LaidAppend
  <2> QED BY <2>3, <1>3
<1>5. Lines'
  <2>1. i \in 0..n /\ i \in 0..(n+1) /\ consumed = o[i]
    BY <1>1, CutType
  <2>2. p[i] = o[i] /\ Laid(file', LineLen, n + 1, p, q)
    BY <1>4, <2>1 DEF Longer
  <2>3. Cut(n + 1, p, q, i)'
    BY <2>1, <2>2 DEF Cut
  <2> QED BY <2>3 DEF Lines
<1>6. PICK e \in Nat, L \in Nat \ {0, 1} : e = Len(file) /\ L = LineLen[s]
  BY <1>2, LineType, LenProperties
<1>7. L \in 0..LineLen[s] /\ file' = file \o SubSeq(Line(s), 1, L)
  <2>1. L \in 0..LineLen[s] /\ L = LineLen[s]
    BY <1>6
  <2>2. SubSeq(Line(s), 1, L) = Line(s)
    BY <2>1, PrefixType
  <2> QED BY <2>1, <2>2
<1>8. Adds(file', e, s, L)
  <2>1. PICK g : g = file'
    OBVIOUS
  <2>2. Adds(g, e, s, L)
    BY <1>6, <1>7, <2>1, BytesAdded
  <2> QED BY <2>1, <2>2
<1>9. PICK c \in Nat : c = consumed /\ c <= e
  BY <1>6, LinesOnly DEF SpillTypeOK
<1>10. ~Passed(file', consumed', s)
  <2>1. e + 1 \in (e + 1)..(e + L) /\ e + 1 \in 1..(e + L) /\ (e + 1) - e = 1 /\ ~(e + 1 <= c)
    BY <1>9
  <2>2. file'[e + 1] = <<s, 1>> /\ Len(file') = e + L
    BY <1>8, <2>1 DEF Adds
  <2> QED BY <2>1, <2>2, <1>9 DEF Passed
<1>11. ASSUME NEW t, ~Passed(file, consumed, t)
       PROVE  ~Passed(file', consumed', t)
  <2>1. PICK r \in 1..e : file[r] = <<t, 1>> /\ ~(r <= c)
    BY <1>6, <1>9, <1>11 DEF Passed
  <2>2. r \in 1..(e + L)
    OBVIOUS
  <2>3. file'[r] = <<t, 1>> /\ Len(file') = e + L
    BY <1>8, <2>1 DEF Adds
  <2> QED BY <2>1, <2>2, <2>3, <1>9 DEF Passed
<1> QED BY <1>5, <1>10, <1>11

\* The cursor passes one line, that of the span taken.
LEMMA LinesTake ==
  ASSUME SpillTypeOK, Lines, NEW s \in Spans, Take(s)
  PROVE  /\ Lines'
         /\ \A t : t # s /\ ~Passed(file, consumed, t) => ~Passed(file', consumed', t)
<1>1. PICK n, o, sp, i : Cut(n, o, sp, i)
  BY DEF Lines
<1>2. Parses(NextLine, s) /\ consumed' = consumed + Len(NextLine) /\ file' = file
  BY DEF Take
<1>3. i # n /\ i \in 0..(n-1) /\ i + 1 \in 0..n
  <2>1. consumed + 1 <= Len(file) /\ consumed \in Nat /\ Len(file) \in Nat
    BY <1>2, ParsesFirst, LenProperties DEF SpillTypeOK
  <2>2. i # n
    BY <2>1, <1>1, CutType
  <2>3. n \in Nat /\ i \in 0..(n-1)
    BY <2>2, <1>1, CutType
  <2> QED BY <2>2, <2>3
<1>4. s = sp[i+1] /\ NextLine = Line(s)
  <2>1. Reads(sp[i+1])
    BY <1>1, <1>3, CutType, NextLineIs
  <2> QED BY <2>1, <1>2 DEF Reads
<1>5. LiesAt(file, LineLen, n, o, sp, i)
  BY <1>1, <1>3, CutType, LineLenAssumption, LaidLine
<1>6. PICK a \in Nat, L \in Nat \ {0, 1} : a = o[i] /\ L = LineLen[s]
  BY <1>5, LineType DEF LiesAt
<1>7. /\ o[i+1] = a + L /\ consumed = a /\ consumed' = a + L
      /\ \A k \in 1..L : file[a + k] = <<s, k>>
  BY <1>1, <1>2, <1>4, <1>5, <1>6, LineType, CutType DEF LiesAt
<1>8. Lines'
  <2>1. Cut(n, o, sp, i + 1)'
    BY <1>1, <1>2, <1>3, <1>7 DEF Cut
  <2> QED BY <2>1 DEF Lines
<1>9. ASSUME NEW t, t # s, ~Passed(file, consumed, t)
      PROVE  ~Passed(file', consumed', t)
  <2>1. PICK r \in 1..Len(file) : file[r] = <<t, 1>> /\ ~(r <= a)
    BY <1>7, <1>9 DEF Passed
  <2>2. r \in Nat
    OBVIOUS
  <2>3. ASSUME r <= a + L PROVE FALSE
    <3>1. PICK k \in 1..L : a + k = r
      <4>1. r - a \in 1..L /\ a + (r - a) = r
        BY <2>1, <2>2, <2>3
      <4> QED BY <4>1
    <3>2. <<s, k>> = <<t, 1>>
      BY <3>1, <2>1, <1>7
    <3>3. <<s, k>>[1] = s /\ <<t, 1>>[1] = t
      OBVIOUS
    <3> QED BY <3>2, <3>3, <1>9
  <2> QED BY <2>1, <2>3, <1>2, <1>7 DEF Passed
<1> QED BY <1>8, <1>9

\* The file is truncated where the cursor has passed everything.
LEMMA LinesCompact ==
  ASSUME SpillTypeOK, Lines, Compact
  PROVE  Lines' /\ \A t : ~Passed(file, consumed, t) => ~Passed(file', consumed', t)
<1>1. CASE consumed >= Len(file)
  <2>1. file' = <<>> /\ consumed' = 0
    BY <1>1 DEF Compact
  <2>2. PICK o, sp : Laid(<<>>, LineLen, 0, o, sp) /\ o[0] = 0
    BY LineLenAssumption, LaidEmpty
  <2>3. Cut(0, o, sp, 0)'
    BY <2>1, <2>2 DEF Cut
  <2>4. \A t : Passed(file, consumed, t)
    <3>1. consumed \in Nat /\ Len(file) \in Nat
      BY LenProperties DEF SpillTypeOK
    <3>2. \A p \in 1..Len(file) : p <= consumed
      BY <3>1, <1>1
    <3> QED BY <3>2 DEF Passed
  <2> QED BY <2>3, <2>4 DEF Lines
<1>2. CASE ~(consumed >= Len(file))
  <2>1. file' = file /\ consumed' = consumed
    BY <1>2 DEF Compact
  <2> QED BY <2>1 DEF Lines, Cut
<1> QED BY <1>1, <1>2

\* What the cursor has not passed is stored from it on.
LEMMA LinesStored ==
  ASSUME SpillTypeOK, Lines, NEW s \in Spans, ~Passed(file, consumed, s)
  PROVE  StoredFrom(consumed, s)
<1>1. PICK n, o, sp, i : Cut(n, o, sp, i)
  BY DEF Lines
<1>2. /\ Laid(file, LineLen, n, o, sp) /\ consumed = o[i]
      /\ n \in Nat /\ i \in 0..n /\ o \in [0..n -> Nat] /\ o[0] = 0 /\ o[n] = Len(file)
  BY <1>1, CutType
<1>3. PICK p \in 1..Len(file) : file[p] = <<s, 1>> /\ ~(p <= consumed)
  BY DEF Passed
<1>4. p \in Nat \ {0} /\ p <= Len(file) /\ Len(file) \in Nat
  BY LenProperties DEF SpillTypeOK
<1> DEFINE T == {m \in 0..n : p <= o[m]}
<1>5. PICK m \in T : \A k \in T : m <= k
  <2>1. n \in T /\ T \subseteq Nat
    BY <1>2, <1>4
  <2> HIDE DEF T
  <2> QED BY <2>1, Least
<1>6. m \in 0..n /\ p <= o[m] /\ m # 0
  BY <1>2, <1>4, <1>5
<1>7. PICK j \in 0..(n-1) : j + 1 = m
  <2>1. m - 1 \in 0..(n-1) /\ (m - 1) + 1 = m
    BY <1>2, <1>6
  <2> QED BY <2>1
<1>8. j \in 0..n /\ ~(p <= o[j])
  <2>1. j \in 0..n /\ ~(m <= j)
    BY <1>2, <1>7
  <2>2. j \notin T
    BY <2>1, <1>5
  <2> QED BY <2>1, <2>2
<1>9. LiesAt(file, LineLen, n, o, sp, j)
  BY <1>2, LineLenAssumption, LaidLine
<1>10. PICK t \in Spans, a \in Nat, L \in Nat \ {0, 1} : t = sp[j+1] /\ a = o[j] /\ L = LineLen[t]
  <2>1. sp[j+1] \in Spans /\ o[j] \in Nat
    BY <1>9, LineLenAssumption DEF LiesAt
  <2> QED BY <2>1, LineType
<1>11. o[m] = a + L /\ \A k \in 1..L : file[a + k] = <<t, k>>
  BY <1>7, <1>9, <1>10 DEF LiesAt
<1>12. PICK k \in 1..L : a + k = p
  <2>1. p - a \in 1..L /\ a + (p - a) = p
    BY <1>4, <1>6, <1>8, <1>10, <1>11
  <2> QED BY <2>1
<1>13. t = s /\ k = 1
  <2>1. <<t, k>> = <<s, 1>>
    BY <1>3, <1>11, <1>12
  <2>2. <<t, k>>[1] = t /\ <<s, 1>>[1] = s /\ <<t, k>>[2] = k /\ <<s, 1>>[2] = 1
    OBVIOUS
  <2> QED BY <2>1, <2>2
<1>14. j \in i..(n-1)
  <2>1. PICK b \in Nat : b = o[i]
    BY <1>2
  <2>2. b <= a
    BY <1>2, <1>3, <1>4, <1>12, <1>13, <2>1
  <2>3. ASSUME j < i PROVE FALSE
    <3>1. o[j] < o[i]
      BY <2>3, <1>2, <1>8, LineLenAssumption, LaidOrder
    <3> QED BY <3>1, <2>1, <2>2, <1>10
  <2> QED BY <2>3, <1>2
<1>15. StoredFrom(o[i], sp[j+1])
  BY <1>2, <1>14, StoredLine
<1> QED BY <1>2, <1>10, <1>13, <1>15
=============================================================================
