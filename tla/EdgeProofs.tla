----------------------------- MODULE EdgeProofs -----------------------------
(***************************************************************************)
(* What comes in and what goes out. Collector, for every set of requests,   *)
(* whatever they contain, and every number of attempts; Report, for every   *)
(* crosswalk, every set of events and every number of failures; Recorder,   *)
(* for all threads, operations and spans.                                   *)
(***************************************************************************)
EXTENDS Collector, Recorder, Report, MerkleTheorems

(***************************************************************************)
(* The inductive invariant.  A handler goes through its steps in one        *)
(* direction: what it has forked, what it has sent and what its client was  *)
(* told follow from where it is.                                           *)
(***************************************************************************)
Labels == {"none", "accept", "fork", "forward", "wait", "respond", "done"}

Types ==
    /\ contents \in [Requests -> Contents]
    /\ handler \in [Attempts -> [pc : Labels, forked : Nat, status : Nat]]
    /\ sent \subseteq Attempts
    /\ answer \in [DOMAIN answer -> Nat] /\ DOMAIN answer \subseteq Attempts
    /\ said \in [DOMAIN said -> Nat] /\ DOMAIN said \subseteq sent

\* The spans of an attempt that were submitted so far, each in one place.
CopyOf(a, n) == <<a, n, SpansOf(a)[n]>>

ForkInv ==
    /\ \A a \in Attempts : handler[a].forked <= Len(SpansOf(a))
    /\ \A c \in taken \cup dropped :
          /\ c[1] \in Attempts /\ c[2] \in 1..handler[c[1]].forked
          /\ c = CopyOf(c[1], c[2])
    /\ \A a \in Attempts : \A n \in 1..handler[a].forked : CopyOf(a, n) \in taken \cup dropped
    /\ taken \cap dropped = {}

\* All spans of the attempt were submitted.
Whole(a) == handler[a].forked = Len(SpansOf(a))

StepOk(a) ==
    LET pc == handler[a].pc  status == handler[a].status IN
    /\ pc \in {"none", "accept"} => handler[a].forked = 0
    /\ pc = "none" => a \notin DOMAIN answer
    /\ pc \in {"none", "accept", "fork", "forward"} => a \notin sent
    /\ pc = "forward" => Content(a).via = "http"
    /\ pc \in {"forward", "wait", "respond"} \/ a \in sent => Whole(a)
    /\ pc = "wait" => a \in sent
    /\ pc = "respond" =>
          \/ status = 200 /\ (HasBackend /\ Content(a).via = "http" => a \in DOMAIN said /\ said[a] = 200)
          \/ status = 502 /\ a \in sent
    /\ a \in DOMAIN answer /\ answer[a] # Proxy!Lost => pc = "done"
    /\ a \in DOMAIN answer /\ answer[a] \in {200, 502} => Whole(a)
    /\ a \in DOMAIN answer /\ answer[a] \in {401, 404} =>
          a \notin sent /\ handler[a].forked = 0

StepInv == \A a \in Attempts : StepOk(a)

CInv == Types /\ ForkInv /\ StepInv

----------------------------------------------------------------------------
(* Lemmas about the operators.                                              *)

\* The spans of an attempt are a sequence, whatever the message.
LEMMA SpansType ==
    ASSUME NEW a \in Attempts, Content(a) \in Contents
    PROVE  Len(SpansOf(a)) \in Nat /\ DOMAIN SpansOf(a) = 1..Len(SpansOf(a))
<1> DEFINE body == Content(a).body
<1>1. CASE body = Malformed
  BY <1>1, EmptySeq DEF SpansOf
<1>2. CASE body # Malformed
  <2> DEFINE ofScope(i, spans) == [k \in DOMAIN spans |->
                                     [name |-> spans[k], resource |-> body[i].resource]]
             scopes(i) == [j \in DOMAIN body[i].scopes |-> ofScope(i, body[i].scopes[j])]
             flat == [i \in DOMAIN body |-> FlattenSeq(scopes(i))]
             Copies == UNION {UNION {{[name |-> body[i].scopes[j][k], resource |-> body[i].resource] :
                                      k \in DOMAIN body[i].scopes[j]} :
                               j \in DOMAIN body[i].scopes} : i \in DOMAIN body}
  <2>1. body \in Seq(ToSet(body))
        /\ \A r \in ToSet(body) : /\ r.scopes \in Seq(ToSet(r.scopes))
                                  /\ \A spans \in ToSet(r.scopes) : spans \in Seq(ToSet(spans))
    BY <1>2, CollectorAssumption DEF IsSequence
  <2>2. ASSUME NEW i \in DOMAIN body
        PROVE  FlattenSeq(scopes(i)) \in Seq(Copies)
    <3>1. body[i] \in ToSet(body)
      BY <2>2 DEF ToSet
    <3>2. body[i].scopes \in Seq(ToSet(body[i].scopes))
      BY <2>1, <3>1
    <3>3. ASSUME NEW j \in DOMAIN body[i].scopes
          PROVE  ofScope(i, body[i].scopes[j]) \in Seq(Copies)
      <4>1. body[i].scopes[j] \in ToSet(body[i].scopes)
        BY <3>3 DEF ToSet
      <4> DEFINE spans == body[i].scopes[j]
      <4>2. spans \in Seq(ToSet(spans))
        BY <2>1, <3>1, <4>1
      <4>3. DOMAIN spans = 1..Len(spans) /\ Len(spans) \in Nat
        BY <4>2, LenProperties
      <4>4. \A k \in DOMAIN spans :
                [name |-> spans[k], resource |-> body[i].resource] \in Copies
        OBVIOUS
      <4> HIDE DEF Copies
      <4> QED
        BY <4>3, <4>4, SeqDef
    <3>4. DOMAIN body[i].scopes = 1..Len(body[i].scopes) /\ Len(body[i].scopes) \in Nat
      BY <3>2, LenProperties
    <3>5. scopes(i) \in Seq(Seq(Copies))
      <4> HIDE DEF Copies, ofScope
      <4> QED
        BY <3>3, <3>4, SeqDef
    <3> QED
      BY <3>5, FlattenType
  <2>3. DOMAIN body = 1..Len(body) /\ Len(body) \in Nat
    BY <2>1, LenProperties
  <2>4. flat \in Seq(Seq(Copies))
    <3> HIDE DEF Copies, scopes
    <3> QED
      BY <2>2, <2>3, SeqDef
  <2>5. FlattenSeq(flat) \in Seq(Copies)
    BY <2>4, FlattenType
  <2>6. SpansOf(a) = FlattenSeq(flat)
    BY <1>2 DEF SpansOf, RequestToSpans
  <2> QED
    BY <2>5, <2>6, LenProperties
<1> QED
  BY <1>1, <1>2

\* The content of an attempt is that of one of the requests.
LEMMA ContentType ==
    ASSUME Types, NEW a \in Attempts
    PROVE  /\ Content(a) \in Contents
           /\ Len(SpansOf(a)) \in Nat /\ DOMAIN SpansOf(a) = 1..Len(SpansOf(a))
<1>1. Content(a) \in Contents
  BY DEF Types, Attempts, Content
<1> QED
  BY <1>1, SpansType

\* No step changes what a request is, and so neither its spans.
LEMMA SameContent ==
    ASSUME [CollectorNext]_collectorVars
    PROVE  /\ contents' = contents
           /\ \A a \in Attempts : Content(a)' = Content(a) /\ SpansOf(a)' = SpansOf(a)
           /\ \A a \in Attempts, n \in Nat : CopyOf(a, n)' = CopyOf(a, n)
<1>1. contents' = contents
  BY DEF CollectorNext, Export, Handle, Accept, Refused, SubmitSpan, LeaveFork, Forward,
         BackendAnswers, TimesOut, Respond, Backend, ClientGivesUp, StopHttp, Exit, collectorVars
<1> QED
  BY <1>1 DEF Content, SpansOf, CopyOf

\* A handler that goes on, and the others.
LEMMA GoesOnFacts ==
    ASSUME Types, NEW a \in Attempts, NEW pc \in Labels, NEW status \in Nat,
           GoesOn(a, pc, status)
    PROVE  /\ handler' \in [Attempts -> [pc : Labels, forked : Nat, status : Nat]]
           /\ handler'[a].pc = pc /\ handler'[a].status = status
           /\ handler'[a].forked = handler[a].forked
           /\ \A b \in Attempts \ {a} : handler'[b] = handler[b]
BY DEF Types, GoesOn

\* The client's answer is the first there is.
LEMMA EndsFacts ==
    ASSUME Types, NEW a \in Attempts, NEW status \in Nat, Ends(a, status)
    PROVE  /\ GoesOn(a, "done", status)
           /\ answer' \in [DOMAIN answer' -> Nat] /\ DOMAIN answer' = DOMAIN answer \cup {a}
           /\ \A b \in DOMAIN answer : answer'[b] = answer[b]
           /\ a \notin DOMAIN answer => answer'[a] = status
<1>1. GoesOn(a, "done", status)
  BY DEF Ends
<1>2. CASE a \in DOMAIN answer
  BY <1>1, <1>2 DEF Ends, Types
<1>3. CASE a \notin DOMAIN answer
  <2>1. answer' = Proxy!With(answer, {a}, status)
    BY <1>3 DEF Ends
  <2>2. answer \in [DOMAIN answer -> Nat]
    BY DEF Types
  <2>3. /\ DOMAIN answer' = DOMAIN answer \cup {a}
        /\ answer' \in [DOMAIN answer' -> Nat]
        /\ answer'[a] = status
        /\ \A x \in DOMAIN answer \ {a} : answer'[x] = answer[x]
    BY <2>1, <2>2 DEF Proxy!With
  <2> QED
    BY <1>1, <1>3, <2>3
<1> QED
  BY <1>2, <1>3

\* An attempt that a step does not touch.
Untouched(b) ==
    /\ handler'[b] = handler[b]
    /\ b \in sent' <=> b \in sent
    /\ b \in DOMAIN said => b \in DOMAIN said' /\ said'[b] = said[b]
    /\ b \in DOMAIN answer' <=> b \in DOMAIN answer
    /\ b \in DOMAIN answer => answer'[b] = answer[b]

\* A handler that does not move, while nothing it depends on changes, stays where it may be.
LEMMA StepSame ==
    ASSUME [CollectorNext]_collectorVars, NEW b \in Attempts, StepOk(b), Untouched(b)
    PROVE  StepOk(b)'
<1>1. Content(b)' = Content(b) /\ SpansOf(b)' = SpansOf(b)
  BY SameContent
<1>2. Proxy!Lost' = Proxy!Lost
  BY DEF Proxy!Lost
<1> QED
  BY <1>1, <1>2 DEF StepOk, Untouched, Whole

\* A step that submits no span.
LEMMA ForkSame ==
    ASSUME [CollectorNext]_collectorVars, Types, ForkInv, UNCHANGED <<taken, dropped>>,
           \A b \in Attempts : handler'[b].forked = handler[b].forked
    PROVE  ForkInv'
<1>1. /\ \A a \in Attempts : SpansOf(a)' = SpansOf(a)
      /\ \A a \in Attempts, n \in Nat : CopyOf(a, n)' = CopyOf(a, n)
  BY SameContent
<1>2. \A a \in Attempts : handler[a].forked \in Nat
  BY DEF Types
<1>3. \A a \in Attempts : (handler[a].forked <= Len(SpansOf(a)))'
  BY <1>1 DEF ForkInv
<1>4. \A c \in (taken \cup dropped)' :
          /\ c[1] \in Attempts /\ c[2] \in 1..handler'[c[1]].forked
          /\ c = CopyOf(c[1], c[2])'
  BY <1>1, <1>2 DEF ForkInv
<1>5. \A a \in Attempts : \A n \in 1..handler'[a].forked :
          CopyOf(a, n)' \in (taken \cup dropped)'
  BY <1>1, <1>2 DEF ForkInv
<1>6. (taken \cap dropped = {})'
  BY DEF ForkInv
<1> QED
  BY <1>3, <1>4, <1>5, <1>6 DEF ForkInv

----------------------------------------------------------------------------
(* The invariant is inductive.                                              *)

\* The first state has the invariant.
LEMMA CInit == CollectorInit => CInv
<1> SUFFICES ASSUME CollectorInit
             PROVE  CInv
  OBVIOUS
<1>1. /\ contents \in [Requests -> Contents]
      /\ handler = [a \in Attempts |-> [pc |-> "none", forked |-> 0, status |-> 0]]
      /\ taken = {} /\ dropped = {} /\ sent = {} /\ said = <<>> /\ answer = <<>>
  BY DEF CollectorInit
<1>2. DOMAIN said = {} /\ DOMAIN answer = {}
  BY <1>1
<1>3. Types
  BY <1>1, <1>2 DEF Types, Labels
<1>4. \A a \in Attempts : Len(SpansOf(a)) \in Nat
  BY <1>3, ContentType
<1> QED
  BY <1>1, <1>2, <1>3, <1>4 DEF CInv, ForkInv, StepInv, StepOk

\* Every step of a handler, of the backend and of the shutdown keeps it.
LEMMA CNext == CInv /\ [CollectorNext]_collectorVars => CInv'
<1> SUFFICES ASSUME CInv, [CollectorNext]_collectorVars
             PROVE  CInv'
  OBVIOUS
<1>1. Types /\ ForkInv /\ StepInv
  BY DEF CInv
<1>2. contents' = contents
  BY SameContent
<1>3. \A a \in Attempts : /\ Content(a)' = Content(a) /\ SpansOf(a)' = SpansOf(a)
                          /\ Len(SpansOf(a)) \in Nat /\ DOMAIN SpansOf(a) = 1..Len(SpansOf(a))
  BY <1>1, SameContent, ContentType
<1>4. ASSUME NEW a \in Attempts, NEW pc \in Labels, NEW status \in Nat,
             GoesOn(a, pc, status), UNCHANGED <<taken, dropped, said>>,
             UNCHANGED answer \/ Ends(a, status), UNCHANGED sent \/ sent' = sent \cup {a},
             StepOk(a)'
      PROVE  CInv'
  <2>1. /\ handler' \in [Attempts -> [pc : Labels, forked : Nat, status : Nat]]
        /\ handler'[a].pc = pc /\ handler'[a].status = status
        /\ handler'[a].forked = handler[a].forked
        /\ \A b \in Attempts \ {a} : handler'[b] = handler[b]
    BY <1>1, <1>4, GoesOnFacts
  <2>2. /\ answer' \in [DOMAIN answer' -> Nat] /\ DOMAIN answer' \subseteq DOMAIN answer \cup {a}
        /\ \A b \in DOMAIN answer : b \in DOMAIN answer' /\ answer'[b] = answer[b]
    BY <1>1, <1>4, EndsFacts DEF Types
  <2>3. Types'
    BY <1>1, <1>2, <1>4, <2>1, <2>2 DEF Types
  <2>4. ForkInv'
    BY <1>1, <1>4, <2>1, ForkSame
  <2>5. \A b \in Attempts \ {a} : Untouched(b)
    BY <1>4, <2>1, <2>2 DEF Untouched
  <2>6. StepInv'
    BY <1>1, <1>4, <2>5, StepSame DEF StepInv
  <2> QED
    BY <2>3, <2>4, <2>6 DEF CInv
<1>5. ASSUME NEW a \in Attempts, Export(a)
      PROVE  CInv'
  <2>1. GoesOn(a, "accept", handler[a].status) /\ handler[a].pc = "none"
    BY <1>1, <1>5 DEF Export, GoesOn, Types
  <2>2. handler[a].status \in Nat
    BY <1>1 DEF Types
  <2>3. handler'[a].pc = "accept" /\ handler'[a].forked = handler[a].forked
    BY <1>1, <2>1, <2>2, GoesOnFacts DEF Labels
  <2>4. UNCHANGED <<taken, dropped, sent, said, answer>>
    BY <1>5 DEF Export
  <2>5. StepOk(a)'
    BY <1>1, <2>1, <2>3, <2>4 DEF StepInv, StepOk
  <2> QED
    BY <1>4, <2>1, <2>2, <2>4, <2>5 DEF Labels
<1>6. ASSUME NEW a \in Attempts, Accept(a)
      PROVE  CInv'
  <2>1. handler[a].pc = "accept" /\ UNCHANGED <<taken, dropped, sent, said>>
    BY <1>6 DEF Accept
  <2>2. CASE GoesOn(a, "fork", 0) /\ UNCHANGED answer
    <3>1. handler'[a].pc = "fork" /\ handler'[a].forked = handler[a].forked
      BY <1>1, <2>2, GoesOnFacts DEF Labels
    <3>2. StepOk(a)'
      BY <1>1, <2>1, <2>2, <3>1 DEF StepInv, StepOk, Proxy!Lost
    <3> QED
      BY <1>4, <2>1, <2>2, <3>2 DEF Labels
  <2>3. ASSUME NEW status \in Nat, status \in {401, 404}, Ends(a, status)
        PROVE  CInv'
    <3>t. status \in Nat /\ Ends(a, status)
      BY <2>3
    <3>1. GoesOn(a, "done", status)
      BY <3>t DEF Ends
    <3>2. handler'[a].pc = "done" /\ handler'[a].forked = handler[a].forked
      BY <1>1, <3>t, <3>1, GoesOnFacts DEF Labels
    <3>3. /\ a \in DOMAIN answer'
          /\ a \in DOMAIN answer => answer'[a] = answer[a]
          /\ a \notin DOMAIN answer => answer'[a] = status
      BY <1>1, <3>t, EndsFacts, Zenon
    <3>4. StepOk(a)'
      BY <1>1, <2>1, <2>3, <3>2, <3>3 DEF StepInv, StepOk, Proxy!Lost
    <3> QED
      BY <1>4, <2>1, <2>3, <3>1, <3>4 DEF Labels
  <2> QED
    BY <1>6, <2>2, <2>3 DEF Accept
<1>7. ASSUME NEW a \in Attempts, Refused(a)
      PROVE  CInv'
  <2>1. /\ handler[a].pc = "accept" /\ UNCHANGED <<taken, dropped, sent, said>>
        /\ Ends(a, 0) /\ GoesOn(a, "done", 0)
    BY <1>7 DEF Refused, Proxy!Lost, Ends
  <2>2. handler'[a].pc = "done" /\ handler'[a].forked = handler[a].forked
    BY <1>1, <2>1, GoesOnFacts DEF Labels
  <2>3. /\ a \in DOMAIN answer'
        /\ a \in DOMAIN answer => answer'[a] = answer[a]
        /\ a \notin DOMAIN answer => answer'[a] = 0
    BY <1>1, <2>1, EndsFacts
  <2>4. StepOk(a)'
    BY <1>1, <2>1, <2>2, <2>3 DEF StepInv, StepOk, Proxy!Lost
  <2> QED
    BY <1>4, <2>1, <2>4 DEF Labels
<1>8. ASSUME NEW a \in Attempts, SubmitSpan(a)
      PROVE  CInv'
  <2>n. PICK n \in Nat : n = handler[a].forked + 1
    BY <1>1 DEF Types
  <2>copy. PICK copy : copy = CopyOf(a, n)
    OBVIOUS
  <2>1. /\ handler[a].pc = "fork" /\ handler[a].forked < Len(SpansOf(a))
        /\ handler' = [handler EXCEPT ![a].forked = @ + 1]
        /\ UNCHANGED <<sent, said, answer>>
        /\ \/ taken' = taken \cup {copy} /\ dropped' = dropped
           \/ dropped' = dropped \cup {copy} /\ taken' = taken
    BY <1>8, <2>n, <2>copy DEF SubmitSpan, CopyOf
  <2>2. /\ handler' \in [Attempts -> [pc : Labels, forked : Nat, status : Nat]]
        /\ handler'[a].forked = n /\ handler'[a].pc = "fork"
        /\ \A b \in Attempts \ {a} : handler'[b] = handler[b]
    <3>1. handler[a] \in [pc : Labels, forked : Nat, status : Nat]
          /\ handler \in [Attempts -> [pc : Labels, forked : Nat, status : Nat]]
      BY <1>1 DEF Types
    <3>2. handler' = [handler EXCEPT ![a] = [handler[a] EXCEPT !.forked = n]]
      BY <2>n, <2>1, <3>1
    <3>3. [handler[a] EXCEPT !.forked = n] \in [pc : Labels, forked : Nat, status : Nat]
      BY <3>1, <3>2
    <3> QED
      BY <2>1, <3>1, <3>2, <3>3
  <2>3. Types'
    BY <1>1, <1>2, <2>1, <2>2 DEF Types
  <2>4. \A b \in Attempts, m \in Nat : CopyOf(b, m)' = CopyOf(b, m)
    BY SameContent
  <2>5. \A b \in Attempts : handler[b].forked \in Nat
    BY <1>1 DEF Types
  <2>6. copy \notin taken \cup dropped
    BY <1>1, <2>n, <2>5, <2>copy DEF ForkInv, CopyOf
  <2>7. ForkInv'
    <3>1. \A b \in Attempts : (handler[b].forked <= Len(SpansOf(b)))'
      BY <1>1, <1>3, <2>n, <2>1, <2>2, <2>5 DEF ForkInv
    <3>2. \A c \in (taken \cup dropped)' : c \in taken \cup dropped \cup {copy}
      BY <2>1
    <3>3. ASSUME NEW c \in taken \cup dropped
          PROVE  c[1] \in Attempts /\ c[2] \in 1..handler'[c[1]].forked /\ c = CopyOf(c[1], c[2])'
      <4>1. c[1] \in Attempts /\ c[2] \in 1..handler[c[1]].forked /\ c = CopyOf(c[1], c[2])
        BY <1>1 DEF ForkInv
      <4>2. handler'[c[1]].forked \in {handler[c[1]].forked, handler[c[1]].forked + 1}
        BY <2>n, <2>2, <4>1
      <4> QED
        BY <2>4, <2>5, <4>1, <4>2
    <3>4. copy[1] \in Attempts /\ copy[2] \in 1..handler'[copy[1]].forked
          /\ copy = CopyOf(copy[1], copy[2])'
      <4>1. copy[1] = a /\ copy[2] = n
        BY <2>copy DEF CopyOf
      <4>2. copy = CopyOf(a, n)'
        BY <2>4, <2>copy
      <4>3. n \in 1..handler'[a].forked
        BY <2>n, <2>2, <2>5
      <4> QED
        BY <4>1, <4>2, <4>3
    <3>5. ASSUME NEW b \in Attempts, NEW m \in 1..handler'[b].forked
          PROVE  CopyOf(b, m)' \in (taken \cup dropped)'
      <4>1. m \in 1..handler[b].forked \/ (b = a /\ m = n)
        BY <2>n, <2>2, <2>5
      <4>2. m \in Nat
        BY <2>2
      <4> QED
        BY <1>1, <2>1, <2>4, <2>copy, <4>1, <4>2 DEF ForkInv
    <3>6. (taken \cap dropped = {})'
      BY <1>1, <2>1, <2>6 DEF ForkInv
    <3>7. \A c \in (taken \cup dropped)' :
             c[1] \in Attempts /\ c[2] \in 1..handler'[c[1]].forked /\ c = CopyOf(c[1], c[2])'
      BY <3>2, <3>3, <3>4
    <3> QED
      BY <3>1, <3>5, <3>6, <3>7 DEF ForkInv
  <2>8. StepOk(a)'
    BY <1>1, <2>1, <2>2 DEF StepInv, StepOk, Proxy!Lost
  <2>9. \A b \in Attempts \ {a} : Untouched(b)
    BY <2>1, <2>2 DEF Untouched
  <2> QED
    BY <1>1, <2>3, <2>7, <2>8, <2>9, StepSame DEF CInv, StepInv
<1>9. ASSUME NEW a \in Attempts, LeaveFork(a)
      PROVE  CInv'
  <2> DEFINE pc == IF Content(a).via = "http" THEN "forward" ELSE "respond"
  <2>1. /\ handler[a].pc = "fork" /\ handler[a].forked = Len(SpansOf(a))
        /\ GoesOn(a, pc, 200) /\ UNCHANGED <<taken, dropped, sent, said, answer>>
    BY <1>9 DEF LeaveFork
  <2>2. handler'[a].pc = pc /\ handler'[a].status = 200 /\ handler'[a].forked = handler[a].forked
    BY <1>1, <2>1, GoesOnFacts DEF Labels
  <2>3. StepOk(a)'
    BY <1>1, <1>3, <2>1, <2>2 DEF StepInv, StepOk, Whole, Proxy!Lost
  <2> QED
    BY <1>4, <2>1, <2>3 DEF Labels
<1>10. ASSUME NEW a \in Attempts, Forward(a)
      PROVE  CInv'
  <2>1. handler[a].pc = "forward" /\ UNCHANGED <<taken, dropped, said, answer>>
    BY <1>10 DEF Forward
  <2>2. CASE HasBackend
    <3>1. sent' = sent \cup {a} /\ GoesOn(a, "wait", 0)
      BY <1>10, <2>2 DEF Forward
    <3>2. handler'[a].pc = "wait" /\ handler'[a].forked = handler[a].forked
      BY <1>1, <3>1, GoesOnFacts DEF Labels
    <3>3. StepOk(a)'
      BY <1>1, <1>3, <2>1, <3>1, <3>2 DEF StepInv, StepOk, Whole, Proxy!Lost
    <3> QED
      BY <1>4, <2>1, <3>1, <3>3 DEF Labels
  <2>3. CASE ~HasBackend
    <3>1. sent' = sent /\ GoesOn(a, "respond", 200)
      BY <1>10, <2>3 DEF Forward
    <3>2. handler'[a].pc = "respond" /\ handler'[a].status = 200
          /\ handler'[a].forked = handler[a].forked
      BY <1>1, <3>1, GoesOnFacts DEF Labels
    <3>3. StepOk(a)'
      BY <1>1, <1>3, <2>1, <2>3, <3>1, <3>2 DEF StepInv, StepOk, Whole, Proxy!Lost
    <3> QED
      BY <1>4, <2>1, <3>1, <3>3 DEF Labels
  <2> QED
    BY <2>2, <2>3
<1>11. ASSUME NEW a \in Attempts, BackendAnswers(a) \/ TimesOut(a)
      PROVE  CInv'
  <2>1. PICK status \in {200, 502} :
            /\ handler[a].pc = "wait" /\ UNCHANGED <<taken, dropped, sent, said, answer>>
            /\ GoesOn(a, "respond", status)
            /\ status = 200 => a \in DOMAIN said /\ said[a] = 200
    BY <1>11 DEF BackendAnswers, TimesOut
  <2>2. handler'[a].pc = "respond" /\ handler'[a].status = status
        /\ handler'[a].forked = handler[a].forked
    BY <1>1, <2>1, GoesOnFacts DEF Labels
  <2>3. StepOk(a)'
    BY <1>1, <1>3, <2>1, <2>2 DEF StepInv, StepOk, Whole, Proxy!Lost
  <2> QED
    BY <1>4, <2>1, <2>3 DEF Labels
<1>12. ASSUME NEW a \in Attempts, Respond(a)
      PROVE  CInv'
  <2> DEFINE status == handler[a].status
  <2>1. /\ handler[a].pc = "respond" /\ UNCHANGED <<taken, dropped, sent, said>>
        /\ Ends(a, status) /\ GoesOn(a, "done", status)
    BY <1>12 DEF Respond, Ends
  <2>2. status \in {200, 502}
    BY <1>1, <2>1 DEF StepInv, StepOk
  <2> HIDE DEF status
  <2>3. handler'[a].pc = "done" /\ handler'[a].forked = handler[a].forked
    BY <1>1, <2>1, <2>2, GoesOnFacts DEF Labels
  <2>4. /\ a \in DOMAIN answer'
        /\ a \in DOMAIN answer => answer'[a] = answer[a]
        /\ a \notin DOMAIN answer => answer'[a] = status
    <3>1. status \in Nat
      BY <2>2
    <3> QED
      BY <1>1, <2>1, <3>1, EndsFacts, Zenon
  <2>5. StepOk(a)'
    BY <1>1, <1>3, <2>1, <2>2, <2>3, <2>4 DEF StepInv, StepOk, Whole, Proxy!Lost
  <2> QED
    BY <1>4, <2>1, <2>2, <2>5 DEF Labels
<1>13. ASSUME UNCHANGED <<handler, taken, dropped, sent>>,
              said' \in [DOMAIN said' -> Nat], DOMAIN said' \subseteq sent,
              \A b \in DOMAIN said : b \in DOMAIN said' /\ said'[b] = said[b],
              answer' \in [DOMAIN answer' -> Nat], DOMAIN answer' \subseteq Attempts,
              \A b \in DOMAIN answer : b \in DOMAIN answer' /\ answer'[b] = answer[b],
              \A b \in DOMAIN answer' \ DOMAIN answer : answer'[b] = 0 /\ handler[b].pc # "none"
       PROVE  CInv'
  <2>1. Types'
    BY <1>1, <1>2, <1>13 DEF Types
  <2>2. ForkInv'
    BY <1>1, <1>13, ForkSame
  <2>3. ASSUME NEW b \in Attempts
        PROVE  StepOk(b)'
    <3>1. CASE b \in DOMAIN answer' <=> b \in DOMAIN answer
      <4>1. Untouched(b)
        BY <1>13, <3>1 DEF Untouched
      <4> QED
        BY <1>1, <4>1, StepSame DEF StepInv
    <3>2. CASE b \in DOMAIN answer' /\ b \notin DOMAIN answer
      BY <1>1, <1>3, <1>13, <3>2 DEF StepInv, StepOk, Whole, Proxy!Lost
    <3> QED
      BY <1>13, <3>1, <3>2
  <2> QED
    BY <2>1, <2>2, <2>3 DEF CInv, StepInv
<1>14. ASSUME NEW a \in Attempts, Backend(a)
       PROVE  CInv'
  <2>1. PICK status \in {200, 503} : said' = Proxy!With(said, {a}, status)
    BY <1>14 DEF Backend
  <2>2. /\ a \in sent /\ a \notin DOMAIN said
        /\ UNCHANGED <<handler, taken, dropped, sent, answer>>
        /\ said \in [DOMAIN said -> Nat] /\ DOMAIN said \subseteq sent
        /\ answer \in [DOMAIN answer -> Nat] /\ DOMAIN answer \subseteq Attempts
    BY <1>1, <1>14 DEF Backend, Types
  <2>3. /\ said' \in [DOMAIN said' -> Nat] /\ DOMAIN said' \subseteq sent
        /\ \A b \in DOMAIN said : b \in DOMAIN said' /\ said'[b] = said[b]
    BY <2>1, <2>2 DEF Proxy!With
  <2> QED
    BY <1>13, <2>2, <2>3
<1>15. ASSUME NEW a \in Attempts, ClientGivesUp(a)
       PROVE  CInv'
  <2>1. /\ handler[a].pc # "none" /\ a \notin DOMAIN answer
        /\ answer' = Proxy!With(answer, {a}, 0)
        /\ UNCHANGED <<handler, taken, dropped, sent, said>>
        /\ said \in [DOMAIN said -> Nat] /\ DOMAIN said \subseteq sent
        /\ answer \in [DOMAIN answer -> Nat] /\ DOMAIN answer \subseteq Attempts
    BY <1>1, <1>15 DEF ClientGivesUp, Waiting, Proxy!Lost, Types
  <2>2. /\ answer' \in [DOMAIN answer' -> Nat] /\ DOMAIN answer' \subseteq Attempts
        /\ \A b \in DOMAIN answer : b \in DOMAIN answer' /\ answer'[b] = answer[b]
        /\ \A b \in DOMAIN answer' \ DOMAIN answer : answer'[b] = 0 /\ handler[b].pc # "none"
    BY <2>1 DEF Proxy!With
  <2> QED
    BY <1>13, <2>1, <2>2
<1>16. CASE StopHttp \/ UNCHANGED collectorVars
  <2>1. UNCHANGED <<contents, handler, taken, dropped, sent, said, answer>>
    BY <1>16 DEF StopHttp, collectorVars
  <2>2. Types'
    BY <1>1, <2>1 DEF Types
  <2>3. ForkInv'
    BY <1>1, <2>1, ForkSame
  <2>4. StepInv'
    BY <1>1, <2>1, StepSame DEF StepInv, Untouched
  <2> QED
    BY <2>2, <2>3, <2>4 DEF CInv
<1>17. CASE Exit
  <2> DEFINE running == {a \in Attempts : handler[a].pc \notin {"none", "accept", "done"}}
             lost == running \ DOMAIN answer
  <2>1. /\ handler' = [a \in Attempts |-> IF a \in running THEN [handler[a] EXCEPT !.pc = "done"]
                                            ELSE handler[a]]
        /\ answer' = Proxy!With(answer, lost, 0)
        /\ UNCHANGED <<taken, dropped, sent, said>>
    BY <1>17 DEF Exit, Proxy!Lost
  <2>2. handler \in [Attempts -> [pc : Labels, forked : Nat, status : Nat]]
        /\ answer \in [DOMAIN answer -> Nat] /\ DOMAIN answer \subseteq Attempts
    BY <1>1 DEF Types
  <2>3. ASSUME NEW a \in Attempts
        PROVE  /\ handler'[a] \in [pc : Labels, forked : Nat, status : Nat]
               /\ handler'[a].forked = handler[a].forked
               /\ a \in running => handler'[a].pc = "done"
               /\ a \notin running => handler'[a] = handler[a]
    BY <2>1, <2>2 DEF Labels
  <2>4. handler' \in [Attempts -> [pc : Labels, forked : Nat, status : Nat]]
    BY <2>1, <2>3
  <2>5. /\ answer' \in [DOMAIN answer' -> Nat] /\ DOMAIN answer' = DOMAIN answer \cup lost
        /\ \A a \in DOMAIN answer : answer'[a] = answer[a]
        /\ \A a \in lost : answer'[a] = 0
    BY <2>1, <2>2 DEF Proxy!With
  <2>6. Types'
    BY <1>1, <1>2, <2>1, <2>4, <2>5 DEF Types
  <2>7. ForkInv'
    BY <1>1, <2>1, <2>3, ForkSame
  <2>8. ASSUME NEW a \in Attempts
        PROVE  StepOk(a)'
    <3>1. CASE a \notin running
      <4>1. Untouched(a)
        BY <2>1, <2>3, <2>5, <3>1 DEF Untouched
      <4> QED
        BY <1>1, <4>1, StepSame DEF StepInv
    <3>2. CASE a \in running
      <4>1. /\ a \in DOMAIN answer' /\ handler'[a].pc = "done"
            /\ handler'[a].forked = handler[a].forked /\ handler[a].pc # "done"
            /\ answer'[a] = 0 \/ (a \in DOMAIN answer /\ answer'[a] = answer[a])
        BY <2>3, <2>5, <3>2
      <4> QED
        BY <1>1, <1>3, <2>1, <4>1 DEF StepInv, StepOk, Whole, Proxy!Lost
    <3> QED
      BY <3>1, <3>2
  <2> QED
    BY <2>6, <2>7, <2>8 DEF CInv, StepInv
<1> QED
  BY <1>5, <1>6, <1>7, <1>8, <1>9, <1>10, <1>11, <1>12, <1>14, <1>15, <1>16, <1>17
  DEF CollectorNext, Handle

StageType == stage \in {"up", "closed", "down"}

\* The shutdown goes through its stages.
LEMMA StageNext == StageType /\ [CollectorNext]_collectorVars => StageType'
<1> SUFFICES ASSUME StageType, [CollectorNext]_collectorVars
             PROVE  StageType'
  OBVIOUS
<1>1. ASSUME NEW a \in Attempts, Export(a) \/ Handle(a) \/ Backend(a) \/ ClientGivesUp(a)
      PROVE  stage' = stage
  <2>1. CASE Export(a) \/ Backend(a) \/ ClientGivesUp(a)
    BY <2>1 DEF Export, Backend, ClientGivesUp
  <2>2. CASE Handle(a)
    BY <2>2 DEF Handle, Accept, Refused, SubmitSpan, LeaveFork, Forward, BackendAnswers,
                TimesOut, Respond
  <2> QED
    BY <1>1, <2>1, <2>2
<1>2. StopHttp => stage' = "closed"
  BY DEF StopHttp
<1>3. Exit => stage' = "down"
  BY DEF Exit
<1>4. UNCHANGED collectorVars => stage' = stage
  BY DEF collectorVars
<1> QED
  BY <1>1, <1>2, <1>3, <1>4 DEF CollectorNext, StageType

\* The type invariant follows.
LEMMA CTypeOK == CInv /\ StageType => CollectorTypeOK
<1> SUFFICES ASSUME CInv, StageType
             PROVE  CollectorTypeOK
  OBVIOUS
<1>1. Types /\ ForkInv
  BY DEF CInv
<1>2. ASSUME NEW a \in Attempts
      PROVE  handler[a].pc \in Labels /\ handler[a].forked \in 0..Len(SpansOf(a))
  BY <1>1, ContentType DEF Types, ForkInv
<1>3. \A c \in taken \cup dropped : c[1] \in Attempts /\ SpansOf(c[1])[c[2]] = c[3]
  <2> SUFFICES ASSUME NEW c \in taken \cup dropped
               PROVE  c[1] \in Attempts /\ SpansOf(c[1])[c[2]] = c[3]
    OBVIOUS
  <2>1. c[1] \in Attempts /\ c = <<c[1], c[2], SpansOf(c[1])[c[2]]>>
    BY <1>1 DEF ForkInv, CopyOf
  <2> QED
    BY <2>1
<1> QED
  BY <1>1, <1>2, <1>3 DEF CollectorTypeOK, Types, Labels, StageType

\* Every variable keeps its type: a handler's count of submitted spans never passes
\* the length of the message, and only attempts that were made are sent or answered.
THEOREM TypeCorrect == CollectorSpec => []CollectorTypeOK
<1>1. CollectorInit => StageType
  BY DEF CollectorInit, StageType
<1> QED
  BY <1>1, CInit, CNext, StageNext, CTypeOK, PTL DEF CollectorSpec

\* That the fork is whole follows.
LEMMA CWhole == CInv => ForkIsWhole
<1> SUFFICES ASSUME CInv
             PROVE  ForkIsWhole
  OBVIOUS
<1>1. Types /\ ForkInv /\ StepInv
  BY DEF CInv
<1>2. ASSUME NEW a \in Attempts
      PROVE  LET copies == {<<a, n, SpansOf(a)[n]>> : n \in DOMAIN SpansOf(a)}
                 got(statuses) == a \in DOMAIN answer /\ answer[a] \in statuses
             IN  /\ got({200, 502}) \/ a \in sent => copies \subseteq taken \cup dropped
                 /\ got({401, 404}) => a \notin sent /\ \A c \in taken \cup dropped : c[1] # a
  <2>1. StepOk(a) /\ Len(SpansOf(a)) \in Nat /\ DOMAIN SpansOf(a) = 1..Len(SpansOf(a))
    BY <1>1, ContentType DEF StepInv
  <2>2. Whole(a) => \A n \in DOMAIN SpansOf(a) : <<a, n, SpansOf(a)[n]>> \in taken \cup dropped
    BY <1>1, <2>1 DEF ForkInv, Whole, CopyOf
  <2>3. handler[a].forked = 0 => \A c \in taken \cup dropped : c[1] # a
    BY <1>1 DEF ForkInv
  <2> QED
    BY <2>1, <2>2, <2>3 DEF StepOk
<1> QED
  BY <1>1, <1>2 DEF ForkIsWhole, ForkInv

\* http_server.py:48-62, for every request and in every interleaving of handlers,
\* clients that give up, timeouts and the end of the process: an attempt that is told
\* that it got past the checks, or that was sent to the backend, has every span of the
\* message in the evidence, as taken over or as a counted drop, and one that was
\* rejected has none.
THEOREM ForkComplete == CollectorSpec => []ForkIsWhole
<1> QED
  BY CInit, CNext, CWhole, PTL DEF CollectorSpec

----------------------------------------------------------------------------
(* The collector is a TelemetryProxy.                                       *)

\* The first state of the collector is one of the proxy.
LEMMA ProxyInit == CollectorInit => Proxy!Init
<1> SUFFICES ASSUME CollectorInit
             PROVE  Proxy!Init
  OBVIOUS
<1>1. Waiting = {}
  BY DEF CollectorInit, Waiting
<1> QED
  BY <1>1 DEF CollectorInit, Proxy!Init

\* Each step of the collector is one of the proxy or none.
LEMMA ProxyNext == CInv /\ [CollectorNext]_collectorVars => [Proxy!Next]_(Proxy!vars)
<1> SUFFICES ASSUME CInv, [CollectorNext]_collectorVars
             PROVE  [Proxy!Next]_(Proxy!vars)
  OBVIOUS
<1>1. Types /\ ForkInv /\ StepInv
  BY DEF CInv
<1> DEFINE proxied == {a \in Attempts : HasBackend /\ Content(a).via = "http"}
<1>2. proxied' = proxied
  BY SameContent
<1>3. ASSUME UNCHANGED <<sent, said, answer>>, Waiting' = Waiting
      PROVE  [Proxy!Next]_(Proxy!vars)
  BY <1>2, <1>3 DEF Proxy!vars
<1>4. ASSUME NEW a \in Attempts, NEW pc \in Labels, NEW status \in Nat,
             GoesOn(a, pc, status), handler[a].pc # "none", pc # "none"
      PROVE  {b \in Attempts : handler'[b].pc # "none"} = {b \in Attempts : handler[b].pc # "none"}
  BY <1>1, <1>4, GoesOnFacts
\* A handler goes on and nobody is answered.
<1>5. ASSUME NEW a \in Attempts, NEW pc \in Labels, NEW status \in Nat,
             GoesOn(a, pc, status), handler[a].pc # "none", pc # "none",
             UNCHANGED <<sent, said, answer>>
      PROVE  [Proxy!Next]_(Proxy!vars)
  <2>1. Waiting' = Waiting
    BY <1>4, <1>5 DEF Waiting
  <2> QED
    BY <1>3, <1>5, <2>1
\* A handler ends: its client is answered, or has gone.
<1>6. ASSUME NEW a \in Attempts, NEW status \in Nat,
             Ends(a, status), handler[a].pc # "none", UNCHANGED <<sent, said>>,
             \/ status \in {401, 404} /\ a \notin sent
             \/ status = 200 /\ a \notin proxied
             \/ status = 200 /\ a \in DOMAIN said /\ said[a] = 200
             \/ status = 502 /\ a \in sent
             \/ status = 0
      PROVE  [Proxy!Next]_(Proxy!vars)
  <2>1. GoesOn(a, "done", status)
    BY <1>6 DEF Ends
  <2>2. CASE a \in DOMAIN answer
    <3>1. answer' = answer
      BY <1>6, <2>2 DEF Ends
    <3> QED
      BY <1>5, <1>6, <2>1, <3>1 DEF Labels
  <2>3. CASE a \notin DOMAIN answer
    <3>1. answer' = Proxy!With(answer, {a}, status)
      BY <1>6, <2>3 DEF Ends
    <3>2. DOMAIN answer' = DOMAIN answer \cup {a}
      BY <3>1 DEF Proxy!With
    <3>3. Waiting' = Waiting \ {a} /\ a \in Waiting
      BY <1>4, <1>6, <2>1, <2>3, <3>2 DEF Waiting, Labels
    <3>4. CASE status = 0
      <4>1. Proxy!Lose({a})
        BY <1>2, <1>6, <3>1, <3>3, <3>4 DEF Proxy!Lose, Proxy!Lost
      <4>2. {a} \in (SUBSET Waiting) \ {{}}
        BY <3>3
      <4> QED
        BY <4>1, <4>2 DEF Proxy!Next
    <3>5. CASE status # 0
      <4>1. Proxy!Answer(a, status)
        BY <1>2, <1>6, <3>1, <3>3, <3>5 DEF Proxy!Answer
      <4>2. status \in Proxy!Statuses
        BY <1>6, <3>5 DEF Proxy!Statuses
      <4> QED
        BY <4>1, <4>2 DEF Proxy!Next
    <3> QED
      BY <3>4, <3>5
  <2> QED
    BY <2>2, <2>3
<1>7. ASSUME NEW a \in Attempts, Export(a)
      PROVE  [Proxy!Next]_(Proxy!vars)
  <2>1. GoesOn(a, "accept", handler[a].status) /\ handler[a].pc = "none"
        /\ handler[a].status \in Nat
        /\ UNCHANGED <<sent, said, answer>>
    BY <1>1, <1>7 DEF Export, GoesOn, Types
  <2>2. handler'[a].pc = "accept" /\ \A b \in Attempts \ {a} : handler'[b] = handler[b]
    BY <1>1, <2>1, GoesOnFacts DEF Labels
  <2>3. a \notin DOMAIN answer
    BY <1>1, <2>1 DEF StepInv, StepOk
  <2>4. Waiting' = Waiting \cup {a} /\ a \notin Waiting
    BY <2>1, <2>2, <2>3 DEF Waiting
  <2>5. Proxy!Open(a)
    BY <1>2, <2>1, <2>3, <2>4 DEF Proxy!Open
  <2> QED
    BY <2>5 DEF Proxy!Next
<1>8. ASSUME NEW a \in Attempts, Handle(a)
      PROVE  [Proxy!Next]_(Proxy!vars)
  <2>1. StepOk(a)
    BY <1>1 DEF StepInv
  <2>2. CASE Accept(a)
    <3>1. a \notin sent /\ handler[a].pc # "none" /\ UNCHANGED <<sent, said>>
      BY <2>1, <2>2 DEF Accept, StepOk
    <3>2. \/ GoesOn(a, "fork", 0) /\ UNCHANGED answer
          \/ \E status \in {401, 404} : Ends(a, status)
      BY <2>2 DEF Accept
    <3>3. CASE GoesOn(a, "fork", 0) /\ UNCHANGED answer
      BY <1>5, <3>1, <3>3 DEF Labels
    <3>4. CASE Ends(a, 401) \/ Ends(a, 404)
      BY <1>6, <3>1, <3>4
    <3> QED
      BY <3>2, <3>3, <3>4
  <2>3. CASE Refused(a)
    <3>1. Ends(a, 0) /\ handler[a].pc # "none" /\ UNCHANGED <<sent, said>>
      BY <2>3 DEF Refused, Proxy!Lost
    <3> QED
      BY <1>6, <3>1
  <2>4. CASE SubmitSpan(a)
    <3>1. UNCHANGED <<sent, said, answer>>
      BY <2>4 DEF SubmitSpan
    <3>2. \A b \in Attempts : handler'[b].pc = handler[b].pc
      BY <1>1, <2>4 DEF SubmitSpan, Types
    <3>3. Waiting' = Waiting
      BY <3>1, <3>2 DEF Waiting
    <3> QED
      BY <1>3, <3>1, <3>3
  <2>5. CASE LeaveFork(a)
    <3>1. /\ GoesOn(a, "forward", 200) \/ GoesOn(a, "respond", 200)
          /\ handler[a].pc # "none" /\ UNCHANGED <<sent, said, answer>>
      BY <2>5 DEF LeaveFork
    <3> QED
      BY <1>5, <3>1 DEF Labels
  <2>6. CASE Forward(a)
    <3>1. handler[a].pc = "forward" /\ UNCHANGED <<said, answer>>
      BY <2>6 DEF Forward
    <3>2. CASE ~HasBackend
      <4>1. GoesOn(a, "respond", 200) /\ UNCHANGED sent
        BY <2>6, <3>2 DEF Forward
      <4> QED
        BY <1>5, <3>1, <4>1 DEF Labels
    <3>3. CASE HasBackend
      <4>1. GoesOn(a, "wait", 0) /\ sent' = sent \cup {a}
        BY <2>6, <3>3 DEF Forward
      <4>2. Waiting' = Waiting
        BY <1>4, <3>1, <4>1 DEF Waiting, Labels
      <4>3. a \in proxied /\ a \notin sent /\ (a \in DOMAIN answer => answer[a] = Proxy!Lost)
        BY <2>1, <3>1, <3>3 DEF StepOk
      <4>4. a \notin DOMAIN answer => a \in Waiting
        BY <3>1 DEF Waiting
      <4>5. Proxy!Send(a)
        BY <1>2, <3>1, <4>1, <4>2, <4>3, <4>4 DEF Proxy!Send
      <4> QED
        BY <4>5 DEF Proxy!Next
    <3> QED
      BY <3>2, <3>3
  <2>7. CASE BackendAnswers(a) \/ TimesOut(a)
    <3>1. /\ GoesOn(a, "respond", 200) \/ GoesOn(a, "respond", 502)
          /\ handler[a].pc # "none" /\ UNCHANGED <<sent, said, answer>>
      BY <2>7 DEF BackendAnswers, TimesOut
    <3> QED
      BY <1>5, <3>1 DEF Labels
  <2>8. CASE Respond(a)
    <3>1. handler[a].pc = "respond" /\ UNCHANGED <<sent, said>> /\ Ends(a, handler[a].status)
      BY <2>8 DEF Respond
    <3>2. handler[a].status \in Nat
      BY <1>1 DEF Types
    <3>3. \/ handler[a].status = 200 /\ (a \in proxied => a \in DOMAIN said /\ said[a] = 200)
          \/ handler[a].status = 502 /\ a \in sent
      BY <2>1, <3>1 DEF StepOk
    <3> QED
      BY <1>6, <3>1, <3>2, <3>3
  <2> QED
    BY <1>8, <2>2, <2>3, <2>4, <2>5, <2>6, <2>7, <2>8 DEF Handle
<1>9. ASSUME NEW a \in Attempts, Backend(a)
      PROVE  [Proxy!Next]_(Proxy!vars)
  <2>1. PICK status \in {200, 503} : said' = Proxy!With(said, {a}, status)
    BY <1>9 DEF Backend
  <2>2. a \in sent \ DOMAIN said /\ UNCHANGED <<handler, sent, answer>>
    BY <1>9 DEF Backend
  <2>3. Waiting' = Waiting
    BY <2>2 DEF Waiting
  <2>4. Proxy!Deliver(a, status)
    BY <1>2, <2>1, <2>2, <2>3 DEF Proxy!Deliver
  <2> QED
    BY <2>4 DEF Proxy!Next
<1>10. ASSUME NEW a \in Attempts, ClientGivesUp(a)
       PROVE  [Proxy!Next]_(Proxy!vars)
  <2>1. /\ a \in Waiting /\ answer' = Proxy!With(answer, {a}, Proxy!Lost)
        /\ UNCHANGED <<handler, sent, said>>
    BY <1>10 DEF ClientGivesUp
  <2>2. DOMAIN answer' = DOMAIN answer \cup {a}
    BY <2>1 DEF Proxy!With
  <2>3. Waiting' = Waiting \ {a}
    BY <2>1, <2>2 DEF Waiting
  <2>4. Proxy!Lose({a}) /\ {a} \in (SUBSET Waiting) \ {{}}
    BY <1>2, <2>1, <2>3 DEF Proxy!Lose
  <2> QED
    BY <2>4 DEF Proxy!Next
<1>11. CASE StopHttp \/ UNCHANGED collectorVars
  <2>1. UNCHANGED <<handler, sent, said, answer>>
    BY <1>11 DEF StopHttp, collectorVars
  <2>2. Waiting' = Waiting
    BY <2>1 DEF Waiting
  <2> QED
    BY <1>3, <2>1, <2>2
<1>12. CASE Exit
  <2> DEFINE running == {a \in Attempts : handler[a].pc \notin {"none", "accept", "done"}}
             lost == running \ DOMAIN answer
  <2>1. /\ handler' = [a \in Attempts |-> IF a \in running THEN [handler[a] EXCEPT !.pc = "done"]
                                            ELSE handler[a]]
        /\ answer' = Proxy!With(answer, lost, Proxy!Lost)
        /\ UNCHANGED <<sent, said>>
    BY <1>12 DEF Exit
  <2>2. \A a \in Attempts : handler'[a].pc = "none" <=> handler[a].pc = "none"
    BY <1>1, <2>1 DEF Types
  <2>3. DOMAIN answer' = DOMAIN answer \cup lost
    BY <2>1 DEF Proxy!With
  <2>4. Waiting' = Waiting \ lost /\ lost \subseteq Waiting
    BY <2>2, <2>3 DEF Waiting
  <2>5. CASE lost = {}
    <3>1. answer' = answer
      BY <1>1, <2>1, <2>5 DEF Proxy!With, Types
    <3> QED
      BY <1>3, <2>1, <2>4, <2>5, <3>1
  <2>6. CASE lost # {}
    <3>1. Proxy!Lose(lost)
      BY <1>2, <2>1, <2>4 DEF Proxy!Lose
    <3>2. lost \in (SUBSET Waiting) \ {{}}
      BY <2>4, <2>6
    <3> QED
      BY <3>1, <3>2 DEF Proxy!Next
  <2> QED
    BY <2>5, <2>6
<1> QED
  BY <1>7, <1>8, <1>9, <1>10, <1>11, <1>12 DEF CollectorNext

\* docs/ARCHITECTURE.md:36, for every request and in every interleaving: whatever
\* happens to evidence, each step of the collector is a step of a TelemetryProxy for
\* the clients and the backend, or none.  (That each attempt is answered is liveness.)
THEOREM ProxyImplemented == CollectorSpec => Proxy!Init /\ [][Proxy!Next]_(Proxy!vars)
<1> QED
  BY CInit, CNext, ProxyInit, ProxyNext, PTL DEF CollectorSpec

(***************************************************************************)
(* Report: what a build has read, and the files of the report scheduler.    *)
(***************************************************************************)
Rests == {"idle", "ended"}
Steps == Rests \cup {"evaluate", "sign", "build", "write"}
Tasks == [pc : Steps, name : Sizes, evaluated : Sizes, signed : Sizes, built : Sizes]

\* The reads of a task are in order, and none is of a log that there is not yet.
TaskInv ==
    /\ {task.name, task.evaluated, task.signed, task.built} \subseteq 0..Len(log)
    /\ task.pc \in {"sign", "build", "write"} => task.name <= task.evaluated
    /\ task.pc \in {"build", "write"} => task.evaluated <= task.signed
    /\ task.pc = "write" => task.signed <= task.built
    /\ scheduled /\ task.pc \notin Rests => task.name # 0

\* No complete file has a later name than the one that is being built, or covers more.
PacksInv ==
    \A n \in Complete :
        /\ scheduled
        /\ packs[n] \in Reads
        /\ n <= IF task.pc \in Rests THEN Len(log) ELSE task.name
        /\ packs[n].signed <= IF task.pc \in {"build", "write"} THEN task.signed ELSE Len(log)

RInv ==
    /\ scheduled \in BOOLEAN
    /\ log \in Seq({Committed(ev) : ev \in Templates}) /\ Len(log) <= MaxEvents
    /\ task \in Tasks
    /\ DOMAIN packs = 1..MaxEvents
    /\ faults \in 0..MaxFaults
    /\ TaskInv /\ PacksInv /\ PacksInOrder

\* What a task has read so far.
LEMMA ReadsFields ==
  ASSUME NEW t \in Tasks
  PROVE  /\ ReadsOf(t) \in Reads /\ ReadsOf(t).name = t.name /\ ReadsOf(t).evaluated = t.evaluated
         /\ ReadsOf(t).signed = t.signed /\ ReadsOf(t).built = t.built
<1>1. PICK r : r = ReadsOf(t)
  OBVIOUS
<1>2. r = [name |-> t.name, evaluated |-> t.evaluated, signed |-> t.signed, built |-> t.built]
  <2>1. r = [f \in {"name", "evaluated", "signed", "built"} |-> t[f]]
    BY <1>1 DEF ReadsOf
  <2> QED
    BY <2>1
<1>3. /\ t.name \in Sizes /\ t.evaluated \in Sizes /\ t.signed \in Sizes /\ t.built \in Sizes
  BY DEF Tasks
<1> QED
  BY <1>1, <1>2, <1>3 DEF Reads

\* Nothing is committed, built or written.
LEMMA RInit == Init => RInv
<1> SUFFICES ASSUME Init PROVE RInv
  OBVIOUS
<1>1. Complete = {}
  BY DEF Init, Complete
<1>2. 0 \in Sizes /\ MaxEvents \in Nat
  BY ReportAssumption DEF Sizes
<1> QED
  BY <1>1, <1>2, ReportAssumption DEF Init, RInv, TaskInv, PacksInv, PacksInOrder, Idle, Tasks, Steps, Rests, Sizes

\* The log only grows and no file changes.
LEMMA PacksSame ==
  ASSUME RInv, packs' = packs, scheduled' = scheduled, log' = log,
         task'.name = task.name \/ task.pc \in Rests \/ task'.pc \in Rests,
         task'.pc \notin Rests /\ task.pc \in Rests => task'.name = Len(log) \/ ~scheduled,
         task'.pc \in Rests \/ task.pc \notin Rests \/ task'.pc = "evaluate",
         task'.pc \in {"build", "write"} => IF task.pc \in {"build", "write"} THEN task'.signed = task.signed
                                            ELSE task'.signed = Len(log)
  PROVE  PacksInv' /\ PacksInOrder'
<1>1. Complete' = Complete
  BY DEF Complete
<1>2. PacksInOrder'
  BY <1>1 DEF RInv, PacksInOrder
<1>3. Len(log) \in Nat /\ {task.name, task.signed} \subseteq 0..Len(log)
  BY DEF RInv, TaskInv
<1>4. \A n \in Complete : packs[n].signed \in Nat /\ n \in Nat
  BY DEF RInv, PacksInv, Reads, Sizes, Complete
<1>5. PacksInv'
  BY <1>1, <1>3, <1>4 DEF RInv, PacksInv, Rests
<1> QED
  BY <1>2, <1>5

\* Every commit, every step of a build and every failure keeps the order of the reads.
LEMMA RNext == RInv /\ [Next]_vars => RInv'
<1> SUFFICES ASSUME RInv, [Next]_vars PROVE RInv'
  OBVIOUS
<1>0. /\ Len(log) \in Nat /\ Len(log) \in Sizes /\ MaxEvents \in Nat /\ 0 \in Sizes
      /\ task = [pc |-> task.pc, name |-> task.name, evaluated |-> task.evaluated,
                 signed |-> task.signed, built |-> task.built]
  BY ReportAssumption DEF RInv, Sizes, Tasks
<1>1. CASE UNCHANGED vars
  BY <1>1 DEF vars, RInv, TaskInv, PacksInv, PacksInOrder, Complete
<1>2. ASSUME NEW ev \in Templates, Commit(ev) PROVE RInv'
  <2>1. log' \in Seq({Committed(e) : e \in Templates}) /\ Len(log') = Len(log) + 1 /\ Len(log') <= MaxEvents
    <3>1. PICK S : S = {Committed(e) : e \in Templates}
      OBVIOUS
    <3>2. log \in Seq(S) /\ Committed(ev) \in S /\ log' = Append(log, Committed(ev)) /\ Len(log) < MaxEvents
      BY <1>2, <3>1 DEF Commit, RInv
    <3>3. log' \in Seq(S) /\ Len(log') = Len(log) + 1
      BY <3>2, AppendProperties
    <3> QED
      BY <1>0, <3>1, <3>2, <3>3
  <2>2. UNCHANGED <<scheduled, task, packs, faults>>
    BY <1>2 DEF Commit
  <2>3. Complete' = Complete
    BY <2>2 DEF Complete
  <2>4. TaskInv'
    BY <1>0, <2>1, <2>2 DEF RInv, TaskInv, Rests
  <2>5. \A n \in Complete : packs[n].signed \in Nat /\ n \in Nat
    BY DEF RInv, PacksInv, Reads, Sizes, Complete
  <2>6. PacksInv'
    BY <1>0, <2>1, <2>2, <2>3, <2>5 DEF RInv, PacksInv, TaskInv
  <2>7. PacksInOrder'
    BY <2>2, <2>3 DEF RInv, PacksInOrder
  <2> QED
    BY <2>1, <2>2, <2>4, <2>6, <2>7 DEF RInv
<1>3. CASE Begin
  <2>1. /\ task' = [task EXCEPT !.pc = "evaluate", !.name = IF scheduled THEN Len(log) ELSE 0]
        /\ task.pc = "idle" /\ (scheduled => Len(log) # 0)
        /\ UNCHANGED <<scheduled, log, packs, faults>>
    BY <1>3 DEF Begin, RInv
  <2>2. /\ task' \in Tasks /\ task'.pc = "evaluate" /\ task'.name = IF scheduled THEN Len(log) ELSE 0
        /\ task'.evaluated = task.evaluated /\ task'.signed = task.signed /\ task'.built = task.built
    BY <1>0, <2>1 DEF RInv, Tasks, Steps, Rests
  <2>3. TaskInv'
    BY <1>0, <2>1, <2>2 DEF RInv, TaskInv, Rests
  <2>4. PacksInv' /\ PacksInOrder'
    BY <2>1, <2>2, PacksSame DEF Rests
  <2> QED
    BY <2>1, <2>2, <2>3, <2>4 DEF RInv
<1>4. CASE EvaluateEvents
  <2>1. /\ task' = [task EXCEPT !.pc = "sign", !.evaluated = Len(log)] /\ task.pc = "evaluate"
        /\ UNCHANGED <<scheduled, log, packs, faults>>
    BY <1>4 DEF EvaluateEvents
  <2>2. /\ task' \in Tasks /\ task'.pc = "sign" /\ task'.name = task.name
        /\ task'.evaluated = Len(log) /\ task'.signed = task.signed /\ task'.built = task.built
    BY <1>0, <2>1 DEF RInv, Tasks, Steps, Rests
  <2>3. TaskInv'
    BY <1>0, <2>1, <2>2 DEF RInv, TaskInv, Rests
  <2>4. PacksInv' /\ PacksInOrder'
    BY <2>1, <2>2, PacksSame DEF Rests
  <2> QED
    BY <2>1, <2>2, <2>3, <2>4 DEF RInv
<1>5. CASE SignHead
  <2>1. /\ task' = [task EXCEPT !.pc = "build", !.signed = Len(log)] /\ task.pc = "sign"
        /\ UNCHANGED <<scheduled, log, packs, faults>>
    BY <1>5 DEF SignHead
  <2>2. /\ task' \in Tasks /\ task'.pc = "build" /\ task'.name = task.name
        /\ task'.evaluated = task.evaluated /\ task'.signed = Len(log) /\ task'.built = task.built
    BY <1>0, <2>1 DEF RInv, Tasks, Steps, Rests
  <2>3. TaskInv'
    BY <1>0, <2>1, <2>2 DEF RInv, TaskInv, Rests
  <2>4. PacksInv' /\ PacksInOrder'
    BY <2>1, <2>2, PacksSame DEF Rests
  <2> QED
    BY <2>1, <2>2, <2>3, <2>4 DEF RInv
<1>6. CASE Build
  <2>1. /\ task' = [task EXCEPT !.pc = "write", !.built = Len(log)] /\ task.pc = "build"
        /\ UNCHANGED <<scheduled, log, faults>>
        /\ packs' = IF scheduled THEN [packs EXCEPT ![task.name] = Torn] ELSE packs
    BY <1>6 DEF Build
  <2>2. /\ task' \in Tasks /\ task'.pc = "write" /\ task'.name = task.name
        /\ task'.evaluated = task.evaluated /\ task'.signed = task.signed /\ task'.built = Len(log)
    BY <1>0, <2>1 DEF RInv, Tasks, Steps, Rests
  <2>3. TaskInv'
    BY <1>0, <2>1, <2>2 DEF RInv, TaskInv, Rests
  <2>4. DOMAIN packs' = DOMAIN packs /\ Complete' \subseteq Complete
        /\ \A n \in Complete' : packs'[n] = packs[n]
    BY <2>1 DEF Complete, RInv
  <2>5. PacksInv' /\ PacksInOrder'
    BY <2>1, <2>2, <2>4 DEF Rests, RInv, PacksInv, PacksInOrder
  <2> QED
    BY <2>1, <2>2, <2>3, <2>4, <2>5 DEF RInv
<1>7. CASE Write
  <2>1. /\ task' = Idle /\ task.pc = "write" /\ UNCHANGED <<scheduled, log, faults>>
        /\ packs' = IF scheduled THEN [packs EXCEPT ![task.name] = ReadsOf(task)] ELSE packs
    BY <1>7 DEF Write
  <2>2. task' \in Tasks /\ task'.pc = "idle" /\ TaskInv'
    BY <1>0, <2>1 DEF Idle, Tasks, Steps, Rests, TaskInv
  <2>3. CASE ~scheduled
    <3>1. packs' = packs /\ Complete' = {}
      BY <2>1, <2>3 DEF Complete, RInv, PacksInv
    <3> QED
      BY <2>1, <2>2, <3>1 DEF RInv, PacksInv, PacksInOrder
  <2>4. CASE scheduled
    <3>1. PICK r : r = ReadsOf(task)
      OBVIOUS
    <3>2. r \in Reads /\ r.signed = task.signed
      BY <3>1, ReadsFields DEF RInv
    <3>3. packs' = [packs EXCEPT ![task.name] = r]
      BY <2>1, <2>4, <3>1
    <3>4. /\ task.name \in Nat /\ task.signed \in Nat /\ task.evaluated \in Nat
          /\ task.name <= task.signed /\ task.signed <= Len(log) /\ task.name <= Len(log)
      BY <1>0, <2>1 DEF RInv, TaskInv
    <3>5. \A n \in Complete' : (n \in Complete /\ packs'[n] = packs[n]) \/ (n = task.name /\ packs'[n] = r)
      BY <3>3 DEF Complete, RInv
    <3>6. \A n \in Complete : /\ n \in Nat /\ packs[n] \in Reads /\ packs[n].signed \in Nat
                              /\ n <= task.name /\ packs[n].signed <= task.signed
      BY <2>1 DEF Rests, RInv, PacksInv, Reads, Sizes, Complete
    <3>7. PacksInv'
      BY <1>0, <2>1, <2>2, <2>4, <3>2, <3>4, <3>5, <3>6 DEF Rests, PacksInv
    <3>8. PacksInOrder'
      <4>1. ASSUME NEW n \in Complete' PROVE n <= packs'[n].signed
        BY <3>2, <3>4, <3>5, <4>1 DEF RInv, PacksInOrder
      <4>2. ASSUME NEW n \in Complete', NEW m \in Complete', m <= n PROVE packs'[m].signed <= packs'[n].signed
        <5>1. CASE n = task.name /\ packs'[n] = r
          BY <3>2, <3>4, <3>5, <3>6, <5>1
        <5>2. CASE n \in Complete /\ packs'[n] = packs[n] /\ n # task.name
          <6>1. m # task.name
            BY <3>4, <3>6, <4>2, <5>2
          <6> QED
            BY <3>5, <4>2, <5>2, <6>1 DEF RInv, PacksInOrder
        <5> QED
          BY <3>3, <3>5, <5>1, <5>2 DEF RInv, Complete
      <4> QED
        BY <4>1, <4>2 DEF PacksInOrder
    <3>9. DOMAIN packs' = 1..MaxEvents
      BY <3>3 DEF RInv
    <3> QED
      BY <2>1, <2>2, <3>7, <3>8, <3>9 DEF RInv
  <2> QED
    BY <2>3, <2>4
<1>8. CASE Fails
  <2>1. task' = Idle /\ task.pc \notin Rests /\ UNCHANGED <<scheduled, log, packs>> /\ faults' \in 0..MaxFaults
    BY <1>8, ReportAssumption DEF Fails, RInv, Rests
  <2>2. task' \in Tasks /\ task'.pc = "idle" /\ TaskInv'
    BY <1>0, <2>1 DEF Idle, Tasks, Steps, Rests, TaskInv
  <2>3. PacksInv' /\ PacksInOrder'
    BY <2>1, <2>2, PacksSame DEF Rests
  <2> QED
    BY <2>1, <2>2, <2>3 DEF RInv
<1>9. CASE SizeRaises \/ StartsAgain
  <2>1. /\ UNCHANGED <<scheduled, log, packs, faults>> /\ task.pc \in Rests
        /\ task' = Idle \/ task' = [Idle EXCEPT !.pc = "ended"]
    BY <1>9 DEF SizeRaises, StartsAgain, Rests
  <2>2. task' \in Tasks /\ task'.pc \in Rests /\ TaskInv'
    BY <1>0, <2>1 DEF Idle, Tasks, Steps, Rests, TaskInv
  <2>3. PacksInv' /\ PacksInOrder'
    BY <2>1, <2>2, PacksSame DEF Rests
  <2> QED
    BY <2>1, <2>2, <2>3 DEF RInv
<1> QED
  BY <1>1, <1>2, <1>3, <1>4, <1>5, <1>6, <1>7, <1>8, <1>9 DEF Next, Proceed

\* runtime.py:136-147: a file covers the size it is named by and later names cover no less,
\* however commits, builds and failures interleave.
THEOREM PacksOrdered == Spec => []PacksInOrder
<1>1. RInv => PacksInOrder
  BY DEF RInv
<1> QED
  BY <1>1, RInit, RNext, PTL DEF Spec

(***************************************************************************)
(* What a report says.  The reads of a build are in order, so its events    *)
(* are those of its checkpoint's leaves, whatever was committed meanwhile,  *)
(* and its verdicts are those of a part of them.                            *)
(***************************************************************************)
\* The greatest of some of the numbers up to n.
LEMMA GreatestIn ==
  ASSUME NEW n \in Nat, NEW I \in SUBSET (1..n), I # {}
  PROVE  Max(I) \in I
<1> DEFINE T == {n - i : i \in I}
<1>0. \A i \in I : n - i \in Nat
  OBVIOUS
<1>1. T \subseteq Nat /\ T # {}
  BY <1>0
<1>2. PICK m \in T : \A k \in T : m <= k
  BY <1>1, Least
<1>3. PICK i \in I : m = n - i
  BY <1>2
<1>4. \A j \in I : n - i <= n - j
  BY <1>2, <1>3
<1>5. \A j \in I : i >= j
  BY <1>4
<1> QED
  BY <1>5 DEF Max

\* The least of them.
LEMMA LeastIn ==
  ASSUME NEW n \in Nat, NEW I \in SUBSET (1..n), I # {}
  PROVE  Min(I) \in I /\ \A j \in I : Min(I) <= j
<1>0. I \subseteq Nat
  OBVIOUS
<1>1. PICK m \in I : \A k \in I : m <= k
  BY <1>0, Least
<1> QED
  BY <1>1 DEF Min

\* All entries for an index hash to x, and there is one.
HasLeaf(R, n, index, x) ==
    /\ Len(R.events) = n
    /\ \E e \in 1..n : R.events[e].leaf_index = index
    /\ \A e \in 1..n : R.events[e].leaf_index = index => LeafHash(LeafContent(R.events[e].event)) = x

\* The leaf that a verifier finds at an index (verify.py, the map of leaves it builds of the
\* entries) is x if all entries there hash to x.
LEMMA LeafFound ==
  ASSUME NEW R, NEW n \in Nat, NEW index, NEW x, HasLeaf(R, n, index, x)
  PROVE  Leaf(R, index) = x
<1> DEFINE I == {i \in 1..Len(R.events) : R.events[i].leaf_index = index}
<1>0. HasLeaf(R, n, index, x)!1 /\ HasLeaf(R, n, index, x)!2 /\ HasLeaf(R, n, index, x)!3
  BY DEF HasLeaf
<1>1. I \in SUBSET (1..n) /\ I # {}
  BY <1>0
<1>2. Max(I) \in I
  BY <1>1, GreatestIn
<1>3. Leaf(R, index) = LET e == IF I # {} THEN Max(I) ELSE 0
                       IN  IF e = 0 THEN Null ELSE LeafHash(LeafContent(R.events[e].event))
  BY DEF Leaf, SelectLastInSeq
<1>4. Leaf(R, index) = LeafHash(LeafContent(R.events[Max(I)].event))
  BY <1>1, <1>2, <1>3
<1> QED
  BY <1>0, <1>1, <1>2, <1>4

\* leaf_content of what commit() stores is that of the event: the added field is the ledger's.
LEMMA ContentCommitted ==
  ASSUME NEW ev
  PROVE  LeafContent(Committed(ev)) = LeafContent(ev)
<1>1. Head(LeafHashPath) = "ledger"
  BY DEF LeafHashPath
<1> DEFINE D == {p \in DOMAIN ev : Head(p) # "ledger"}
<1>2. D = {p \in DOMAIN Committed(ev) : Head(p) # "ledger"}
  BY <1>1 DEF Committed
<1>3. \A p \in D : Committed(ev)[p] = ev[p]
  BY <1>1 DEF Committed
<1> QED
  BY <1>2, <1>3 DEF LeafContent

\* leaf_content drops the same fields whenever it is applied.
LEMMA ContentTwice ==
  ASSUME NEW ev
  PROVE  LeafContent(LeafContent(ev)) = LeafContent(ev)
  BY DEF LeafContent

\* What commit() stores as the leaf hash is the hash of the leaf.
LEMMA CommittedHash ==
  ASSUME NEW ev
  PROVE  Get(Committed(ev), LeafHashPath) = LeafHash(LeafContent(Committed(ev)))
<1>1. LeafHashPath \in DOMAIN Committed(ev) /\ Committed(ev)[LeafHashPath] = LeafHash(LeafContent(ev))
  BY DEF Committed
<1> QED
  BY <1>1, ContentCommitted DEF Get

\* The six checks of Integrity as a record.
SixChecks(a, b, c, d, e, f) ==
    [report_signature |-> a, checkpoint_signature |-> b, event_leaf_hashes |-> c,
     inclusion_proofs |-> d, full_tree_root |-> e, evidence_events_present |-> f]

\* The checks of Integrity one by one.
Present(R) == {Get(e.event, EventId) : e \in ToSet(R.events)}
SignedBy(R, key) == R.signature.key = key /\ R.signature.of = Unsigned(R)
HeadSigned(R, key, named) ==
    /\ R.checkpoint.key_id \in named
    /\ Verified(key, R.checkpoint.signature, SigningBytes(R.checkpoint))
HashesMatch(R) == \A e \in ToSet(R.events) : e.leaf_hash = LeafHash(LeafContent(e.event))
ProofsVerify(R) ==
    \A e \in ToSet(R.events) :
        VerifyInclusion(e.leaf_index, R.checkpoint.tree_size, LeafHash(LeafContent(e.event)),
                        e.inclusion_proof, R.checkpoint.root_hash)
WholeTree(R) ==
    {e.leaf_index : e \in ToSet(R.events)} = 0..R.checkpoint.tree_size - 1
        => TreeHash([i \in 1..R.checkpoint.tree_size |-> Leaf(R, i - 1)]) = R.checkpoint.root_hash
CitedPresent(R) == \A c \in ToSet(R.controls) : ToSet(c.evidence) \subseteq Present(R)

\* An entry for the leaf at i of the leaves ls.
TrueAt(e, ls, i) ==
    /\ e.leaf_index = i - 1
    /\ LeafHash(LeafContent(e.event)) = ls[i] /\ e.leaf_hash = ls[i]
    /\ e.inclusion_proof = InclusionProof(ls, i - 1)

\* A report that is signed, with a head of the leaves ls and entries of them.
IsReportOn(R, key, ls) ==
    /\ SignedBy(R, key) /\ R.signature.key_id = KeyId(key) /\ R.public_key = key
    /\ R.checkpoint = SignCheckpoint(key, ls)
    /\ Len(R.events) \in Nat /\ DOMAIN R.events = 1..Len(R.events)
    /\ \A n \in DOMAIN R.events : \E i \in 1..Len(ls) : TrueAt(R.events[n], ls, i)

\* No check fails if and only if all six hold.
LEMMA FailedSix ==
  ASSUME NEW a, NEW b, NEW c, NEW d, NEW e, NEW f
  PROVE  Failed(SixChecks(a, b, c, d, e, f)) = {} <=> a /\ b /\ c /\ d /\ e /\ f
  BY DEF Failed, SixChecks

\* The three checks that verify_report adds.
ThreeChecks(a, b, c) == [embedded_key_matches_trusted |-> a, report_key_id |-> b, deep_verify |-> c]

\* The checks of Integrity.
LEMMA IntegrityChecks ==
  ASSUME NEW R, NEW key, NEW named
  PROVE  Integrity(R, key, named) =
           SixChecks(SignedBy(R, key), HeadSigned(R, key, named), HashesMatch(R), ProofsVerify(R),
                     WholeTree(R), CitedPresent(R))
  BY Zenon DEF Integrity, SixChecks, SignedBy, HeadSigned, HashesMatch, ProofsVerify, WholeTree, CitedPresent, Present

\* All but the last check of the verifiers pass for a report on some leaves.
LEMMA ChecksPass ==
  ASSUME NEW S, NEW ls \in Seq(S), NEW R, NEW key, NEW named, KeyId(key) \in named, IsReportOn(R, key, ls)
  PROVE  /\ SignedBy(R, key) /\ HeadSigned(R, key, named) /\ HashesMatch(R) /\ ProofsVerify(R)
         /\ WholeTree(R)
<1>1. PICK n \in Nat : n = Len(R.events) /\ DOMAIN R.events = 1..n
  BY DEF IsReportOn
<1>2. PICK cp : cp = R.checkpoint
  OBVIOUS
<1>3. /\ cp.origin = Origin /\ cp.tree_size = Len(ls) /\ cp.root_hash = TreeHash(ls) /\ cp.key_id = KeyId(key)
      /\ cp.signature = Sign(key, SigningBytes(cp))
  BY <1>2 DEF IsReportOn, SignCheckpoint, SigningBytes
<1>4. ToSet(R.events) = {R.events[i] : i \in 1..n}
  BY <1>1 DEF ToSet
<1>5. SignedBy(R, key)
  BY DEF IsReportOn, SignedBy
<1>6. HeadSigned(R, key, named)
  BY <1>2, <1>3 DEF HeadSigned, Verified
<1>7. ASSUME NEW e \in ToSet(R.events)
      PROVE  /\ e.leaf_hash = LeafHash(LeafContent(e.event))
             /\ VerifyInclusion(e.leaf_index, cp.tree_size, LeafHash(LeafContent(e.event)),
                                e.inclusion_proof, cp.root_hash)
  <2>1. PICK i \in 1..Len(ls) : TrueAt(e, ls, i)
    BY <1>1, <1>4, <1>7 DEF IsReportOn
  <2>2. /\ i - 1 \in 0..Len(ls) - 1 /\ (i - 1) + 1 = i
    BY <2>1
  <2>3. VerifyInclusion(i - 1, Len(ls), ls[i], InclusionProof(ls, i - 1), TreeHash(ls))
    BY <2>2, InclusionComplete
  <2> QED
    BY <1>3, <2>1, <2>3 DEF TrueAt
<1>8. HashesMatch(R) /\ ProofsVerify(R)
  BY <1>2, <1>7 DEF HashesMatch, ProofsVerify
<1>9. WholeTree(R)
  <2> SUFFICES ASSUME {e.leaf_index : e \in ToSet(R.events)} = 0..Len(ls) - 1
               PROVE  TreeHash([i \in 1..Len(ls) |-> Leaf(R, i - 1)]) = TreeHash(ls)
    BY <1>2, <1>3 DEF WholeTree
  <2>1. ASSUME NEW i \in 1..Len(ls) PROVE Leaf(R, i - 1) = ls[i]
    <3>0. i - 1 \in 0..Len(ls) - 1
      BY <2>1
    <3>1. i - 1 \in {e.leaf_index : e \in ToSet(R.events)}
      BY <3>0
    <3>2. \E m \in 1..n : R.events[m].leaf_index = i - 1
      BY <1>4, <3>1
    <3>3. ASSUME NEW m \in 1..n, R.events[m].leaf_index = i - 1
          PROVE  LeafHash(LeafContent(R.events[m].event)) = ls[i]
      <4>1. PICK j \in 1..Len(ls) : TrueAt(R.events[m], ls, j)
        BY <1>1 DEF IsReportOn
      <4>2. j = i
        BY <3>3, <4>1 DEF TrueAt
      <4> QED
        BY <4>1, <4>2 DEF TrueAt
    <3>4. Len(R.events) = n
      BY <1>1
    <3>5. HasLeaf(R, n, i - 1, ls[i])
      BY <3>2, <3>3, <3>4 DEF HasLeaf
    <3> QED
      BY <3>5, LeafFound
  <2>2. [i \in 1..Len(ls) |-> Leaf(R, i - 1)] = ls
    BY <2>1
  <2> QED
    BY <2>2
<1> QED
  BY <1>5, <1>6, <1>8, <1>9

\* What deep verification adds to the checks that fail.
DeepFails(R, deep) == IF deep => Deep(R, Null) THEN {} ELSE {"deep_verify"}

\* verify_report and the browser's verifier make the same checks.
LEMMA ReportChecked ==
  ASSUME NEW R, NEW key, key # Null, R.public_key = key, R.signature.key_id = KeyId(key),
         NEW deep, NEW t \in {key, Null}
  PROVE  VerifyReport(R, t, deep, Null)
           = DeepFails(R, deep) \cup Failed(Integrity(R, key, {KeyId(key), Null}))
<1> DEFINE checks == ThreeChecks(R.public_key \in {key, Null},
                                 R.signature.key_id \in {KeyId(key), Null}, deep => Deep(R, Null))
<1>1. VerifyReport(R, t, deep, Null) = Failed(checks) \cup Failed(Integrity(R, key, {KeyId(key), Null}))
  <2>1. (IF t # Null THEN t ELSE R.public_key) = key
    OBVIOUS
  <2> QED
    BY <2>1 DEF VerifyReport, ThreeChecks
<1>2. R.public_key \in {key, Null} /\ R.signature.key_id \in {KeyId(key), Null}
  OBVIOUS
<1>3. DOMAIN checks = {"embedded_key_matches_trusted", "report_key_id", "deep_verify"}
  BY DEF ThreeChecks
<1>4. /\ checks.embedded_key_matches_trusted /\ checks.report_key_id
      /\ checks.deep_verify <=> (deep => Deep(R, Null))
  BY <1>2, Zenon DEF ThreeChecks
<1>5. \A name : name \in Failed(checks) <=> name = "deep_verify" /\ ~(deep => Deep(R, Null))
  BY <1>3, <1>4, Zenon DEF Failed
<1>6. Failed(checks) = DeepFails(R, deep)
  BY <1>5 DEF DeepFails
<1> QED
  BY <1>1, <1>6

\* A report on the log fails the last check at most.
LEMMA ReportPasses ==
  ASSUME NEW S, NEW ls \in Seq(S), NEW R, NEW key, key # Null, IsReportOn(R, key, ls)
  PROVE  /\ VerifyInBrowser(R, key) = {} <=> CitedPresent(R)
         /\ CitedPresent(R) => VerifyReport(R, key, FALSE, Null) = {} /\ VerifyReport(R, Null, FALSE, Null) = {}
         /\ CitedPresent(R) =>
               VerifyReport(R, key, TRUE, Null) = IF Deep(R, Null) THEN {} ELSE {"deep_verify"}
<1>1. /\ VerifyInBrowser(R, key) = Failed(Integrity(R, key, {KeyId(key)}))
      /\ VerifyInBrowser(R, key) = {} <=> CitedPresent(R)
  BY IntegrityChecks, ChecksPass, FailedSix DEF VerifyInBrowser
<1>2. ASSUME CitedPresent(R) PROVE Failed(Integrity(R, key, {KeyId(key), Null})) = {}
  BY <1>2, IntegrityChecks, ChecksPass, FailedSix
<1>3. R.public_key = key /\ R.signature.key_id = KeyId(key)
  BY DEF IsReportOn
<1>4. ASSUME CitedPresent(R), NEW deep, NEW t \in {key, Null}
      PROVE  VerifyReport(R, t, deep, Null) = IF deep => Deep(R, Null) THEN {} ELSE {"deep_verify"}
  <2>1. VerifyReport(R, t, deep, Null)
          = DeepFails(R, deep) \cup Failed(Integrity(R, key, {KeyId(key), Null}))
    BY <1>3, ReportChecked, ZenonT(60)
  <2>2. Failed(Integrity(R, key, {KeyId(key), Null})) = {}
    BY <1>2, <1>4
  <2> QED
    BY <2>1, <2>2 DEF DeepFails
<1> QED
  BY <1>1, <1>4

\* The report verifies without a trusted key.
PassesAlone(R) == VerifyReport(R, Null, FALSE, Null) = {}

\* Without a trusted key a verifier takes the report's own.
LEMMA ReportPassesAlone ==
  ASSUME NEW S, NEW ls \in Seq(S), NEW R, NEW key, key # Null, IsReportOn(R, key, ls), CitedPresent(R)
  PROVE  PassesAlone(R)
<1>1. Failed(Integrity(R, key, {KeyId(key), Null})) = {}
  BY IntegrityChecks, ChecksPass, FailedSix
<1>2. VerifyReport(R, Null, FALSE, Null) = DeepFails(R, FALSE) \cup Failed(Integrity(R, key, {KeyId(key), Null}))
  BY ReportChecked DEF IsReportOn
<1> QED
  BY <1>1, <1>2 DEF DeepFails, PassesAlone

\* What the signer signs is found again, and so is the signature over it.
LEMMA SignedFields ==
  ASSUME NEW r, NEW key, "signature" \notin DOMAIN r, r = [f \in DOMAIN r |-> r[f]]
  PROVE  /\ \A f \in DOMAIN r : Signed(r, key)[f] = r[f]
         /\ Unsigned(Signed(r, key)) = r
         /\ SignedBy(Signed(r, key), key) /\ Signed(r, key).signature.key_id = KeyId(key)
<1>1. PICK g : g = Signed(r, key)
  OBVIOUS
<1>2. /\ DOMAIN g = DOMAIN r \cup {"signature"} /\ \A f \in DOMAIN r : g[f] = r[f]
      /\ g["signature"] = [key_id |-> KeyId(key), key |-> key, of |-> r]
  BY <1>1 DEF Signed
<1>3. Unsigned(g) = r
  <2>1. DOMAIN g \ {"signature"} = DOMAIN r
    BY <1>2
  <2> QED
    BY <1>2, <2>1 DEF Unsigned
<1> QED
  BY <1>1, <1>2, <1>3 DEF SignedBy

\* What the log is made of, and its leaves.
Records == {Committed(ev) : ev \in Templates}
Hashes == {LeafHash(LeafContent(ev)) : ev \in Records}

\* The leaves of a log, which are the stored leaf hashes too.
LEMMA LogLeaves ==
  ASSUME NEW l \in Seq(Records)
  PROVE  /\ LeavesOf(l) \in Seq(Hashes) /\ Len(LeavesOf(l)) = Len(l)
         /\ \A i \in 1..Len(l) : /\ LeavesOf(l)[i] = LeafHash(LeafContent(l[i]))
                                 /\ Get(l[i], LeafHashPath) = LeafHash(LeafContent(l[i]))
<1>1. DOMAIN l = 1..Len(l) /\ Len(l) \in Nat
  OBVIOUS
<1>2. \A i \in 1..Len(l) : l[i] \in Records
  OBVIOUS
<1>3. \A i \in 1..Len(l) : Get(l[i], LeafHashPath) = LeafHash(LeafContent(l[i]))
  BY <1>2, CommittedHash DEF Records
<1>4. LeavesOf(l) = [i \in 1..Len(l) |-> LeafHash(LeafContent(l[i]))]
  BY <1>1 DEF LeavesOf
<1>5. \A i \in 1..Len(l) : LeafHash(LeafContent(l[i])) \in Hashes
  BY <1>2 DEF Hashes
<1> QED
  BY <1>1, <1>3, <1>4, <1>5

\* The first n records of a log and their leaves.
LEMMA UpTo ==
  ASSUME NEW l \in Seq(Records), NEW n \in 0..Len(l)
  PROVE  /\ SubSeq(l, 1, n) \in Seq(Records) /\ Len(SubSeq(l, 1, n)) = n
         /\ \A i \in 1..n : SubSeq(l, 1, n)[i] = l[i]
         /\ LeavesOf(SubSeq(l, 1, n)) = SubSeq(LeavesOf(l), 1, n)
<1>1. PICK m : m = SubSeq(l, 1, n)
  OBVIOUS
<1>2. m \in Seq(Records) /\ Len(m) = n /\ \A i \in 1..n : m[i] = l[i]
  BY <1>1
<1>3. PICK a, b : a = LeavesOf(m) /\ b = LeavesOf(l)
  OBVIOUS
<1>4. /\ a \in Seq(Hashes) /\ Len(a) = n /\ \A i \in 1..n : a[i] = LeafHash(LeafContent(m[i]))
      /\ b \in Seq(Hashes) /\ Len(b) = Len(l) /\ \A i \in 1..Len(l) : b[i] = LeafHash(LeafContent(l[i]))
  BY <1>2, <1>3, LogLeaves
<1>5. \A i \in 1..n : a[i] = b[i]
  BY <1>2, <1>4
<1>6. a = SubSeq(b, 1, n)
  <2>1. /\ SubSeq(b, 1, n) \in Seq(Hashes) /\ Len(SubSeq(b, 1, n)) = n
        /\ \A i \in 1..n : SubSeq(b, 1, n)[i] = b[i]
    BY <1>4
  <2>2. PICK c : c = SubSeq(b, 1, n)
    OBVIOUS
  <2> QED
    BY <1>4, <1>5, <2>1, <2>2
<1> QED
  BY <1>1, <1>2, <1>3, <1>6

\* What build_report signs, for n events of the log.
Body(l, n, result, cp, key) ==
    [events |-> [i \in 1..n |-> Entry(l, n, i)],
     crosswalk |-> [id |-> result.id, content_hash |-> result.content_hash],
     summary |-> [s \in ControlStatus |-> Count(result, s)],
     controls |-> result.controls,
     evidence_gaps |-> GapMarkers(SubSeq(l, 1, n)),
     checkpoint |-> cp,
     public_key |-> key]

\* The names of its fields.
BodyFields == {"events", "crosswalk", "summary", "controls", "evidence_gaps", "checkpoint", "public_key"}

\* A report that was built of the first n events of the log and of a result.
IsBuiltOf(R, l, n, result, key) ==
    /\ IsReportOn(R, key, LeavesOf(SubSeq(l, 1, n)))
    /\ Len(R.events) = n
    /\ \A i \in 1..n : TrueAt(R.events[i], LeavesOf(SubSeq(l, 1, n)), i) /\ R.events[i].event = l[i]
    /\ R.controls = result.controls
    /\ R.crosswalk.id = result.id /\ R.crosswalk.content_hash = result.content_hash
    /\ R.evidence_gaps = GapMarkers(SubSeq(l, 1, n))

\* build_report's entry for an event is one for the leaf at its place.
LEMMA EntryIs ==
  ASSUME NEW l \in Seq(Records), NEW n \in 0..Len(l), NEW i \in 1..n
  PROVE  TrueAt(Entry(l, n, i), LeavesOf(SubSeq(l, 1, n)), i) /\ Entry(l, n, i).event = l[i]
<1>1. PICK m : m = SubSeq(l, 1, n)
  OBVIOUS
<1>2. m \in Seq(Records) /\ Len(m) = n /\ m[i] = l[i]
  BY <1>1, UpTo
<1>3. LeavesOf(m)[i] = LeafHash(LeafContent(m[i])) /\ Get(m[i], LeafHashPath) = LeafHash(LeafContent(m[i]))
  BY <1>2, LogLeaves
<1> QED
  BY <1>1, <1>2, <1>3 DEF Entry, TrueAt

\* The fields of what is signed.
LEMMA BodyOf ==
  ASSUME NEW l, NEW n, NEW result, NEW cp, NEW key
  PROVE  LET B == Body(l, n, result, cp, key)
         IN  /\ DOMAIN B = BodyFields /\ "signature" \notin DOMAIN B /\ B = [f \in DOMAIN B |-> B[f]]
             /\ B.events = [i \in 1..n |-> Entry(l, n, i)] /\ B.controls = result.controls
             /\ B.checkpoint = cp /\ B.public_key = key
             /\ B.crosswalk.id = result.id /\ B.crosswalk.content_hash = result.content_hash
             /\ B.evidence_gaps = GapMarkers(SubSeq(l, 1, n))
  BY DEF Body, BodyFields

\* build_report signs this body.
LEMMA BuildIs ==
  ASSUME NEW l \in Seq(Records), NEW n \in 0..Len(l), NEW result, NEW key, NEW cp, cp.tree_size = n
  PROVE  BuildReport(l, result, cp, key) = Signed(Body(l, n, result, cp, key), key)
  BY Zenon DEF BuildReport, Body

\* Reading a log that has grown makes no difference.
LEMMA BodySame ==
  ASSUME NEW l \in Seq(Records), NEW b \in 0..Len(l), NEW n \in 0..b, NEW result, NEW cp, NEW key
  PROVE  Body(SubSeq(l, 1, b), n, result, cp, key) = Body(l, n, result, cp, key)
<1>1. PICK m : m = SubSeq(l, 1, b)
  OBVIOUS
<1>2. m \in Seq(Records) /\ Len(m) = b /\ \A i \in 1..b : m[i] = l[i]
  BY <1>1, UpTo
<1>3. SubSeq(m, 1, n) = SubSeq(l, 1, n)
  <2>1. PICK x, y : x = SubSeq(m, 1, n) /\ y = SubSeq(l, 1, n)
    OBVIOUS
  <2>2. /\ x \in Seq(Records) /\ Len(x) = n /\ \A i \in 1..n : x[i] = m[i]
        /\ y \in Seq(Records) /\ Len(y) = n /\ \A i \in 1..n : y[i] = l[i]
    BY <1>2, <2>1, UpTo
  <2>3. x = y
    BY <1>2, <2>2
  <2> QED
    BY <2>1, <2>3
<1>4. ASSUME NEW i \in 1..n PROVE Entry(m, n, i) = Entry(l, n, i)
  <2>1. m[i] = l[i]
    BY <1>2
  <2> QED
    BY <1>3, <2>1, Zenon DEF Entry
<1>5. [i \in 1..n |-> Entry(m, n, i)] = [i \in 1..n |-> Entry(l, n, i)]
  BY <1>4
<1> QED
  BY <1>1, <1>3, <1>5 DEF Body

\* A report, whatever was committed between the checkpoint and the reading of the events: it is
\* one on the leaves that the checkpoint is of.
LEMMA Built ==
  ASSUME NEW l \in Seq(Records), NEW b \in 0..Len(l), NEW n \in 0..b, NEW result, NEW key, NEW R,
         R = BuildReport(SubSeq(l, 1, b), result, SignCheckpoint(key, LeavesOf(SubSeq(l, 1, n))), key)
  PROVE  IsBuiltOf(R, l, n, result, key)
<1>1. PICK m, ls, cp : m = SubSeq(l, 1, b) /\ ls = LeavesOf(SubSeq(l, 1, n)) /\ cp = SignCheckpoint(key, ls)
  OBVIOUS
<1>2. m \in Seq(Records) /\ Len(m) = b /\ n \in 0..Len(l) /\ n \in 0..Len(m) /\ n \in Nat
  BY <1>1, UpTo
<1>3. ls \in Seq(Hashes) /\ Len(ls) = n
  BY <1>1, <1>2, UpTo, LogLeaves
<1>4. cp.tree_size = n
  BY <1>1, <1>3 DEF SignCheckpoint
<1>5. PICK B : B = Body(l, n, result, cp, key)
  OBVIOUS
<1>6. R = Signed(B, key)
  <2>1. R = BuildReport(m, result, cp, key)
    BY <1>1
  <2>2. BuildReport(m, result, cp, key) = Signed(Body(m, n, result, cp, key), key)
    BY <1>2, <1>4, BuildIs
  <2>3. Body(m, n, result, cp, key) = B
    BY <1>1, <1>5, BodySame
  <2> QED
    BY <2>1, <2>2, <2>3
<1>7. /\ DOMAIN B = BodyFields /\ "signature" \notin DOMAIN B /\ B = [f \in DOMAIN B |-> B[f]]
      /\ B.events = [i \in 1..n |-> Entry(l, n, i)] /\ B.controls = result.controls
      /\ B.checkpoint = cp /\ B.public_key = key
      /\ B.crosswalk.id = result.id /\ B.crosswalk.content_hash = result.content_hash
      /\ B.evidence_gaps = GapMarkers(SubSeq(l, 1, n))
  BY <1>5, BodyOf
<1>8. /\ \A f \in BodyFields : R[f] = B[f]
      /\ SignedBy(R, key) /\ R.signature.key_id = KeyId(key)
  BY <1>6, <1>7, SignedFields
<1>9. \A i \in 1..n : TrueAt(Entry(l, n, i), ls, i) /\ Entry(l, n, i).event = l[i]
  BY <1>1, <1>2, EntryIs
<1>10. /\ R.events = [i \in 1..n |-> Entry(l, n, i)] /\ R.controls = result.controls
       /\ R.checkpoint = cp /\ R.public_key = key
       /\ R.crosswalk.id = result.id /\ R.crosswalk.content_hash = result.content_hash
       /\ R.evidence_gaps = GapMarkers(SubSeq(l, 1, n))
  BY <1>7, <1>8 DEF BodyFields
<1>11. /\ Len(R.events) = n /\ DOMAIN R.events = 1..n
       /\ \A i \in 1..n : TrueAt(R.events[i], ls, i) /\ R.events[i].event = l[i]
  BY <1>2, <1>9, <1>10
<1>12. IsReportOn(R, key, ls)
  BY <1>1, <1>2, <1>3, <1>8, <1>10, <1>11 DEF IsReportOn
<1> QED
  BY <1>1, <1>10, <1>11, <1>12 DEF IsBuiltOf

\* The ids of the first n events of a log.
IdsUpTo(l, n) == {Get(l[i], EventId) : i \in 1..n}

\* Ids of events at some places, capped or not, are ids of these events.
LEMMA IdsAre ==
  ASSUME NEW l, NEW n \in Nat, NEW I \in SUBSET (1..n)
  PROVE  /\ Ids(l, I) \in Seq(IdsUpTo(l, n))
         /\ ToSet(Capped(Ids(l, I))) \subseteq IdsUpTo(l, n)
<1>1. PICK p : p = Ascending(I)
  OBVIOUS
<1>2. p \in Seq(I)
  BY <1>1, AscendingIncreases DEF Increasing
<1>3. Ids(l, I) = [k \in 1..Len(p) |-> Get(l[p[k]], EventId)]
  BY <1>1, <1>2 DEF Ids
<1>4. ASSUME NEW k \in 1..Len(p) PROVE p[k] \in 1..n
  <2>1. p[k] \in I
    BY <1>2
  <2> QED
    BY <2>1
<1>5. PICK ids : ids = Ids(l, I)
  OBVIOUS
<1>6. ids \in Seq(IdsUpTo(l, n))
  BY <1>2, <1>3, <1>4, <1>5 DEF IdsUpTo
<1>7. PICK k \in 0..Len(ids) : Capped(ids) = SubSeq(ids, 1, k)
  BY <1>6, CrosswalkAssumption DEF Capped
<1>8. SubSeq(ids, 1, k) \in Seq(IdsUpTo(l, n))
  BY <1>6, <1>7
<1>9. ToSet(SubSeq(ids, 1, k)) \subseteq IdsUpTo(l, n)
  BY <1>8 DEF ToSet
<1> QED
  BY <1>5, <1>6, <1>7, <1>9

\* A verdict of one control: one of the three statuses, citing events it was given.
LEMMA VerdictIs ==
  ASSUME NEW ctrl, ctrl.empty_scope \in ControlStatus, NEW n \in Nat, NEW l, DOMAIN l = 1..n,
         NEW v, v = Verdict(ctrl, l)
  PROVE  /\ v = [id |-> v.id, status |-> v.status, evaluated |-> v.evaluated, satisfied |-> v.satisfied,
                 evidence |-> v.evidence, gaps |-> v.gaps]
         /\ v.id = ctrl.id /\ v.status \in ControlStatus /\ ToSet(v.evidence) \subseteq IdsUpTo(l, n)
<1> DEFINE scoped == {i \in DOMAIN l : Matches(l[i], ctrl.scope)}
           passed == {i \in scoped : Holds(l, i, ctrl.condition)}
           st == IF scoped = {} THEN ctrl.empty_scope
                 ELSE IF passed = scoped THEN "satisfied" ELSE "not_satisfied"
<1>1. PICK a, b, c, d, e : a = st /\ b = Cardinality(scoped) /\ c = Cardinality(passed)
                           /\ d = Capped(Ids(l, passed)) /\ e = Capped(Ids(l, scoped \ passed))
  OBVIOUS
<1>2. v = [id |-> ctrl.id, status |-> a, evaluated |-> b, satisfied |-> c, evidence |-> d, gaps |-> e]
  BY <1>1, Zenon DEF Verdict
<1>3. a \in ControlStatus
  BY <1>1 DEF ControlStatus
<1>4. passed \in SUBSET (1..n)
  OBVIOUS
<1>5. ToSet(d) \subseteq IdsUpTo(l, n)
  BY <1>1, <1>4, IdsAre
<1> HIDE DEF scoped, passed, st
<1> QED
  BY <1>2, <1>3, <1>5

\* The override for declared gaps changes the status and the gaps and nothing else.
LEMMA OverriddenIs ==
  ASSUME NEW ctrl, NEW l, NEW v, NEW a, NEW b, NEW c, NEW d, NEW e, NEW f,
         v = [id |-> a, status |-> b, evaluated |-> c, satisfied |-> d, evidence |-> e, gaps |-> f]
  PROVE  LET w == Overridden(ctrl, v, l)
         IN  /\ w.id = a /\ w.evidence = e
             /\ w.status = IF GapMarkers(l) # {} /\ ctrl.completeness_sensitive THEN "not_satisfied" ELSE b
<1>1. CASE GapMarkers(l) # {} /\ ctrl.completeness_sensitive /\ v.status # "not_satisfied"
  <2>1. PICK g : g = Capped(v.gaps \o Capped(Ids(l, GapMarkers(l))))
    OBVIOUS
  <2>2. PICK w : w = [v EXCEPT !.status = "not_satisfied", !.gaps = g]
    OBVIOUS
  <2>3. Overridden(ctrl, v, l) = w
    BY <1>1, <2>1, <2>2 DEF Overridden
  <2>4. w.id = a /\ w.evidence = e /\ w.status = "not_satisfied"
    BY <2>2
  <2> QED
    BY <1>1, <2>3, <2>4
<1>2. CASE ~(GapMarkers(l) # {} /\ ctrl.completeness_sensitive /\ v.status # "not_satisfied")
  <2>1. Overridden(ctrl, v, l) = v
    BY <1>2 DEF Overridden
  <2> QED
    BY <1>2, <2>1
<1> QED
  BY <1>1, <1>2

\* What an evaluation of a crosswalk that comes with the package yields on n events.
IsResult(result, cw, l, n) ==
    /\ result.id = cw.id /\ result.content_hash = cw
    /\ Len(cw.controls) \in Nat /\ DOMAIN cw.controls = 1..Len(cw.controls)
    /\ DOMAIN result.controls = DOMAIN cw.controls
    /\ Len(result.controls) = Len(cw.controls)
    /\ \A c \in DOMAIN cw.controls :
          /\ result.controls[c].id = cw.controls[c].id
          /\ result.controls[c].status \in ControlStatus
          /\ ToSet(result.controls[c].evidence) \subseteq IdsUpTo(l, n)
          /\ GapMarkers(l) # {} /\ cw.controls[c].completeness_sensitive
                => result.controls[c].status = "not_satisfied"
    /\ \A c, d \in DOMAIN cw.controls : result.controls[c].id = result.controls[d].id => c = d

\* evaluate() under a crosswalk that comes with the package.
LEMMA EvaluationIs ==
  ASSUME NEW id \in DOMAIN Builtins, NEW n \in Nat, NEW l, DOMAIN l = 1..n
  PROVE  /\ IsResult(Evaluate(Builtins[id], l), Builtins[id], l, n)
         /\ Builtins[id].id = id /\ Builtins[id] # Null
<1>1. PICK cw : cw = Builtins[id]
  OBVIOUS
<1>2. PICK k \in Nat : k = Len(cw.controls) /\ DOMAIN cw.controls = 1..k
  BY <1>1, VerificationAssumption
<1>3. /\ cw.id = id /\ cw # Null
      /\ \A c \in 1..k : cw.controls[c].empty_scope \in ControlStatus
      /\ \A c, d \in 1..k : cw.controls[c].id = cw.controls[d].id => c = d
  BY <1>1, <1>2, VerificationAssumption
<1>4. PICK result : result = Evaluate(cw, l)
  OBVIOUS
<1>5. /\ result.id = cw.id /\ result.content_hash = cw
      /\ result.controls = [c \in 1..k |-> Overridden(cw.controls[c], Verdict(cw.controls[c], l), l)]
  BY <1>2, <1>4 DEF Evaluate
<1>6. ASSUME NEW c \in 1..k
      PROVE  /\ result.controls[c].id = cw.controls[c].id
             /\ result.controls[c].status \in ControlStatus
             /\ ToSet(result.controls[c].evidence) \subseteq IdsUpTo(l, n)
             /\ GapMarkers(l) # {} /\ cw.controls[c].completeness_sensitive
                   => result.controls[c].status = "not_satisfied"
  <2>1. PICK ctrl, v, w : ctrl = cw.controls[c] /\ v = Verdict(ctrl, l) /\ w = Overridden(ctrl, v, l)
    OBVIOUS
  <2>2. result.controls[c] = w
    BY <1>5, <2>1
  <2>3. /\ v = [id |-> v.id, status |-> v.status, evaluated |-> v.evaluated, satisfied |-> v.satisfied,
                evidence |-> v.evidence, gaps |-> v.gaps]
        /\ v.id = ctrl.id /\ v.status \in ControlStatus /\ ToSet(v.evidence) \subseteq IdsUpTo(l, n)
    BY <1>3, <2>1, VerdictIs
  <2>4. /\ w.id = v.id /\ w.evidence = v.evidence
        /\ w.status = IF GapMarkers(l) # {} /\ ctrl.completeness_sensitive THEN "not_satisfied" ELSE v.status
    BY <2>1, <2>3, OverriddenIs
  <2> QED
    BY <2>1, <2>2, <2>3, <2>4 DEF ControlStatus
<1>7. DOMAIN result.controls = 1..k /\ Len(result.controls) = k
  BY <1>5
<1>8. \A c, d \in 1..k : result.controls[c].id = result.controls[d].id => c = d
  BY <1>3, <1>6
<1> QED
  BY <1>1, <1>2, <1>3, <1>4, <1>5, <1>6, <1>7, <1>8 DEF IsResult

\* Verdicts that follow from the events a report has are found again.
LEMMA DeepHolds ==
  ASSUME NEW id \in DOMAIN Builtins, NEW l \in Seq(Records), NEW n \in 0..Len(l), NEW key, NEW R,
         IsBuiltOf(R, l, n, Evaluate(Builtins[id], SubSeq(l, 1, n)), key)
  PROVE  Deep(R, Null)
<1>1. PICK m, cw : m = SubSeq(l, 1, n) /\ cw = Builtins[id]
  OBVIOUS
<1>2. m \in Seq(Records) /\ Len(m) = n /\ \A i \in 1..n : m[i] = l[i]
  BY <1>1, UpTo
<1>3. PICK result : result = Evaluate(cw, m)
  OBVIOUS
<1>4. IsResult(result, cw, m, n) /\ cw.id = id /\ cw # Null
  <2>1. DOMAIN m = 1..n /\ n \in Nat
    BY <1>2
  <2> QED
    BY <1>1, <1>3, <2>1, EvaluationIs
<1>5. /\ R.crosswalk.id = id /\ R.crosswalk.content_hash = cw /\ R.controls = result.controls
      /\ DOMAIN R.events = 1..n /\ \A i \in 1..n : R.events[i].event = l[i]
  BY <1>1, <1>3, <1>4 DEF IsBuiltOf, IsReportOn, IsResult
<1>6. [i \in DOMAIN R.events |-> R.events[i].event] = m
  BY <1>2, <1>5
<1>7. Deep(R, Null) <=>
        /\ R.crosswalk.content_hash # Null /\ cw # Null /\ R.crosswalk.content_hash = cw
        /\ \A c \in ToSet(R.controls) : \E d \in ToSet(Evaluate(cw, m).controls) : d.id = c.id /\ d.status = c.status
  BY <1>1, <1>5, <1>6 DEF Deep
<1> QED
  BY <1>3, <1>4, <1>5, <1>7

\* What deep verification accepts is what the report's events say.
LEMMA DeepSound ==
  ASSUME NEW id \in DOMAIN Builtins, NEW l \in Seq(Records), NEW n \in 0..Len(l), NEW key, NEW R,
         NEW r, NEW o, NEW k, IsResult(r, Builtins[id], o, k),
         IsBuiltOf(R, l, n, r, key), Deep(R, Null), R.evidence_gaps # {},
         NEW c \in DOMAIN R.controls, Builtins[id].controls[c].completeness_sensitive
  PROVE  R.controls[c].status # "satisfied"
<1>1. PICK m, cw : m = SubSeq(l, 1, n) /\ cw = Builtins[id]
  OBVIOUS
<1>2. m \in Seq(Records) /\ Len(m) = n /\ \A i \in 1..n : m[i] = l[i]
  BY <1>1, UpTo
<1>3. PICK again : again = Evaluate(cw, m)
  OBVIOUS
<1>4. IsResult(again, cw, m, n) /\ cw.id = id /\ cw # Null
  <2>1. DOMAIN m = 1..n /\ n \in Nat
    BY <1>2
  <2> QED
    BY <1>1, <1>3, <2>1, EvaluationIs
<1>5. /\ R.crosswalk.id = id /\ R.crosswalk.content_hash = cw /\ R.controls = r.controls
      /\ DOMAIN R.events = 1..n /\ \A i \in 1..n : R.events[i].event = l[i]
      /\ GapMarkers(m) # {}
  BY <1>1, <1>4 DEF IsBuiltOf, IsReportOn, IsResult
<1>6. [i \in DOMAIN R.events |-> R.events[i].event] = m
  BY <1>2, <1>5
<1>7. \A x \in ToSet(R.controls) : \E d \in ToSet(again.controls) : d.id = x.id /\ d.status = x.status
  BY <1>1, <1>3, <1>5, <1>6 DEF Deep
<1>8. PICK d \in ToSet(again.controls) : d.id = R.controls[c].id /\ d.status = R.controls[c].status
  BY <1>7 DEF ToSet
<1>9. PICK j \in DOMAIN again.controls : d = again.controls[j]
  BY <1>8 DEF ToSet
<1>10. c \in DOMAIN cw.controls /\ j \in DOMAIN cw.controls /\ R.controls[c].id = cw.controls[c].id
  <2>1. DOMAIN R.controls = DOMAIN cw.controls
    BY <1>1, <1>5 DEF IsResult
  <2>2. DOMAIN again.controls = DOMAIN cw.controls
    BY <1>4 DEF IsResult
  <2>3. \A x \in DOMAIN cw.controls : r.controls[x].id = cw.controls[x].id
    BY <1>1 DEF IsResult
  <2> QED
    BY <1>5, <1>9, <2>1, <2>2, <2>3
<1>11. again.controls[j].id = again.controls[c].id
  BY <1>4, <1>8, <1>9, <1>10 DEF IsResult
<1>12. j = c
  BY <1>4, <1>10, <1>11 DEF IsResult
<1>13. again.controls[c].status = "not_satisfied"
  BY <1>1, <1>4, <1>5, <1>10 DEF IsResult
<1> QED
  BY <1>8, <1>9, <1>12, <1>13

\* What the verdicts cite is among the events of the report.
LEMMA CitedIsPresent ==
  ASSUME NEW l, NEW n \in Nat, NEW k \in 0..n, NEW o, NEW cw, NEW r, IsResult(r, cw, o, k),
         \A i \in 1..k : o[i] = l[i], NEW key, NEW R, IsBuiltOf(R, l, n, r, key)
  PROVE  CitedPresent(R)
<1>1. /\ DOMAIN R.events = 1..n /\ \A i \in 1..n : R.events[i].event = l[i]
      /\ R.controls = r.controls
  BY DEF IsBuiltOf, IsReportOn
<1>2. IdsUpTo(o, k) \subseteq Present(R)
  <2> SUFFICES ASSUME NEW i \in 1..k PROVE Get(o[i], EventId) \in Present(R)
    BY DEF IdsUpTo
  <2>1. i \in 1..n /\ o[i] = R.events[i].event
    BY <1>1
  <2>2. R.events[i] \in ToSet(R.events)
    BY <1>1, <2>1 DEF ToSet
  <2> QED
    BY <2>1, <2>2 DEF Present
<1>3. \A c \in DOMAIN r.controls : ToSet(r.controls[c].evidence) \subseteq IdsUpTo(o, k)
  BY DEF IsResult
<1> QED
  BY <1>1, <1>2, <1>3 DEF CitedPresent, ToSet

\* What a task that writes has read.
LEMMA InHandIs ==
  ASSUME RInv, NEW reads \in InHand
  PROVE  /\ log \in Seq(Records) /\ Len(log) \in Nat
         /\ reads.built \in 0..Len(log) /\ reads.signed \in 0..reads.built
         /\ reads.evaluated \in 0..reads.signed
<1>1. task.pc = "write" /\ reads = ReadsOf(task)
  BY DEF InHand
<1>2. reads.evaluated = task.evaluated /\ reads.signed = task.signed /\ reads.built = task.built
  BY <1>1, ReadsFields DEF RInv
<1>3. log \in Seq(Records)
  BY DEF RInv, Records
<1>4. {task.evaluated, task.signed, task.built} \subseteq 0..Len(log)
      /\ task.evaluated <= task.signed /\ task.signed <= task.built
  BY <1>1 DEF RInv, TaskInv
<1> QED
  BY <1>2, <1>3, <1>4

\* The report of what a task has read.
LEMMA ReportIs ==
  ASSUME RInv, NEW reads \in InHand, NEW R, R = ReportOf(reads), NEW o, o = SubSeq(log, 1, reads.evaluated),
         NEW r, r = Evaluate(Builtins[CrosswalkId], o)
  PROVE  /\ IsBuiltOf(R, log, reads.signed, r, Key) /\ IsResult(r, Builtins[CrosswalkId], o, reads.evaluated)
         /\ CitedPresent(R)
<1>1. /\ log \in Seq(Records) /\ Len(log) \in Nat
      /\ reads.built \in 0..Len(log) /\ reads.signed \in 0..reads.built
      /\ reads.evaluated \in 0..reads.signed
  BY InHandIs
<1>2. IsBuiltOf(R, log, reads.signed, r, Key)
  <2>1. R = BuildReport(SubSeq(log, 1, reads.built), r,
                        SignCheckpoint(Key, LeavesOf(SubSeq(log, 1, reads.signed))), Key)
    BY DEF ReportOf
  <2> QED
    BY <1>1, <2>1, Built
<1>3. /\ o \in Seq(Records) /\ Len(o) = reads.evaluated /\ \A i \in 1..reads.evaluated : o[i] = log[i]
      /\ reads.evaluated \in 0..Len(log) /\ reads.evaluated \in Nat /\ reads.signed \in Nat
  <2>1. reads.evaluated \in 0..Len(log) /\ reads.signed \in Nat
    BY <1>1
  <2> QED
    BY <1>1, <2>1, UpTo
<1>4. IsResult(r, Builtins[CrosswalkId], o, reads.evaluated)
  <2>1. DOMAIN o = 1..reads.evaluated
    BY <1>3
  <2> QED
    BY <1>3, <2>1, ReportAssumption, EvaluationIs
<1> QED
  BY <1>1, <1>2, <1>3, <1>4, CitedIsPresent

\* docs/WHITEPAPER.md:153: deep verification accepts a report if no commit came between its
\* evaluation and its checkpoint, refuses it for its verdicts alone otherwise, and never accepts a
\* satisfied completeness control beside a declared gap, for all crosswalks and events.
THEOREM VerdictsFollowKept == Spec => []VerdictsFollow
<1>1. RInv => VerdictsFollow
  <2> SUFFICES ASSUME RInv, NEW reads \in InHand, NEW R, R = ReportOf(reads), NEW failed,
                      failed = VerifyReport(R, Key, TRUE, Null)
               PROVE  /\ failed \subseteq {"deep_verify"}
                      /\ reads.evaluated = reads.signed => failed = {}
                      /\ failed = {} => GapsCount(R)
    BY DEF VerdictsFollow
  <2>1. /\ log \in Seq(Records) /\ Len(log) \in Nat
        /\ reads.built \in 0..Len(log) /\ reads.signed \in 0..reads.built
        /\ reads.evaluated \in 0..reads.signed
    BY InHandIs
  <2>2. PICK o, r : o = SubSeq(log, 1, reads.evaluated) /\ r = Evaluate(Builtins[CrosswalkId], o)
    OBVIOUS
  <2>3. /\ IsBuiltOf(R, log, reads.signed, r, Key) /\ IsResult(r, Builtins[CrosswalkId], o, reads.evaluated)
        /\ CitedPresent(R)
    BY <2>2, ReportIs
  <2>4. PICK ls : ls = LeavesOf(SubSeq(log, 1, reads.signed))
    OBVIOUS
  <2>5. ls \in Seq(Hashes) /\ reads.signed \in 0..Len(log)
    <3>1. reads.signed \in 0..Len(log)
      BY <2>1
    <3> QED
      BY <2>1, <2>4, <3>1, UpTo, LogLeaves
  <2>6. IsReportOn(R, Key, ls)
    BY <2>3, <2>4 DEF IsBuiltOf
  <2>7. failed = IF Deep(R, Null) THEN {} ELSE {"deep_verify"}
    BY <2>3, <2>5, <2>6, ReportAssumption, ReportPasses
  <2>8. ASSUME reads.evaluated = reads.signed PROVE Deep(R, Null)
    BY <2>1, <2>2, <2>3, <2>5, <2>8, ReportAssumption, DeepHolds
  <2>9. ASSUME Deep(R, Null) PROVE GapsCount(R)
    BY <2>1, <2>3, <2>5, <2>9, ReportAssumption, DeepSound DEF GapsCount
  <2> QED
    BY <2>7, <2>8, <2>9
<1> QED
  BY <1>1, RInit, RNext, PTL DEF Spec

\* The head of a report is consistent with that of the log.
LEMMA HeadConsistent ==
  ASSUME NEW l \in Seq(Records), NEW n \in 0..Len(l), NEW key, key # Null
  PROVE  VerifyConsistencyBetween(SignCheckpoint(key, LeavesOf(SubSeq(l, 1, n))),
             SignCheckpoint(key, LeavesOf(l)),
             IF n = 0 THEN <<>> ELSE ConsistencyProof(LeavesOf(l), n), key)
<1>1. PICK ls, ms : ls = LeavesOf(l) /\ ms = LeavesOf(SubSeq(l, 1, n))
  OBVIOUS
<1>2. /\ ls \in Seq(Hashes) /\ Len(ls) = Len(l) /\ ms = SubSeq(ls, 1, n) /\ ms \in Seq(Hashes) /\ Len(ms) = n
  BY <1>1, UpTo, LogLeaves
<1>3. PICK proof : proof = IF n = 0 THEN <<>> ELSE ConsistencyProof(ls, n)
  OBVIOUS
<1>4. PICK size \in Nat : size = Len(ls) /\ n \in Nat /\ n <= size
  BY <1>2
<1>5. VerifyConsistency(n, size, TreeHash(ms), TreeHash(ls), proof)
  <2>1. CASE n = 0 /\ size = 0
    <3>1. ls = <<>> /\ ms = <<>>
      BY <1>2, <1>4, <2>1
    <3> QED
      BY <1>3, <2>1, <3>1 DEF VerifyConsistency
  <2>2. CASE n = 0 /\ size > 0
    BY <1>3, <2>2 DEF VerifyConsistency
  <2>3. CASE n # 0
    BY <1>2, <1>3, <1>4, <2>3, ConsistencyComplete
  <2> QED
    BY <1>4, <2>1, <2>2, <2>3
<1>6. PICK old, new : old = SignCheckpoint(key, ms) /\ new = SignCheckpoint(key, ls)
  OBVIOUS
<1>7. /\ old.tree_size = n /\ old.root_hash = TreeHash(ms) /\ VerifyCheckpoint(old, key)
      /\ new.tree_size = size /\ new.root_hash = TreeHash(ls) /\ VerifyCheckpoint(new, key)
  BY <1>2, <1>4, <1>6 DEF SignCheckpoint, VerifyCheckpoint, Verified, SigningBytes
<1>8. VerifyConsistencyBetween(old, new, proof, key)
  BY <1>5, <1>7 DEF VerifyConsistencyBetween
<1> QED
  BY <1>1, <1>3, <1>6, <1>8

\* The Go core beside a report is the one beside the tree: nothing in its trees is None.
LEMMA SameTreeHash ==
  ASSUME NEW ls
  PROVE  Go!TreeHash(ls) = Core!TreeHash(ls)
  BY Zenon DEF Go!TreeHash, Core!TreeHash, Go!Roots, Core!Roots, Go!Slices, Core!Slices, Go!FirstPart,
     Core!FirstPart, Go!SecondPart, Core!SecondPart, Go!SplitAt, Core!SplitAt, Go!LargestPow2Lt,
     Core!LargestPow2Lt, Go!NodeHash, Core!NodeHash, Go!EmptyRoot, Core!EmptyRoot

\* The same for its inclusion proofs.
LEMMA SameInclusionProof ==
  ASSUME NEW ls, NEW m
  PROVE  Go!InclusionProof(ls, m) = Core!InclusionProof(ls, m)
  BY Zenon DEF Go!InclusionProof, Core!InclusionProof, Go!Roots, Core!Roots, Go!Slices, Core!Slices, Go!FirstPart,
     Core!FirstPart, Go!SecondPart, Core!SecondPart, Go!SplitAt, Core!SplitAt, Go!LargestPow2Lt,
     Core!LargestPow2Lt, Go!NodeHash, Core!NodeHash, Go!EmptyRoot, Core!EmptyRoot

\* An event that Go knows all fields of has the same leaf there.
LEMMA GoContent ==
  ASSUME NEW ev, \A path \in DOMAIN ev : Go!Keeps(path)
  PROVE  Go!LeafContent(ev) = LeafContent(ev) /\ Go!EventLeafHash(ev) = LeafHash(LeafContent(ev))
<1>1. PICK kept : kept = Go!Decoded(ev)
  OBVIOUS
<1>2. DOMAIN kept = DOMAIN ev /\ \A path \in DOMAIN ev : kept[path] = ev[path]
  BY <1>1 DEF Go!Decoded
<1>3. Go!LeafContent(ev) = [path \in {p \in DOMAIN kept : Head(p) # "ledger"} |-> kept[path]]
  BY <1>1 DEF Go!LeafContent
<1>4. Go!LeafContent(ev) = LeafContent(ev)
  BY <1>2, <1>3 DEF LeafContent
<1> QED
  BY <1>4 DEF Go!EventLeafHash, Go!LeafHash, LeafHash

\* The last entry for the leaf at i.
LastAt(R, i) ==
    LET I == {k \in 1..Len(R.events) : R.events[k].leaf_index = i - 1} IN IF I # {} THEN Max(I) ELSE 0

\* VerifyReportRoot of the Go core, with the last entry for each place.
LEMMA RootVerified ==
  ASSUME NEW R
  PROVE  Go!VerifyReportRoot(R) <=>
           /\ \A i \in 1..R.checkpoint.tree_size : LastAt(R, i) # 0
           /\ Go!TreeHash([i \in 1..R.checkpoint.tree_size |-> Go!EventLeafHash(R.events[LastAt(R, i)].event)])
                = R.checkpoint.root_hash
           /\ Go!VerifyCheckpoint(R.checkpoint, R.public_key)
  BY Zenon DEF Go!VerifyReportRoot, Go!SelectLastInSeq, Go!Max, Max, LastAt

\* With one entry for each place the last one there is it.
LEMMA OnlyAt ==
  ASSUME NEW R, NEW n \in Nat, Len(R.events) = n, \A j \in 1..n : R.events[j].leaf_index = j - 1, NEW i \in 1..n
  PROVE  LastAt(R, i) = i
<1>1. PICK I : I = {k \in 1..Len(R.events) : R.events[k].leaf_index = i - 1}
  OBVIOUS
<1>2. I \in SUBSET (1..n) /\ i \in I /\ \A k \in I : k = i
  BY <1>1
<1>3. Max(I) \in I
  BY <1>2, GreatestIn
<1> QED
  BY <1>1, <1>2, <1>3 DEF LastAt

\* ls are the leaves of the first n records.
LeavesTo(l, n, ls) ==
    /\ n \in Nat /\ ls \in Seq(Hashes) /\ Len(ls) = n
    /\ \A i \in 1..n : /\ ls[i] = LeafHash(LeafContent(l[i]))
                     /\ Get(l[i], LeafHashPath) = LeafHash(LeafContent(l[i]))

\* The leaves of the first n records.
LEMMA UpToLeaves ==
  ASSUME NEW l \in Seq(Records), NEW n \in 0..Len(l)
  PROVE  LeavesTo(l, n, LeavesOf(SubSeq(l, 1, n)))
<1>1. PICK m, ls : m = SubSeq(l, 1, n) /\ ls = LeavesOf(m)
  OBVIOUS
<1>2. m \in Seq(Records) /\ Len(m) = n /\ n \in Nat /\ \A i \in 1..n : m[i] = l[i]
  BY <1>1, UpTo
<1>3. /\ ls \in Seq(Hashes) /\ Len(ls) = n
      /\ \A i \in 1..n : /\ ls[i] = LeafHash(LeafContent(m[i]))
                        /\ Get(m[i], LeafHashPath) = LeafHash(LeafContent(m[i]))
  BY <1>1, <1>2, LogLeaves
<1>4. LeavesTo(l, n, ls)
  BY <1>2, <1>3 DEF LeavesTo
<1> QED
  BY <1>1, <1>4

\* The Go core accepts what build_report builds of events it knows all fields of.
LEMMA GoAccepts ==
  ASSUME NEW l \in Seq(Records), NEW n \in 0..Len(l), NEW r, NEW key, NEW R, IsBuiltOf(R, l, n, r, key), KnownToGo(R)
  PROVE  Go!VerifyReportRoot(R)
<1>1. PICK m, ls : m = SubSeq(l, 1, n) /\ ls = LeavesOf(m)
  OBVIOUS
<1>2. n \in Nat /\ ls \in Seq(Hashes) /\ Len(ls) = n /\ \A i \in 1..n : ls[i] = LeafHash(LeafContent(l[i]))
  BY <1>1, UpToLeaves DEF LeavesTo
<1>3. /\ R.checkpoint = SignCheckpoint(key, ls) /\ R.public_key = key
      /\ Len(R.events) = n /\ DOMAIN R.events = 1..n
      /\ \A i \in 1..n : R.events[i].leaf_index = i - 1 /\ R.events[i].event = l[i]
  BY <1>1 DEF IsBuiltOf, IsReportOn, TrueAt
<1>4. PICK cp : cp = R.checkpoint
  OBVIOUS
<1>5. cp.tree_size = n /\ cp.root_hash = TreeHash(ls) /\ Go!VerifyCheckpoint(cp, key)
  <2>1. /\ cp.origin = Origin /\ cp.tree_size = n /\ cp.root_hash = TreeHash(ls)
        /\ cp.signature = [key |-> key, of |-> [origin |-> Origin, tree_size |-> n, root_hash |-> TreeHash(ls)]]
    BY <1>2, <1>3, <1>4 DEF SignCheckpoint, Sign
  <2> QED
    BY <2>1 DEF Go!VerifyCheckpoint
<1>6. ASSUME NEW i \in 1..n
      PROVE  LastAt(R, i) = i /\ Go!EventLeafHash(R.events[i].event) = ls[i]
  <2>1. LastAt(R, i) = i
    BY <1>2, <1>3, OnlyAt
  <2>2. R.events[i] \in ToSet(R.events)
    BY <1>3 DEF ToSet
  <2>3. \A path \in DOMAIN R.events[i].event : Go!Keeps(path)
    BY <2>2 DEF KnownToGo
  <2> QED
    BY <1>2, <1>3, <2>1, <2>3, GoContent
<1>7. [i \in 1..n |-> Go!EventLeafHash(R.events[LastAt(R, i)].event)] = ls
  BY <1>2, <1>6
<1>8. Go!TreeHash(ls) = TreeHash(ls)
  BY <1>2, SameTreeHash, GoTreeHash
<1>9. \A i \in 1..n : LastAt(R, i) # 0
  BY <1>6
<1> QED
  BY <1>3, <1>4, <1>5, <1>7, <1>8, <1>9, RootVerified

\* What the Go core signs.
GoBody(inputs, ls, key, origin, crosswalk) ==
    [events |-> [i \in DOMAIN inputs |->
                    [event |-> Go!LeafContent(inputs[i].event), leaf_index |-> i - 1,
                     leaf_hash |-> inputs[i].leaf_hash,
                     inclusion_proof |-> Go!InclusionProof(ls, i - 1)]],
     crosswalk |-> [id |-> crosswalk, content_hash |-> Null],
     controls |-> <<>>, evidence_gaps |-> <<>>,
     checkpoint |-> Go!SignCheckpoint(key, origin, Len(ls), Go!TreeHash(ls)),
     public_key |-> key]

\* The Go core signs this body.
LEMMA GoBuilds ==
  ASSUME NEW inputs, NEW ls, ls = [i \in DOMAIN inputs |-> Go!EventLeafHash(inputs[i].event)],
         NEW key, NEW origin, NEW crosswalk
  PROVE  Go!BuildReport(inputs, key, origin, crosswalk) = Signed(GoBody(inputs, ls, key, origin, crosswalk), key)
<1>1. PICK B : B = GoBody(inputs, ls, key, origin, crosswalk)
  OBVIOUS
<1>2. Go!KeyID(key) = KeyId(key)
  BY DEF Go!KeyID, KeyId
<1>3. Go!BuildReport(inputs, key, origin, crosswalk)
        = [f \in DOMAIN B \cup {"signature"} |->
              IF f = "signature" THEN [key_id |-> Go!KeyID(key), key |-> key, of |-> B] ELSE B[f]]
  BY <1>1, Zenon DEF Go!BuildReport, GoBody
<1> QED
  BY <1>1, <1>2, <1>3 DEF Signed

\* The fields of what the Go core signs.
LEMMA GoBodyOf ==
  ASSUME NEW inputs, NEW ls, NEW key, NEW origin, NEW crosswalk
  PROVE  LET B == GoBody(inputs, ls, key, origin, crosswalk)
         IN  /\ {"events", "controls", "checkpoint", "public_key"} \subseteq DOMAIN B
             /\ "signature" \notin DOMAIN B /\ B = [f \in DOMAIN B |-> B[f]]
             /\ B.events = [i \in DOMAIN inputs |->
                    [event |-> Go!LeafContent(inputs[i].event), leaf_index |-> i - 1,
                     leaf_hash |-> inputs[i].leaf_hash,
                     inclusion_proof |-> Go!InclusionProof(ls, i - 1)]]
             /\ B.controls = <<>> /\ B.public_key = key
             /\ B.checkpoint = Go!SignCheckpoint(key, origin, Len(ls), Go!TreeHash(ls))
  BY DEF GoBody

\* The Go core's report of the same events is one on the same leaves.
LEMMA GoReportIs ==
  ASSUME log \in Seq(Records), NEW reads, reads.signed \in 0..Len(log),
         \A i \in 1..reads.signed : \A path \in DOMAIN log[i] : Go!Keeps(path),
         NEW G, G = GoReport(reads)
  PROVE  IsReportOn(G, Key, LeavesOf(SubSeq(log, 1, reads.signed))) /\ CitedPresent(G)
<1>1. PICK n, m, ls : n = reads.signed /\ m = SubSeq(log, 1, n) /\ ls = LeavesOf(m)
  OBVIOUS
<1>2. /\ n \in Nat /\ n \in 0..Len(log) /\ ls \in Seq(Hashes) /\ Len(ls) = n
      /\ \A i \in 1..n : /\ ls[i] = LeafHash(LeafContent(log[i]))
                         /\ Get(log[i], LeafHashPath) = LeafHash(LeafContent(log[i]))
  BY <1>1, UpToLeaves DEF LeavesTo
<1>3. PICK inputs : inputs = [i \in 1..n |-> [event |-> log[i], leaf_hash |-> Get(log[i], LeafHashPath)]]
  OBVIOUS
<1>4. DOMAIN inputs = 1..n /\ \A i \in 1..n : inputs[i].event = log[i] /\ inputs[i].leaf_hash = ls[i]
  BY <1>2, <1>3
<1>5. \A i \in 1..n : Go!LeafContent(log[i]) = LeafContent(log[i]) /\ Go!EventLeafHash(log[i]) = ls[i]
  BY <1>1, <1>2, GoContent
<1>6. ls = [i \in DOMAIN inputs |-> Go!EventLeafHash(inputs[i].event)]
  BY <1>2, <1>4, <1>5
<1>7. PICK B : B = GoBody(inputs, ls, Key, Origin, CrosswalkId)
  OBVIOUS
<1>8. G = Signed(B, Key)
  <2>1. G = Go!BuildReport(inputs, Key, Origin, CrosswalkId)
    BY <1>1, <1>3 DEF GoReport
  <2> QED
    BY <1>6, <1>7, <2>1, GoBuilds
<1>9. /\ {"events", "controls", "checkpoint", "public_key"} \subseteq DOMAIN B
      /\ "signature" \notin DOMAIN B /\ B = [f \in DOMAIN B |-> B[f]]
      /\ B.events = [i \in DOMAIN inputs |->
             [event |-> Go!LeafContent(inputs[i].event), leaf_index |-> i - 1,
              leaf_hash |-> inputs[i].leaf_hash,
              inclusion_proof |-> Go!InclusionProof(ls, i - 1)]]
      /\ B.controls = <<>> /\ B.public_key = Key
      /\ B.checkpoint = Go!SignCheckpoint(Key, Origin, Len(ls), Go!TreeHash(ls))
  BY <1>7, GoBodyOf
<1>10. /\ G.events = B.events /\ G.controls = <<>> /\ G.public_key = Key /\ G.checkpoint = B.checkpoint
       /\ SignedBy(G, Key) /\ G.signature.key_id = KeyId(Key)
  BY <1>8, <1>9, SignedFields
<1>11. Go!TreeHash(ls) = TreeHash(ls)
  BY <1>2, SameTreeHash, GoTreeHash
<1>12. G.checkpoint = SignCheckpoint(Key, ls)
  BY <1>9, <1>10, <1>11 DEF SignCheckpoint, Sign, Go!SignCheckpoint, Go!KeyID, KeyId
<1>13. ASSUME NEW i \in 1..n PROVE TrueAt(G.events[i], ls, i)
  <2>1. Go!InclusionProof(ls, i - 1) = InclusionProof(ls, i - 1)
    <3>1. i - 1 \in Nat /\ Len(ls) # 0
      BY <1>2
    <3> QED
      BY <1>2, <3>1, SameInclusionProof, GoInclusionProof
  <2>2. PICK e : e = G.events[i]
    OBVIOUS
  <2>3. /\ e.event = LeafContent(log[i]) /\ e.leaf_index = i - 1 /\ e.leaf_hash = ls[i]
        /\ e.inclusion_proof = InclusionProof(ls, i - 1)
    BY <1>4, <1>5, <1>9, <1>10, <2>1, <2>2
  <2> QED
    BY <1>2, <2>2, <2>3, ContentTwice DEF TrueAt
<1>14. Len(G.events) = n /\ DOMAIN G.events = 1..n
  BY <1>2, <1>4, <1>9, <1>10
<1>15. IsReportOn(G, Key, ls)
  BY <1>2, <1>10, <1>12, <1>13, <1>14 DEF IsReportOn
<1>16. CitedPresent(G)
  BY <1>10 DEF CitedPresent, ToSet
<1> QED
  BY <1>1, <1>15, <1>16

\* What the gate asks for.
AllSatisfied(R) == \A c \in DOMAIN R.controls : R.controls[c].status = "satisfied"

\* The controls of a report: each has an id of its own and one of the three statuses.
WellFormed(R) ==
    /\ Len(R.controls) \in Nat /\ DOMAIN R.controls = 1..Len(R.controls)
    /\ \A c \in DOMAIN R.controls : R.controls[c].status \in ControlStatus
    /\ \A c, d \in DOMAIN R.controls : R.controls[c].id = R.controls[d].id => c = d

\* The status that is found for an id is that of the control with the id.
LEMMA StatusFound ==
  ASSUME NEW R, WellFormed(R), NEW c \in DOMAIN R.controls
  PROVE  StatusAt(R, R.controls[c].id) = R.controls[c].status
<1>1. PICK k \in Nat : k = Len(R.controls) /\ DOMAIN R.controls = 1..k
  BY DEF WellFormed
<1>2. PICK I : I = {i \in 1..Len(R.controls) : R.controls[i].id = R.controls[c].id}
  OBVIOUS
<1>3. I \in SUBSET (1..k) /\ c \in I /\ \A i \in I : i = c
  BY <1>1, <1>2 DEF WellFormed
<1>4. Min(I) \in I
  BY <1>3, LeastIn
<1>5. StatusAt(R, R.controls[c].id) = LET m == IF I # {} THEN Min(I) ELSE 0
                                       IN  IF m = 0 THEN "absent" ELSE R.controls[m].status
  BY <1>2, Zenon DEF StatusAt, SelectInSeq
<1>6. c # 0
  BY <1>1
<1> QED
  BY <1>3, <1>4, <1>5, <1>6

\* The gate is passed by a report that verifies if and only if all its controls are satisfied.
LEMMA GateMeans ==
  ASSUME NEW R, WellFormed(R), NEW key, VerifyReport(R, key, FALSE, Null) = {}
  PROVE  Gate(R, {}, key, FALSE) = 0 <=> AllSatisfied(R)
<1>1. PICK ids : ids = {c.id : c \in ToSet(R.controls)}
  OBVIOUS
<1>2. PICK g : g = Gate(R, {}, key, FALSE)
  OBVIOUS
<1>3. g = IF \A id \in ids : StatusAt(R, id) = "satisfied" THEN 0 ELSE 1
  BY <1>1, <1>2 DEF Gate
<1>4. ids = {R.controls[c].id : c \in DOMAIN R.controls}
  BY <1>1 DEF ToSet
<1>5. (\A id \in ids : StatusAt(R, id) = "satisfied") <=> AllSatisfied(R)
  BY <1>4, StatusFound DEF AllSatisfied
<1>6. g = 0 <=> AllSatisfied(R)
  BY <1>3, <1>5
<1> QED
  BY <1>2, <1>6

\* SARIF has no result if and only if all controls are satisfied.
LEMMA SarifMeans ==
  ASSUME NEW R, WellFormed(R)
  PROVE  ToSarif(R) = <<>> <=> AllSatisfied(R)
<1>1. PICK k \in Nat : DOMAIN R.controls = 1..k
  BY DEF WellFormed
<1>2. PICK O : O = {c \in DOMAIN R.controls : R.controls[c].status # "satisfied"}
  OBVIOUS
<1>3. PICK a : a = Ascending(O)
  OBVIOUS
<1>4. a \in Seq(O) /\ O = {a[i] : i \in 1..Len(a)}
  <2>1. O \in SUBSET (1..k)
    BY <1>1, <1>2
  <2>2. Increasing(a, O)
    BY <1>3, <2>1, AscendingIncreases
  <2> QED
    BY <2>2 DEF Increasing
<1>5. PICK s : s = ToSarif(R)
  OBVIOUS
<1>6. s = [r \in 1..Len(a) |-> s[r]]
  BY <1>2, <1>3, <1>4, <1>5 DEF ToSarif
<1>7. s = <<>> <=> Len(a) = 0
  BY <1>4, <1>6
<1>8. Len(a) = 0 <=> O = {}
  BY <1>4
<1> QED
  BY <1>2, <1>5, <1>7, <1>8 DEF AllSatisfied

\* All of OSCAL's findings are satisfied if and only if all controls are.
LEMMA OscalMeans ==
  ASSUME NEW R, WellFormed(R)
  PROVE  (\A f \in ToSet(ToOscal(R)) : f.state[1] = "satisfied") <=> AllSatisfied(R)
<1>1. \A c \in DOMAIN R.controls :
         OscalState[R.controls[c].status][1] = "satisfied" <=> R.controls[c].status = "satisfied"
  BY DEF OscalState, ControlStatus, WellFormed
<1>2. PICK o : o = ToOscal(R)
  OBVIOUS
<1>3. DOMAIN o = DOMAIN R.controls /\ \A c \in DOMAIN R.controls : o[c].state = OscalState[R.controls[c].status]
  BY <1>2 DEF ToOscal
<1>4. ToSet(o) = {o[c] : c \in DOMAIN R.controls}
  BY <1>3 DEF ToSet
<1> QED
  BY <1>1, <1>2, <1>3, <1>4 DEF AllSatisfied

\* report.py:76-77: whatever is committed while a report is built, it passes the three verifiers, so
\* does the Go core's report of the same events, its checkpoint is consistent with the log, and the
\* gate, OSCAL and SARIF say the same of its verdicts.
THEOREM ReportsVerifyKept == Spec => []ReportsVerify
<1>1. RInv => ReportsVerify
  <2> SUFFICES ASSUME RInv, NEW reads \in InHand, NEW R, R = ReportOf(reads)
               PROVE  /\ VerifyReport(R, Key, FALSE, Null) = {}
                      /\ VerifyReport(R, Null, FALSE, Null) = {}
                      /\ VerifyInBrowser(R, Key) = {}
                      /\ KnownToGo(R) =>
                            /\ Go!VerifyReportRoot(R)
                            /\ VerifyReport(GoReport(reads), Key, FALSE, Null) = {}
                            /\ VerifyInBrowser(GoReport(reads), Key) = {}
                      /\ VerifyConsistencyBetween(R.checkpoint, SignCheckpoint(Key, LeavesOf(log)),
                             IF reads.signed = 0 THEN <<>> ELSE ConsistencyProof(LeavesOf(log), reads.signed), Key)
                      /\ Gate(R, {}, Key, FALSE) = 0 <=> ToSarif(R) = <<>>
                      /\ Gate(R, {}, Key, FALSE) = 0 <=> \A f \in ToSet(ToOscal(R)) : f.state[1] = "satisfied"
    BY Zenon DEF ReportsVerify
  <2>1. /\ log \in Seq(Records) /\ Len(log) \in Nat
        /\ reads.built \in 0..Len(log) /\ reads.signed \in 0..reads.built
        /\ reads.evaluated \in 0..reads.signed
    BY InHandIs
  <2>2. PICK o, r : o = SubSeq(log, 1, reads.evaluated) /\ r = Evaluate(Builtins[CrosswalkId], o)
    OBVIOUS
  <2>3. /\ IsBuiltOf(R, log, reads.signed, r, Key) /\ IsResult(r, Builtins[CrosswalkId], o, reads.evaluated)
        /\ CitedPresent(R)
    BY <2>2, ReportIs
  <2>4. PICK ls : ls = LeavesOf(SubSeq(log, 1, reads.signed))
    OBVIOUS
  <2>5. ls \in Seq(Hashes) /\ reads.signed \in 0..Len(log)
    <3>1. reads.signed \in 0..Len(log)
      BY <2>1
    <3> QED
      BY <2>1, <2>4, <3>1, UpToLeaves DEF LeavesTo
  <2>6. IsReportOn(R, Key, ls)
    BY <2>3, <2>4 DEF IsBuiltOf
  <2>7. /\ VerifyReport(R, Key, FALSE, Null) = {} /\ VerifyReport(R, Null, FALSE, Null) = {}
        /\ VerifyInBrowser(R, Key) = {}
    <3>1. Key # Null
      BY ReportAssumption
    <3>2. VerifyInBrowser(R, Key) = {}
      BY <2>3, <2>5, <2>6, <3>1, ReportPasses
    <3>3. VerifyReport(R, Key, FALSE, Null) = {}
      BY <2>3, <2>5, <2>6, <3>1, ReportPasses
    <3>4. PassesAlone(R)
      BY <2>3, <2>5, <2>6, <3>1, ReportPassesAlone
    <3>5. VerifyReport(R, Null, FALSE, Null) = {}
      BY <3>4 DEF PassesAlone
    <3> QED
      BY <3>2, <3>3, <3>5
  <2>8. ASSUME KnownToGo(R)
        PROVE  /\ Go!VerifyReportRoot(R)
               /\ VerifyReport(GoReport(reads), Key, FALSE, Null) = {}
               /\ VerifyInBrowser(GoReport(reads), Key) = {}
    <3>1. Go!VerifyReportRoot(R)
      BY <2>1, <2>3, <2>5, <2>8, GoAccepts
    <3>2. ASSUME NEW i \in 1..reads.signed, NEW path \in DOMAIN log[i] PROVE Go!Keeps(path)
      <4>1. DOMAIN R.events = 1..reads.signed /\ R.events[i].event = log[i]
        BY <2>3 DEF IsBuiltOf, IsReportOn
      <4>2. R.events[i] \in ToSet(R.events)
        BY <4>1 DEF ToSet
      <4> QED
        BY <2>8, <4>1, <4>2 DEF KnownToGo
    <3>3. PICK G : G = GoReport(reads)
      OBVIOUS
    <3>4. IsReportOn(G, Key, ls) /\ CitedPresent(G)
      BY <2>1, <2>4, <2>5, <3>2, <3>3, GoReportIs
    <3>5. Key # Null
      BY ReportAssumption
    <3>6. VerifyInBrowser(G, Key) = {}
      BY <2>5, <3>4, <3>5, ReportPasses
    <3>7. VerifyReport(G, Key, FALSE, Null) = {}
      BY <2>5, <3>4, <3>5, ReportPasses
    <3> QED
      BY <3>1, <3>3, <3>6, <3>7
  <2>9. VerifyConsistencyBetween(R.checkpoint, SignCheckpoint(Key, LeavesOf(log)),
            IF reads.signed = 0 THEN <<>> ELSE ConsistencyProof(LeavesOf(log), reads.signed), Key)
    <3>1. R.checkpoint = SignCheckpoint(Key, ls)
      BY <2>6 DEF IsReportOn
    <3> QED
      BY <2>1, <2>4, <2>5, <3>1, ReportAssumption, HeadConsistent
  <2>10. WellFormed(R)
    <3>1. R.controls = r.controls
      BY <2>3 DEF IsBuiltOf
    <3> QED
      BY <2>3, <3>1 DEF IsResult, WellFormed
  <2> QED
    BY <2>7, <2>8, <2>9, <2>10, GateMeans, SarifMeans, OscalMeans
<1> QED
  BY <1>1, RInit, RNext, PTL DEF Spec

\* It has the fields of a report.
HasBody(R) == BodyFields \subseteq DOMAIN R

\* A report has these fields.
LEMMA BuiltFields ==
  ASSUME NEW reads, NEW R, R = ReportOf(reads)
  PROVE  HasBody(R)
<1>1. PICK l, result, cp : R = BuildReport(l, result, cp, Key)
  BY DEF ReportOf
<1>2. \E B : R = Signed(B, Key) /\ BodyFields \subseteq DOMAIN B
  <2>1. PICK B : B = Body(l, cp.tree_size, result, cp, Key)
    OBVIOUS
  <2>2. R = Signed(B, Key)
    BY <1>1, <2>1, Zenon DEF BuildReport, Body
  <2>3. DOMAIN B = BodyFields
    BY <2>1 DEF Body, BodyFields
  <2> QED
    BY <2>2, <2>3
<1> QED
  BY <1>2 DEF Signed, HasBody

\* A report whose events are others, signed again.
WithEvents(R, x, key) == Signed([Unsigned(R) EXCEPT !.events = x], key)

\* Such a report has the fields of the one it is made of, but for its events.
LEMMA SignedAgain ==
  ASSUME NEW R, HasBody(R), NEW x, NEW key, NEW P, P = WithEvents(R, x, key)
  PROVE  /\ P.events = x /\ P.checkpoint = R.checkpoint /\ P.controls = R.controls
         /\ P.public_key = R.public_key /\ SignedBy(P, key) /\ P.signature.key_id = KeyId(key)
<1>1. PICK U : U = Unsigned(R)
  OBVIOUS
<1>2. DOMAIN U = DOMAIN R \ {"signature"} /\ \A f \in DOMAIN U : U[f] = R[f]
  BY <1>1 DEF Unsigned
<1>3. {"events", "controls", "checkpoint", "public_key"} \subseteq DOMAIN U
  BY <1>2 DEF HasBody, BodyFields
<1>4. PICK W : W = [U EXCEPT !.events = x]
  OBVIOUS
<1>5. /\ DOMAIN W = DOMAIN U /\ W = [f \in DOMAIN W |-> W[f]]
      /\ W.events = x /\ \A f \in DOMAIN U : f # "events" => W[f] = U[f]
  BY <1>3, <1>4
<1>6. "signature" \notin DOMAIN W
  BY <1>2, <1>5
<1>7. P = Signed(W, key)
  BY <1>1, <1>4 DEF WithEvents
<1>8. (\A f \in DOMAIN W : P[f] = W[f]) /\ SignedBy(P, key) /\ P.signature.key_id = KeyId(key)
  BY <1>5, <1>6, <1>7, SignedFields
<1>9. W.controls = R.controls /\ W.checkpoint = R.checkpoint /\ W.public_key = R.public_key
  BY <1>2, <1>3, <1>5
<1> QED
  BY <1>3, <1>5, <1>8, <1>9

\* The two verifiers do not differ over a report of the signer's.
LEMMA SameChecks ==
  ASSUME NEW P, NEW key, key # Null, P.public_key = key, P.signature.key_id = KeyId(key),
         P.checkpoint.key_id = KeyId(key)
  PROVE  VerifyInBrowser(P, key) = VerifyReport(P, key, FALSE, Null)
<1>1. HeadSigned(P, key, {KeyId(key), Null}) = HeadSigned(P, key, {KeyId(key)})
  <2>1. P.checkpoint.key_id \in {KeyId(key), Null} /\ P.checkpoint.key_id \in {KeyId(key)}
    OBVIOUS
  <2> QED
    BY <2>1 DEF HeadSigned
<1>2. Integrity(P, key, {KeyId(key), Null}) = Integrity(P, key, {KeyId(key)})
  BY <1>1, IntegrityChecks, Zenon
<1>3. VerifyReport(P, key, FALSE, Null) = DeepFails(P, FALSE) \cup Failed(Integrity(P, key, {KeyId(key), Null}))
  BY ReportChecked
<1>4. DeepFails(P, FALSE) = {}
  BY DEF DeepFails
<1> QED
  BY <1>2, <1>3, <1>4 DEF VerifyInBrowser

\* The entries' places are of the leaves ls and so are the hashes of their proofs.
EntriesOf(P, ls) ==
    \A e \in ToSet(P.events) : e.leaf_index \in 0..Len(ls) - 1 /\ e.inclusion_proof \in Seq(Runs(ls))

\* An entry of a report that verifies has the leaf at its place, if the head is the signer's:
\* here the soundness of inclusion proofs is needed.
LEMMA Genuine ==
  ASSUME NEW S, NEW ls \in Seq(S), NEW P, NEW key, P.checkpoint = SignCheckpoint(key, ls), EntriesOf(P, ls),
         VerifyInBrowser(P, key) = {}, NEW e \in ToSet(P.events)
  PROVE  LeafHash(LeafContent(e.event)) = ls[e.leaf_index + 1]
<1>1. ProofsVerify(P)
  BY IntegrityChecks, FailedSix DEF VerifyInBrowser
<1>2. PICK cp : cp = P.checkpoint
  OBVIOUS
<1>3. cp.tree_size = Len(ls) /\ cp.root_hash = TreeHash(ls)
  BY <1>2 DEF SignCheckpoint
<1>4. VerifyInclusion(e.leaf_index, Len(ls), LeafHash(LeafContent(e.event)), e.inclusion_proof, TreeHash(ls))
  BY <1>1, <1>2, <1>3 DEF ProofsVerify
<1>5. e.leaf_index \in Nat /\ e.inclusion_proof \in Seq(Runs(ls))
  BY DEF EntriesOf
<1> QED
  BY <1>4, <1>5, InclusionSound

\* So it is for the reports that are built.
LEMMA EntriesAre ==
  ASSUME NEW S, NEW ls \in Seq(S), NEW R, NEW key, IsReportOn(R, key, ls)
  PROVE  EntriesOf(R, ls)
<1> SUFFICES ASSUME NEW e \in ToSet(R.events)
             PROVE  e.leaf_index \in 0..Len(ls) - 1 /\ e.inclusion_proof \in Seq(Runs(ls))
  BY DEF EntriesOf
<1>1. PICK n \in DOMAIN R.events : e = R.events[n]
  BY DEF ToSet
<1>2. PICK i \in 1..Len(ls) : TrueAt(e, ls, i)
  BY <1>1 DEF IsReportOn
<1>3. i - 1 \in 0..Len(ls) - 1
  BY <1>2
<1>4. InclusionProof(ls, i - 1) \in Seq(Runs(ls))
  BY <1>3, InclusionComplete
<1> QED
  BY <1>2, <1>3, <1>4 DEF TrueAt

\* A remixed report has one entry y in another's place, with an index and a proof of the report's.
LEMMA RemixedIs ==
  ASSUME NEW R, HasBody(R), NEW other \in Remixed(R)
  PROVE  \E n, y :
            /\ n \in DOMAIN R.events
            /\ y.leaf_index \in {e.leaf_index : e \in ToSet(R.events)}
            /\ y.inclusion_proof \in {e.inclusion_proof : e \in ToSet(R.events)}
            /\ other = WithEvents(R, [R.events EXCEPT ![n] = y], Key)
<1>1. PICK U : U = Unsigned(R)
  OBVIOUS
<1>2. "events" \in DOMAIN U /\ U.events = R.events
  BY <1>1 DEF Unsigned, HasBody, BodyFields
<1>3. PICK events : events = {e.event : e \in ToSet(R.events)} \cup {Committed(ev) : ev \in Templates}
  OBVIOUS
<1> DEFINE mixed == [event : events, leaf_index : {e.leaf_index : e \in ToSet(R.events)},
                     leaf_hash : {Get(ev, LeafHashPath) : ev \in events},
                     inclusion_proof : {e.inclusion_proof : e \in ToSet(R.events)}]
<1> DEFINE Again(n, y) == Signed([U EXCEPT !.events[n] = y], Key)
<1>6. \E n \in DOMAIN R.events, y \in mixed : other = Again(n, y)
  <2> HIDE DEF mixed
  <2>1. Remixed(R) = {Again(n, y) : n \in DOMAIN R.events, y \in mixed}
    BY <1>1, <1>3 DEF Remixed, mixed
  <2> HIDE DEF Again
  <2>2. other \in {Again(n, y) : n \in DOMAIN R.events, y \in mixed}
    BY <2>1
  <2> QED
    BY <2>2
<1>7. PICK n \in DOMAIN R.events, y \in mixed : other = Signed([U EXCEPT !.events[n] = y], Key)
  BY <1>6
<1>8. /\ y.leaf_index \in {e.leaf_index : e \in ToSet(R.events)}
      /\ y.inclusion_proof \in {e.inclusion_proof : e \in ToSet(R.events)}
  OBVIOUS
<1>4. [U EXCEPT !.events[n] = y] = [U EXCEPT !.events = [R.events EXCEPT ![n] = y]]
  BY <1>2
<1>5. other = WithEvents(R, [R.events EXCEPT ![n] = y], Key)
  BY <1>1, <1>7, <1>4 DEF WithEvents
<1> QED
  BY <1>8, <1>5

\* What the verdicts of a report cite, and the ids of some of its events.
CitedBy(R) == UNION {ToSet(c.evidence) : c \in ToSet(R.controls)}
IdsAt(R, kept) == {Get(R.events[n].event, EventId) : n \in kept}

\* P has those of the entries of R that are kept and else what R has.
HasKept(P, R, kept) ==
    /\ Len(P.events) \in Nat /\ DOMAIN P.events = 1..Len(P.events)
    /\ \A k \in DOMAIN P.events : \E n \in kept : P.events[k] = R.events[n]
    /\ \A n \in kept : \E k \in DOMAIN P.events : P.events[k] = R.events[n]
    /\ P.checkpoint = R.checkpoint /\ P.controls = R.controls /\ P.public_key = R.public_key
    /\ SignedBy(P, Key) /\ P.signature.key_id = KeyId(Key)

\* The report with some of its entries.
LEMMA DisclosedIs ==
  ASSUME NEW R, HasBody(R), NEW n \in Nat, DOMAIN R.events = 1..n, NEW kept \in SUBSET (1..n)
  PROVE  HasKept(Disclosed(R, kept), R, kept)
<1>1. PICK a : a = Ascending(kept)
  OBVIOUS
<1>2. Increasing(a, kept)
  BY <1>1, AscendingIncreases
<1>3. PICK m \in Nat : m = Len(a) /\ a \in [1..m -> kept]
  BY <1>2 DEF Increasing
<1>4. kept = {a[k] : k \in 1..m} /\ DOMAIN a = 1..m
  BY <1>2, <1>3 DEF Increasing
<1>5. PICK x, P : x = [k \in 1..m |-> R.events[a[k]]] /\ P = WithEvents(R, x, Key)
  OBVIOUS
<1>6. Disclosed(R, kept) = P
  <2>1. Disclosed(R, kept) = WithEvents(R, [k \in DOMAIN a |-> R.events[a[k]]], Key)
    BY <1>1, Zenon DEF Disclosed, WithEvents
  <2> QED
    BY <1>4, <1>5, <2>1
<1>7. /\ P.events = x /\ P.checkpoint = R.checkpoint /\ P.controls = R.controls
      /\ P.public_key = R.public_key /\ SignedBy(P, Key) /\ P.signature.key_id = KeyId(Key)
  BY <1>5, SignedAgain
<1>8. Len(x) = m /\ DOMAIN x = 1..m /\ \A k \in 1..m : x[k] = R.events[a[k]] /\ a[k] \in kept
  BY <1>3, <1>5
<1>9. HasKept(P, R, kept)
  <2>1. \A k \in DOMAIN x : \E j \in kept : x[k] = R.events[j]
    BY <1>8
  <2>2. \A j \in kept : \E k \in 1..m : j = a[k]
    BY <1>4
  <2>3. \A j \in kept : \E k \in DOMAIN x : x[k] = R.events[j]
    BY <1>8, <2>2
  <2> QED
    BY <1>7, <1>8, <2>1, <2>3 DEF HasKept
<1> QED
  BY <1>6, <1>9

\* A report with some of the entries is one on the same leaves.
LEMMA DisclosedChecked ==
  ASSUME NEW S, NEW ls \in Seq(S), NEW R, HasBody(R), IsReportOn(R, Key, ls), NEW n \in Nat, DOMAIN R.events = 1..n,
         NEW kept \in SUBSET (1..n)
  PROVE  VerifyInBrowser(Disclosed(R, kept), Key) = {} <=> CitedBy(R) \subseteq IdsAt(R, kept)
<1>1. PICK P : P = Disclosed(R, kept) /\ HasKept(P, R, kept)
  BY DisclosedIs
<1>2. PICK m \in Nat : m = Len(P.events) /\ DOMAIN P.events = 1..m
  BY <1>1 DEF HasKept
<1>3. IsReportOn(P, Key, ls)
  <2>1. ASSUME NEW k \in DOMAIN P.events PROVE \E i \in 1..Len(ls) : TrueAt(P.events[k], ls, i)
    <3>1. PICK j \in kept : P.events[k] = R.events[j]
      BY <1>1, <2>1 DEF HasKept
    <3>2. j \in DOMAIN R.events
      OBVIOUS
    <3> QED
      BY <3>1, <3>2 DEF IsReportOn
  <2> QED
    BY <1>1, <2>1 DEF IsReportOn, HasKept
<1>4. Present(P) = IdsAt(R, kept)
  <2>1. Present(P) = {Get(P.events[k].event, EventId) : k \in DOMAIN P.events}
    BY DEF Present, ToSet
  <2>2. \A k \in DOMAIN P.events : \E j \in kept : P.events[k] = R.events[j]
    BY <1>1 DEF HasKept
  <2>3. \A j \in kept : \E k \in DOMAIN P.events : P.events[k] = R.events[j]
    BY <1>1 DEF HasKept
  <2>4. Present(P) \subseteq IdsAt(R, kept)
    BY <2>1, <2>2 DEF IdsAt
  <2>5. IdsAt(R, kept) \subseteq Present(P)
    BY <2>1, <2>3 DEF IdsAt
  <2> QED
    BY <2>4, <2>5
<1>5. CitedPresent(P) <=> CitedBy(R) \subseteq IdsAt(R, kept)
  BY <1>1, <1>4 DEF CitedPresent, CitedBy, HasKept
<1> QED
  BY <1>1, <1>3, <1>5, ReportAssumption, ReportPasses

\* The Go core takes a report for the whole tree.
LEMMA GoTakesAll ==
  ASSUME NEW R, HasBody(R), NEW n \in Nat, DOMAIN R.events = 1..n, R.checkpoint.tree_size = n,
         \A i \in 1..n : R.events[i].leaf_index = i - 1,
         NEW kept \in SUBSET (1..n), Go!VerifyReportRoot(Disclosed(R, kept))
  PROVE  kept = 1..n
<1>1. PICK P : P = Disclosed(R, kept) /\ HasKept(P, R, kept)
  BY DisclosedIs
<1>2. ASSUME NEW i \in 1..n PROVE i \in kept
  <2>1. LastAt(P, i) # 0
    <3>1. P.checkpoint.tree_size = n
      BY <1>1 DEF HasKept
    <3> QED
      BY <1>1, <3>1, RootVerified
  <2>2. PICK k \in 1..Len(P.events) : P.events[k].leaf_index = i - 1
    BY <2>1 DEF LastAt
  <2>3. PICK j \in kept : P.events[k] = R.events[j]
    BY <1>1 DEF HasKept
  <2>4. j \in 1..n /\ j - 1 = i - 1
    BY <2>2, <2>3
  <2> QED
    BY <2>3, <2>4
<1> QED
  BY <1>2

\* A report with one entry put together from others verifies only with events of the log.
LEMMA RemixedGenuine ==
  ASSUME NEW l \in Seq(Records), NEW n \in 0..Len(l), NEW ls, ls = LeavesOf(SubSeq(l, 1, n)),
         NEW R, HasBody(R), IsReportOn(R, Key, ls), NEW P \in Remixed(R)
  PROVE  /\ VerifyInBrowser(P, Key) = VerifyReport(P, Key, FALSE, Null)
         /\ VerifyInBrowser(P, Key) = {} =>
               \A e \in ToSet(P.events) : LeafContent(e.event) = LeafContent(l[e.leaf_index + 1])
<1>1. LeavesTo(l, n, ls)
  BY UpToLeaves
<1>2. /\ n \in Nat /\ ls \in Seq(Hashes) /\ Len(ls) = n
      /\ \A i \in 1..n : ls[i] = LeafHash(LeafContent(l[i]))
  BY <1>1 DEF LeavesTo
<1>3. EntriesOf(R, ls)
  BY <1>2, EntriesAre
<1>4. PICK i, y :
         /\ i \in DOMAIN R.events
         /\ y.leaf_index \in {e.leaf_index : e \in ToSet(R.events)}
         /\ y.inclusion_proof \in {e.inclusion_proof : e \in ToSet(R.events)}
         /\ P = WithEvents(R, [R.events EXCEPT ![i] = y], Key)
  BY RemixedIs
<1>5. /\ P.events = [R.events EXCEPT ![i] = y] /\ P.checkpoint = R.checkpoint
      /\ P.public_key = R.public_key /\ P.signature.key_id = KeyId(Key)
  BY <1>4, SignedAgain
<1>6. P.checkpoint = SignCheckpoint(Key, ls) /\ P.public_key = Key
  BY <1>5 DEF IsReportOn
<1>7. P.checkpoint.key_id = KeyId(Key)
  BY <1>6 DEF SignCheckpoint
<1>8. VerifyInBrowser(P, Key) = VerifyReport(P, Key, FALSE, Null)
  BY <1>5, <1>6, <1>7, ReportAssumption, SameChecks
<1>9. EntriesOf(P, ls)
  <2> SUFFICES ASSUME NEW e \in ToSet(P.events)
               PROVE  e.leaf_index \in 0..Len(ls) - 1 /\ e.inclusion_proof \in Seq(Runs(ls))
    BY DEF EntriesOf
  <2>1. e = y \/ e \in ToSet(R.events)
    BY <1>5 DEF ToSet
  <2> QED
    BY <1>3, <1>4, <2>1 DEF EntriesOf
<1>10. ASSUME VerifyInBrowser(P, Key) = {}, NEW e \in ToSet(P.events)
       PROVE  LeafContent(e.event) = LeafContent(l[e.leaf_index + 1])
  <2>1. LeafHash(LeafContent(e.event)) = ls[e.leaf_index + 1]
    BY <1>2, <1>6, <1>9, <1>10, Genuine
  <2>2. e.leaf_index + 1 \in 1..n
    BY <1>2, <1>9 DEF EntriesOf
  <2>3. LeafHash(LeafContent(e.event)) = LeafHash(LeafContent(l[e.leaf_index + 1]))
    BY <1>2, <2>1, <2>2
  <2> QED
    BY <2>3, LeafIsNoNode
<1> QED
  BY <1>8, <1>10

\* verify.py:7-16: whatever the signer makes of a report and signs, what verifies has events of the
\* log at their places, some events verify by themselves if those the verdicts cite are among them,
\* and the Go core takes nothing less than all, for all logs, crosswalks and events.
THEOREM AcceptedIsGenuineKept == Spec => []AcceptedIsGenuine
<1>1. RInv => AcceptedIsGenuine
  <2> SUFFICES ASSUME RInv, NEW reads \in InHand, NEW R, R = ReportOf(reads)
               PROVE  /\ \A other \in Remixed(R) :
                            /\ VerifyInBrowser(other, Key) = VerifyReport(other, Key, FALSE, Null)
                            /\ VerifyInBrowser(other, Key) = {} =>
                                  \A e \in ToSet(other.events) :
                                     LeafContent(e.event) = LeafContent(log[e.leaf_index + 1])
                      /\ \A kept \in SUBSET DOMAIN R.events :
                            /\ VerifyInBrowser(Disclosed(R, kept), Key) = {} <=> CitedBy(R) \subseteq IdsAt(R, kept)
                            /\ Go!VerifyReportRoot(Disclosed(R, kept)) => kept = DOMAIN R.events
    BY Zenon DEF AcceptedIsGenuine, CitedBy, IdsAt
  <2>1. /\ log \in Seq(Records) /\ Len(log) \in Nat
        /\ reads.built \in 0..Len(log) /\ reads.signed \in 0..reads.built
        /\ reads.evaluated \in 0..reads.signed
    BY InHandIs
  <2>2. PICK o, r : o = SubSeq(log, 1, reads.evaluated) /\ r = Evaluate(Builtins[CrosswalkId], o)
    OBVIOUS
  <2>3. IsBuiltOf(R, log, reads.signed, r, Key)
    BY <2>2, ReportIs
  <2>4. PICK ls, n : ls = LeavesOf(SubSeq(log, 1, reads.signed)) /\ n = reads.signed
    OBVIOUS
  <2>5. n \in Nat /\ n \in 0..Len(log)
    BY <2>1, <2>4
  <2>6. ls \in Seq(Hashes) /\ Len(ls) = n
    BY <2>1, <2>4, <2>5, UpToLeaves DEF LeavesTo
  <2>7. /\ IsReportOn(R, Key, ls) /\ DOMAIN R.events = 1..n /\ HasBody(R)
        /\ \A i \in 1..n : R.events[i].leaf_index = i - 1
    BY <2>3, <2>4, BuiltFields DEF IsBuiltOf, IsReportOn, TrueAt
  <2>8. R.checkpoint.tree_size = n
    BY <2>6, <2>7 DEF IsReportOn, SignCheckpoint
  <2>9. ASSUME NEW other \in Remixed(R)
        PROVE  /\ VerifyInBrowser(other, Key) = VerifyReport(other, Key, FALSE, Null)
               /\ VerifyInBrowser(other, Key) = {} =>
                     \A e \in ToSet(other.events) : LeafContent(e.event) = LeafContent(log[e.leaf_index + 1])
    BY <2>1, <2>4, <2>5, <2>7, RemixedGenuine
  <2>10. ASSUME NEW kept \in SUBSET DOMAIN R.events
         PROVE  /\ VerifyInBrowser(Disclosed(R, kept), Key) = {} <=> CitedBy(R) \subseteq IdsAt(R, kept)
                /\ Go!VerifyReportRoot(Disclosed(R, kept)) => kept = DOMAIN R.events
    <3>1. kept \in SUBSET (1..n)
      BY <2>7
    <3>2. VerifyInBrowser(Disclosed(R, kept), Key) = {} <=> CitedBy(R) \subseteq IdsAt(R, kept)
      BY <2>5, <2>6, <2>7, <3>1, DisclosedChecked
    <3>3. Go!VerifyReportRoot(Disclosed(R, kept)) => kept = 1..n
      BY <2>5, <2>7, <2>8, <3>1, GoTakesAll
    <3> QED
      BY <2>7, <3>2, <3>3
  <2> QED
    BY <2>9, <2>10
<1> QED
  BY <1>1, RInit, RNext, PTL DEF Spec

----------------------------------------------------------------------------
(* Recorder: what a client's events say and refer to.                       *)

\* The fields that refer to a payload (sdk.py, _ref).
RefNames == {"input_ref", "output_ref", "rationale_ref", "fria_ref"}

\* A part of an event that says nothing of provenance, and in whose references are payloads
\* of the operation.
PartFits(f, op) ==
    \A path \in DOMAIN f :
        /\ Head(path) # "provenance"
        /\ f[path] # Null /\ Last(path) \in RefNames =>
              \E k \in DOMAIN PayloadsOf(op) : f[path] = HashPayload(PayloadsOf(op)[k])

\* Two such parts make one (sdk.py, the recorders).
LEMMA PutFits ==
  ASSUME NEW op, NEW f, NEW g, PartFits(f, op), PartFits(g, op)
  PROVE  PartFits(f ++ g, op)
<1> SUFFICES ASSUME NEW path \in DOMAIN (f ++ g)
             PROVE  /\ Head(path) # "provenance"
                    /\ (f ++ g)[path] # Null /\ Last(path) \in RefNames =>
                          \E k \in DOMAIN PayloadsOf(op) :
                              (f ++ g)[path] = HashPayload(PayloadsOf(op)[k])
  BY DEF PartFits
<1>0. /\ path \in DOMAIN f \cup DOMAIN g
      /\ \A x \in DOMAIN f : (f ++ g)[x] = f[x]
      /\ \A x \in DOMAIN g \ DOMAIN f : (f ++ g)[x] = g[x]
  BY PutTogether, Zenon
<1>1. CASE path \in DOMAIN f
  <2>1. (f ++ g)[path] = f[path]
    BY <1>0, <1>1
  <2> QED
    BY <1>1, <2>1 DEF PartFits
<1>2. CASE path \in DOMAIN g \ DOMAIN f
  <2>1. (f ++ g)[path] = g[path]
    BY <1>0, <1>2
  <2> QED
    BY <1>2, <2>1 DEF PartFits
<1> QED
  BY <1>0, <1>1, <1>2

\* A part of one field whose name is not a reference's.
LEMMA PlainFits ==
  ASSUME NEW op, NEW part, NEW name, NEW value, part # "provenance", name \notin RefNames
  PROVE  PartFits(<<part, name>> <: value, op)
<1>1. Last(<<part, name>>) = name /\ Head(<<part, name>>) = part
  BY DEF Last
<1>2. DOMAIN (<<part, name>> <: value) = {<<part, name>>}
  BY OneField, Zenon
<1> QED
  BY <1>1, <1>2 DEF PartFits

\* What a call may give as a payload.
PayloadNames == {"fria", "input", "output", "rationale"}

\* The payloads of an operation are those it gives (sdk.py, the calls of _ref).
LEMMA PayloadsAre ==
  ASSUME NEW op
  PROVE  /\ PayloadsOf(op) \in Seq(ToSet(PayloadsOf(op)))
         /\ \A name \in PayloadNames : Attr(op, name) # Null =>
               \E k \in DOMAIN PayloadsOf(op) : PayloadsOf(op)[k] = Attr(op, name)
<1> DEFINE all == <<Attr(op, "fria"), Attr(op, "input"), Attr(op, "output"), Attr(op, "rationale")>>
           S == {n \in DOMAIN all : all[n] # Null}
           given == Ascending(S)
           those == [n \in DOMAIN given |-> all[given[n]]]
<1>1. DOMAIN all = 1..4
  OBVIOUS
<1>2. S \in SUBSET (1..4)
  BY <1>1
<1>3. Increasing(given, S)
  BY <1>2, AscendingIncreases
<1>4. given \in Seq(S) /\ S = {given[i] : i \in 1..Len(given)}
  BY <1>3 DEF Increasing
<1>5. PayloadsOf(op) = those
  BY DEF PayloadsOf
<1> HIDE DEF S, given
<1>6. DOMAIN given = 1..Len(given) /\ Len(given) \in Nat
  BY <1>4
<1>7. those \in Seq(ToSet(those))
  BY <1>6 DEF ToSet
<1>8. \A n \in S : \E k \in DOMAIN those : those[k] = all[n]
  BY <1>4, <1>6
<1>9. ASSUME NEW name \in PayloadNames, Attr(op, name) # Null
      PROVE  \E n \in S : all[n] = Attr(op, name)
  <2>1. all[1] = Attr(op, "fria") /\ all[2] = Attr(op, "input") /\ all[3] = Attr(op, "output")
        /\ all[4] = Attr(op, "rationale")
    OBVIOUS
  <2>2. PICK n \in 1..4 : all[n] = Attr(op, name)
    BY <2>1 DEF PayloadNames
  <2>3. n \in S
    BY <1>1, <1>9, <2>2 DEF S
  <2> QED
    BY <2>2, <2>3
<1> HIDE DEF all, those
<1> QED
  BY <1>5, <1>7, <1>8, <1>9

\* What a recorder puts in a field for a payload: its hash, or None.
RefOf(op, name) == IF Attr(op, name) = Null THEN Null ELSE HashPayload(Attr(op, name))

\* Such a field refers to a payload that the call stores (sdk.py, _ref).
LEMMA RefFits ==
  ASSUME NEW op, NEW part, NEW field, NEW name \in PayloadNames, part # "provenance"
  PROVE  PartFits(<<part, field>> <: RefOf(op, name), op)
<1>1. Head(<<part, field>>) = part
  OBVIOUS
<1>2. RefOf(op, name) # Null =>
         \E k \in DOMAIN PayloadsOf(op) : RefOf(op, name) = HashPayload(PayloadsOf(op)[k])
  BY PayloadsAre DEF RefOf
<1>3. /\ DOMAIN (<<part, field>> <: RefOf(op, name)) = {<<part, field>>}
      /\ (<<part, field>> <: RefOf(op, name))[<<part, field>>] = RefOf(op, name)
  BY OneField, Zenon
<1> QED
  BY <1>1, <1>2, <1>3 DEF PartFits

\* The recorders of the client.
Kinds == {"agent_decision", "human_approval", "risk_classification", "policy_decision", "incident"}

\* An event of the client (sdk.py, the recorders): its provenance, and fields that refer to
\* the payloads of the operation.
LEMMA EventIs ==
  ASSUME NEW op, op["kind"] \in Kinds, NEW ambient
  PROVE  \E fields : /\ PartFits(fields, op)
                     /\ EventOf(op, ambient) =
                          Event(op["kind"], Attr(op, "agent"), "sdk", ProvenanceOf(op, ambient) ++ fields)
<1> DEFINE of(name) == Attr(op, name)
           ref(name) == RefOf(op, name)
           Made(fields) == EventOf(op, ambient) =
                          Event(op["kind"], Attr(op, "agent"), "sdk", ProvenanceOf(op, ambient) ++ fields)
<1>1. CASE op["kind"] = "agent_decision"
  <2> DEFINE f1 == <<"io", "input_ref">> <: ref("input")
             f2 == <<"io", "output_ref">> <: ref("output")
             f3 == <<"risk", "classification">> <: of("classification")
             f4 == <<"risk", "rationale_ref">> <: ref("rationale")
             f5 == <<"risk", "framework">> <: IF of("classification") # Null THEN "eu-ai-act" ELSE Null
             f6 == <<"oversight", "status">> <: IF of("approval") = Null THEN Null ELSE "approved"
             f7 == <<"oversight", "approval_ref">> <: of("approval")
             f8 == <<"attributes", "control">> <: of("control")
             fields == f1 ++ f2 ++ f3 ++ f4 ++ f5 ++ f6 ++ f7 ++ f8
  <2>1. Made(fields)
    BY <1>1 DEF EventOf, RefOf
  <2>2. PartFits(f1, op) /\ PartFits(f2, op) /\ PartFits(f4, op)
    BY RefFits DEF PayloadNames
  <2>3. PartFits(f3, op) /\ PartFits(f5, op) /\ PartFits(f6, op) /\ PartFits(f7, op) /\ PartFits(f8, op)
    BY PlainFits DEF RefNames
  <2> HIDE DEF f1, f2, f3, f4, f5, f6, f7, f8
  <2>4. PartFits(f1 ++ f2 ++ f3 ++ f4, op)
    BY <2>2, <2>3, PutFits
  <2>5. PartFits(fields, op)
    BY <2>2, <2>3, <2>4, PutFits
  <2> QED
    BY <2>1, <2>5
<1>2. CASE op["kind"] = "human_approval"
  <2> DEFINE f1 == <<"oversight", "status">> <: IF op["approved"] THEN "approved" ELSE "rejected"
             f2 == <<"oversight", "reviewer">> <: of("reviewer")
             f3 == <<"io", "input_ref">> <: ref("rationale")
             fields == f1 ++ f2 ++ f3
  <2>1. Made(fields)
    BY <1>2 DEF EventOf, RefOf
  <2>2. PartFits(f1, op) /\ PartFits(f2, op) /\ PartFits(f3, op)
    BY RefFits, PlainFits DEF PayloadNames, RefNames
  <2> HIDE DEF f1, f2, f3
  <2>3. PartFits(fields, op)
    BY <2>2, PutFits
  <2> QED
    BY <2>1, <2>3
<1>3. CASE op["kind"] = "risk_classification"
  <2> DEFINE f1 == <<"risk", "classification">> <: of("classification")
             f2 == <<"risk", "rationale_ref">> <: ref("rationale")
             f3 == <<"risk", "framework">> <: "eu-ai-act"
             f4 == <<"attributes", "fria_ref">> <: ref("fria")
             fields == f1 ++ f2 ++ f3 ++ f4
  <2>1. Made(fields)
    BY <1>3 DEF EventOf, RefOf
  <2>2. PartFits(f1, op) /\ PartFits(f2, op) /\ PartFits(f3, op) /\ PartFits(f4, op)
    BY RefFits, PlainFits DEF PayloadNames, RefNames
  <2> HIDE DEF f1, f2, f3, f4
  <2>3. PartFits(fields, op)
    BY <2>2, PutFits
  <2> QED
    BY <2>1, <2>3
<1>4. CASE op["kind"] = "policy_decision"
  <2> DEFINE f1 == <<"attributes", "decision">> <: of("decision")
             f2 == <<"attributes", "policy">> <: of("policy")
             fields == f1 ++ f2
  <2>1. Made(fields)
    BY <1>4 DEF EventOf, RefOf
  <2>2. PartFits(f1, op) /\ PartFits(f2, op)
    BY PlainFits DEF RefNames
  <2> HIDE DEF f1, f2
  <2>3. PartFits(fields, op)
    BY <2>2, PutFits
  <2> QED
    BY <2>1, <2>3
<1>5. CASE op["kind"] = "incident"
  <2> DEFINE f1 == <<"attributes", "severity">> <: of("severity")
             f2 == <<"attributes", "report_deadline_days">> <: of("days")
             f3 == <<"io", "input_ref">> <: ref("input")
             fields == f1 ++ f2 ++ f3
  <2>1. Made(fields)
    BY <1>5 DEF EventOf, RefOf
  <2>2. PartFits(f1, op) /\ PartFits(f2, op) /\ PartFits(f3, op)
    BY RefFits, PlainFits DEF PayloadNames, RefNames
  <2> HIDE DEF f1, f2, f3
  <2>3. PartFits(fields, op)
    BY <2>2, PutFits
  <2> QED
    BY <2>1, <2>3
<1> QED
  BY <1>1, <1>2, <1>3, <1>4, <1>5 DEF Kinds

TaskPath == <<"provenance", "task_id">>

\* An event with the fields there are, those every event has, and its id.
HasFields(ev, fields) ==
    /\ DOMAIN ev = {EventId, <<"kind">>, <<"actor", "agent_id">>, <<"source", "format">>}
                       \cup {p \in DOMAIN fields : fields[p] # Null}
    /\ \A p \in DOMAIN fields : fields[p] # Null /\ p # EventId => ev[p] = fields[p]

\* That is what an event is made to be (events.py, finalize_id).
LEMMA EventHas ==
  ASSUME NEW kind, NEW agent, NEW format, NEW fields
  PROVE  HasFields(FinalizeId(Event(kind, agent, format, fields)), fields)
<1> DEFINE ev == FinalizeId(Event(kind, agent, format, fields))
           A == Clean(fields)
           k == <<"kind">> <: kind
           a == <<"actor", "agent_id">> <: agent
           s == <<"source", "format">> <: format
           made == A ++ k ++ a ++ s
           id == EventId <: <<"evt", ContentForId(made)>>
<1>1. ev = id ++ made
  BY DEF FinalizeId, Event
<1>2. /\ DOMAIN k = {<<"kind">>} /\ DOMAIN a = {<<"actor", "agent_id">>}
      /\ DOMAIN s = {<<"source", "format">>} /\ DOMAIN id = {EventId}
  BY OneField, Zenon
<1>3. DOMAIN A = {p \in DOMAIN fields : fields[p] # Null} /\ \A p \in DOMAIN A : A[p] = fields[p]
  BY DEF Clean
<1> HIDE DEF A, k, a, s, id
<1>4. DOMAIN (A ++ k) = DOMAIN A \cup DOMAIN k /\ \A p \in DOMAIN A : (A ++ k)[p] = A[p]
  BY PutTogether, Zenon
<1>5. /\ DOMAIN (A ++ k ++ a) = DOMAIN (A ++ k) \cup DOMAIN a
      /\ \A p \in DOMAIN (A ++ k) : (A ++ k ++ a)[p] = (A ++ k)[p]
  BY PutTogether, Zenon
<1>6. /\ DOMAIN made = DOMAIN (A ++ k ++ a) \cup DOMAIN s
      /\ \A p \in DOMAIN (A ++ k ++ a) : made[p] = (A ++ k ++ a)[p]
  BY PutTogether, Zenon
<1> HIDE DEF made
<1> HIDE DEF ev
<1>7. /\ DOMAIN ev = DOMAIN id \cup DOMAIN made
      /\ \A p \in DOMAIN made \ DOMAIN id : ev[p] = made[p]
  <2>1. /\ DOMAIN (id ++ made) = DOMAIN id \cup DOMAIN made
        /\ \A p \in DOMAIN made \ DOMAIN id : (id ++ made)[p] = made[p]
    BY PutTogether, Zenon
  <2> QED
    BY <1>1, <2>1
<1>8. \A p \in DOMAIN A : p \in DOMAIN made /\ made[p] = fields[p]
  BY <1>3, <1>4, <1>5, <1>6
<1> QED
  BY <1>2, <1>3, <1>4, <1>5, <1>6, <1>7, <1>8 DEF ev, HasFields

\* The provenance that a with block may set (sdk.py, task).
ScopeFields == {"task_id", "context_id", "parent_task_id", "root_task_id"}

IsAmbient(ambient) ==
    /\ DOMAIN ambient \subseteq {<<"provenance", field>> : field \in ScopeFields}
    /\ \A path \in DOMAIN ambient : ambient[path] # Null

\* What a call says of the task comes before what the with block says.
Told(op, ambient, path) ==
    LET given == IF path[2] \in Overrides THEN Attr(op, path[2]) ELSE Null
    IN  IF given = Null THEN Get(ambient, path) ELSE given

\* That is what is merged (sdk.py, _provenance).
LEMMA ProvenanceIs ==
  ASSUME NEW op, NEW ambient, IsAmbient(ambient), NEW P, P = ProvenanceOf(op, ambient)
  PROVE  /\ IsAmbient(P) /\ DOMAIN ambient \subseteq DOMAIN P
         /\ \A field \in ScopeFields :
               LET path == <<"provenance", field>> IN Get(P, path) = Told(op, ambient, path)
<1> DEFINE given == {<<"provenance", field>> : field \in {f \in Overrides : Attr(op, f) # Null}}
           gave == [path \in given |-> op[path[2]]]
<1>1. P = gave ++ ambient
  BY DEF ProvenanceOf
<1>2. DOMAIN gave = given /\ \A path \in given : gave[path] = op[path[2]]
  OBVIOUS
<1> HIDE DEF gave
<1>3. /\ DOMAIN P = given \cup DOMAIN ambient
      /\ \A x \in given : P[x] = op[x[2]]
      /\ \A x \in DOMAIN ambient \ given : P[x] = ambient[x]
  <2>1. /\ DOMAIN (gave ++ ambient) = DOMAIN gave \cup DOMAIN ambient
        /\ \A x \in DOMAIN gave : (gave ++ ambient)[x] = gave[x]
        /\ \A x \in DOMAIN ambient \ DOMAIN gave : (gave ++ ambient)[x] = ambient[x]
    BY PutTogether, Zenon
  <2> QED
    BY <1>1, <1>2, <2>1
<1>4. \A path \in given : \E f \in ScopeFields :
         path = <<"provenance", f>> /\ op[path[2]] = Attr(op, f) /\ Attr(op, f) # Null
  <2> SUFFICES ASSUME NEW f \in Overrides, Attr(op, f) # Null
               PROVE  f \in ScopeFields /\ op[(<<"provenance", f>>)[2]] = Attr(op, f)
    OBVIOUS
  <2> QED
    BY DEF Overrides, ScopeFields, Attr
<1>5. ASSUME NEW field \in ScopeFields, NEW path, path = <<"provenance", field>>
      PROVE  Get(P, path) = Told(op, ambient, path)
  <2>1. path[2] = field /\ (path \in given <=> field \in Overrides /\ Attr(op, field) # Null)
    BY <1>5
  <2>2. CASE path \in given
    <3>1. op[path[2]] = Attr(op, field)
      BY <2>1, <2>2 DEF Attr
    <3> QED
      BY <1>3, <2>1, <2>2, <3>1 DEF Get, Told
  <2>3. CASE path \notin given
    BY <1>3, <2>1, <2>3 DEF Get, Told
  <2> QED
    BY <2>2, <2>3
<1>6. IsAmbient(P)
  <2>1. ASSUME NEW path \in DOMAIN P
        PROVE  path \in {<<"provenance", field>> : field \in ScopeFields} /\ P[path] # Null
    <3>1. CASE path \in given
      BY <1>3, <1>4, <3>1
    <3>2. CASE path \in DOMAIN ambient \ given
      BY <1>3, <3>2 DEF IsAmbient
    <3> QED
      BY <1>3, <3>1, <3>2
  <2> QED
    BY <2>1 DEF IsAmbient
<1> QED
  BY <1>3, <1>5, <1>6

\* What a recorder's event has: references of the operation's payloads, and the provenance
\* that the call says, and the with block where the call does not.
LEMMA RecordedIs ==
  ASSUME NEW op \in Operations, NEW ambient \in Scopes \cup {NoScope}, NEW ev,
         ev = FinalizeId(EventOf(op, ambient))
  PROVE  /\ \A path \in DOMAIN ev : Last(path) \in RefNames =>
               \E k \in DOMAIN PayloadsOf(op) : ev[path] = HashPayload(PayloadsOf(op)[k])
         /\ \A path \in Under("provenance", ev) \cup DOMAIN ambient :
               Get(ev, path) = Told(op, ambient, path)
<1> DEFINE P == ProvenanceOf(op, ambient)
<1>1. op["kind"] \in Kinds
  BY RecorderAssumption DEF Kinds
<1>2. PICK F : PartFits(F, op) /\ EventOf(op, ambient) = Event(op["kind"], Attr(op, "agent"), "sdk", P ++ F)
  BY <1>1, EventIs
<1> DEFINE fields == P ++ F
           named == {EventId, <<"kind">>, <<"actor", "agent_id">>, <<"source", "format">>}
<1>3. /\ DOMAIN ev = named \cup {p \in DOMAIN fields : fields[p] # Null}
      /\ \A p \in DOMAIN fields : fields[p] # Null /\ p # EventId => ev[p] = fields[p]
  <2>1. ev = FinalizeId(Event(op["kind"], Attr(op, "agent"), "sdk", fields))
    BY <1>2
  <2> HIDE DEF fields, named
  <2>2. HasFields(FinalizeId(Event(op["kind"], Attr(op, "agent"), "sdk", fields)), fields)
    BY EventHas, Zenon
  <2> QED
    BY <2>1, <2>2 DEF named, HasFields
<1>4. /\ DOMAIN fields = DOMAIN P \cup DOMAIN F
      /\ \A x \in DOMAIN P : fields[x] = P[x]
      /\ \A x \in DOMAIN F \ DOMAIN P : fields[x] = F[x]
  BY PutTogether, Zenon
<1>5. IsAmbient(ambient)
  BY RecorderAssumption DEF NoScope, ScopeFields, IsAmbient
<1>6. /\ IsAmbient(P) /\ DOMAIN ambient \subseteq DOMAIN P
      /\ \A field \in ScopeFields :
            LET path == <<"provenance", field>> IN Get(P, path) = Told(op, ambient, path)
  BY <1>5, ProvenanceIs
<1> HIDE DEF P, fields
<1>7. \A path \in DOMAIN P : P[path] # Null
  BY <1>6 DEF IsAmbient
<1>8. ASSUME NEW path \in named
      PROVE  Last(path) \notin RefNames /\ Head(path) # "provenance"
  <2>1. /\ Last(EventId) = "event_id" /\ Head(EventId) = "event_id"
        /\ Last(<<"kind">>) = "kind" /\ Head(<<"kind">>) = "kind"
        /\ Last(<<"actor", "agent_id">>) = "agent_id" /\ Head(<<"actor", "agent_id">>) = "actor"
        /\ Last(<<"source", "format">>) = "format" /\ Head(<<"source", "format">>) = "source"
    BY DEF Last, EventId
  <2> QED
    BY <2>1 DEF RefNames
<1>9. ASSUME NEW path \in DOMAIN P
      PROVE  Last(path) \notin RefNames /\ Head(path) = "provenance"
  <2>1. PICK field \in ScopeFields : path = <<"provenance", field>>
    BY <1>6 DEF IsAmbient
  <2>2. Last(path) = field /\ Head(path) = "provenance"
    BY <2>1 DEF Last
  <2> QED
    BY <2>2 DEF ScopeFields, RefNames
<1>10. ASSUME NEW path \in DOMAIN P PROVE path \in DOMAIN ev /\ ev[path] = P[path]
  <2>1. path # EventId
    <3>1. Head(path) = "provenance" /\ Head(EventId) = "event_id"
      BY <1>9 DEF EventId
    <3> QED
      BY <3>1
  <2> QED
    BY <1>3, <1>4, <1>7, <2>1
<1>11. ASSUME NEW path \in DOMAIN ev, path \notin named, path \notin DOMAIN P
       PROVE  path \in DOMAIN F /\ F[path] # Null /\ ev[path] = F[path]
  <2>1. path \in DOMAIN fields /\ fields[path] # Null /\ path # EventId
    BY <1>3, <1>11
  <2> QED
    BY <2>1, <1>3, <1>4, <1>11
<1> HIDE DEF named
<1>12. ASSUME NEW path \in DOMAIN ev, Last(path) \in RefNames
       PROVE  \E k \in DOMAIN PayloadsOf(op) : ev[path] = HashPayload(PayloadsOf(op)[k])
  BY <1>2, <1>8, <1>9, <1>11, <1>12 DEF PartFits
<1>13. ASSUME NEW path \in Under("provenance", ev) \cup DOMAIN ambient
       PROVE  Get(ev, path) = Told(op, ambient, path)
  <2>1. path \in DOMAIN P
    <3>1. CASE path \in DOMAIN ambient
      BY <1>6, <3>1
    <3>2. CASE path \in DOMAIN ev /\ Head(path) = "provenance"
      BY <3>2, <1>2, <1>8, <1>11 DEF PartFits
    <3> QED
      BY <3>1, <3>2 DEF Under
  <2>2. Get(ev, path) = Get(P, path)
    BY <1>10, <2>1 DEF Get
  <2>3. PICK field \in ScopeFields : path = <<"provenance", field>>
    BY <1>6, <2>1 DEF IsAmbient
  <2> QED
    BY <1>6, <2>2, <2>3
<1> QED
  BY <1>12, <1>13

\* What the innermost open block says.
Innermost(open) == IF open = <<>> THEN NoScope ELSE Last(open)

\* The ambient scope of a thread is that of its innermost block, and the tokens are those of
\* the blocks around it.
ScopeInv ==
    /\ scope \in [Contexts -> Scopes \cup {NoScope}]
    /\ tokens \in [Contexts -> Seq(Scopes \cup {NoScope})] /\ blocks \in [Contexts -> Seq(Scopes)]
    /\ \A c \in Contexts :
          /\ scope[c] = Innermost(blocks[c]) /\ Len(tokens[c]) = Len(blocks[c])
          /\ \A k \in 1..Len(blocks[c]) : tokens[c][k] = Innermost(SubSeq(blocks[c], 1, k - 1))

\* What is to be stored next, and what is in the vault of the payloads of a call.
CallInv ==
    /\ call \in [Contexts -> [pc : {"idle", "store", "write"}, op : Operations \cup {Null}, n : Nat]]
    /\ \A c \in Contexts : call[c].pc # "idle" =>
          /\ call[c].op \in Operations
          /\ \A k \in DOMAIN PayloadsOf(call[c].op) :
                k <= call[c].n => HashPayload(PayloadsOf(call[c].op)[k]) \in DOMAIN vault

\* A file of the vault that is not whole is being written or its write was cut off.
VaultInv ==
    \A ref \in DOMAIN vault : vault[ref] = "torn" => ref \in cut \cup UNION {CutOff(c) : c \in Contexts}

\* The references of a recorded event are in the vault, and its provenance is that of the
\* call and the with block.
RecordedInv ==
    \A i \in 1..Len(records) : from[i].by \in Contexts =>
        /\ HasVault => \A path \in DOMAIN records[i] :
              Last(path) \in RefNames => records[i][path] \in DOMAIN vault
        /\ \A path \in Under("provenance", records[i]) \cup DOMAIN from[i].scope :
              Get(records[i], path) = Told(from[i].op, from[i].scope, path)
        /\ Require(TRUE, Principal[from[i].by], "write_evidence")

\* Each record has its history, and the worker's event its span.
LogInv ==
    /\ work # Null => work.span \in Spans
    /\ records \in Seq(ToSet(records)) /\ from \in Seq(ToSet(from))
    /\ Len(from) = Len(records)

\* One block more, and one block less.
LEMMA BlockOpens ==
  ASSUME NEW b \in Seq(Scopes), NEW s \in Scopes
  PROVE  /\ Append(b, s) \in Seq(Scopes) /\ Len(Append(b, s)) = Len(b) + 1
         /\ Innermost(Append(b, s)) = s
         /\ \A k \in 1..(Len(b) + 1) : SubSeq(Append(b, s), 1, k - 1) = SubSeq(b, 1, k - 1)
         /\ SubSeq(b, 1, Len(b)) = b
<1>1. /\ Append(b, s) \in Seq(Scopes) /\ Len(Append(b, s)) = Len(b) + 1 /\ Len(b) \in Nat
      /\ Append(b, s)[Len(b) + 1] = s /\ \A k \in 1..Len(b) : Append(b, s)[k] = b[k]
  OBVIOUS
<1>2. Append(b, s) # <<>>
  BY <1>1
<1>3. Innermost(Append(b, s)) = s
  BY <1>1, <1>2 DEF Innermost, Last
<1>4. ASSUME NEW k \in 1..(Len(b) + 1)
      PROVE  SubSeq(Append(b, s), 1, k - 1) = SubSeq(b, 1, k - 1)
  <2>1. /\ SubSeq(Append(b, s), 1, k - 1) = [i \in 1..(k - 1) |-> Append(b, s)[i]]
        /\ SubSeq(b, 1, k - 1) = [i \in 1..(k - 1) |-> b[i]]
    BY <1>1
  <2> QED
    BY <1>1, <2>1
<1>5. SubSeq(b, 1, Len(b)) = b
  OBVIOUS
<1> QED
  BY <1>1, <1>3, <1>4, <1>5

\* Leaving a block brings back what was before it (sdk.py, the reset of the token).
LEMMA BlockCloses ==
  ASSUME NEW S, NEW b \in Seq(S), b # <<>>
  PROVE  /\ Front(b) \in Seq(S) /\ Len(Front(b)) = Len(b) - 1 /\ Len(b) \in Nat \ {0}
         /\ Last(b) = b[Len(b)] /\ Last(b) \in S
         /\ Front(b) = SubSeq(b, 1, Len(b) - 1)
         /\ \A k \in 1..(Len(b) - 1) : Front(b)[k] = b[k]
         /\ \A k \in 1..(Len(b) - 1) : SubSeq(Front(b), 1, k - 1) = SubSeq(b, 1, k - 1)
<1>1. Len(b) \in Nat \ {0} /\ Front(b) = SubSeq(b, 1, Len(b) - 1)
  BY DEF Front
<1>2. /\ Front(b) \in Seq(S) /\ Len(Front(b)) = Len(b) - 1
      /\ \A k \in 1..(Len(b) - 1) : Front(b)[k] = b[k]
  <2> DEFINE m == Len(b) - 1
             f == SubSeq(b, 1, m)
  <2>1. m \in Nat /\ \A i \in 1..m : b[i] \in S
    BY <1>1
  <2> HIDE DEF m
  <2>2. /\ f \in Seq(S) /\ Len(f) = (IF 1 <= m THEN m - 1 + 1 ELSE 0)
        /\ \A i \in 1..(m - 1 + 1) : f[i] = b[1 + i - 1]
    BY <2>1, SubSeqProperties
  <2> HIDE DEF f
  <2>3. Len(f) = m
    BY <2>1, <2>2
  <2>4. ASSUME NEW k \in 1..m PROVE f[k] = b[k]
    <3>1. k \in 1..(m - 1 + 1) /\ 1 + k - 1 = k
      BY <2>1
    <3> QED
      BY <2>2, <3>1
  <2>5. Front(b) = f
    BY <1>1 DEF f, m
  <2> QED
    BY <2>2, <2>3, <2>4, <2>5 DEF m
<1>3. ASSUME NEW k \in 1..(Len(b) - 1)
      PROVE  SubSeq(Front(b), 1, k - 1) = SubSeq(b, 1, k - 1)
  <2>1. /\ SubSeq(Front(b), 1, k - 1) = [i \in 1..(k - 1) |-> Front(b)[i]]
        /\ SubSeq(b, 1, k - 1) = [i \in 1..(k - 1) |-> b[i]]
    BY <1>1, <1>2
  <2> QED
    BY <1>1, <1>2, <2>1
<1>4. Last(b) = b[Len(b)] /\ Last(b) \in S
  BY <1>1 DEF Last
<1> QED
  BY <1>1, <1>2, <1>3, <1>4

\* In every step of every thread, which has its own ContextVar (sdk.py, task).
LEMMA ScopeNext == ScopeInv /\ [RecorderNext]_recorderVars => ScopeInv'
<1> SUFFICES ASSUME ScopeInv, [RecorderNext]_recorderVars PROVE ScopeInv'
  OBVIOUS
<1>1. ASSUME NEW c \in Contexts, NEW s \in Scopes, EnterTask(c, s) PROVE ScopeInv'
  <2>1. /\ scope' = [scope EXCEPT ![c] = s]
        /\ tokens' = [tokens EXCEPT ![c] = Append(tokens[c], scope[c])]
        /\ blocks' = [blocks EXCEPT ![c] = Append(blocks[c], s)]
    BY <1>1 DEF EnterTask
  <2>2. /\ blocks[c] \in Seq(Scopes) /\ tokens[c] \in Seq(Scopes \cup {NoScope})
        /\ scope[c] \in Scopes \cup {NoScope} /\ Len(tokens[c]) = Len(blocks[c])
        /\ scope[c] = Innermost(blocks[c])
        /\ \A k \in 1..Len(blocks[c]) : tokens[c][k] = Innermost(SubSeq(blocks[c], 1, k - 1))
    BY DEF ScopeInv
  <2> DEFINE b == Append(blocks[c], s)
             t == Append(tokens[c], scope[c])
  <2>3. /\ b \in Seq(Scopes) /\ Len(b) = Len(blocks[c]) + 1 /\ Innermost(b) = s
        /\ \A k \in 1..(Len(blocks[c]) + 1) : SubSeq(b, 1, k - 1) = SubSeq(blocks[c], 1, k - 1)
        /\ SubSeq(blocks[c], 1, Len(blocks[c])) = blocks[c]
    BY <2>2, BlockOpens
  <2>4. /\ t \in Seq(Scopes \cup {NoScope}) /\ Len(t) = Len(blocks[c]) + 1 /\ Len(blocks[c]) \in Nat
        /\ t[Len(blocks[c]) + 1] = scope[c]
        /\ \A k \in 1..Len(blocks[c]) : t[k] = tokens[c][k]
    BY <2>2
  <2> HIDE DEF b, t
  <2>5. \A k \in 1..Len(b) : t[k] = Innermost(SubSeq(b, 1, k - 1))
    <3> TAKE k \in 1..Len(b)
    <3>1. CASE k = Len(blocks[c]) + 1
      <4>1. k - 1 = Len(blocks[c])
        BY <3>1, <2>4
      <4> QED
        BY <3>1, <4>1, <2>2, <2>3, <2>4
    <3>2. CASE k \in 1..Len(blocks[c])
      BY <3>2, <2>2, <2>3, <2>4
    <3> QED
      BY <3>1, <3>2, <2>3, <2>4
  <2>6. /\ scope'[c] = s /\ tokens'[c] = t /\ blocks'[c] = b
        /\ \A d \in Contexts \ {c} :
              scope'[d] = scope[d] /\ tokens'[d] = tokens[d] /\ blocks'[d] = blocks[d]
    BY <2>1 DEF ScopeInv, b, t
  <2>7. /\ scope' \in [Contexts -> Scopes \cup {NoScope}]
        /\ tokens' \in [Contexts -> Seq(Scopes \cup {NoScope})] /\ blocks' \in [Contexts -> Seq(Scopes)]
    BY <2>1, <2>3, <2>4 DEF ScopeInv, b, t
  <2>8. ASSUME NEW d \in Contexts
        PROVE  /\ scope'[d] = Innermost(blocks'[d]) /\ Len(tokens'[d]) = Len(blocks'[d])
               /\ \A k \in 1..Len(blocks'[d]) : tokens'[d][k] = Innermost(SubSeq(blocks'[d], 1, k - 1))
    <3>1. CASE d = c
      BY <3>1, <2>3, <2>4, <2>5, <2>6
    <3>2. CASE d # c
      BY <3>2, <2>6 DEF ScopeInv
    <3> QED
      BY <3>1, <3>2
  <2> QED
    BY <2>7, <2>8 DEF ScopeInv
<1>2. ASSUME NEW c \in Contexts, LeaveTask(c) PROVE ScopeInv'
  <2>1. /\ blocks[c] # <<>> /\ scope' = [scope EXCEPT ![c] = Last(tokens[c])]
        /\ tokens' = [tokens EXCEPT ![c] = Front(tokens[c])]
        /\ blocks' = [blocks EXCEPT ![c] = Front(blocks[c])]
    BY <1>2 DEF LeaveTask
  <2>2. /\ blocks[c] \in Seq(Scopes) /\ tokens[c] \in Seq(Scopes \cup {NoScope})
        /\ Len(tokens[c]) = Len(blocks[c])
        /\ \A k \in 1..Len(blocks[c]) : tokens[c][k] = Innermost(SubSeq(blocks[c], 1, k - 1))
    BY DEF ScopeInv
  <2> DEFINE b == Front(blocks[c])
             t == Front(tokens[c])
             n == Len(blocks[c])
  <2>3. /\ b \in Seq(Scopes) /\ Len(b) = n - 1 /\ n \in Nat \ {0}
        /\ b = SubSeq(blocks[c], 1, n - 1)
        /\ \A k \in 1..(n - 1) : SubSeq(b, 1, k - 1) = SubSeq(blocks[c], 1, k - 1)
    BY <2>1, <2>2, BlockCloses
  <2>4. /\ t \in Seq(Scopes \cup {NoScope}) /\ Len(t) = n - 1
        /\ Last(tokens[c]) = tokens[c][n] /\ Last(tokens[c]) \in Scopes \cup {NoScope}
        /\ \A k \in 1..(n - 1) : t[k] = tokens[c][k]
    <3>1. tokens[c] # <<>>
      BY <2>2, <2>3
    <3> QED
      BY <3>1, <2>2, BlockCloses
  <2>5. Last(tokens[c]) = Innermost(b)
    BY <2>2, <2>3, <2>4
  <2> HIDE DEF b, t
  <2>6. /\ scope'[c] = Last(tokens[c]) /\ tokens'[c] = t /\ blocks'[c] = b
        /\ \A d \in Contexts \ {c} :
              scope'[d] = scope[d] /\ tokens'[d] = tokens[d] /\ blocks'[d] = blocks[d]
    BY <2>1 DEF ScopeInv, b, t
  <2>7. /\ scope' \in [Contexts -> Scopes \cup {NoScope}]
        /\ tokens' \in [Contexts -> Seq(Scopes \cup {NoScope})] /\ blocks' \in [Contexts -> Seq(Scopes)]
    BY <2>1, <2>3, <2>4 DEF ScopeInv, b, t
  <2>8. ASSUME NEW d \in Contexts
        PROVE  /\ scope'[d] = Innermost(blocks'[d]) /\ Len(tokens'[d]) = Len(blocks'[d])
               /\ \A k \in 1..Len(blocks'[d]) : tokens'[d][k] = Innermost(SubSeq(blocks'[d], 1, k - 1))
    <3>1. CASE d = c
      <4>1. \A k \in 1..(n - 1) : t[k] = Innermost(SubSeq(b, 1, k - 1))
        <5> TAKE k \in 1..(n - 1)
        <5>1. k \in 1..n /\ t[k] = tokens[c][k] /\ SubSeq(b, 1, k - 1) = SubSeq(blocks[c], 1, k - 1)
          BY <2>3, <2>4
        <5>2. tokens[c][k] = Innermost(SubSeq(blocks[c], 1, k - 1))
          BY <5>1, <2>2
        <5> QED
          BY <5>1, <5>2
      <4> QED
        BY <3>1, <4>1, <2>3, <2>4, <2>5, <2>6
    <3>2. CASE d # c
      BY <3>2, <2>6 DEF ScopeInv
    <3> QED
      BY <3>1, <3>2
  <2> QED
    BY <2>7, <2>8 DEF ScopeInv
<1>3. CASE Restart
  BY <1>3 DEF Restart, ScopeInv, Innermost
<1>4. CASE UNCHANGED <<scope, tokens, blocks>>
  BY <1>4 DEF ScopeInv
<1> QED
  BY <1>1, <1>2, <1>3, <1>4 DEF RecorderNext, recorderVars, scopeVars, Call, StoreOpens, StoreWrites, Record,
     CallFails, Normalize, CommitSpan, CommitFails, Import

\* A file is put into the vault (vault.py, store), in one of its two steps.
LEMMA VaultPut ==
  ASSUME NEW ref, NEW state, vault' = (ref <: state) ++ vault
  PROVE  /\ DOMAIN vault' = DOMAIN vault \cup {ref}
         /\ vault'[ref] = state /\ \A r \in DOMAIN vault \ {ref} : vault'[r] = vault[r]
<1>1. DOMAIN (ref <: state) = {ref} /\ (ref <: state)[ref] = state
  BY OneField, Zenon
<1> DEFINE one == ref <: state
<1> HIDE DEF one
<1>2. DOMAIN (one ++ vault) = DOMAIN one \cup DOMAIN vault
  BY PutTogether, Zenon
<1>3. \A x \in DOMAIN one : (one ++ vault)[x] = one[x]
  BY PutTogether, Zenon
<1>4. \A x \in DOMAIN vault \ DOMAIN one : (one ++ vault)[x] = vault[x]
  BY PutTogether, Zenon
<1>5. vault' = one ++ vault
  BY DEF one
<1>6. DOMAIN one = {ref} /\ one[ref] = state
  BY <1>1 DEF one
<1> QED
  BY <1>2, <1>3, <1>4, <1>5, <1>6

\* What is stored stays in the vault, whole or cut off, through every step (vault.py, put).
LEMMA StoreNext == CallInv /\ VaultInv /\ [RecorderNext]_recorderVars => CallInv' /\ VaultInv'
                                                            /\ DOMAIN vault \subseteq DOMAIN vault'
<1> SUFFICES ASSUME CallInv, VaultInv, [RecorderNext]_recorderVars
             PROVE  CallInv' /\ VaultInv' /\ DOMAIN vault \subseteq DOMAIN vault'
  OBVIOUS
<1> DEFINE RefAt(c) == HashPayload(PayloadsOf(call[c].op)[call[c].n + 1])
<1>0. \A c \in Contexts :
         /\ CutOff(c) = IF call[c].pc = "write" THEN {RefAt(c)} ELSE {}
         /\ CutOff(c)' = IF call'[c].pc = "write"
                           THEN {HashPayload(PayloadsOf(call'[c].op)[call'[c].n + 1])} ELSE {}
  BY DEF CutOff
<1>a. \A d \in Contexts : call'[d] = call[d] => CutOff(d)' = CutOff(d)
  BY <1>0
<1>1. ASSUME NEW c \in Contexts, NEW op \in Operations, Call(c, op)
      PROVE  CallInv' /\ VaultInv' /\ DOMAIN vault \subseteq DOMAIN vault'
  <2>1. /\ call[c].pc = "idle" /\ call' = [call EXCEPT ![c] = [pc |-> "store", op |-> op, n |-> 0]]
        /\ vault' = vault /\ cut' = cut
    BY <1>1 DEF Call
  <2>2. /\ call'[c] = [pc |-> "store", op |-> op, n |-> 0]
        /\ \A d \in Contexts \ {c} : call'[d] = call[d]
        /\ call' \in [Contexts -> [pc : {"idle", "store", "write"}, op : Operations \cup {Null}, n : Nat]]
    BY <2>1 DEF CallInv
  <2>3. \A k \in DOMAIN PayloadsOf(op) : ~(k <= 0)
    <3>1. PayloadsOf(op) \in Seq(ToSet(PayloadsOf(op)))
      BY PayloadsAre
    <3> QED
      BY <3>1
  <2>4. CallInv'
    BY <2>1, <2>2, <2>3 DEF CallInv
  <2>5. CutOff(c) = {} /\ CutOff(c)' = {} /\ \A d \in Contexts \ {c} : CutOff(d)' = CutOff(d)
    BY <1>0, <1>a, <2>1, <2>2
  <2>6. \A d \in Contexts : CutOff(d)' = CutOff(d)
    BY <2>5
  <2> QED
    BY <2>1, <2>4, <2>6 DEF VaultInv
<1>2. ASSUME NEW c \in Contexts, StoreOpens(c)
      PROVE  CallInv' /\ VaultInv' /\ DOMAIN vault \subseteq DOMAIN vault'
  <2>1. /\ call[c].pc = "store" /\ call' = [call EXCEPT ![c].pc = "write"]
        /\ vault' = (RefAt(c) <: "torn") ++ vault /\ cut' = cut
    BY <1>2 DEF StoreOpens
  <2>2. /\ DOMAIN vault' = DOMAIN vault \cup {RefAt(c)}
        /\ vault'[RefAt(c)] = "torn" /\ \A r \in DOMAIN vault \ {RefAt(c)} : vault'[r] = vault[r]
    BY <2>1, VaultPut
  <2>3. /\ call'[c].pc = "write" /\ call'[c].op = call[c].op /\ call'[c].n = call[c].n
        /\ \A d \in Contexts \ {c} : call'[d] = call[d]
        /\ call' \in [Contexts -> [pc : {"idle", "store", "write"}, op : Operations \cup {Null}, n : Nat]]
    BY <2>1 DEF CallInv
  <2>4. CutOff(c) = {} /\ CutOff(c)' = {RefAt(c)} /\ \A d \in Contexts \ {c} : CutOff(d)' = CutOff(d)
    BY <1>0, <1>a, <2>1, <2>3
  <2> HIDE DEF RefAt
  <2>5. CallInv'
    BY <2>1, <2>2, <2>3 DEF CallInv
  <2>6. ASSUME NEW r \in DOMAIN vault', vault'[r] = "torn"
        PROVE  r \in cut' \cup UNION {CutOff(d)' : d \in Contexts}
    <3>1. CASE r = RefAt(c)
      BY <3>1, <2>4
    <3>2. CASE r # RefAt(c)
      <4>1. r \in cut \cup UNION {CutOff(d) : d \in Contexts}
        BY <2>2, <2>6, <3>2 DEF VaultInv
      <4>2. CASE r \in cut
        BY <4>2, <2>1
      <4>3. CASE r \notin cut
        <5>1. PICK d \in Contexts : r \in CutOff(d)
          BY <4>1, <4>3
        <5>2. r \in CutOff(d)'
          BY <5>1, <2>4
        <5> QED
          BY <5>2
      <4> QED
        BY <4>2, <4>3
    <3> QED
      BY <3>1, <3>2
  <2>7. VaultInv'
    BY <2>6 DEF VaultInv
  <2> QED
    BY <2>2, <2>5, <2>7
<1>3. ASSUME NEW c \in Contexts, StoreWrites(c)
      PROVE  CallInv' /\ VaultInv' /\ DOMAIN vault \subseteq DOMAIN vault'
  <2>1. /\ call[c].pc = "write" /\ call' = [call EXCEPT ![c].pc = "store", ![c].n = @ + 1]
        /\ vault' = (RefAt(c) <: "whole") ++ vault /\ cut' = cut \ {RefAt(c)}
    BY <1>3 DEF StoreWrites
  <2>2. /\ DOMAIN vault' = DOMAIN vault \cup {RefAt(c)}
        /\ vault'[RefAt(c)] = "whole" /\ \A r \in DOMAIN vault \ {RefAt(c)} : vault'[r] = vault[r]
    BY <2>1, VaultPut
  <2>3. /\ call'[c].pc = "store" /\ call'[c].op = call[c].op /\ call'[c].n = call[c].n + 1
        /\ call[c].n \in Nat
        /\ \A d \in Contexts \ {c} : call'[d] = call[d]
        /\ call' \in [Contexts -> [pc : {"idle", "store", "write"}, op : Operations \cup {Null}, n : Nat]]
    BY <2>1 DEF CallInv
  <2>4. CutOff(c) = {RefAt(c)} /\ CutOff(c)' = {} /\ \A d \in Contexts \ {c} : CutOff(d)' = CutOff(d)
    BY <1>0, <1>a, <2>1, <2>3
  <2>5. ASSUME NEW k \in DOMAIN PayloadsOf(call[c].op), k <= call[c].n + 1
        PROVE  HashPayload(PayloadsOf(call[c].op)[k]) \in DOMAIN vault'
    <3>1. CASE k = call[c].n + 1
      BY <3>1, <2>2
    <3>2. CASE k # call[c].n + 1
      <4>1. PayloadsOf(call[c].op) \in Seq(ToSet(PayloadsOf(call[c].op)))
        BY PayloadsAre
      <4>2. k \in Int
        BY <4>1
      <4>3. k <= call[c].n
        BY <2>3, <2>5, <3>2, <4>2
      <4> QED
        BY <4>3, <2>1, <2>2 DEF CallInv
    <3> QED
      BY <3>1, <3>2
  <2> HIDE DEF RefAt
  <2>6. CallInv'
    <3>1. ASSUME NEW d \in Contexts, call'[d].pc # "idle"
          PROVE  /\ call'[d].op \in Operations
                 /\ \A k \in DOMAIN PayloadsOf(call'[d].op) :
                       k <= call'[d].n => HashPayload(PayloadsOf(call'[d].op)[k]) \in DOMAIN vault'
      <4>1. CASE d = c
        BY <4>1, <2>1, <2>3, <2>5 DEF CallInv
      <4>2. CASE d # c
        BY <3>1, <4>2, <2>2, <2>3 DEF CallInv
      <4> QED
        BY <4>1, <4>2
    <3> QED
      BY <3>1, <2>3 DEF CallInv
  <2>7. ASSUME NEW r \in DOMAIN vault', vault'[r] = "torn"
        PROVE  r \in cut' \cup UNION {CutOff(d)' : d \in Contexts}
    <3>1. r # RefAt(c)
      BY <2>2, <2>7
    <3>2. r \in cut \cup UNION {CutOff(d) : d \in Contexts}
      BY <2>2, <2>7, <3>1 DEF VaultInv
    <3>3. CASE r \in cut
      BY <3>1, <3>3, <2>1
    <3>4. CASE r \notin cut
      <4>1. PICK d \in Contexts : r \in CutOff(d)
        BY <3>2, <3>4
      <4>2. r \in CutOff(d)'
        BY <4>1, <3>1, <2>4
      <4> QED
        BY <4>2
    <3> QED
      BY <3>3, <3>4
  <2>8. VaultInv'
    BY <2>7 DEF VaultInv
  <2> QED
    BY <2>2, <2>6, <2>8
<1>4. ASSUME NEW c \in Contexts, call' = [call EXCEPT ![c] = NoCall], vault' = vault,
             cut \cup CutOff(c) \subseteq cut'
      PROVE  CallInv' /\ VaultInv' /\ DOMAIN vault \subseteq DOMAIN vault'
  <2>1. /\ call'[c] = NoCall /\ \A d \in Contexts \ {c} : call'[d] = call[d]
        /\ call' \in [Contexts -> [pc : {"idle", "store", "write"}, op : Operations \cup {Null}, n : Nat]]
    BY <1>4 DEF CallInv, NoCall
  <2>2. CallInv'
    BY <1>4, <2>1 DEF CallInv, NoCall
  <2>3. \A d \in Contexts \ {c} : CutOff(d)' = CutOff(d)
    BY <1>a, <2>1
  <2>4. ASSUME NEW r \in DOMAIN vault, vault[r] = "torn"
        PROVE  r \in cut' \cup UNION {CutOff(d)' : d \in Contexts}
    <3>1. r \in cut \cup UNION {CutOff(d) : d \in Contexts}
      BY <2>4 DEF VaultInv
    <3>2. CASE r \in cut'
      BY <3>2
    <3>3. CASE r \notin cut'
      <4>1. PICK d \in Contexts : r \in CutOff(d)
        BY <1>4, <3>1, <3>3
      <4>2. r \in CutOff(d)'
        BY <1>4, <2>3, <3>3, <4>1
      <4> QED
        BY <4>2
    <3> QED
      BY <3>2, <3>3
  <2>5. VaultInv'
    BY <1>4, <2>4 DEF VaultInv
  <2> QED
    BY <1>4, <2>2, <2>5
<1>5. ASSUME NEW c \in Contexts, Record(c)
      PROVE  CallInv' /\ VaultInv' /\ DOMAIN vault \subseteq DOMAIN vault'
  <2>1. /\ call[c].pc = "store" /\ call' = [call EXCEPT ![c] = NoCall] /\ vault' = vault /\ cut' = cut
    BY <1>5 DEF Record
  <2>2. CutOff(c) = {}
    BY <1>0, <2>1
  <2> QED
    BY <1>4, <2>1, <2>2
<1>6. ASSUME NEW c \in Contexts, CallFails(c)
      PROVE  CallInv' /\ VaultInv' /\ DOMAIN vault \subseteq DOMAIN vault'
  BY <1>4, <1>6 DEF CallFails
<1>7. CASE Restart
  <2>1. /\ call' = [c \in Contexts |-> NoCall] /\ vault' = vault
        /\ cut' = cut \cup UNION {CutOff(c) : c \in Contexts}
    BY <1>7 DEF Restart
  <2>2. CallInv'
    BY <2>1 DEF CallInv, NoCall
  <2>3. VaultInv'
    BY <2>1 DEF VaultInv
  <2> QED
    BY <2>1, <2>2, <2>3
<1>8. CASE UNCHANGED <<call, vault, cut>>
  <2>1. CallInv'
    BY <1>8 DEF CallInv
  <2>2. \A d \in Contexts : CutOff(d)' = CutOff(d)
    BY <1>a, <1>8
  <2>3. VaultInv'
    BY <1>8, <2>2 DEF VaultInv
  <2> QED
    BY <1>8, <2>1, <2>3
<1> HIDE DEF RefAt
<1> QED
  BY <1>1, <1>2, <1>3, <1>5, <1>6, <1>7, <1>8 DEF RecorderNext, recorderVars, EnterTask, LeaveTask, Normalize,
     CommitSpan, CommitFails, Import

\* What a record refers to was stored before it was committed (sdk.py, record).
LEMMA RecordedNext ==
    ScopeInv /\ CallInv /\ LogInv /\ RecordedInv /\ DOMAIN vault \subseteq DOMAIN vault'
      /\ [RecorderNext]_recorderVars => LogInv' /\ RecordedInv'
<1> SUFFICES ASSUME ScopeInv, CallInv, LogInv, RecordedInv, DOMAIN vault \subseteq DOMAIN vault',
                    [RecorderNext]_recorderVars
             PROVE  LogInv' /\ RecordedInv'
  OBVIOUS
<1> DEFINE Fine(ev, f) ==
             f.by \in Contexts =>
               /\ HasVault => \A path \in DOMAIN ev : Last(path) \in RefNames => ev[path] \in DOMAIN vault'
               /\ \A path \in Under("provenance", ev) \cup DOMAIN f.scope :
                     Get(ev, path) = Told(f.op, f.scope, path)
               /\ Require(TRUE, Principal[f.by], "write_evidence")
<1>1. \A i \in 1..Len(records) : Fine(records[i], from[i])
  BY DEF RecordedInv
<1>2. ASSUME NEW ev, NEW by, NEW op, NEW ambient, Commits(ev, by, op, ambient),
             work' # Null => work'.span \in Spans,
             Fine(FinalizeId(ev), [by |-> by, op |-> op, scope |-> ambient, run |-> run])
      PROVE  LogInv' /\ RecordedInv'
  <2> DEFINE e == FinalizeId(ev)
             f == [by |-> by, op |-> op, scope |-> ambient, run |-> run]
  <2>1. records' = Append(records, e) /\ from' = Append(from, f)
    BY <1>2 DEF Commits
  <2>2. Fine(e, f)
    BY <1>2
  <2> HIDE DEF e, f, Fine
  <2>3. /\ records' \in Seq(ToSet(records')) /\ Len(records') = Len(records) + 1 /\ Len(records) \in Nat
        /\ \A i \in 1..Len(records) : records'[i] = records[i]
        /\ records'[Len(records) + 1] = e
    BY <2>1, Grows DEF LogInv
  <2>4. /\ from' \in Seq(ToSet(from')) /\ Len(from') = Len(from) + 1
        /\ \A i \in 1..Len(from) : from'[i] = from[i]
        /\ from'[Len(from) + 1] = f
    BY <2>1, Grows DEF LogInv
  <2>5. LogInv'
    BY <1>2, <2>3, <2>4 DEF LogInv
  <2>6. ASSUME NEW i \in 1..Len(records') PROVE Fine(records'[i], from'[i])
    <3>1. CASE i \in 1..Len(records)
      BY <3>1, <1>1, <2>3, <2>4 DEF LogInv
    <3>2. CASE i = Len(records) + 1
      BY <3>2, <2>2, <2>3, <2>4 DEF LogInv
    <3> QED
      BY <3>1, <3>2, <2>3
  <2>7. RecordedInv'
    BY <2>6 DEF RecordedInv, Fine
  <2> QED
    BY <2>5, <2>7
<1>3. ASSUME UNCHANGED <<records, from>>, work' # Null => work'.span \in Spans PROVE LogInv' /\ RecordedInv'
  BY <1>1, <1>3 DEF LogInv, RecordedInv
<1>4. ASSUME NEW c \in Contexts, Record(c) PROVE LogInv' /\ RecordedInv'
  <2> DEFINE op == call[c].op
             ev == EventOf(op, scope[c])
             ambient == IF blocks[c] = <<>> THEN NoScope ELSE Last(blocks[c])
  <2>1. /\ call[c].pc = "store" /\ (HasVault => call[c].n = Len(PayloadsOf(op))) /\ vault' = vault
        /\ IF IsEvent(ev) /\ Require(TRUE, Principal[c], "write_evidence")
             THEN Commits(ev, c, op, ambient) ELSE UNCHANGED <<records, from>>
        /\ work' # Null => work'.span \in Spans
    BY <1>4 DEF Record, LogInv
  <2>2. op \in Operations /\ scope[c] = ambient /\ ambient \in Scopes \cup {NoScope}
    BY <2>1 DEF CallInv, ScopeInv, Innermost
  <2>3. CASE IsEvent(ev) /\ Require(TRUE, Principal[c], "write_evidence")
    <3> DEFINE e == FinalizeId(ev)
    <3>1. /\ \A path \in DOMAIN e : Last(path) \in RefNames =>
                \E k \in DOMAIN PayloadsOf(op) : e[path] = HashPayload(PayloadsOf(op)[k])
          /\ \A path \in Under("provenance", e) \cup DOMAIN ambient : Get(e, path) = Told(op, ambient, path)
      BY <2>2, RecordedIs
    <3>2. HasVault => \A k \in DOMAIN PayloadsOf(op) : HashPayload(PayloadsOf(op)[k]) \in DOMAIN vault
      <4>1. PayloadsOf(op) \in Seq(ToSet(PayloadsOf(op)))
        BY PayloadsAre
      <4>2. \A k \in DOMAIN PayloadsOf(op) : k <= Len(PayloadsOf(op))
        BY <4>1
      <4> QED
        BY <2>1, <4>2 DEF CallInv
    <3>3. Require(TRUE, Principal[c], "write_evidence")
      BY <2>3
    <3> HIDE DEF e, op
    <3>4. Fine(e, [by |-> c, op |-> op, scope |-> ambient, run |-> run])
      BY <2>1, <3>1, <3>2, <3>3
    <3> HIDE DEF Fine, ev, ambient
    <3> QED
      BY <1>2, <2>1, <2>3, <3>4 DEF e
  <2>4. CASE ~(IsEvent(ev) /\ Require(TRUE, Principal[c], "write_evidence"))
    BY <1>3, <2>1, <2>4
  <2> QED
    BY <2>3, <2>4
<1>5. ASSUME NEW ev, NEW by \in Spans \cup {Null}, Commits(ev, by, Null, NoScope),
             work' # Null => work'.span \in Spans
      PROVE  LogInv' /\ RecordedInv'
  <2>1. by \notin Contexts
    BY RecorderAssumption
  <2>2. Fine(FinalizeId(ev), [by |-> by, op |-> Null, scope |-> NoScope, run |-> run])
    BY <2>1
  <2> HIDE DEF Fine
  <2> QED
    BY <1>2, <1>5, <2>2
<1>6. ASSUME NEW span \in Spans, Normalize(span) PROVE LogInv' /\ RecordedInv'
  <2>1. UNCHANGED <<records, from>> /\ work' = [span |-> span, event |-> Normalized(span)]
    BY <1>6 DEF Normalize
  <2> QED
    BY <1>3, <2>1
<1>7. CASE CommitSpan
  BY <1>5, <1>7 DEF CommitSpan, LogInv
<1>8. ASSUME NEW ev \in Imported, Import(ev) PROVE LogInv' /\ RecordedInv'
  BY <1>5, <1>8 DEF Import, LogInv
<1>9. CASE UNCHANGED <<work, records, from>> \/ CommitFails \/ Restart
  <2>1. UNCHANGED <<records, from>> /\ (work' = work \/ work' = Null)
    BY <1>9 DEF CommitFails, Restart
  <2> QED
    BY <1>3, <2>1 DEF LogInv
<1> HIDE DEF Fine
<1> QED
  BY <1>4, <1>6, <1>7, <1>8, <1>9 DEF RecorderNext, recorderVars, EnterTask, LeaveTask, Call, StoreOpens, StoreWrites,
     CallFails

\* The inductive invariant of what clients record.
KeptInv == ScopeInv /\ CallInv /\ VaultInv /\ LogInv /\ RecordedInv

\* It holds when the process starts, with nothing recorded (sdk.py, the client).
LEMMA KeptInit == RecorderInit => KeptInv
<1> SUFFICES ASSUME RecorderInit PROVE KeptInv
  OBVIOUS
<1>1. ScopeInv
  BY DEF RecorderInit, ScopeInv, Innermost
<1>2. CallInv
  BY DEF RecorderInit, CallInv, NoCall
<1>3. VaultInv
  BY DEF RecorderInit, VaultInv
<1>4. records = <<>> /\ from = <<>> /\ work = Null
  BY DEF RecorderInit
<1>5. LogInv /\ RecordedInv
  BY <1>4 DEF LogInv, RecordedInv
<1> QED
  BY <1>1, <1>2, <1>3, <1>5 DEF KeptInv

\* And after every step: of a client, the worker, an adapter, and the process that dies.
LEMMA KeptNext == KeptInv /\ [RecorderNext]_recorderVars => KeptInv'
  BY ScopeNext, StoreNext, RecordedNext DEF KeptInv

\* So whatever is recorded, by however many threads (sdk.py).
LEMMA KeptAlways == RecorderSpec => []KeptInv
  BY KeptInit, KeptNext, PTL DEF RecorderSpec

\* vault.py:3-9: however the threads' writes interleave, whichever of them fails and wherever
\* the process dies, the payload of a recorded reference is in the vault, whole, but for
\* one that is being written once more or whose write was cut off.
THEOREM VaultAnswersKept == RecorderSpec => []VaultAnswers
<1>1. KeptInv => VaultAnswers
  <2> SUFFICES ASSUME KeptInv, NEW i \in DOMAIN records, from[i].by \in Contexts, HasVault,
                      NEW path \in DOMAIN records[i], Last(path) \in RefNames
               PROVE  /\ records[i][path] \in DOMAIN vault
                      /\ vault[records[i][path]] = "torn" =>
                            records[i][path] \in cut \cup UNION {CutOff(c) : c \in Contexts}
    BY DEF VaultAnswers, RefNames
  <2>1. i \in 1..Len(records)
    BY DEF KeptInv, LogInv
  <2>2. records[i][path] \in DOMAIN vault
    BY <2>1 DEF KeptInv, RecordedInv
  <2> QED
    BY <2>2 DEF KeptInv, VaultInv
<1> QED
  BY <1>1, KeptAlways, PTL

\* sdk.py:89: for every number of threads and blocks, an event says the provenance that its
\* call says, and for the rest that of the innermost block of its own thread and no other;
\* and none is recorded for a principal that may not write evidence.
THEOREM ScopesHeldKept == RecorderSpec => []ScopesHeld
<1>1. KeptInv => ScopesHeld
  <2> SUFFICES ASSUME KeptInv, NEW i \in DOMAIN records, from[i].by \in Contexts
               PROVE  /\ \A path \in Under("provenance", records[i]) \cup DOMAIN from[i].scope :
                            Get(records[i], path) = Told(from[i].op, from[i].scope, path)
                      /\ Require(TRUE, Principal[from[i].by], "write_evidence")
    BY DEF ScopesHeld, Told
  <2>1. i \in 1..Len(records)
    BY DEF KeptInv, LogInv
  <2> QED
    BY <2>1 DEF KeptInv, RecordedInv
<1> QED
  BY <1>1, KeptAlways, PTL

----------------------------------------------------------------------------
(* Recorder: the roots of delegated tasks.                                  *)

\* Whatever a span names is a task (a2a.py, provenance_from_attributes).
LEMMA NamedHas ==
  ASSUME NEW s \in Spans
  PROVE  /\ TaskOf(s) # Null => TaskOf(s) \in Named
         /\ ParentIn(s) # Null => ParentIn(s) \in Named
<1>1. PICK a, b : a = TaskOf(s) /\ b = ParentIn(s)
  OBVIOUS
<1>2. {a, b} \in {{TaskOf(x), ParentIn(x)} : x \in Spans}
  BY <1>1
<1>3. a \in UNION {{TaskOf(x), ParentIn(x)} : x \in Spans} /\ b \in UNION {{TaskOf(x), ParentIn(x)} : x \in Spans}
  BY <1>2
<1> QED
  BY <1>1, <1>3 DEF Named

\* A task comes from itself, and from what a task it comes from comes from; and there are
\* no more of them than that takes (a2a.py, reconstruct_provenance).
LEMMA LineageFacts ==
  ASSUME NEW t \in Named
  PROVE  /\ t \in Lineage[t] /\ Lineage[t] \subseteq Named
         /\ \A s \in Spans : TaskOf(s) \in Lineage[t] /\ ParentIn(s) # Null => ParentIn(s) \in Lineage[t]
         /\ \A S \in SUBSET Named :
               /\ t \in S
               /\ \A s \in Spans : TaskOf(s) \in S /\ ParentIn(s) # Null => ParentIn(s) \in S
               => Lineage[t] \subseteq S
         /\ \A x \in Lineage[t] : Lineage[x] \subseteq Lineage[t]
<1> DEFINE Closed(S) == \A s \in Spans : TaskOf(s) \in S /\ ParentIn(s) # Null => ParentIn(s) \in S
           L(u) == {x \in Named : \A S \in SUBSET Named : Closed(S) /\ u \in S => x \in S}
<1>1. \A u \in Named : Lineage[u] = L(u)
  BY DEF Lineage
<1>2. \A s \in Spans : ParentIn(s) # Null => ParentIn(s) \in Named
  BY NamedHas
<1>3. \A u \in Named : u \in L(u) /\ L(u) \in SUBSET Named
  OBVIOUS
<1>4. \A u \in Named : Closed(L(u))
  BY <1>2
<1>5. \A u \in Named : \A S \in SUBSET Named : u \in S /\ Closed(S) => L(u) \subseteq S
  OBVIOUS
<1>6. \A x \in L(t) : L(x) \subseteq L(t)
  <2> HIDE DEF L, Closed
  <2> QED
    BY <1>3, <1>4, <1>5
<1>7. \A x \in L(t) : x \in Named
  OBVIOUS
<1> HIDE DEF L
<1>8. t \in Lineage[t] /\ Lineage[t] \subseteq Named /\ Closed(Lineage[t])
  BY <1>1, <1>3, <1>4
<1>9. \A S \in SUBSET Named : t \in S /\ Closed(S) => Lineage[t] \subseteq S
  BY <1>1, <1>5
<1>10. \A x \in Lineage[t] : Lineage[x] \subseteq Lineage[t]
  BY <1>1, <1>6, <1>7
<1> QED
  BY <1>8, <1>9, <1>10

\* A task that a span names, and the one that it says this comes from.
LEMMA SpanNames ==
  ASSUME NEW s \in Spans
  PROVE  /\ TaskOf(s) # Null => TaskOf(s) \in Named
         /\ TaskOf(s) # Null /\ ParentIn(s) # Null =>
               /\ ParentIn(s) \in Named /\ ParentIn(s) \in Lineage[TaskOf(s)]
               /\ Lineage[ParentIn(s)] \subseteq Lineage[TaskOf(s)]
<1>1. /\ TaskOf(s) # Null => TaskOf(s) \in Named
      /\ ParentIn(s) # Null => ParentIn(s) \in Named
  BY NamedHas
<1>2. ASSUME TaskOf(s) # Null, ParentIn(s) # Null
      PROVE  /\ ParentIn(s) \in Lineage[TaskOf(s)] /\ Lineage[ParentIn(s)] \subseteq Lineage[TaskOf(s)]
  BY <1>1, <1>2, LineageFacts
<1> QED
  BY <1>1, <1>2

\* The spans of a task came after those of every task that it comes from.
InOrder(seen, x) ==
    /\ seen[x] # {}
    /\ \A s \in SpansOfTask(x) : ParentIn(s) # Null =>
          seen[ParentIn(s)] # {} /\ Min(seen[ParentIn(s)]) < Min(seen[x])

\* The spans that a task comes from agree and came in order.
Clear(seen, t) == \A x \in Lineage[t] : Agree(x) /\ InOrder(seen, x)

\* A task that comes from no other.
IsRoot(x) == \A s \in SpansOfTask(x) : ParentIn(s) = Null

\* Where all is clear for a task, so it is for the one it comes from.
LEMMA ClearBefore ==
  ASSUME NEW seen, NEW s \in Spans, TaskOf(s) # Null, ParentIn(s) # Null, Clear(seen, TaskOf(s))
  PROVE  /\ Clear(seen, ParentIn(s)) /\ seen[ParentIn(s)] # {}
         /\ Min(seen[ParentIn(s)]) < Min(seen[TaskOf(s)])
<1>1. Clear(seen, ParentIn(s))
  BY SpanNames DEF Clear
<1>2. TaskOf(s) \in Lineage[TaskOf(s)]
  BY SpanNames, LineageFacts
<1>3. InOrder(seen, TaskOf(s)) /\ s \in SpansOfTask(TaskOf(s))
  BY <1>2 DEF Clear, SpansOfTask
<1> QED
  BY <1>1, <1>3 DEF InOrder

\* A span that comes last makes clear only what its own task comes from.
LEMMA ClearLater ==
  ASSUME NEW m \in Nat, NEW t \in Named, NEW seen, NEW more,
         seen \in [Named -> SUBSET (1..(m - 1))], more = [seen EXCEPT ![t] = @ \cup {m}],
         NEW x \in Named, x # t, Clear(more, x), m # 0
  PROVE  Clear(seen, x)
<1>1. /\ more[t] = seen[t] \cup {m} /\ \A y \in Named \ {t} : more[y] = seen[y]
      /\ \A y \in Named : seen[y] \in SUBSET (1..(m - 1))
  OBVIOUS
<1>2. \A y \in Named : seen[y] # {} => Min(seen[y]) \in seen[y] /\ \A k \in seen[y] : Min(seen[y]) <= k
  <2> TAKE y \in Named
  <2>1. m - 1 \in Nat /\ seen[y] \in SUBSET (1..(m - 1))
    BY <1>1
  <2> QED
    BY <2>1, LeastIn
<1>3. /\ more[t] \in SUBSET (1..m) /\ more[t] # {}
      /\ Min(more[t]) \in more[t] /\ \A k \in more[t] : Min(more[t]) <= k
  <2>1. more[t] \in SUBSET (1..m) /\ more[t] # {}
    BY <1>1
  <2> QED
    BY <2>1, LeastIn
<1>4. /\ x \in Lineage[x] /\ Lineage[x] \subseteq Named
      /\ \A s \in Spans : TaskOf(s) \in Lineage[x] /\ ParentIn(s) # Null => ParentIn(s) \in Lineage[x]
      /\ \A S \in SUBSET Named :
            /\ x \in S
            /\ \A s \in Spans : TaskOf(s) \in S /\ ParentIn(s) # Null => ParentIn(s) \in S
            => Lineage[x] \subseteq S
  BY LineageFacts
<1>5. \A y \in Lineage[x] : Agree(y) /\ InOrder(more, y)
  BY DEF Clear
<1>6. CASE seen[t] # {}
  <2>1. Min(more[t]) = Min(seen[t])
    <3>1. PICK a, b : a = Min(seen[t]) /\ b = Min(more[t])
      OBVIOUS
    <3>2. a \in seen[t] /\ (\A k \in seen[t] : a <= k) /\ b \in seen[t] \cup {m} /\ \A k \in more[t] : b <= k
      BY <3>1, <1>1, <1>2, <1>3, <1>6
    <3>3. a \in 1..(m - 1) /\ a \in more[t] /\ b \in 1..m
      BY <3>2, <1>1
    <3>4. b <= a /\ b # m
      BY <3>2, <3>3
    <3>5. a <= b
      BY <3>2, <3>4
    <3> QED
      BY <3>1, <3>3, <3>4, <3>5
  <2>2. \A y \in Named : (more[y] # {} <=> seen[y] # {}) /\ Min(more[y]) = Min(seen[y])
    BY <2>1, <1>1, <1>6
  <2>3. \A y \in Lineage[x] : InOrder(seen, y)
    <3> TAKE y \in Lineage[x]
    <3>1. y \in Named /\ InOrder(more, y)
      BY <1>4, <1>5
    <3>2. \A s \in SpansOfTask(y) : ParentIn(s) # Null => ParentIn(s) \in Named
      BY <1>4 DEF SpansOfTask
    <3> QED
      BY <3>1, <3>2, <2>2 DEF InOrder
  <2> QED
    BY <1>5, <2>3 DEF Clear
<1>7. CASE seen[t] = {}
  <2>1. Min(more[t]) = m
    BY <1>1, <1>3, <1>7
  <2> DEFINE S == Lineage[x] \ {t}
  <2>2. ASSUME NEW y \in S, NEW s \in SpansOfTask(y), ParentIn(s) # Null
        PROVE  ParentIn(s) \in S
    <3>1. ParentIn(s) \in Lineage[x] /\ y \in Named /\ y # t
      BY <2>2, <1>4 DEF SpansOfTask
    <3>2. more[y] # {} /\ Min(more[ParentIn(s)]) < Min(more[y]) /\ more[y] = seen[y]
      BY <3>1, <2>2, <1>1, <1>5 DEF InOrder
    <3>3. Min(more[y]) \in 1..(m - 1)
      BY <3>1, <3>2, <1>1, <1>2
    <3>4. ParentIn(s) # t
      BY <2>1, <3>2, <3>3
    <3> QED
      BY <3>1, <3>4
  <2>3. Lineage[x] \subseteq S
    <3>1. S \in SUBSET Named /\ x \in S
      BY <1>4
    <3>2. \A s \in Spans : TaskOf(s) \in S /\ ParentIn(s) # Null => ParentIn(s) \in S
      BY <2>2 DEF SpansOfTask
    <3> HIDE DEF S
    <3> QED
      BY <1>4, <3>1, <3>2
  <2>4. \A y \in Lineage[x] : InOrder(seen, y)
    <3> TAKE y \in Lineage[x]
    <3>1. y \in Named \ {t} /\ InOrder(more, y)
      BY <1>4, <1>5, <2>3
    <3>2. \A s \in SpansOfTask(y) : ParentIn(s) # Null => ParentIn(s) \in Named \ {t}
      BY <1>4, <2>3 DEF SpansOfTask
    <3> QED
      BY <3>1, <3>2, <1>1 DEF InOrder
  <2> QED
    BY <1>5, <2>4 DEF Clear
<1> QED
  BY <1>6, <1>7

RootPath == <<"provenance", "root_task_id">>

\* The root that a span's task is given (a2a.py, reconstruct_provenance).
RootFor(span) == LET parent == ParentIn(span)
                IN  IF parent = Null THEN TaskOf(span)
                    ELSE IF parent \in DOMAIN known THEN known[parent] ELSE parent

\* The provenance of a span that names a task.
LEMMA ProvenanceFrom ==
  ASSUME NEW span, NEW prov, prov = ProvenanceFromAttributes(span.attributes, known)
  PROVE  /\ TaskOf(span) = Null => prov = <<>>
         /\ TaskOf(span) # Null =>
              /\ prov # <<>> /\ {TaskPath, RootPath} \subseteq DOMAIN prov
              /\ prov[TaskPath] = TaskOf(span) /\ prov[RootPath] = RootFor(span)
<1>1. TaskOf(span) = Null => prov = <<>>
  BY DEF ProvenanceFromAttributes, TaskOf
<1>2. ASSUME TaskOf(span) # Null
      PROVE  /\ prov # <<>> /\ {TaskPath, RootPath} \subseteq DOMAIN prov
             /\ prov[TaskPath] = TaskOf(span) /\ prov[RootPath] = RootFor(span)
  <2> DEFINE attrs == span.attributes
             told == Attr(attrs, "a2a.reference_task_ids")
             refs == IF told = Null THEN <<>> ELSE attrs["a2a.reference_task_ids"]
             its == attrs["a2a.task.id"]
             parent == IF refs = <<>> THEN Null ELSE Head(refs)
             root == IF parent = Null THEN its
                     ELSE IF parent \in DOMAIN known THEN known[parent] ELSE parent
             a == TaskPath <: its
             b == <<"provenance", "context_id">> <: Attr(attrs, "a2a.context.id")
             c == <<"provenance", "parent_task_id">> <: parent
             d == RootPath <: root
  <2>1. prov = a ++ b ++ c ++ d
    BY <1>2 DEF ProvenanceFromAttributes, ReconstructProvenance, TaskOf, TaskPath, RootPath
  <2>2. its = TaskOf(span) /\ (told # Null => refs = told)
    BY <1>2 DEF TaskOf, Attr
  <2>3. parent = ParentIn(span)
    BY <2>2 DEF ParentIn
  <2>4. root = RootFor(span)
    BY <2>2, <2>3 DEF RootFor
  <2>5. /\ DOMAIN a = {TaskPath} /\ a[TaskPath] = its
        /\ DOMAIN b = {<<"provenance", "context_id">>} /\ DOMAIN c = {<<"provenance", "parent_task_id">>}
        /\ DOMAIN d = {RootPath} /\ d[RootPath] = root
    BY OneField, Zenon
  <2> HIDE DEF a, b, c, d, root, its, parent, refs
  <2>6. /\ DOMAIN (a ++ b) = DOMAIN a \cup DOMAIN b /\ \A x \in DOMAIN a : (a ++ b)[x] = a[x]
    BY PutTogether, Zenon
  <2>7. /\ DOMAIN (a ++ b ++ c) = DOMAIN (a ++ b) \cup DOMAIN c
        /\ \A x \in DOMAIN (a ++ b) : (a ++ b ++ c)[x] = (a ++ b)[x]
    BY PutTogether, Zenon
  <2> DEFINE most == a ++ b ++ c
             all == most ++ d
  <2>8. /\ DOMAIN all = DOMAIN most \cup DOMAIN d
        /\ \A x \in DOMAIN most : all[x] = most[x]
        /\ \A x \in DOMAIN d \ DOMAIN most : all[x] = d[x]
    <3> HIDE DEF most
    <3> QED
      BY PutTogether, Zenon
  <2>9. DOMAIN most = {TaskPath, <<"provenance", "context_id">>, <<"provenance", "parent_task_id">>}
        /\ most[TaskPath] = its
    BY <2>5, <2>6, <2>7
  <2>10. prov = all
    BY <2>1
  <2> HIDE DEF most, all
  <2>11. RootPath \notin DOMAIN most
    BY <2>9 DEF RootPath, TaskPath
  <2>12. /\ {TaskPath, RootPath} \subseteq DOMAIN all /\ all[TaskPath] = its /\ all[RootPath] = root
    BY <2>5, <2>8, <2>9, <2>11
  <2>13. all # <<>>
    BY <2>12
  <2> QED
    BY <2>2, <2>4, <2>10, <2>12, <2>13
<1> QED
  BY <1>1, <1>2

\* Parts of an event that do not name a task.
Taskless(f) == TaskPath \notin DOMAIN f

\* Two such parts make one.
LEMMA PutTaskless ==
  ASSUME NEW f, NEW g, Taskless(f), Taskless(g)
  PROVE  Taskless(f ++ g)
<1>1. DOMAIN (f ++ g) = DOMAIN f \cup DOMAIN g
  BY PutTogether, Zenon
<1> QED
  BY <1>1 DEF Taskless

\* A field of another name.
LEMMA FieldTaskless ==
  ASSUME NEW path, NEW value, path # TaskPath
  PROVE  Taskless(path <: value)
<1>1. DOMAIN (path <: value) = {path}
  BY OneField, Zenon
<1> QED
  BY <1>1 DEF Taskless

\* Leaving out the fields that are None (events.py).
LEMMA CleanTaskless ==
  ASSUME NEW f, Taskless(f)
  PROVE  Taskless(Clean(f))
BY DEF Taskless, Clean

\* An event of such parts (events.py).
LEMMA EventTaskless ==
  ASSUME NEW kind, NEW agent, NEW format, NEW fields, Taskless(fields)
  PROVE  Taskless(Event(kind, agent, format, fields))
<1> DEFINE A == Clean(fields)
           k == <<"kind">> <: kind
           a == <<"actor", "agent_id">> <: agent
           s == <<"source", "format">> <: format
<1>1. Taskless(A)
  BY CleanTaskless
<1>2. Taskless(k) /\ Taskless(a) /\ Taskless(s)
  <2>1. <<"kind">> # TaskPath /\ <<"actor", "agent_id">> # TaskPath /\ <<"source", "format">> # TaskPath
    BY DEF TaskPath
  <2> QED
    BY <2>1, FieldTaskless, Zenon
<1>3. Event(kind, agent, format, fields) = A ++ k ++ a ++ s
  BY DEF Event
<1> HIDE DEF A, k, a, s
<1>4. Taskless(A ++ k ++ a ++ s)
  BY <1>1, <1>2, PutTaskless
<1> QED
  BY <1>3, <1>4

\* No field that an adapter of spans fills is the task's (otel_genai.py).
LEMMA FieldsTaskless ==
  ASSUME NEW v1, NEW v2, NEW v3, NEW v4, NEW v5, NEW v6, NEW v7, NEW v8, NEW v9, NEW v10, NEW v11,
         NEW v12, NEW v13, NEW v14
  PROVE  Taskless((<<"provenance", "context_id">> <: v1)
              ++ (<<"io", "input_ref">> <: v2) ++ (<<"io", "output_ref">> <: v3)
              ++ (<<"io", "input_tokens">> <: v4) ++ (<<"io", "output_tokens">> <: v5)
              ++ (<<"io", "total_tokens">> <: v6) ++ (<<"io", "cost">> <: v7)
              ++ (<<"io", "cost_currency">> <: v8) ++ (<<"model", "provider">> <: v9)
              ++ (<<"model", "request_model">> <: v10) ++ (<<"model", "response_model">> <: v11)
              ++ (<<"tool", "name">> <: v12) ++ (<<"tool", "call_id">> <: v13)
              ++ (<<"attributes", "operation">> <: v14))
<1> DEFINE f1 == <<"provenance", "context_id">> <: v1
           f2 == <<"io", "input_ref">> <: v2
           f3 == <<"io", "output_ref">> <: v3
           f4 == <<"io", "input_tokens">> <: v4
           f5 == <<"io", "output_tokens">> <: v5
           f6 == <<"io", "total_tokens">> <: v6
           f7 == <<"io", "cost">> <: v7
           f8 == <<"io", "cost_currency">> <: v8
           f9 == <<"model", "provider">> <: v9
           f10 == <<"model", "request_model">> <: v10
           f11 == <<"model", "response_model">> <: v11
           f12 == <<"tool", "name">> <: v12
           f13 == <<"tool", "call_id">> <: v13
           f14 == <<"attributes", "operation">> <: v14
<1>1. /\ Taskless(f1) /\ Taskless(f2) /\ Taskless(f3) /\ Taskless(f4) /\ Taskless(f5)
      /\ Taskless(f6) /\ Taskless(f7) /\ Taskless(f8) /\ Taskless(f9) /\ Taskless(f10)
      /\ Taskless(f11) /\ Taskless(f12) /\ Taskless(f13) /\ Taskless(f14)
  <2>1. \A x, y : <<x, y>> # TaskPath <=> x # "provenance" \/ y # "task_id"
    BY DEF TaskPath
  <2> HIDE DEF TaskPath
  <2> QED
    BY <2>1, FieldTaskless
<1> HIDE DEF f1, f2, f3, f4, f5, f6, f7, f8, f9, f10, f11, f12, f13, f14
<1>2. Taskless(f1 ++ f2 ++ f3 ++ f4 ++ f5)
  BY <1>1, PutTaskless
<1>3. Taskless(f1 ++ f2 ++ f3 ++ f4 ++ f5 ++ f6 ++ f7 ++ f8 ++ f9 ++ f10)
  BY <1>1, <1>2, PutTaskless
<1>4. Taskless(f1 ++ f2 ++ f3 ++ f4 ++ f5 ++ f6 ++ f7 ++ f8 ++ f9 ++ f10 ++ f11 ++ f12 ++ f13 ++ f14)
  BY <1>1, <1>3, PutTaskless
<1> QED
  BY <1>4 DEF f1, f2, f3, f4, f5, f6, f7, f8, f9, f10, f11, f12, f13, f14

\* So a span's event names none before the delegation is reconstructed (pipeline.py, _normalize).
LEMMA SpanTaskless ==
  ASSUME NEW span
  PROVE  Taskless(ApplyLangfusePrecedence(SpanToEvent(span, Null, Pricing), span.attributes))
<1>1. Taskless(SpanToEvent(span, Null, Pricing))
  BY FieldsTaskless, EventTaskless DEF SpanToEvent
<1> DEFINE ev == SpanToEvent(span, Null, Pricing)
           attrs == span.attributes
           of(name) == Attr(attrs, name)
           hashed(name) == IF of(name) = Null THEN Null ELSE HashPayload(of(name))
           f1 == <<"provenance", "context_id">> <: of("langfuse.session.id")
           f2 == <<"model", "request_model">> <: of("langfuse.observation.model.name")
           f3 == <<"io", "input_ref">> <: hashed("langfuse.observation.input")
           f4 == <<"io", "output_ref">> <: hashed("langfuse.observation.output")
           f5 == <<"attributes", "langfuse.user_id">> <: of("langfuse.user.id")
           told == Clean(f1 ++ f2 ++ f3 ++ f4 ++ f5)
           mark == <<"attributes", "langfuse_precedence_applied">> <: TRUE
<1>2. Taskless(f1) /\ Taskless(f2) /\ Taskless(f3) /\ Taskless(f4) /\ Taskless(f5) /\ Taskless(mark)
  <2>1. \A x, y : <<x, y>> # TaskPath <=> x # "provenance" \/ y # "task_id"
    BY DEF TaskPath
  <2> HIDE DEF TaskPath
  <2> QED
    BY <2>1, FieldTaskless
<1>3. ApplyLangfusePrecedence(ev, attrs) = IF told = <<>> THEN ev ELSE told ++ ev ++ mark
  BY DEF ApplyLangfusePrecedence
<1> HIDE DEF f1, f2, f3, f4, f5, mark
<1>4. Taskless(f1 ++ f2 ++ f3 ++ f4 ++ f5)
  BY <1>2, PutTaskless
<1>5. Taskless(told)
  BY <1>4, CleanTaskless
<1> HIDE DEF told, ev
<1>6. Taskless(told ++ ev ++ mark)
  BY <1>1, <1>2, <1>5, PutTaskless DEF ev
<1>7. Taskless(ApplyLangfusePrecedence(ev, attrs))
  BY <1>1, <1>3, <1>6 DEF ev
<1> QED
  BY <1>7 DEF ev

\* The event of a span (pipeline.py, _normalize).
LEMMA NormalizedIs ==
  ASSUME NEW span \in Spans, NEW e, e = FinalizeId(Normalized(span))
  PROVE  /\ Get(e, TaskPath) = TaskOf(span)
         /\ TaskOf(span) # Null => Get(e, RootPath) = RootFor(span)
<1> DEFINE attrs == span.attributes
           ev == ApplyLangfusePrecedence(SpanToEvent(span, Null, Pricing), attrs)
           prov == ProvenanceFromAttributes(attrs, known)
           rest == [p \in DOMAIN ev \ Under("provenance", ev) |-> ev[p]]
           full == IF prov = <<>> THEN ev ELSE Clean(prov) ++ rest
           id == EventId <: <<"evt", ContentForId(full)>>
           all == id ++ full
<1>1. e = all
  BY DEF Normalized, FinalizeId
<1>2. /\ TaskOf(span) = Null => prov = <<>>
      /\ TaskOf(span) # Null =>
           /\ prov # <<>> /\ {TaskPath, RootPath} \subseteq DOMAIN prov
           /\ prov[TaskPath] = TaskOf(span) /\ prov[RootPath] = RootFor(span)
  BY ProvenanceFrom
<1>3. Taskless(ev)
  BY SpanTaskless
<1> HIDE DEF ev, prov
<1>4. /\ TaskPath # EventId /\ RootPath # EventId
      /\ Head(TaskPath) = "provenance" /\ Head(RootPath) = "provenance"
  <2>1. Head(EventId) = "event_id" /\ Head(TaskPath) = "provenance" /\ Head(RootPath) = "provenance"
    BY DEF TaskPath, RootPath, EventId
  <2> QED
    BY <2>1
<1>5. DOMAIN id = {EventId}
  BY OneField, Zenon
<1>6. /\ DOMAIN all = DOMAIN id \cup DOMAIN full
      /\ \A x \in DOMAIN full \ DOMAIN id : all[x] = full[x]
  <2> HIDE DEF id, full
  <2> QED
    BY PutTogether, Zenon
<1>7. Get(all, TaskPath) = Get(full, TaskPath) /\ Get(all, RootPath) = Get(full, RootPath)
  <2> HIDE DEF id, full, all
  <2> QED
    BY <1>4, <1>5, <1>6 DEF Get
<1> HIDE DEF all
<1>8. CASE TaskOf(span) = Null
  <2>1. full = ev /\ prov = <<>>
    BY <1>2, <1>8
  <2>2. Get(all, TaskPath) = Null
    BY <1>3, <1>7, <2>1 DEF Get, Taskless
  <2> HIDE DEF full, id
  <2> QED
    BY <1>1, <1>8, <2>2
<1>9. CASE TaskOf(span) # Null
  <2>1. full = Clean(prov) ++ rest
    BY <1>2, <1>9
  <2>2. TaskPath \notin DOMAIN rest /\ RootPath \notin DOMAIN rest
    BY <1>4 DEF Under
  <2> DEFINE part == Clean(prov)
  <2>3. DOMAIN part = {p \in DOMAIN prov : prov[p] # Null} /\ \A p \in DOMAIN part : part[p] = prov[p]
    BY DEF Clean
  <2>4. /\ DOMAIN (part ++ rest) = DOMAIN part \cup DOMAIN rest
        /\ \A x \in DOMAIN part : (part ++ rest)[x] = part[x]
    <3> HIDE DEF part, rest
    <3> QED
      BY PutTogether, Zenon
  <2> HIDE DEF part, rest, full
  <2>5. full = part ++ rest
    BY <2>1 DEF part
  <2>6. Get(full, TaskPath) = prov[TaskPath] /\ Get(full, RootPath) = prov[RootPath]
    BY <1>2, <1>9, <2>2, <2>3, <2>4, <2>5 DEF Get
  <2> HIDE DEF id
  <2> QED
    BY <1>1, <1>2, <1>7, <1>9, <2>6
<1> QED
  BY <1>8, <1>9

\* What the worker knows after it has normalised a span (pipeline.py, _normalize).
LEMMA KnownIs ==
  ASSUME NEW span \in Spans, Normalize(span)
  PROVE  /\ TaskOf(span) = Null => known' = known
         /\ TaskOf(span) # Null =>
               /\ DOMAIN known' = DOMAIN known \cup {TaskOf(span)}
               /\ known'[TaskOf(span)] = RootFor(span)
               /\ \A x \in DOMAIN known : x # TaskOf(span) => known'[x] = known[x]
<1> DEFINE prov == ProvenanceFromAttributes(span.attributes, known)
<1>1. known' = IF prov = <<>> THEN known ELSE (prov[TaskPath] <: prov[RootPath]) ++ known
  BY DEF Normalize, TaskPath, RootPath
<1>2. /\ TaskOf(span) = Null => prov = <<>>
      /\ TaskOf(span) # Null =>
           /\ prov # <<>> /\ prov[TaskPath] = TaskOf(span) /\ prov[RootPath] = RootFor(span)
  BY ProvenanceFrom
<1> HIDE DEF prov
<1> DEFINE new == TaskOf(span) <: RootFor(span)
<1>3. DOMAIN new = {TaskOf(span)} /\ new[TaskOf(span)] = RootFor(span)
  BY OneField, Zenon
<1>4. TaskOf(span) # Null => known' = new ++ known
  BY <1>1, <1>2
<1> HIDE DEF new
<1>5. /\ DOMAIN (new ++ known) = DOMAIN new \cup DOMAIN known
      /\ \A x \in DOMAIN new : (new ++ known)[x] = new[x]
      /\ \A x \in DOMAIN known \ DOMAIN new : (new ++ known)[x] = known[x]
  BY PutTogether, Zenon
<1> QED
  BY <1>1, <1>2, <1>3, <1>4, <1>5

\* The task of a record, and its root.
TaskAt(i) == Get(records[i], TaskPath)
RootAt(i) == Get(records[i], RootPath)

\* A record of a span, in the run that is so numbered.
FromSpan(i, r) == from[i].by \in Spans /\ from[i].run = r

\* Where the spans of each task are among the first n records, in that run.
Seen(n, r) == [x \in Named |-> {j \in 1..n : FromSpan(j, r) /\ TaskAt(j) = x}]

\* The root of a span's record is as a reader relies on, see RootsLead.
Leads(i) ==
    from[i].by \in Spans /\ TaskAt(i) # Null =>
        /\ TaskAt(i) \in Named /\ RootAt(i) \in Lineage[TaskAt(i)]
        /\ Clear(Seen(i, from[i].run), TaskAt(i)) => IsRoot(RootAt(i))

\* Each record has its run.
RunsInv ==
    /\ records \in Seq(ToSet(records)) /\ from \in Seq(ToSet(from)) /\ Len(from) = Len(records)
    /\ run \in Nat /\ \A i \in 1..Len(records) : from[i].run \in Nat /\ from[i].run <= run

\* The worker knows the tasks that were recorded since it started, and what it knows of a
\* task is as a reader may rely on.
KnowsInv(seen) ==
    /\ DOMAIN known \subseteq Named
    /\ \A x \in DOMAIN known : known[x] \in Lineage[x] /\ (Clear(seen, x) => IsRoot(known[x]))
    /\ \A x \in Named : seen[x] # {} => x \in DOMAIN known

\* So is the event of span s that is not committed yet, although it is not in the log.
WorkInv(seen, s, e) ==
    LET t == TaskOf(s) IN
    /\ s \in Spans /\ Get(e, TaskPath) = t
    /\ t # Null => /\ t \in DOMAIN known /\ Get(e, RootPath) = known[t]
                   /\ Agree(t) /\ (ParentIn(s) # Null => Clear(seen, ParentIn(s))) => IsRoot(known[t])

RootsInv ==
    /\ RunsInv
    /\ KnowsInv(Seen(Len(records), run))
    /\ work # Null => WorkInv(Seen(Len(records), run), work.span, FinalizeId(work.event))
    /\ \A i \in 1..Len(records) : Leads(i)

\* What was said of a record stays when another is committed.
LEMMA OneMore ==
  ASSUME RunsInv, NEW e, NEW f, records' = Append(records, e), from' = Append(from, f),
         NEW m, m = Len(records) + 1, run' = run, f.run = run
  PROVE  /\ RunsInv' /\ Len(records') = m /\ m \in Nat \ {0} /\ from'[m] = f /\ records'[m] = e
         /\ Seen(m - 1, run) \in [Named -> SUBSET (1..(m - 1))] /\ Len(records) = m - 1
         /\ Seen(m, run)' = IF f.by \in Spans /\ Get(e, TaskPath) \in Named
                              THEN [Seen(m - 1, run) EXCEPT ![Get(e, TaskPath)] = @ \cup {m}]
                              ELSE Seen(m - 1, run)
         /\ \A i \in 1..Len(records) : Leads(i)' = Leads(i)
<1>1. /\ records' \in Seq(ToSet(records')) /\ Len(records') = m /\ Len(records) \in Nat
      /\ \A i \in 1..Len(records) : records'[i] = records[i]
      /\ records'[m] = e
  BY Grows DEF RunsInv
<1>2. /\ from' \in Seq(ToSet(from')) /\ Len(from') = m
      /\ \A i \in 1..Len(records) : from'[i] = from[i]
      /\ from'[m] = f
  BY Grows DEF RunsInv
<1>a. m \in Nat \ {0} /\ Len(records) = m - 1 /\ \A i \in 1..m : i = m \/ i \in 1..(m - 1)
  BY <1>1
<1>3. RunsInv'
  <2>1. run \in Nat /\ \A i \in 1..(m - 1) : from[i].run \in Nat /\ from[i].run <= run
    BY <1>a DEF RunsInv
  <2>2. \A i \in 1..m : from'[i].run \in Nat /\ from'[i].run <= run
    BY <2>1, <1>2, <1>a
  <2> QED
    BY <2>1, <2>2, <1>1, <1>2 DEF RunsInv
<1>4. ASSUME NEW i \in 1..(m - 1)
      PROVE  /\ TaskAt(i)' = TaskAt(i) /\ RootAt(i)' = RootAt(i) /\ from'[i] = from[i]
             /\ \A r : FromSpan(i, r)' = FromSpan(i, r)
  BY <1>1, <1>2, <1>a DEF TaskAt, RootAt, FromSpan
<1>5. ASSUME NEW i \in 1..(m - 1) PROVE Leads(i)' = Leads(i)
  <2>1. \A j \in 1..i : j \in 1..(m - 1)
    BY <1>a
  <2>2. PICK r : r = from[i].run
    OBVIOUS
  <2>3. Seen(i, r)' = Seen(i, r)
    BY <2>1, <1>4 DEF Seen
  <2>4. from'[i].run = r
    BY <1>4, <2>2
  <2> QED
    BY <1>4, <2>2, <2>3, <2>4 DEF Leads
<1>6. Seen(m - 1, run) \in [Named -> SUBSET (1..(m - 1))]
  BY DEF Seen
<1>7. TaskAt(m)' = Get(e, TaskPath) /\ (FromSpan(m, run)' <=> f.by \in Spans)
  <2>1. records'[m] = e /\ from'[m] = f /\ run' = run
    BY <1>1, <1>2
  <2> QED
    BY <2>1 DEF TaskAt, FromSpan
<1>8. ASSUME NEW x \in Named
      PROVE  {j \in 1..m : FromSpan(j, run)' /\ TaskAt(j)' = x} =
                IF f.by \in Spans /\ Get(e, TaskPath) = x
                  THEN {j \in 1..(m - 1) : FromSpan(j, run) /\ TaskAt(j) = x} \cup {m}
                  ELSE {j \in 1..(m - 1) : FromSpan(j, run) /\ TaskAt(j) = x}
  <2>1. \A j \in 1..(m - 1) : /\ j # m
                              /\ FromSpan(j, run)' = FromSpan(j, run) /\ TaskAt(j)' = TaskAt(j)
    <3>1. \A j \in 1..(m - 1) : j # m
      BY <1>a
    <3>2. PICK r : r = run
      OBVIOUS
    <3>3. r = run'
      BY <3>2
    <3> QED
      BY <1>4, <3>1, <3>2, <3>3
  <2>2. m \in 1..m /\ \A j \in 1..(m - 1) : j \in 1..m
    BY <1>a
  <2> QED
    BY <2>1, <2>2, <1>7, <1>a
<1>9. Seen(m, run)' = [x \in Named |-> {j \in 1..m : FromSpan(j, run)' /\ TaskAt(j)' = x}]
  BY <1>1 DEF Seen
<1>10. Seen(m, run)' = IF f.by \in Spans /\ Get(e, TaskPath) \in Named
                              THEN [Seen(m - 1, run) EXCEPT ![Get(e, TaskPath)] = @ \cup {m}]
                              ELSE Seen(m - 1, run)
  BY <1>8, <1>9 DEF Seen
<1> QED
  BY <1>1, <1>2, <1>3, <1>5, <1>6, <1>10, <1>a

\* A span is normalised: its task's root is the one that the worker knows for the task it
\* comes from, which is a root if all is clear for that task; and where all is clear, the
\* worker knows it, as it was recorded (pipeline.py, _normalize).
LEMMA NormalizeKeeps ==
  ASSUME RootsInv, NEW span \in Spans, Normalize(span)
  PROVE  RootsInv'
<1>1. PICK seen, t, p, root : /\ seen = Seen(Len(records), run) /\ t = TaskOf(span) /\ p = ParentIn(span)
                              /\ root = RootFor(span)
  OBVIOUS
<1>2. /\ records' = records /\ from' = from /\ run' = run
      /\ work' = [span |-> span, event |-> Normalized(span)]
  BY DEF Normalize
<1>3. Seen(Len(records), run)' = seen /\ RunsInv' /\ \A i \in 1..Len(records)' : Leads(i)'
  <2>1. \A n, r : Seen(n, r)' = Seen(n, r)
    BY <1>2 DEF Seen, FromSpan, TaskAt
  <2>2. \A i \in 1..Len(records) : Leads(i)' = Leads(i)
    BY <1>2, <2>1 DEF Leads, TaskAt, RootAt
  <2> QED
    BY <1>1, <1>2, <2>1, <2>2 DEF RootsInv, RunsInv
<1>4. PICK e : e = FinalizeId(Normalized(span))
  OBVIOUS
<1>5. work'.span = span /\ FinalizeId(work.event)' = e
  BY <1>2, <1>4 DEF FinalizeId, EventId, ContentForId
<1>6. Get(e, TaskPath) = t /\ (t # Null => Get(e, RootPath) = root)
  BY <1>1, <1>4, NormalizedIs
<1>7. /\ t = Null => known' = known
      /\ t # Null => /\ DOMAIN known' = DOMAIN known \cup {t} /\ known'[t] = root
                     /\ \A x \in DOMAIN known : x # t => known'[x] = known[x]
  BY <1>1, KnownIs
<1>8. /\ DOMAIN known \subseteq Named
      /\ \A x \in DOMAIN known : known[x] \in Lineage[x] /\ (Clear(seen, x) => IsRoot(known[x]))
      /\ \A x \in Named : seen[x] # {} => x \in DOMAIN known
  BY <1>1 DEF RootsInv, KnowsInv
<1>9. CASE t = Null
  <2>1. KnowsInv(seen)'
    BY <1>7, <1>8, <1>9 DEF KnowsInv
  <2>2. WorkInv(seen, span, e)'
    BY <1>1, <1>6, <1>9 DEF WorkInv
  <2> QED
    BY <1>3, <1>5, <2>1, <2>2 DEF RootsInv
<1>10. CASE t # Null
  <2>1. t \in Named /\ t \in Lineage[t]
    BY <1>1, <1>10, SpanNames, LineageFacts
  <2>2. p # Null => p \in Named /\ p \in Lineage[t] /\ Lineage[p] \subseteq Lineage[t] /\ p \in Lineage[p]
    BY <1>1, <1>10, SpanNames, LineageFacts
  <2>3. root = IF p = Null THEN t ELSE IF p \in DOMAIN known THEN known[p] ELSE p
    BY <1>1 DEF RootFor
  <2>4. root \in Lineage[t]
    BY <1>8, <2>1, <2>2, <2>3
  <2>5. ASSUME Agree(t), p # Null => Clear(seen, p) PROVE IsRoot(root)
    <3>1. CASE p = Null
      <4>1. \A s \in SpansOfTask(t) : ParentIn(s) = Null
        BY <1>1, <2>5, <3>1 DEF Agree, SpansOfTask
      <4> QED
        BY <2>3, <3>1, <4>1 DEF IsRoot
    <3>2. CASE p # Null
      <4>1. seen[p] # {}
        BY <2>2, <2>5, <3>2 DEF Clear, InOrder
      <4> QED
        BY <1>8, <2>2, <2>3, <2>5, <3>2, <4>1
    <3> QED
      BY <3>1, <3>2
  <2>6. ASSUME Clear(seen, t) PROVE IsRoot(root)
    <3>1. Agree(t)
      BY <2>1, <2>6 DEF Clear
    <3>2. p # Null => Clear(seen, p)
      BY <2>2, <2>6 DEF Clear
    <3> QED
      BY <2>5, <3>1, <3>2
  <2>7. KnowsInv(seen)'
    <3>1. DOMAIN known' \subseteq Named
      BY <1>7, <1>8, <1>10, <2>1
    <3>2. ASSUME NEW x \in DOMAIN known'
          PROVE  known'[x] \in Lineage[x] /\ (Clear(seen, x) => IsRoot(known'[x]))
      BY <1>7, <1>8, <1>10, <2>4, <2>6, <3>2
    <3>3. \A x \in Named : seen[x] # {} => x \in DOMAIN known'
      BY <1>7, <1>8, <1>10
    <3> QED
      BY <3>1, <3>2, <3>3 DEF KnowsInv
  <2>8. WorkInv(seen, span, e)'
    BY <1>1, <1>6, <1>7, <1>10, <2>5 DEF WorkInv
  <2> QED
    BY <1>3, <1>5, <2>7, <2>8 DEF RootsInv
<1> QED
  BY <1>9, <1>10

\* The event is committed: if all is clear for its task now, it was clear for the one it
\* comes from when the span was normalised (pipeline.py, the commit).
LEMMA CommitKeeps ==
  ASSUME RootsInv, CommitSpan
  PROVE  RootsInv'
<1>1. PICK m, s, t, p, e, r : /\ m = Len(records) + 1 /\ s = work.span /\ t = TaskOf(s) /\ p = ParentIn(s)
                              /\ e = FinalizeId(work.event) /\ r = run
  OBVIOUS
<1>2. PICK f : f = [by |-> s, op |-> Null, scope |-> NoScope, run |-> r]
  OBVIOUS
<1>3. /\ records' = Append(records, e) /\ from' = Append(from, f) /\ run' = run
      /\ work # Null /\ work' = Null /\ known' = known /\ f.by = s /\ f.run = run
  BY <1>1, <1>2 DEF CommitSpan, Commits
<1>4. PICK seen, more : seen = Seen(m - 1, r) /\ more = Seen(m, r)'
  OBVIOUS
<1>5. /\ RunsInv' /\ Len(records') = m /\ m \in Nat \ {0} /\ from'[m] = f /\ records'[m] = e
      /\ seen \in [Named -> SUBSET (1..(m - 1))] /\ Len(records) = m - 1
      /\ more = IF s \in Spans /\ Get(e, TaskPath) \in Named
                  THEN [seen EXCEPT ![Get(e, TaskPath)] = @ \cup {m}] ELSE seen
      /\ \A i \in 1..Len(records) : Leads(i)' = Leads(i)
  <2>1. RunsInv
    BY DEF RootsInv
  <2>2. Seen(m, run)' = Seen(m, r)'
    <3>1. r = run'
      BY <1>1, <1>3
    <3> QED
      BY <3>1 DEF Seen
  <2>3. /\ RunsInv' /\ Len(records') = m /\ m \in Nat \ {0} /\ from'[m] = f /\ records'[m] = e
        /\ Seen(m - 1, run) \in [Named -> SUBSET (1..(m - 1))] /\ Len(records) = m - 1
        /\ Seen(m, run)' = IF f.by \in Spans /\ Get(e, TaskPath) \in Named
                              THEN [Seen(m - 1, run) EXCEPT ![Get(e, TaskPath)] = @ \cup {m}]
                              ELSE Seen(m - 1, run)
        /\ \A i \in 1..Len(records) : Leads(i)' = Leads(i)
    <3>1. /\ m = Len(records) + 1 /\ records' = Append(records, e) /\ from' = Append(from, f)
          /\ run' = run /\ f.run = run
      BY <1>1, <1>3
    <3> QED
      BY <2>1, <3>1, OneMore
  <2>4. seen = Seen(m - 1, run) /\ more = Seen(m, run)'
    BY <1>1, <1>4, <2>2
  <2> QED
    BY <1>3, <2>3, <2>4
<1>6. /\ s \in Spans /\ Get(e, TaskPath) = t
      /\ t # Null => /\ t \in DOMAIN known /\ Get(e, RootPath) = known[t]
                     /\ Agree(t) /\ (p # Null => Clear(seen, p)) => IsRoot(known[t])
  <2>1. WorkInv(seen, s, e)
    BY <1>1, <1>3, <1>4, <1>5 DEF RootsInv
  <2> QED
    BY <1>1, <2>1 DEF WorkInv
<1>7. /\ DOMAIN known \subseteq Named
      /\ \A x \in DOMAIN known : known[x] \in Lineage[x] /\ (Clear(seen, x) => IsRoot(known[x]))
      /\ \A x \in Named : seen[x] # {} => x \in DOMAIN known
  <2>1. KnowsInv(seen)
    BY <1>1, <1>4, <1>5 DEF RootsInv
  <2> QED
    BY <2>1 DEF KnowsInv
<1>8. Null \notin Named
  BY DEF Named
<1>9. ASSUME NEW x \in DOMAIN known, Clear(more, x) PROVE IsRoot(known[x])
  <2>1. CASE t = Null
    BY <1>5, <1>6, <1>7, <1>8, <1>9, <2>1
  <2>2. CASE t # Null
    <3>1. t \in Named /\ t \in Lineage[t]
      BY <1>1, <1>6, <2>2, SpanNames, LineageFacts
    <3>2. more = [seen EXCEPT ![t] = @ \cup {m}]
      BY <1>5, <1>6, <3>1
    <3>3. CASE x # t
      <4>1. x \in Named
        BY <1>7
      <4>2. Clear(seen, x)
        BY <1>5, <1>9, <3>1, <3>2, <3>3, <4>1, ClearLater
      <4> QED
        BY <1>7, <4>2
    <3>4. CASE x = t
      <4>1. Agree(t)
        BY <1>9, <3>1, <3>4 DEF Clear
      <4>2. ASSUME p # Null PROVE Clear(seen, p)
        <5>1. Clear(more, p) /\ more[p] # {} /\ Min(more[p]) < Min(more[t])
          BY <1>1, <1>6, <1>9, <2>2, <3>4, <4>2, ClearBefore
        <5>2. p \in Named
          BY <1>1, <1>6, <2>2, <4>2, SpanNames
        <5>3. p # t
          <6>1. more[t] \in SUBSET (1..m) /\ more[t] # {}
            BY <1>5, <3>1, <3>2
          <6>2. Min(more[t]) \in 1..m
            BY <1>5, <6>1, LeastIn
          <6> QED
            BY <5>1, <6>2, <1>5
        <5> QED
          BY <1>5, <3>1, <3>2, <5>1, <5>2, <5>3, ClearLater
      <4> QED
        BY <1>6, <2>2, <3>4, <4>1, <4>2
    <3> QED
      BY <3>3, <3>4
  <2> QED
    BY <2>1, <2>2
<1>10. ASSUME NEW x \in Named, more[x] # {} PROVE x \in DOMAIN known
  <2>1. CASE x = t
    BY <1>6, <1>8, <2>1
  <2>2. CASE x # t
    BY <1>5, <1>6, <1>7, <1>10, <2>2
  <2> QED
    BY <2>1, <2>2
<1>11. KnowsInv(more)'
  BY <1>3, <1>7, <1>9, <1>10 DEF KnowsInv
<1>12. TaskAt(m)' = t /\ RootAt(m)' = Get(e, RootPath) /\ from'[m].run = r
  <2>1. TaskAt(m)' = Get(e, TaskPath) /\ RootAt(m)' = Get(e, RootPath)
    BY <1>5 DEF TaskAt, RootAt
  <2> QED
    BY <1>2, <1>5, <1>6, <2>1
<1>13. Leads(m)'
  <2>1. ASSUME t # Null
        PROVE  t \in Named /\ RootAt(m)' \in Lineage[t] /\ (Clear(more, t) => IsRoot(RootAt(m)'))
    BY <1>6, <1>7, <1>9, <1>12, <2>1
  <2>2. Seen(m, from[m].run)' = more
    BY <1>4, <1>12
  <2> QED
    BY <1>12, <2>1, <2>2 DEF Leads
<1>14. \A i \in 1..Len(records)' : Leads(i)'
  <2>1. \A i \in 1..(m - 1) : Leads(i)'
    BY <1>5 DEF RootsInv
  <2>2. \A i \in 1..m : i = m \/ i \in 1..(m - 1)
    BY <1>5
  <2> QED
    BY <1>5, <1>13, <2>1, <2>2
<1>15. Seen(Len(records), run)' = more
  BY <1>1, <1>3, <1>4, <1>5 DEF Seen
<1> QED
  BY <1>3, <1>5, <1>11, <1>14, <1>15 DEF RootsInv

\* What a client or an adapter commits is of no span, and leaves the worker alone.
LEMMA OtherCommits ==
  ASSUME RootsInv, NEW ev, NEW by, by \notin Spans, NEW op, NEW ambient, Commits(ev, by, op, ambient),
         run' = run, known' = known, work' = work
  PROVE  RootsInv'
<1>1. PICK m, e, r : m = Len(records) + 1 /\ e = FinalizeId(ev) /\ r = run
  OBVIOUS
<1>2. PICK f : f = [by |-> by, op |-> op, scope |-> ambient, run |-> r]
  OBVIOUS
<1>3. records' = Append(records, e) /\ from' = Append(from, f) /\ f.by \notin Spans /\ f.run = run
  BY <1>1, <1>2 DEF Commits
<1>4. PICK seen : seen = Seen(m - 1, r)
  OBVIOUS
<1>5. /\ RunsInv' /\ Len(records') = m /\ m \in Nat \ {0} /\ from'[m] = f /\ Len(records) = m - 1
      /\ Seen(m, run)' = seen
      /\ \A i \in 1..Len(records) : Leads(i)' = Leads(i)
  <2>1. RunsInv
    BY DEF RootsInv
  <2> QED
    BY <1>1, <1>3, <1>4, <2>1, OneMore
<1>6. KnowsInv(seen) /\ (work # Null => WorkInv(seen, work.span, FinalizeId(work.event)))
  BY <1>1, <1>4, <1>5 DEF RootsInv
<1>7. KnowsInv(seen)'
  BY <1>6 DEF KnowsInv
<1>8. work' # Null => WorkInv(seen, work.span, FinalizeId(work.event))'
  <2>1. FinalizeId(work.event)' = FinalizeId(work.event)
    BY DEF FinalizeId, EventId, ContentForId
  <2> QED
    BY <1>6, <2>1 DEF WorkInv
<1>9. Seen(Len(records), run)' = seen
  BY <1>5 DEF Seen
<1>10. \A i \in 1..Len(records)' : Leads(i)'
  <2>1. Leads(m)'
    BY <1>3, <1>5 DEF Leads
  <2>2. \A i \in 1..(m - 1) : Leads(i)'
    BY <1>5 DEF RootsInv
  <2>3. \A i \in 1..m : i = m \/ i \in 1..(m - 1)
    BY <1>5
  <2> QED
    BY <1>5, <2>1, <2>2, <2>3
<1> QED
  BY <1>5, <1>7, <1>8, <1>9, <1>10 DEF RootsInv

\* A step that leaves the log and what the worker knows alone; the event that it has not
\* committed yet may be given up, and what it knows of the task stays.
LEMMA RootsStay ==
  ASSUME RootsInv, UNCHANGED <<known, records, from, run>>, work' = work \/ work' = Null
  PROVE  RootsInv'
<1>1. PICK seen : seen = Seen(Len(records), run)
  OBVIOUS
<1>2. \A n, r : Seen(n, r)' = Seen(n, r)
  BY DEF Seen, FromSpan, TaskAt
<1>3. \A i \in 1..Len(records) : Leads(i)' = Leads(i)
  BY <1>2 DEF Leads, TaskAt, RootAt
<1>4. Seen(Len(records), run)' = seen /\ RunsInv' /\ \A i \in 1..Len(records)' : Leads(i)'
  BY <1>1, <1>2, <1>3 DEF RootsInv, RunsInv
<1>5. KnowsInv(seen)'
  BY <1>1 DEF RootsInv, KnowsInv
<1>6. work' # Null => WorkInv(seen, work.span, FinalizeId(work.event))'
  <2>1. work' = work => FinalizeId(work.event)' = FinalizeId(work.event)
    BY DEF FinalizeId, EventId, ContentForId
  <2> QED
    BY <1>1, <2>1 DEF RootsInv, WorkInv
<1> QED
  BY <1>4, <1>5, <1>6 DEF RootsInv

\* The worker of a process that starts again knows no task, and no record is of its run.
LEMMA RootsRestart ==
  ASSUME RootsInv, Restart
  PROVE  RootsInv'
<1>1. known' = <<>> /\ work' = Null /\ run' = run + 1 /\ records' = records /\ from' = from
  BY DEF Restart
<1>2. \A n, r : Seen(n, r)' = Seen(n, r)
  BY <1>1 DEF Seen, FromSpan, TaskAt
<1>3. \A i \in 1..Len(records) : Leads(i)' = Leads(i)
  BY <1>1, <1>2 DEF Leads, TaskAt, RootAt
<1>4. /\ run \in Nat /\ \A i \in 1..Len(records) : from[i].run \in Nat /\ from[i].run <= run
  BY DEF RootsInv, RunsInv
<1>5. RunsInv' /\ \A i \in 1..Len(records)' : Leads(i)'
  BY <1>1, <1>3, <1>4 DEF RootsInv, RunsInv
<1>6. \A x \in Named : Seen(Len(records), run)'[x] = {}
  <2>1. \A j \in 1..Len(records) : ~(from'[j].by \in Spans /\ from'[j].run = run')
    BY <1>1, <1>4
  <2> QED
    BY <1>1, <2>1 DEF Seen, FromSpan
<1>7. KnowsInv(Seen(Len(records), run))'
  BY <1>1, <1>6 DEF KnowsInv
<1> QED
  BY <1>1, <1>5, <1>7 DEF RootsInv

\* Every step of the clients, the worker and the adapters (sdk.py, pipeline.py).
LEMMA RootsNext ==
  ASSUME RootsInv, [RecorderNext]_recorderVars
  PROVE  RootsInv'
<1>1. CASE UNCHANGED recorderVars
  BY <1>1, RootsStay DEF recorderVars
<1>2. ASSUME NEW c \in Contexts, Record(c) PROVE RootsInv'
  <2>1. run' = run /\ known' = known /\ work' = work /\ c \notin Spans
    BY <1>2, RecorderAssumption DEF Record
  <2>2. CASE records' = records /\ from' = from
    BY <2>1, <2>2, RootsStay
  <2>3. CASE ~(records' = records /\ from' = from)
    <3>1. \E ev, op, ambient : Commits(ev, c, op, ambient)
      BY <1>2, <2>3 DEF Record
    <3> QED
      BY <2>1, <3>1, OtherCommits
  <2> QED
    BY <2>2, <2>3
<1>3. ASSUME NEW c \in Contexts,
             \/ \E s \in Scopes : EnterTask(c, s)
             \/ LeaveTask(c)
             \/ \E op \in Operations : Call(c, op)
             \/ StoreOpens(c) \/ StoreWrites(c) \/ CallFails(c)
      PROVE  RootsInv'
  BY <1>3, RootsStay DEF EnterTask, LeaveTask, Call, StoreOpens, StoreWrites, CallFails
<1>4. ASSUME NEW span \in Spans, Normalize(span) PROVE RootsInv'
  BY <1>4, NormalizeKeeps
<1>5. ASSUME NEW ev, Import(ev) PROVE RootsInv'
  <2>1. /\ Commits(ev, Null, Null, NoScope) /\ run' = run /\ known' = known /\ work' = work
        /\ Null \notin Spans
    BY <1>5, RecorderAssumption DEF Import
  <2> QED
    BY <2>1, OtherCommits
<1>6. ASSUME CommitFails PROVE RootsInv'
  BY <1>6, RootsStay DEF CommitFails
<1> QED
  BY <1>1, <1>2, <1>3, <1>4, <1>5, <1>6, CommitKeeps, RootsRestart DEF RecorderNext

\* What is known of the roots says what a reader of the log relies on.
LEMMA RootsLeadFrom ==
  ASSUME RootsInv
  PROVE  RootsLead
<1> DEFINE spans(i, x) == {j \in 1..i : /\ from[j].run = from[i].run /\ from[j].by \in Spans
                                        /\ Get(records[j], TaskPath) = x}
           inOrder(i, x) == /\ spans(i, x) # {}
                            /\ \A s \in SpansOfTask(x) : ParentIn(s) # Null =>
                                  /\ spans(i, ParentIn(s)) # {}
                                  /\ Min(spans(i, ParentIn(s))) < Min(spans(i, x))
<1>1. DOMAIN records = 1..Len(records)
  BY DEF RootsInv, RunsInv
<1>2. ASSUME NEW i \in 1..Len(records), from[i].by \in Spans, TaskAt(i) # Null
      PROVE  /\ RootAt(i) \in Lineage[TaskAt(i)]
             /\ (\A x \in Lineage[TaskAt(i)] : Agree(x) /\ inOrder(i, x)) => IsRoot(RootAt(i))
  <2>1. PICK seen, t : seen = Seen(i, from[i].run) /\ t = TaskAt(i)
    OBVIOUS
  <2>2. RootAt(i) \in Lineage[t] /\ (Clear(seen, t) => IsRoot(RootAt(i)))
    BY <1>2, <2>1 DEF RootsInv, Leads
  <2>3. \A x \in Named : seen[x] = spans(i, x)
    BY <2>1 DEF Seen, FromSpan, TaskAt
  <2>4. t \in Named /\ Lineage[t] \subseteq Named
    <3>1. t \in Named
      BY <1>2, <2>1 DEF RootsInv, Leads
    <3> QED
      BY <3>1, LineageFacts
  <2>5. ASSUME NEW x \in Lineage[t], inOrder(i, x) PROVE InOrder(seen, x)
    <3>1. x \in Named /\ seen[x] = spans(i, x)
      BY <2>3, <2>4
    <3>2. \A s \in SpansOfTask(x) : ParentIn(s) # Null => seen[ParentIn(s)] = spans(i, ParentIn(s))
      BY <2>3, NamedHas DEF SpansOfTask
    <3> HIDE DEF spans
    <3> QED
      BY <2>5, <3>1, <3>2 DEF InOrder
  <2> HIDE DEF inOrder
  <2> QED
    BY <2>1, <2>2, <2>5 DEF Clear
<1>3. \A i \in DOMAIN records : from[i].by \in Spans /\ TaskAt(i) # Null =>
         /\ RootAt(i) \in Lineage[TaskAt(i)]
         /\ (\A x \in Lineage[TaskAt(i)] : Agree(x) /\ inOrder(i, x)) =>
               \A s \in SpansOfTask(RootAt(i)) : ParentIn(s) = Null
  <2> HIDE DEF inOrder
  <2> QED
    BY <1>1, <1>2 DEF IsRoot
<1> QED
  BY <1>3 DEF RootsLead, TaskAt, RootAt, TaskPath, RootPath

\* The root of a delegated task (a2a.py:29-31, pipeline.py:152-164 and 247-260): whatever
\* the order of the spans, however often each comes and whether they agree, whichever
\* commits fail for good and wherever the process dies, the recorded root is a task that
\* the recorded one comes from, and one that comes from no other where the spans agree and
\* came in order in the life of the process.
THEOREM RootsLeadKept == RecorderSpec => []RootsLead
<1>1. RecorderInit => RootsInv
  <2> SUFFICES ASSUME RecorderInit PROVE RootsInv
    OBVIOUS
  <2>1. records = <<>> /\ from = <<>> /\ run = 1 /\ known = <<>> /\ work = Null
    BY DEF RecorderInit
  <2>2. RunsInv /\ Len(records) = 0
    <3>1. records \in Seq(ToSet(records)) /\ from \in Seq(ToSet(from)) /\ Len(records) = 0 /\ Len(from) = 0
      BY <2>1
    <3> QED
      BY <2>1, <3>1 DEF RunsInv
  <2>3. \A x \in Named : Seen(Len(records), run)[x] = {}
    BY <2>2 DEF Seen
  <2>4. KnowsInv(Seen(Len(records), run))
    <3>1. DOMAIN known = {}
      BY <2>1
    <3> QED
      BY <2>3, <3>1 DEF KnowsInv
  <2> QED
    BY <2>1, <2>2, <2>4 DEF RootsInv
<1>2. RootsInv /\ [RecorderNext]_recorderVars => RootsInv'
  BY RootsNext
<1>3. RootsInv => RootsLead
  BY RootsLeadFrom
<1> QED
  BY <1>1, <1>2, <1>3, PTL DEF RecorderSpec

=============================================================================
