------------------------------ MODULE Collector ------------------------------
(***************************************************************************)
(* The receivers of ingest/: http_server.py and grpc_server.py with         *)
(* otlp_common.py and fanout.py, the exporters that send to them, and the   *)
(* order in which the command `openwright collector' stops them.            *)
(*                                                                         *)
(* Each attempt to export is handled by a thread of its own: it authorises, *)
(* hands the spans to EvidencePipeline.submit one by one, sends the bytes   *)
(* to the backend and answers.  submit() either takes a span over or counts *)
(* a drop, the two steps of EvidenceIntake that the caller's thread makes.  *)
(*                                                                         *)
(* A client that is not answered by a 2xx may export the request again.  It *)
(* does not wait for ever, and the handler does not know it has gone.       *)
(***************************************************************************)
EXTENDS Authz, Integers, SequencesExt

CONSTANTS Requests,
          Contents,    \* what a request can be, see Attempts
          Tokens,      \* the token authority's, or Nobody
          HasBackend,  \* a downstream URL is configured
          Malformed,   \* a body that is no ExportTraceServiceRequest
          MaxAttempts  \* bound of the model: how often a request is exported

IsSequence(s) == s \in Seq(ToSet(s))

\* A body that is not malformed is a message: repeated fields are sequences.
ASSUME CollectorAssumption ==
    \A c \in Contents : c.body # Malformed =>
        /\ IsSequence(c.body)
        /\ \A r \in ToSet(c.body) :
              /\ IsSequence(r.scopes)
              /\ \A spans \in ToSet(r.scopes) : IsSequence(spans)

VARIABLES contents,  \* of each request, [via, path, header, body]
          stage,     \* of the collector: "up", "closed" for HTTP, or "down"
          handler,   \* the thread of each attempt, [pc, forked, status]
          taken,     \* the spans taken over, <<attempt, position, span>>
          dropped,   \* history: the spans counted as drops
          sent,      \* the attempts sent to the backend
          said,      \* what the backend answered
          answer     \* what the clients were answered

collectorVars == <<contents, stage, handler, taken, dropped, sent, said, answer>>

Attempts == Requests \X (1..MaxAttempts)

Content(a) == contents[a[1]]

\* request_to_spans: each span with the attributes of its own resource.
RequestToSpans(body) ==
    FlattenSeq([i \in DOMAIN body |->
        LET ofScope(spans) == [k \in DOMAIN spans |->
                                  [name |-> spans[k], resource |-> body[i].resource]]
        IN  FlattenSeq([j \in DOMAIN body[i].scopes |-> ofScope(body[i].scopes[j])])])

\* parse_request raises on a malformed body, and then there is nothing to submit.
SpansOf(a) == IF Content(a).body = Malformed THEN <<>> ELSE RequestToSpans(Content(a).body)

Waiting == {a \in Attempts : handler[a].pc # "none"} \ DOMAIN answer

CollectorTypeOK ==
    /\ contents \in [Requests -> Contents]
    /\ stage \in {"up", "closed", "down"}
    /\ \A a \in Attempts :
          /\ handler[a].pc \in {"none", "accept", "fork", "forward", "wait", "respond", "done"}
          /\ handler[a].forked \in 0..Len(SpansOf(a))
    /\ \A c \in taken \cup dropped : c[1] \in Attempts /\ SpansOf(c[1])[c[2]] = c[3]
    /\ DOMAIN said \subseteq sent /\ sent \subseteq Attempts
    /\ DOMAIN answer \subseteq Attempts

CollectorInit ==
    /\ contents \in [Requests -> Contents]
    /\ stage = "up"
    /\ handler = [a \in Attempts |-> [pc |-> "none", forked |-> 0, status |-> 0]]
    /\ taken = {} /\ dropped = {} /\ sent = {}
    /\ said = <<>> /\ answer = <<>>

Proxy == INSTANCE TelemetryProxy WITH
            open <- Waiting,
            proxied <- {a \in Attempts : HasBackend /\ Content(a).via = "http"}

\* pushTraces, and the exporters of OpenTelemetry: the next attempt of a request.
Export(a) ==
    /\ handler[a].pc = "none"
    /\ a[2] > 1 => LET before == <<a[1], a[2] - 1>>
                   IN  before \in DOMAIN answer /\ answer[before] # 200
    /\ handler' = [handler EXCEPT ![a].pc = "accept"]
    /\ UNCHANGED <<contents, stage, taken, dropped, sent, said, answer>>

GoesOn(a, pc, status) ==
    handler' = [handler EXCEPT ![a].pc = pc, ![a].status = status]

\* The client reads the answer, if it still waits for it.
Ends(a, status) ==
    /\ GoesOn(a, "done", status)
    /\ answer' = IF a \in DOMAIN answer THEN answer ELSE Proxy!With(answer, {a}, status)

\* do_POST: the path and the token; Export of the gRPC service has neither.
Accept(a) ==
    /\ handler[a].pc = "accept"
    /\ \/ /\ Content(a).via = "grpc" /\ stage # "down"
          /\ GoesOn(a, "fork", 0) /\ UNCHANGED answer
       \/ /\ Content(a).via = "http" /\ stage = "up"
          /\ IF Content(a).path # "/v1/traces" THEN Ends(a, 404)
             ELSE IF Tokens # Nobody /\ ~AuthorizeBearer(Tokens, Content(a).header, "write_evidence")
             THEN Ends(a, 401)
             ELSE GoesOn(a, "fork", 0) /\ UNCHANGED answer
    /\ UNCHANGED <<contents, stage, taken, dropped, sent, said>>

\* The connection is refused.
Refused(a) ==
    /\ handler[a].pc = "accept"
    /\ stage = "down" \/ (stage = "closed" /\ Content(a).via = "http")
    /\ Ends(a, Proxy!Lost)
    /\ UNCHANGED <<contents, stage, taken, dropped, sent, said>>

\* Mutant: a drop ends submit().
SubmitSpanReturns(a) ==
    /\ handler[a].pc = "fork"
    /\ handler[a].forked < Len(SpansOf(a))
    /\ LET n == handler[a].forked + 1  copy == <<a, n, SpansOf(a)[n]>>
       IN  \/ /\ taken' = taken \cup {copy}
              /\ handler' = [handler EXCEPT ![a].forked = n]
              /\ UNCHANGED dropped
           \/ /\ dropped' = dropped \cup {copy}
              /\ handler' = [handler EXCEPT ![a].forked = Len(SpansOf(a))]
              /\ UNCHANGED taken
    /\ UNCHANGED <<contents, stage, sent, said, answer>>

\* One round of the loop in submit().
SubmitSpan(a) ==
    /\ handler[a].pc = "fork"
    /\ handler[a].forked < Len(SpansOf(a))
    /\ LET n == handler[a].forked + 1  copy == <<a, n, SpansOf(a)[n]>>
       IN  \/ taken' = taken \cup {copy} /\ UNCHANGED dropped
           \/ dropped' = dropped \cup {copy} /\ UNCHANGED taken
    /\ handler' = [handler EXCEPT ![a].forked = @ + 1]
    /\ UNCHANGED <<contents, stage, sent, said, answer>>

\* Mutant: what is raised while parsing is not caught, and the connection breaks.
LeaveForkRaises(a) ==
    /\ handler[a].pc = "fork"
    /\ handler[a].forked = Len(SpansOf(a))
    /\ IF Content(a).body = Malformed THEN Ends(a, 500)
       ELSE GoesOn(a, IF Content(a).via = "http" THEN "forward" ELSE "respond", 200)
            /\ UNCHANGED answer
    /\ UNCHANGED <<contents, stage, taken, dropped, sent, said>>

\* The fork is over or has raised, which is caught.
LeaveFork(a) ==
    /\ handler[a].pc = "fork"
    /\ handler[a].forked = Len(SpansOf(a))
    /\ GoesOn(a, IF Content(a).via = "http" THEN "forward" ELSE "respond", 200)
    /\ UNCHANGED <<contents, stage, taken, dropped, sent, said, answer>>

\* maybe_forward: the body goes out as it came in.
Forward(a) ==
    /\ handler[a].pc = "forward"
    /\ IF HasBackend THEN sent' = sent \cup {a} /\ GoesOn(a, "wait", 0)
                     ELSE GoesOn(a, "respond", 200) /\ UNCHANGED sent
    /\ UNCHANGED <<contents, stage, taken, dropped, said, answer>>

\* The backend answers; urlopen raises if it is no success.
BackendAnswers(a) ==
    /\ handler[a].pc = "wait"
    /\ a \in DOMAIN said
    /\ GoesOn(a, "respond", IF said[a] = 200 THEN 200 ELSE 502)
    /\ UNCHANGED <<contents, stage, taken, dropped, sent, said, answer>>

\* The backend cannot be reached or does not answer within the timeout.
TimesOut(a) ==
    /\ handler[a].pc = "wait"
    /\ GoesOn(a, "respond", 502)
    /\ UNCHANGED <<contents, stage, taken, dropped, sent, said, answer>>

Respond(a) ==
    /\ handler[a].pc = "respond"
    /\ Ends(a, handler[a].status)
    /\ UNCHANGED <<contents, stage, taken, dropped, sent, said>>

Handle(a) ==
    \/ Accept(a) \/ Refused(a) \/ SubmitSpan(a) \/ LeaveFork(a) \/ Forward(a)
    \/ BackendAnswers(a) \/ TimesOut(a) \/ Respond(a)

\* The backend: it counts the request and answers, perhaps after the timeout.
Backend(a) ==
    /\ a \in sent \ DOMAIN said
    /\ \E status \in {200, 503} : said' = Proxy!With(said, {a}, status)
    /\ UNCHANGED <<contents, stage, handler, taken, dropped, sent, answer>>

ClientGivesUp(a) ==
    /\ a \in Waiting
    /\ answer' = Proxy!With(answer, {a}, Proxy!Lost)
    /\ UNCHANGED <<contents, stage, handler, taken, dropped, sent, said>>

\* EvidenceCollector.stop: no more connections are accepted.
StopHttp ==
    /\ stage = "up"
    /\ stage' = "closed"
    /\ UNCHANGED <<contents, handler, taken, dropped, sent, said, answer>>

\* The process ends, after pipe.stop() and the stop of the gRPC server or by a crash;
\* its threads are daemons.
Exit ==
    /\ stage # "down"
    /\ stage' = "down"
    /\ LET running == {a \in Attempts : handler[a].pc \notin {"none", "accept", "done"}}
       IN  /\ handler' = [a \in Attempts |-> IF a \in running THEN [handler[a] EXCEPT !.pc = "done"]
                                             ELSE handler[a]]
           /\ answer' = Proxy!With(answer, running \ DOMAIN answer, Proxy!Lost)
    /\ UNCHANGED <<contents, taken, dropped, sent, said>>

CollectorNext ==
    \/ \E a \in Attempts : Export(a) \/ Handle(a) \/ Backend(a) \/ ClientGivesUp(a)
    \/ StopHttp
    \/ Exit

\* The handlers' threads run, and urlopen does not wait for ever.
CollectorSpec == CollectorInit /\ [][CollectorNext]_collectorVars /\ \A a \in Attempts : WF_collectorVars(Handle(a))

----------------------------------------------------------------------------
(* Properties.                                                              *)

\* docs/ARCHITECTURE.md:36, "A failure, slowdown, or malformed span in the evidence path
\* can never drop, delay, or alter primary telemetry": for the clients and for the
\* backend the collector is a TelemetryProxy, whatever evidence does, and each attempt
\* is answered.
Transparent == Proxy!Spec

\* http_server.py:48-62: an attempt whose answer tells that it got past the checks, or
\* that was sent to the backend, has all its spans taken over or counted as drops; one
\* that was rejected has left nothing, in the evidence or at the backend.
ForkIsWhole ==
    \A a \in Attempts :
        LET copies == {<<a, n, SpansOf(a)[n]>> : n \in DOMAIN SpansOf(a)}
            got(statuses) == a \in DOMAIN answer /\ answer[a] \in statuses
        IN  /\ got({200, 502}) \/ a \in sent => copies \subseteq taken \cup dropped
            /\ got({401, 404}) => a \notin sent /\ \A c \in taken \cup dropped : c[1] # a
            /\ taken \cap dropped = {}
=============================================================================
