------------------------------ MODULE Recorder ------------------------------
(***************************************************************************)
(* How events get into the log: sdk.py, whose client is called from several *)
(* threads, with the payload vault of vault.py; the normalisation of spans  *)
(* in ingest/pipeline.py with the adapters; and a process that dies.        *)
(*                                                                         *)
(* A call of the client stores its payloads in the vault one after the      *)
(* other, makes the event, asks the authorizer and commits.  The ambient    *)
(* task is a ContextVar, which each thread has for itself; a with block     *)
(* sets it and keeps what it was.                                           *)
(*                                                                         *)
(* Spans come in any order and more than once: the exporters, the spill     *)
(* buffer and a restart see to that.  The worker normalises one and then    *)
(* commits its event, or gives it up when no attempt succeeds; it knows the *)
(* tasks of those it has normalised since the process started.  records is  *)
(* the append-only log that EvidenceLedger implements.                      *)
(***************************************************************************)
EXTENDS Events, Authz

CONSTANTS Contexts,    \* the threads that call the client
          Scopes,      \* the ambient provenance of the with blocks
          Operations,  \* what is recorded, see PayloadsOf and EventOf
          Principal,   \* of each thread's client
          Spans,       \* the spans that are exported
          Imported,    \* the events that a caller of the adapters commits
          HasVault,    \* the clients have a vault
          Pricing,     \* the pipeline's
          Loads,       \* bound of the model: who acts in a behaviour and how many records
                       \* there are, see load
          MaxDepth,    \* bound of the model: how deep with blocks are nested
          MaxFailures  \* bound of the model: how often a step fails or the process dies

ASSUME RecorderAssumption ==
    /\ {MaxDepth, MaxFailures} \subseteq Nat
    /\ \A l \in Loads : l.of \subseteq {"clients", "intake", "adapters"} /\ l.events \in Nat
    /\ IsFiniteSet(Spans) /\ Contexts \cap (Spans \cup {Null}) = {} /\ Null \notin Spans
    /\ \A s \in Scopes :
          /\ DOMAIN s \subseteq {<<"provenance", field>> : field \in
                {"task_id", "context_id", "parent_task_id", "root_task_id"}}
          /\ \A path \in DOMAIN s : s[path] # Null
    /\ \A op \in Operations : op["kind"] \in
          {"agent_decision", "human_approval", "risk_classification", "policy_decision", "incident"}

VARIABLES scope,   \* _current_scope in each thread
          tokens,  \* for each of its open blocks, what _current_scope was before
          blocks,  \* history: the scopes of its open blocks
          call,    \* what each thread is recording, [pc, op, n]: n payloads are stored
          vault,   \* durable: the files by reference, "torn" or "whole"
          cut,     \* history: the references whose write was cut off
          known,   \* _known: the roots of the tasks the worker has seen
          work,    \* the worker's event that is not committed yet, [span, event], or Null
          records, \* the ledger's
          from,    \* history: where each record comes from, [by, op, scope, run]
          run,     \* history: how often the process was started
          failures, \* how often a step has failed or the process died
          load     \* bound: [of, events], who acts of the clients, the intake of spans and the
                   \* callers of adapters, which share nothing but the log, and its length

recorderVars == <<scope, tokens, blocks, call, vault, cut, known, work, records, from, run, failures, load>>

NoCall == [pc |-> "idle", op |-> Null, n |-> 0]

NoScope == <<>>

RecorderInit ==
    /\ scope = [c \in Contexts |-> NoScope]
    /\ tokens = [c \in Contexts |-> <<>>] /\ blocks = [c \in Contexts |-> <<>>]
    /\ call = [c \in Contexts |-> NoCall]
    /\ vault = <<>> /\ cut = {} /\ known = <<>> /\ work = Null
    /\ records = <<>> /\ from = <<>> /\ run = 1 /\ failures = 0
    /\ load \in Loads

Fault == failures < MaxFailures /\ failures' = failures + 1

----------------------------------------------------------------------------
(* sdk.py.                                                                  *)

\* The payloads of an operation in the order they are stored.
PayloadsOf(op) ==
    LET all == <<Attr(op, "fria"), Attr(op, "input"), Attr(op, "output"), Attr(op, "rationale")>>
        given == Ascending({n \in DOMAIN all : all[n] # Null})
    IN  [n \in DOMAIN given |-> all[given[n]]]

\* What a recorder can be told of the task.
Overrides == {"task_id", "context_id", "root_task_id"}

\* _provenance: what the call says before what the with block says.
ProvenanceOf(op, ambient) ==
    [path \in {<<"provenance", field>> : field \in {f \in Overrides : Attr(op, f) # Null}} |-> op[path[2]]]
    ++ ambient

\* The recorders' events, without the attributes that the caller adds.
EventOf(op, ambient) ==
    LET of(name) == Attr(op, name)
        ref(name) == IF of(name) = Null THEN Null ELSE HashPayload(of(name))
        classified == of("classification") # Null
        fields ==
          CASE op["kind"] = "agent_decision" ->
                 (<<"io", "input_ref">> <: ref("input")) ++ (<<"io", "output_ref">> <: ref("output"))
                 ++ (<<"risk", "classification">> <: of("classification"))
                 ++ (<<"risk", "rationale_ref">> <: ref("rationale"))
                 ++ (<<"risk", "framework">> <: IF classified THEN "eu-ai-act" ELSE Null)
                 ++ (<<"oversight", "status">> <: IF of("approval") = Null THEN Null ELSE "approved")
                 ++ (<<"oversight", "approval_ref">> <: of("approval"))
                 ++ (<<"attributes", "control">> <: of("control"))
            [] op["kind"] = "human_approval" ->
                 (<<"oversight", "status">> <: IF op["approved"] THEN "approved" ELSE "rejected")
                 ++ (<<"oversight", "reviewer">> <: of("reviewer"))
                 ++ (<<"io", "input_ref">> <: ref("rationale"))
            [] op["kind"] = "risk_classification" ->
                 (<<"risk", "classification">> <: of("classification"))
                 ++ (<<"risk", "rationale_ref">> <: ref("rationale"))
                 ++ (<<"risk", "framework">> <: "eu-ai-act")
                 ++ (<<"attributes", "fria_ref">> <: ref("fria"))
            [] op["kind"] = "policy_decision" ->
                 (<<"attributes", "decision">> <: of("decision"))
                 ++ (<<"attributes", "policy">> <: of("policy"))
            [] op["kind"] = "incident" ->
                 (<<"attributes", "severity">> <: of("severity"))
                 ++ (<<"attributes", "report_deadline_days">> <: of("days"))
                 ++ (<<"io", "input_ref">> <: ref("input"))
    IN  Event(op["kind"], of("agent"), "sdk", ProvenanceOf(op, ambient) ++ fields)

\* Mutant: the ambient scope is one for all threads.
EnterTaskForAll(c, s) ==
    /\ call[c].pc = "idle" /\ Len(blocks[c]) < MaxDepth
    /\ scope' = [d \in Contexts |-> s]
    /\ tokens' = [tokens EXCEPT ![c] = Append(@, scope[c])]
    /\ blocks' = [blocks EXCEPT ![c] = Append(@, s)]
    /\ UNCHANGED <<call, vault, cut, known, work, records, from, run, failures, load>>

\* with client.task(...).
EnterTask(c, s) ==
    /\ call[c].pc = "idle" /\ Len(blocks[c]) < MaxDepth
    /\ scope' = [scope EXCEPT ![c] = s]
    /\ tokens' = [tokens EXCEPT ![c] = Append(@, scope[c])]
    /\ blocks' = [blocks EXCEPT ![c] = Append(@, s)]
    /\ UNCHANGED <<call, vault, cut, known, work, records, from, run, failures, load>>

\* The block ends, by an exception or not.
LeaveTask(c) ==
    /\ call[c].pc = "idle" /\ blocks[c] # <<>>
    /\ scope' = [scope EXCEPT ![c] = Last(tokens[c])]
    /\ tokens' = [tokens EXCEPT ![c] = Front(@)]
    /\ blocks' = [blocks EXCEPT ![c] = Front(@)]
    /\ UNCHANGED <<call, vault, cut, known, work, records, from, run, failures, load>>

scopeVars == <<scope, tokens, blocks>>

\* A recorder is called; the decorator of high_risk_decision calls it after the function
\* has returned, and not at all if it raises.
Call(c, op) ==
    /\ call[c].pc = "idle"
    /\ call' = [call EXCEPT ![c] = [pc |-> "store", op |-> op, n |-> 0]]
    /\ UNCHANGED <<scopeVars, vault, cut, known, work, records, from, run, failures, load>>

\* _ref with a vault: write_bytes opens the file, which truncates it, and writes.
StoreOpens(c) ==
    /\ call[c].pc = "store" /\ HasVault
    /\ call[c].n < Len(PayloadsOf(call[c].op))
    /\ LET ref == HashPayload(PayloadsOf(call[c].op)[call[c].n + 1])
       IN  vault' = (ref <: "torn") ++ vault
    /\ call' = [call EXCEPT ![c].pc = "write"]
    /\ UNCHANGED <<scopeVars, cut, known, work, records, from, run, failures, load>>

StoreWrites(c) ==
    /\ call[c].pc = "write"
    /\ LET ref == HashPayload(PayloadsOf(call[c].op)[call[c].n + 1])
       IN  vault' = (ref <: "whole") ++ vault /\ cut' = cut \ {ref}
    /\ call' = [call EXCEPT ![c].pc = "store", ![c].n = @ + 1]
    /\ UNCHANGED <<scopeVars, known, work, records, from, run, failures, load>>

\* Ledger.commit.
Commits(ev, by, op, ambient) ==
    /\ Len(records) < load.events
    /\ records' = Append(records, FinalizeId(ev))
    /\ from' = Append(from, [by |-> by, op |-> op, scope |-> ambient, run |-> run])

\* Mutant: the event is recorded when its first payload is in the vault.
RecordEarly(c) ==
    /\ call[c].pc = "store"
    /\ PayloadsOf(call[c].op) # <<>> => call[c].n > 0
    /\ call' = [call EXCEPT ![c] = NoCall]
    /\ LET ev == EventOf(call[c].op, scope[c])
       IN  IF IsEvent(ev) /\ Require(TRUE, Principal[c], "write_evidence")
             THEN Commits(ev, c, call[c].op, IF blocks[c] = <<>> THEN NoScope ELSE Last(blocks[c]))
             ELSE UNCHANGED <<records, from>>
    /\ UNCHANGED <<scopeVars, vault, cut, known, work, run, failures, load>>

\* The event is made, which may raise, then record() asks the authorizer and commits.
Record(c) ==
    /\ call[c].pc = "store"
    /\ HasVault => call[c].n = Len(PayloadsOf(call[c].op))
    /\ call' = [call EXCEPT ![c] = NoCall]
    /\ LET ev == EventOf(call[c].op, scope[c])
       IN  IF IsEvent(ev) /\ Require(TRUE, Principal[c], "write_evidence")
             THEN Commits(ev, c, call[c].op, IF blocks[c] = <<>> THEN NoScope ELSE Last(blocks[c]))
             ELSE UNCHANGED <<records, from>>
    /\ UNCHANGED <<scopeVars, vault, cut, known, work, run, failures, load>>

\* The file that a thread was writing.
CutOff(c) ==
    IF call[c].pc = "write" THEN {HashPayload(PayloadsOf(call[c].op)[call[c].n + 1])} ELSE {}

\* The write or the commit raises, to the caller.
CallFails(c) ==
    /\ call[c].pc # "idle"
    /\ Fault
    /\ call' = [call EXCEPT ![c] = NoCall]
    /\ cut' = cut \cup CutOff(c)
    /\ UNCHANGED <<scopeVars, vault, known, work, records, from, run, load>>

----------------------------------------------------------------------------
(* ingest/pipeline.py and the adapters.                                     *)

\* The event of a span: A2A provenance takes the place of any other.
Normalized(span) ==
    LET ev == ApplyLangfusePrecedence(SpanToEvent(span, Null, Pricing), span.attributes)
        prov == ProvenanceFromAttributes(span.attributes, known)
    IN  IF prov = <<>> THEN ev
        ELSE Clean(prov) ++ [p \in DOMAIN ev \ Under("provenance", ev) |-> ev[p]]

\* Mutant: each task is taken for the root of those that refer to it.
NormalizeKnowsItself(span) ==
    /\ work = Null
    /\ work' = [span |-> span, event |-> Normalized(span)]
    /\ LET prov == ProvenanceFromAttributes(span.attributes, known)
       IN  known' = IF prov = <<>> THEN known
                    ELSE (prov[<<"provenance", "task_id">>] <: prov[<<"provenance", "task_id">>])
                         ++ known
    /\ UNCHANGED <<scopeVars, call, vault, cut, records, from, run, failures, load>>

\* _normalize: the worker knows the task before its event is committed.
Normalize(span) ==
    /\ work = Null
    /\ work' = [span |-> span, event |-> Normalized(span)]
    /\ LET prov == ProvenanceFromAttributes(span.attributes, known)
       IN  known' = IF prov = <<>> THEN known
                    ELSE (prov[<<"provenance", "task_id">>] <: prov[<<"provenance", "root_task_id">>])
                         ++ known
    /\ UNCHANGED <<scopeVars, call, vault, cut, records, from, run, failures, load>>

\* One of the attempts to commit succeeds,
CommitSpan ==
    /\ work # Null
    /\ Commits(work.event, work.span, Null, NoScope)
    /\ work' = Null
    /\ UNCHANGED <<scopeVars, call, vault, cut, known, run, failures, load>>

\* or none does, and the span is given up.
CommitFails ==
    /\ work # Null
    /\ Fault
    /\ work' = Null
    /\ UNCHANGED <<scopeVars, call, vault, cut, known, records, from, run, load>>

\* A caller commits what an adapter made.
Import(ev) ==
    /\ Commits(ev, Null, Null, NoScope)
    /\ UNCHANGED <<scopeVars, call, vault, cut, known, work, run, failures, load>>

\* The process dies and starts again.
Restart ==
    /\ Fault
    /\ scope' = [c \in Contexts |-> NoScope]
    /\ tokens' = [c \in Contexts |-> <<>>] /\ blocks' = [c \in Contexts |-> <<>>]
    /\ call' = [c \in Contexts |-> NoCall]
    /\ cut' = cut \cup UNION {CutOff(c) : c \in Contexts}
    /\ known' = <<>> /\ work' = Null
    /\ run' = run + 1
    /\ UNCHANGED <<vault, records, from, load>>

RecorderNext ==
    \/ \E c \in {d \in Contexts : "clients" \in load.of} :
          \/ \E s \in Scopes : EnterTask(c, s)
          \/ LeaveTask(c)
          \/ \E op \in Operations : Call(c, op)
          \/ StoreOpens(c) \/ StoreWrites(c) \/ Record(c) \/ CallFails(c)
    \/ \E span \in {s \in Spans : "intake" \in load.of} : Normalize(span)
    \/ CommitSpan \/ CommitFails
    \/ \E ev \in {e \in Imported : "adapters" \in load.of} : Import(ev)
    \/ Restart

RecorderSpec == RecorderInit /\ [][RecorderNext]_recorderVars

----------------------------------------------------------------------------
(* Properties.                                                              *)

\* vault.py:3-9, payloads "keyed by the exact same hash that appears in the ledger": the
\* payload of a recorded reference can be fetched, unless it is being stored once more
\* this moment or that was cut off, which leaves part of it.
VaultAnswers ==
    \A i \in DOMAIN records :
        from[i].by \in Contexts /\ HasVault =>
            \A path \in DOMAIN records[i] :
                Last(path) \in {"input_ref", "output_ref", "rationale_ref", "fria_ref"} =>
                    /\ records[i][path] \in DOMAIN vault
                    /\ vault[records[i][path]] = "torn" =>
                          records[i][path] \in cut \cup UNION {CutOff(c) : c \in Contexts}

\* sdk.py:89, "Set the ambient A2A provenance for events recorded inside the block": and
\* of no other thread's, and not after it, however blocks are nested and left; what the
\* call itself says of the task comes first, and nothing else says anything.  Who has a
\* principal that may not write evidence has not written any.
ScopesHeld ==
    \A i \in DOMAIN records :
        LET said(path) == IF path[2] \in Overrides THEN Attr(from[i].op, path[2]) ELSE Null
            ambient(path) == Get(from[i].scope, path)
        IN  from[i].by \in Contexts =>
               /\ \A path \in Under("provenance", records[i]) \cup DOMAIN from[i].scope :
                     Get(records[i], path) = IF said(path) = Null THEN ambient(path) ELSE said(path)
               /\ Require(TRUE, Principal[from[i].by], "write_evidence")

\* What a span says of its task, and of the task that comes before that.
TaskOf(span) == Attr(span.attributes, "a2a.task.id")

ParentIn(span) == LET refs == Attr(span.attributes, "a2a.reference_task_ids")
                  IN  IF refs \in {Null, <<>>} THEN Null ELSE Head(refs)

SpansOfTask(t) == {s \in Spans : TaskOf(s) = t}

Named == (UNION {{TaskOf(s), ParentIn(s)} : s \in Spans}) \ {Null}

\* Each task with those that it comes from, as any of the spans say.
Lineage ==
    LET closed == {S \in SUBSET Named : \A s \in Spans :
                      TaskOf(s) \in S /\ ParentIn(s) # Null => ParentIn(s) \in S}
    IN  [t \in Named |-> {x \in Named : \A S \in closed : t \in S => x \in S}]

\* The spans of a task agree whether it comes from another one.
Agree(t) == \A s, r \in SpansOfTask(t) : ParentIn(s) = Null <=> ParentIn(r) = Null

\* a2a.py:29-31: a task's root is one of the tasks it comes from; and it is one that comes
\* from no other if the spans of each agree whether there is another, and if since the
\* process started an event of each was committed, its first after that of every other it
\* comes from.  That holds although the worker knows a task before its event is committed,
\* and goes on knowing it when the event never is.
RootsLead ==
    \A i \in DOMAIN records :
        LET t == Get(records[i], <<"provenance", "task_id">>)
            root == Get(records[i], <<"provenance", "root_task_id">>)
            spanOf(x) == {j \in 1..i : /\ from[j].run = from[i].run /\ from[j].by \in Spans
                                       /\ Get(records[j], <<"provenance", "task_id">>) = x}
            inOrder(x) == /\ spanOf(x) # {}
                          /\ \A s \in SpansOfTask(x) : ParentIn(s) # Null =>
                                /\ spanOf(ParentIn(s)) # {}
                                /\ Min(spanOf(ParentIn(s))) < Min(spanOf(x))
        IN  from[i].by \in Spans /\ t # Null =>
               /\ root \in Lineage[t]
               /\ (\A x \in Lineage[t] : Agree(x) /\ inOrder(x))
                     => \A s \in SpansOfTask(root) : ParentIn(s) = Null
=============================================================================
