------------------------------- MODULE Events -------------------------------
(***************************************************************************)
(* events.py and canonical.py, and the adapters of adapters/ that make      *)
(* events of other records.  An event is a function of paths as in          *)
(* Crosswalk; here a field may also be Null until the event is made of it.  *)
(* Other records are functions of their attributes' names.                  *)
(*                                                                         *)
(* The hash of a payload is the term of it.  Timestamps, and the texts of a *)
(* finding, are left out.                                                   *)
(***************************************************************************)
EXTENDS Crosswalk, Checkpoints, Fields

CONSTANT Floats  \* the values that have no canonical form

HashPayload(payload) == <<"sha256", payload>>

\* None is dropped, at each level.
Clean(fields) == [path \in {p \in DOMAIN fields : fields[p] # Null} |-> fields[path]]

Under(name, fields) == {path \in DOMAIN fields : Head(path) = name}

\* The validator of ComplianceEvent: no attribute is a float.
IsEvent(fields) == \A path \in Under("attributes", fields) : fields[path] \notin Floats

Event(kind, agent, format, fields) ==
    Clean(fields) ++ (<<"kind">> <: kind) ++ (<<"actor", "agent_id">> <: agent)
                  ++ (<<"source", "format">> <: format)

\* content_for_id.
ContentForId(ev) == [path \in {p \in DOMAIN ev : Head(p) \notin {"event_id", "ledger"}} |-> ev[path]]

FinalizeId(ev) == (EventId <: <<"evt", ContentForId(ev)>>) ++ ev

\* A record without an attribute has None there.
Attr(attrs, name) == IF name \in DOMAIN attrs THEN attrs[name] ELSE Null

\* The first of these attributes that is not None.
First(attrs, names) ==
    LET at == SelectInSeq(names, LAMBDA name : Attr(attrs, name) # Null)
    IN  IF at = 0 THEN Null ELSE attrs[names[at]]

----------------------------------------------------------------------------
(* a2a.py.  known maps the tasks seen so far to their roots.                *)

ReconstructProvenance(task, context, refs, known) ==
    LET parent == IF refs = <<>> THEN Null ELSE Head(refs)
    IN  (<<"provenance", "task_id">> <: task)
        ++ (<<"provenance", "context_id">> <: context)
        ++ (<<"provenance", "parent_task_id">> <: parent)
        ++ (<<"provenance", "root_task_id">> <:
               IF parent = Null THEN task ELSE IF parent \in DOMAIN known THEN known[parent] ELSE parent)

\* provenance_from_attributes, <<>> for None.
ProvenanceFromAttributes(attrs, known) ==
    IF Attr(attrs, "a2a.task.id") = Null THEN <<>>
    ELSE ReconstructProvenance(attrs["a2a.task.id"], Attr(attrs, "a2a.context.id"),
                               IF Attr(attrs, "a2a.reference_task_ids") = Null THEN <<>>
                               ELSE attrs["a2a.reference_task_ids"], known)

----------------------------------------------------------------------------
(* otel_genai.py and langfuse.py.                                           *)

OperationToKind ==
    [op \in {"chat", "generate_content", "text_completion", "embeddings"} |-> "llm_call"]
    ++ ("execute_tool" <: "tool_call")
    ++ [op \in {"invoke_agent", "create_agent", "invoke_workflow"} |-> "agent_decision"]

\* _coerce_int.
Count_(value) == IF value \in Nat THEN value ELSE Null

OrZero(n) == IF n = Null THEN 0 ELSE n

\* _compute_cost, in the unit of the rates times a token per 1000.
ComputeCost(pricing, model, input, output) ==
    LET rates == IF model \in DOMAIN pricing THEN pricing[model] ELSE Attr(pricing, "default")
    IN  IF rates = Null THEN Null
        ELSE rates.input_per_1k * OrZero(input) + rates.output_per_1k * OrZero(output)

SpanToEvent(span, agent, pricing) ==
    LET attrs == span.attributes
        operation == Attr(attrs, "gen_ai.operation.name")
        in == Count_(First(attrs, <<"gen_ai.usage.input_tokens", "gen_ai.usage.prompt_tokens">>))
        out == Count_(First(attrs, <<"gen_ai.usage.output_tokens", "gen_ai.usage.completion_tokens">>))
        cost == IF pricing = <<>> \/ {in, out} = {Null} THEN Null
                ELSE ComputeCost(pricing, First(attrs, <<"gen_ai.request.model", "gen_ai.response.model">>),
                                 in, out)
        hashed(name) == IF Attr(attrs, name) = Null THEN Null ELSE HashPayload(attrs[name])
        names == <<agent, Attr(attrs, "gen_ai.agent.name"), Attr(span.resource, "service.name"),
                   "unknown-agent">>
    IN  Event(IF operation \in DOMAIN OperationToKind THEN OperationToKind[operation] ELSE "generic",
              names[SelectInSeq(names, LAMBDA n : n # Null)], "otel-genai",
              (<<"provenance", "context_id">> <: Attr(attrs, "gen_ai.conversation.id"))
              ++ (<<"io", "input_ref">> <: hashed("gen_ai.prompt"))
              ++ (<<"io", "output_ref">> <: hashed("gen_ai.completion"))
              ++ (<<"io", "input_tokens">> <: in) ++ (<<"io", "output_tokens">> <: out)
              ++ (<<"io", "total_tokens">> <:
                     IF OrZero(in) + OrZero(out) = 0 THEN Null ELSE OrZero(in) + OrZero(out))
              ++ (<<"io", "cost">> <: cost)
              ++ (<<"io", "cost_currency">> <: IF cost = Null THEN Null ELSE "USD")
              ++ (<<"model", "provider">> <: First(attrs, <<"gen_ai.provider.name", "gen_ai.system">>))
              ++ (<<"model", "request_model">> <: Attr(attrs, "gen_ai.request.model"))
              ++ (<<"model", "response_model">> <: Attr(attrs, "gen_ai.response.model"))
              ++ (<<"tool", "name">> <: Attr(attrs, "gen_ai.tool.name"))
              ++ (<<"tool", "call_id">> <: Attr(attrs, "gen_ai.tool.call.id"))
              ++ (<<"attributes", "operation">> <: operation))

\* apply_langfuse_precedence: what langfuse says of an observation wins.
ApplyLangfusePrecedence(ev, attrs) ==
    LET of(name) == Attr(attrs, name)
        hashed(name) == IF of(name) = Null THEN Null ELSE HashPayload(of(name))
        said == Clean((<<"provenance", "context_id">> <: of("langfuse.session.id"))
                      ++ (<<"model", "request_model">> <: of("langfuse.observation.model.name"))
                      ++ (<<"io", "input_ref">> <: hashed("langfuse.observation.input"))
                      ++ (<<"io", "output_ref">> <: hashed("langfuse.observation.output"))
                      ++ (<<"attributes", "langfuse.user_id">> <: of("langfuse.user.id")))
    IN  IF said = <<>> THEN ev
        ELSE said ++ ev ++ (<<"attributes", "langfuse_precedence_applied">> <: TRUE)
----------------------------------------------------------------------------
(* policy.py, sarif_in.py and receipt.py.                                   *)

OpaEntry(entry) ==
    ("engine" <: "opa") ++ ("policy" <: Attr(entry, "path"))
    ++ ("decision" <: IF Attr(entry, "result") \in {Null, FALSE} THEN "deny" ELSE "allow")

CedarEntry(entry) ==
    ("engine" <: "cedar") ++ ("decision" <: Attr(entry, "decision"))
    ++ ("determining_policies" <: Attr(entry, "reason"))

\* The attributes of an event.
Attributes(attrs) == [path \in {<<"attributes", name>> : name \in DOMAIN attrs} |-> attrs[path[2]]]

\* policy_decisions_to_events.
PolicyDecisionsToEvents(entries, agent, engine, task) ==
    [i \in DOMAIN entries |->
        Event("policy_decision", agent, "policy-" \o engine,
              Attributes(IF engine = "opa" THEN OpaEntry(entries[i]) ELSE CedarEntry(entries[i]))
              ++ (<<"provenance", "task_id">> <: task))]

\* sarif_to_events: the results of the runs, in order.
SarifToEvents(runs, agent, task) ==
    FlattenSeq([i \in DOMAIN runs |->
        [j \in DOMAIN runs[i].results |->
            Event("conformance_finding", agent, "sarif",
                  Attributes(("tool" <: runs[i].tool) ++ ("rule_id" <: runs[i].results[j]))
                  ++ (<<"provenance", "task_id">> <: task))]])

ReceiptSigningBytes(receipt) == [f \in DOMAIN receipt \ {"sig"} |-> receipt[f]]

\* sign_receipt, of an action [tool, params_hash].
SignReceipt(key, action, name, owner) ==
    LET receipt == [action |-> action, signer |-> [pubkey |-> key, name |-> name, owner |-> owner]]
    IN  receipt ++ [sig |-> Sign(key, ReceiptSigningBytes(receipt))]

\* verify_and_normalize does not raise.
IsReceipt(receipt) ==
    /\ {"action", "signer", "sig"} \subseteq DOMAIN receipt
    /\ Verified(receipt.signer.pubkey, receipt.sig, ReceiptSigningBytes(receipt))

ReceiptToEvent(receipt) ==
    Event("tool_call", receipt.signer.name, "receipt/action-v1",
          (<<"actor", "identity_claim", "claim_type">> <: "receipt-signer")
          ++ (<<"actor", "identity_claim", "public_key_id">> <: KeyId(receipt.signer.pubkey))
          ++ (<<"actor", "identity_claim", "public_key_b64">> <: receipt.signer.pubkey)
          ++ (<<"actor", "identity_claim", "owner">> <: receipt.signer.owner)
          ++ (<<"actor", "identity_claim", "signature_b64">> <: receipt.sig)
          ++ (<<"io", "arguments_ref">> <: receipt.action.params_hash)
          ++ (<<"tool", "name">> <: receipt.action.tool)
          ++ (<<"attributes", "receipt_verified">> <: TRUE))
=============================================================================
