----------------------------- MODULE MCRecorder -----------------------------
EXTENDS Recorder

CONSTANTS Reader, Float, Key

\* A thread of a client that may write evidence and one of a client that may not.
MCPrincipal ==
    [c \in Contexts |-> [capabilities |-> IF c = Reader THEN {"generate_report"} ELSE {"write_evidence"}]]

\* What task() makes of a task.
MCScopes == {(<<"provenance", "task_id">> <: t) ++ (<<"provenance", "context_id">> <: t)
             ++ (<<"provenance", "root_task_id">> <: t) : t \in {"t1", "t2"}}

MCOperations ==
    {("kind" <: "agent_decision") ++ ("agent" <: "agent") ++ ("input" <: "x") ++ ("output" <: "y")
       ++ ("task_id" <: "t3") ++ ("root_task_id" <: "t2"),
     ("kind" <: "incident") ++ ("agent" <: "agent") ++ ("severity" <: Float) ++ ("input" <: "x")}

\* A task, its child and its grandchild, and another of which one span says that it comes
\* from the child and one does not say from where.
MCSpan(t, more) == [attributes |-> ("a2a.task.id" <: t) ++ more, resource |-> <<>>]

MCSpans == {MCSpan("s1", "langfuse.session.id" <: "c"),
            MCSpan("s2", ("a2a.reference_task_ids" <: <<"s1">>) ++ ("gen_ai.operation.name" <: "chat")
                         ++ ("gen_ai.usage.input_tokens" <: 3) ++ ("gen_ai.prompt" <: "x")),
            MCSpan("s3", "a2a.reference_task_ids" <: <<"s2", "s1">>),
            MCSpan("s4", "a2a.reference_task_ids" <: <<"s2">>), MCSpan("s4", <<>>)}

MCPricing == "default" <: [input_per_1k |-> 2, output_per_1k |-> 3]

\* What the adapters make of the decision of a policy, of a finding and of a receipt.
MCReceipt == SignReceipt(Key, [tool |-> "tool", params_hash |-> HashPayload("x")], "signer", "owner")

MCImported ==
    Range(PolicyDecisionsToEvents(<<("path" <: "p") ++ ("result" <: TRUE)>>, "agent", "opa", "t1")
          \o SarifToEvents(<<[tool |-> "lint", results |-> <<"r1">>]>>, "agent", Null))
    \cup {ReceiptToEvent(r) : r \in {x \in {MCReceipt} : IsReceipt(x)}}

MCLoads == {[of |-> {"clients"}, events |-> 1], [of |-> {"intake"}, events |-> 4],
            [of |-> {"intake", "adapters"}, events |-> 2]}
=============================================================================
