------------------------------ MODULE MCReport ------------------------------
(* Report with controls of eu_ai_act.yaml in short: record keeping, which     *)
(* asks for completeness, human oversight in its two variants, and deployer   *)
(* obligations.                                                              *)
EXTENDS Report

All == [oneOf |-> <<>>, equals |-> <<>>, has |-> {}]
KindIn(kinds) == [All EXCEPT !.oneOf = <<"kind">> :> kinds]

Node(type) == [type |-> type, path |-> Null, op |-> "exists", value |-> Null,
               link |-> Null, target |-> Null, conditions |-> {}]
Linked_(link, target) == [Node("linked") EXCEPT !.link = link, !.target = target]
Exists(path) == [Node("field") EXCEPT !.path = path]
Control(id, scope, condition) ==
    [id |-> id, scope |-> scope, condition |-> condition, empty_scope |-> "insufficient_evidence",
     completeness_sensitive |-> FALSE, applies_to_profiles |-> {}]

Approvals == [KindIn({"human_approval"}) EXCEPT
                 !.oneOf = @ @@ (<<"oversight", "status">> :> {"approved"})]
HighRisk == [KindIn({"agent_decision"}) EXCEPT !.equals = <<"risk", "classification">> :> "high"]

Art12 == [Control("art-12", KindIn({"agent_decision", "human_approval", "tool_call"}),
                  <<Node("committed")>>) EXCEPT !.completeness_sensitive = TRUE]
Art14 == [Control("art-14", HighRisk, <<Linked_("approval_ref", Approvals)>>)
             EXCEPT !.applies_to_profiles = {"in_the_loop"}]
Art14On == [Control("art-14-on", HighRisk, <<Linked_("same_context", Approvals)>>)
               EXCEPT !.applies_to_profiles = {"on_the_loop"}]
Art26 == Control("art-26", [KindIn({"agent_decision"}) EXCEPT !.has = {<<"risk", "classification">>}],
             <<Exists(<<"ledger", "leaf_hash">>), Linked_("same_task", Null),
               Exists(<<"oversight", "approval_ref">>),
               [Node("any_of") EXCEPT !.conditions = {2, 3}],
               [Node("all_of") EXCEPT !.conditions = {1, 4}]>>)

MCBuiltins ==
    "eu-ai-act" :> SelectProfile([id |-> "eu-ai-act", default_profiles |-> {"in_the_loop"},
                                  controls |-> <<Art12, Art14, Art14On, Art26>>], Null)

\* A decision that waits for an approval, the approval, a declared gap, and a call with
\* a receipt, whose identity claim has a field that the event model does not name.
Decision ==
    (<<"event_id">> :> "decision") @@ (<<"kind">> :> "agent_decision")
    @@ (<<"risk", "classification">> :> "high") @@ (<<"oversight", "approval_ref">> :> "approval")
    @@ (<<"provenance", "task_id">> :> "task")
Approval ==
    (<<"event_id">> :> "approval") @@ (<<"kind">> :> "human_approval")
    @@ (<<"oversight", "status">> :> "approved") @@ (<<"provenance", "task_id">> :> "task")
Gap == (<<"event_id">> :> "gap") @@ (<<"kind">> :> "generic") @@ (Marker :> "evidence_gap")
Receipt ==
    (<<"event_id">> :> "receipt") @@ (<<"kind">> :> "tool_call")
    @@ (<<"actor", "identity_claim", "owner">> :> "owner")

MCTemplates == {Decision, Approval, Gap, Receipt}
=============================================================================
