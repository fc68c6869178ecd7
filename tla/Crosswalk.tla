----------------------------- MODULE Crosswalk -----------------------------
(***************************************************************************)
(* crosswalk.py: the controls of a crosswalk are evaluated over events.     *)
(*                                                                         *)
(* An event is the function from the paths of its fields to their values:   *)
(* a field that is None is not in its domain, as after exclude_none.  A     *)
(* path is the sequence of its names, <<"risk", "classification">>.         *)
(*                                                                         *)
(* A filter is a record: oneOf, the values that kind, risk.classification,  *)
(* oversight.status and source.format may have; equals, its                 *)
(* attribute_equals; has, the paths that must be there.                     *)
(*                                                                         *)
(* A condition is the sequence of its nodes, the parts of a node before it  *)
(* and the root last; a composite one names its parts by their positions.   *)
(***************************************************************************)
EXTENDS SequencesExt, Positions

CONSTANTS MaxIds,  \* _MAX_IDS
          Null     \* what a missing field is

ASSUME CrosswalkAssumption == MaxIds \in Nat

ControlStatus == {"satisfied", "not_satisfied", "insufficient_evidence"}

EventId == <<"event_id">>
Marker == <<"attributes", "marker">>
LeafHashPath == <<"ledger", "leaf_hash">>
ApprovalRef == <<"oversight", "approval_ref">>

\* The field that links an event to others by this kind of link.
LinkKey == [same_task |-> <<"provenance", "task_id">>,
            same_context |-> <<"provenance", "context_id">>,
            references_root |-> <<"provenance", "root_task_id">>]

Get(ev, path) == IF path \in DOMAIN ev THEN ev[path] ELSE Null

Matches(ev, filter) ==
    /\ \A path \in DOMAIN filter.oneOf : Get(ev, path) \in filter.oneOf[path]
    /\ \A path \in DOMAIN filter.equals : Get(ev, path) = filter.equals[path]
    /\ \A path \in filter.has : Get(ev, path) # Null

\* A target of None is met by every event.
MeetsTarget(ev, target) == target = Null \/ Matches(ev, target)

\* The position of the event with this id, of the last one if there are several:
\* _Index keeps them in a dict.
ById(events, id) == SelectLastInSeq(events, LAMBDA ev : Get(ev, EventId) = id)

\* _linked for the event at i: by its approval_ref, which may name any event, or by a
\* field it shares with another one.
Linked(events, i, node) ==
    IF node.link = "approval_ref"
      THEN /\ Get(events[i], ApprovalRef) # Null
           /\ LET cand == ById(events, Get(events[i], ApprovalRef))
              IN  cand # 0 /\ MeetsTarget(events[cand], node.target)
      ELSE LET key == LinkKey[node.link]
           IN  /\ Get(events[i], key) # Null
               /\ \E o \in DOMAIN events \ {i} :
                     /\ Get(events[o], key) = Get(events[i], key)
                     /\ MeetsTarget(events[o], node.target)

FieldHolds(actual, op, value) ==
    CASE op = "exists" -> actual # Null
      [] op = "eq"     -> actual = value
      [] op = "ne"     -> actual # value
      [] op = "in"     -> actual \in value
      [] op = "gte"    -> actual # Null /\ actual >= value
      [] op = "lte"    -> actual # Null /\ actual <= value

\* _holds: the condition of the event at i.
Holds(events, i, cond) ==
    LET H[n \in 1..Len(cond)] ==
            LET node == cond[n] IN
            CASE node.type = "committed" -> Get(events[i], LeafHashPath) # Null
              [] node.type = "field"     -> FieldHolds(Get(events[i], node.path), node.op, node.value)
              [] node.type = "linked"    -> Linked(events, i, node)
              [] node.type = "any_of"    -> \E part \in node.conditions : H[part]
              [] node.type = "all_of"    -> \A part \in node.conditions : H[part]
              [] node.type = "not"       -> ~ \A part \in node.conditions : H[part]
    IN  H[Len(cond)]

\* select_profile: the controls for a deployer profile, the default one if it is None.
SelectProfile(cw, profile) ==
    LET selected == IF profile = Null THEN cw.default_profiles ELSE profile
        applies(c) == c.applies_to_profiles = {} \/ c.applies_to_profiles \cap selected # {}
    IN  [cw EXCEPT !.controls = SelectSeq(@, applies)]

\* The ids of the events at the positions in set, in order.
Ids(events, set) ==
    LET positions == Ascending(set)
    IN  [n \in DOMAIN positions |-> Get(events[positions[n]], EventId)]

\* No more of a list of ids than a report has room for.
Capped(ids) == SubSeq(ids, 1, IF Len(ids) < MaxIds THEN Len(ids) ELSE MaxIds)

GapMarkers(events) == {i \in DOMAIN events : Get(events[i], Marker) = "evidence_gap"}

\* The verdict on one control before the override.
Verdict(ctrl, events) ==
    LET scoped == {i \in DOMAIN events : Matches(events[i], ctrl.scope)}
        passed == {i \in scoped : Holds(events, i, ctrl.condition)}
    IN  [id |-> ctrl.id,
         status |-> IF scoped = {} THEN ctrl.empty_scope
                    ELSE IF passed = scoped THEN "satisfied" ELSE "not_satisfied",
         evaluated |-> Cardinality(scoped),
         satisfied |-> Cardinality(passed),
         evidence |-> Capped(Ids(events, passed)),
         gaps |-> Capped(Ids(events, scoped \ passed))]

\* Mutant: a gap only counts for a control that has it in its scope.
OverriddenInScope(ctrl, verdict, events) ==
    IF /\ \E i \in GapMarkers(events) : Matches(events[i], ctrl.scope)
       /\ ctrl.completeness_sensitive /\ verdict.status # "not_satisfied"
      THEN [verdict EXCEPT !.status = "not_satisfied",
                           !.gaps = Capped(@ \o Capped(Ids(events, GapMarkers(events))))]
      ELSE verdict

\* An evidence gap that the log declares fails the controls that ask for completeness.
Overridden(ctrl, verdict, events) ==
    IF /\ GapMarkers(events) # {} /\ ctrl.completeness_sensitive
       /\ verdict.status # "not_satisfied"
      THEN [verdict EXCEPT !.status = "not_satisfied",
                           !.gaps = Capped(@ \o Capped(Ids(events, GapMarkers(events))))]
      ELSE verdict

\* The result carries the crosswalk itself for its content hash: a hash is the term
\* it is computed from.
Evaluate(cw, events) ==
    [id |-> cw.id, content_hash |-> cw,
     controls |-> [c \in DOMAIN cw.controls |->
                      Overridden(cw.controls[c], Verdict(cw.controls[c], events), events)]]

\* How many controls have this status.
Count(result, status) == Len(SelectSeq(result.controls, LAMBDA c : c.status = status))
=============================================================================
