---------------------------- MODULE Verification ----------------------------
(***************************************************************************)
(* A signed report and what is made of it: build_report and the exports of  *)
(* report.py, the verifiers of verify.py and of browser_verifier.py, and    *)
(* the gate of cli.py.                                                      *)
(*                                                                         *)
(* Hashes and signatures are terms (see MerkleProofs and Checkpoints),      *)
(* events are functions and a crosswalk's content hash is the crosswalk     *)
(* (see Crosswalk).  Times, titles and reasons are left out.                *)
(***************************************************************************)
EXTENDS Crosswalk, Checkpoints

CONSTANT Builtins  \* the crosswalks that come with the package, as a function of their ids

\* A crosswalk is found by its id and a report tells its controls apart by theirs.
ASSUME VerificationAssumption ==
    \A id \in DOMAIN Builtins :
        LET controls == Builtins[id].controls
        IN  /\ Builtins[id].id = id /\ Builtins[id] # Null
            /\ controls \in Seq(ToSet(controls))
            /\ \A c \in DOMAIN controls : controls[c].empty_scope \in ControlStatus
            /\ \A c, d \in DOMAIN controls : controls[c].id = controls[d].id => c = d

\* leaf_content: all of an event but the ledger's fields.
LeafContent(ev) == [path \in {p \in DOMAIN ev : Head(p) # "ledger"} |-> ev[path]]

\* Ledger.commit: what the log holds of an event.
Committed(ev) ==
    [path \in DOMAIN ev \cup {LeafHashPath} |->
        IF path = LeafHashPath THEN LeafHash(LeafContent(ev)) ELSE ev[path]]

LeavesOf(log) == [i \in DOMAIN log |-> LeafHash(LeafContent(log[i]))]

----------------------------------------------------------------------------
(* report.py.                                                               *)

\* _signing_payload.
Unsigned(report) == [f \in DOMAIN report \ {"signature"} |-> report[f]]

Signed(report, key) ==
    [f \in DOMAIN report \cup {"signature"} |->
        IF f = "signature" THEN [key_id |-> KeyId(key), key |-> key, of |-> report] ELSE report[f]]

\* Mutant: the proofs are those of the log as it is now.
EntryUnpinned(log, size, i) ==
    [event |-> log[i], leaf_index |-> i - 1, leaf_hash |-> Get(log[i], LeafHashPath),
     inclusion_proof |-> InclusionProof(LeavesOf(log), i - 1)]

\* The event at i of the report on the first size events of the log.
Entry(log, size, i) ==
    [event |-> log[i], leaf_index |-> i - 1, leaf_hash |-> Get(log[i], LeafHashPath),
     inclusion_proof |-> InclusionProof(LeavesOf(SubSeq(log, 1, size)), i - 1)]

\* build_report.  The events are read one by one from a log that may have grown; a
\* record never changes, so they are those of the checkpoint's size.
BuildReport(log, result, checkpoint, key) ==
    LET size == checkpoint.tree_size
    IN  Signed([events |-> [i \in 1..size |-> Entry(log, size, i)],
                crosswalk |-> [id |-> result.id, content_hash |-> result.content_hash],
                summary |-> [s \in ControlStatus |-> Count(result, s)],
                controls |-> result.controls,
                evidence_gaps |-> GapMarkers(SubSeq(log, 1, size)),
                checkpoint |-> checkpoint,
                public_key |-> key], key)

\* to_oscal: one finding for each control, with OSCAL's two states and the status as
\* a property.
OscalState == [satisfied |-> <<"satisfied", "pass">>, not_satisfied |-> <<"not-satisfied", "fail">>,
               insufficient_evidence |-> <<"not-satisfied", "other">>]

ToOscal(report) ==
    [c \in DOMAIN report.controls |->
        [target |-> report.controls[c].id, state |-> OscalState[report.controls[c].status],
         props |-> report.controls[c].status]]

\* to_sarif: one result for each control that is not satisfied.
ToSarif(report) ==
    LET open == Ascending({c \in DOMAIN report.controls : report.controls[c].status # "satisfied"})
    IN  [r \in DOMAIN open |->
            [ruleId |-> report.controls[open[r]].id,
             level |-> IF report.controls[open[r]].status = "not_satisfied" THEN "error" ELSE "warning"]]

\* build_dashboard: what the table shows of a control in a series of reports.
StatusAt(report, id) ==
    LET c == SelectInSeq(report.controls, LAMBDA ctrl : ctrl.id = id)
    IN  IF c = 0 THEN "absent" ELSE report.controls[c].status

----------------------------------------------------------------------------
(* verify.py.  A verifier's result is the set of the checks that failed.     *)

Failed(checks) == {name \in DOMAIN checks : ~checks[name]}

\* The leaf a report has at an index: of several entries the last.
Leaf(report, index) ==
    LET e == SelectLastInSeq(report.events, LAMBDA entry : entry.leaf_index = index)
    IN  IF e = 0 THEN Null ELSE LeafHash(LeafContent(report.events[e].event))

\* Mutant: the proofs are those of the stored leaf hashes.
IntegrityStored(report, key, named) ==
    LET cp == report.checkpoint
        present == {Get(e.event, EventId) : e \in ToSet(report.events)}
    IN  [report_signature |-> report.signature.key = key /\ report.signature.of = Unsigned(report),
         checkpoint_signature |-> cp.key_id \in named /\ Verified(key, cp.signature, SigningBytes(cp)),
         event_leaf_hashes |-> TRUE,
         inclusion_proofs |->
             \A e \in ToSet(report.events) :
                 VerifyInclusion(e.leaf_index, cp.tree_size, e.leaf_hash, e.inclusion_proof, cp.root_hash),
         full_tree_root |-> TRUE,
         evidence_events_present |->
             \A c \in ToSet(report.controls) : ToSet(c.evidence) \subseteq present]

\* The checks that both verifiers make; the checkpoint may name one of these keys.
Integrity(report, key, named) ==
    LET cp == report.checkpoint
        present == {Get(e.event, EventId) : e \in ToSet(report.events)}
        leaves == [i \in 1..cp.tree_size |-> Leaf(report, i - 1)]
    IN  [report_signature |-> report.signature.key = key /\ report.signature.of = Unsigned(report),
         checkpoint_signature |-> cp.key_id \in named /\ Verified(key, cp.signature, SigningBytes(cp)),
         event_leaf_hashes |->
             \A e \in ToSet(report.events) : e.leaf_hash = LeafHash(LeafContent(e.event)),
         inclusion_proofs |->
             \A e \in ToSet(report.events) :
                 VerifyInclusion(e.leaf_index, cp.tree_size, LeafHash(LeafContent(e.event)),
                                 e.inclusion_proof, cp.root_hash),
         \* Only if the report has the whole tree.
         full_tree_root |->
             {e.leaf_index : e \in ToSet(report.events)} = 0..cp.tree_size - 1
                 => TreeHash(leaves) = cp.root_hash,
         evidence_events_present |->
             \A c \in ToSet(report.controls) : ToSet(c.evidence) \subseteq present]

\* _deep_verify: the verdicts are derived again, under the crosswalk the report pins.
Deep(report, crosswalk) ==
    LET cw == IF crosswalk # Null THEN crosswalk
              ELSE IF report.crosswalk.id \in DOMAIN Builtins THEN Builtins[report.crosswalk.id]
              ELSE Null
        events == [i \in DOMAIN report.events |-> report.events[i].event]
        again == Evaluate(cw, events).controls
    IN  /\ report.crosswalk.content_hash # Null
        /\ cw # Null
        /\ report.crosswalk.content_hash = cw
        /\ \A c \in ToSet(report.controls) :
              \E d \in ToSet(again) : d.id = c.id /\ d.status = c.status

\* verify_report with a trusted key, or with the report's own if that is Null.
VerifyReport(report, trusted, deep, crosswalk) ==
    LET key == IF trusted # Null THEN trusted ELSE report.public_key
    IN  IF key = Null THEN {"no_key"}
        ELSE Failed([embedded_key_matches_trusted |-> report.public_key \in {key, Null},
                     report_key_id |-> report.signature.key_id \in {KeyId(key), Null},
                     deep_verify |-> deep => Deep(report, crosswalk)])
             \cup Failed(Integrity(report, key, {KeyId(key), Null}))

\* browser_verifier.py's verify_report, which has no other key than the one it is given.
VerifyInBrowser(report, trusted) == Failed(Integrity(report, trusted, {KeyId(trusted)}))

\* verify_consistency_between.
VerifyConsistencyBetween(old, new, proof, trusted) ==
    /\ trusted # Null
    /\ \A cp \in {old, new} : VerifyCheckpoint(cp, trusted)
    /\ VerifyConsistency(old.tree_size, new.tree_size, old.root_hash, new.root_hash, proof)

\* The exit code of the gate: every required control, by default all of the report's,
\* must be satisfied.
Gate(report, require, trusted, deep) ==
    LET ids == {c.id : c \in ToSet(report.controls)}
        required == IF require = {} THEN ids ELSE require
    IN  IF VerifyReport(report, trusted, deep, Null) # {} THEN 2
        ELSE IF \A id \in required : StatusAt(report, id) = "satisfied" THEN 0 ELSE 1
=============================================================================
