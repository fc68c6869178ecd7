------------------------------- MODULE CoreGo -------------------------------
(***************************************************************************)
(* core-go, the second implementation of the evidence core: the Merkle tree *)
(* and its consistency proofs (merkle.go, consistency.go), the leaf of an   *)
(* event (event.go) and the report a Go producer builds and a Go verifier   *)
(* accepts (report.go).  Hashes are terms and events are functions, as in   *)
(* MerkleProofs and in Crosswalk, so that the two sides can be compared.    *)
(*                                                                         *)
(* The recursion and the loops follow the Go source, a recursive function   *)
(* for each, over the slices of one sequence of leaves.                     *)
(***************************************************************************)
EXTENDS Integers, SequencesExt

CONSTANT Null  \* a value that is not given

LeafHash(data) == <<"leaf", data>>
NodeHash(left, right) == <<"node", <<left, right>>>>
EmptyRoot == <<>>

----------------------------------------------------------------------------
(* merkle.go and consistency.go.                                            *)

LargestPow2Lt(n) ==
    LET Doubled[k \in 1..n] == IF k * 2 < n THEN Doubled[k * 2] ELSE k IN Doubled[1]

\* The slices leaves[a:b] of n leaves, which the recursions go through, as <<a, b>>.
Slices(n) == {s \in (0..n) \X (0..n) : s[1] <= s[2]}

SplitAt(s) == s[1] + LargestPow2Lt(s[2] - s[1])
FirstPart(s) == <<s[1], SplitAt(s)>>
SecondPart(s) == <<SplitAt(s), s[2]>>

Roots(ls) ==
    LET T[s \in Slices(Len(ls))] ==
            IF s[2] - s[1] = 0 THEN EmptyRoot
            ELSE IF s[2] - s[1] = 1 THEN ls[s[2]]
            ELSE NodeHash(T[FirstPart(s)], T[SecondPart(s)])
    IN  T

TreeHash(ls) == Roots(ls)[<<0, Len(ls)>>]

\* For m in 0 .. Len(ls) - 1, counted from the first leaf of all.
InclusionProof(ls, m) ==
    LET T == Roots(ls)
        P[s \in Slices(Len(ls))] ==
            IF s[2] - s[1] < 2 THEN <<>>
            ELSE IF m < SplitAt(s) THEN Append(P[FirstPart(s)], T[SecondPart(s)])
            ELSE Append(P[SecondPart(s)], T[FirstPart(s)])
    IN  P[<<0, Len(ls)>>]

\* The recursion of subproof goes through a slice and b.  A slice of one leaf ends at m.
Subproof(ls, m) ==
    LET T == Roots(ls)
        P[x \in Slices(Len(ls)) \X BOOLEAN] ==
            LET s == x[1] IN
            IF m = s[2] \/ s[2] - s[1] < 2 THEN IF x[2] THEN <<>> ELSE <<T[s]>>
            ELSE IF m <= SplitAt(s) THEN Append(P[<<FirstPart(s), x[2]>>], T[SecondPart(s)])
            ELSE Append(P[<<SecondPart(s), FALSE>>], T[FirstPart(s)])
    IN  P[<<<<0, Len(ls)>>, TRUE>>]

\* For m in 1 .. Len(ls).
ConsistencyProof(ls, m) == IF m = Len(ls) THEN <<>> ELSE Subproof(ls, m)

\* Both nodes of a walk one level up as long as fn is odd, or is even and not zero.
ShiftOdd(w) ==
    LET S[v \in Nat \X Nat] == IF v[1] % 2 = 1 THEN S[<<v[1] \div 2, v[2] \div 2>>] ELSE v
    IN  [w EXCEPT !.fn = S[<<w.fn, w.sn>>][1], !.sn = S[<<w.fn, w.sn>>][2]]

ShiftEven(w) ==
    LET S[v \in Nat \X Nat] ==
            IF v[1] % 2 = 0 /\ v[1] # 0 THEN S[<<v[1] \div 2, v[2] \div 2>>] ELSE v
    IN  [w EXCEPT !.fn = S[<<w.fn, w.sn>>][1], !.sn = S[<<w.fn, w.sn>>][2]]

\* Mutant: the last node of a level always rises one level.
ClimbOneLevel(w, c) ==
    LET paired == w.fn % 2 = 1 \/ w.fn = w.sn
    IN  IF w.sn = 0 \/ ~w.ok
          THEN [w EXCEPT !.ok = FALSE]
          ELSE [fn |-> w.fn \div 2, sn |-> w.sn \div 2, ok |-> TRUE,
                fr |-> IF paired THEN NodeHash(c, w.fr) ELSE w.fr,
                sr |-> IF paired THEN NodeHash(c, w.sr) ELSE NodeHash(w.sr, c)]

\* One pass of the loop of VerifyConsistency; the second hash is the new tree's.
Climb(w, c) ==
    LET paired == w.fn % 2 = 1 \/ w.fn = w.sn
        hashed == IF paired
                    THEN ShiftEven([w EXCEPT !.fr = NodeHash(c, w.fr), !.sr = NodeHash(c, w.sr)])
                    ELSE [w EXCEPT !.sr = NodeHash(w.sr, c)]
    IN  IF w.sn = 0 \/ ~w.ok
          THEN [w EXCEPT !.ok = FALSE]
          ELSE [hashed EXCEPT !.fn = hashed.fn \div 2, !.sn = hashed.sn \div 2]

Pow2[n \in Nat] == IF n = 0 THEN 1 ELSE 2 * Pow2[n - 1]

IsPow2(n) == \E e \in 0..n : n = Pow2[e]

\* The loop over the nodes of path after the first one.
Climbed(start, path) ==
    LET W[i \in 0..Len(path) - 1] == IF i = 0 THEN start ELSE Climb(W[i - 1], path[i + 1])
    IN  W[Len(path) - 1]

VerifyConsistency(firstSize, secondSize, firstRoot, secondRoot, proof) ==
    LET path == IF IsPow2(firstSize) THEN <<firstRoot>> \o proof ELSE proof
        start == ShiftOdd([fn |-> firstSize - 1, sn |-> secondSize - 1,
                           fr |-> Head(path), sr |-> Head(path), ok |-> TRUE])
        end == Climbed(start, path)
    IN  CASE firstSize > secondSize -> FALSE
          [] firstSize = secondSize -> proof = <<>> /\ firstRoot = secondRoot
          [] firstSize = 0 /\ secondSize > 0 -> proof = <<>>
          [] OTHER -> /\ path # <<>> /\ end.ok /\ end.sn = 0
                      /\ end.fr = firstRoot /\ end.sr = secondRoot

----------------------------------------------------------------------------
(* event.go.                                                                *)

\* The fields of the typed structs below a top-level key.
Typed ==
    [actor      |-> {<<"agent_id">>, <<"agent_card_ref">>, <<"identity_claim", "claim_type">>,
                     <<"identity_claim", "public_key_id">>, <<"identity_claim", "agent_card_hash">>,
                     <<"identity_claim", "signature_b64">>},
     provenance |-> {<<"task_id">>, <<"context_id">>, <<"parent_task_id">>, <<"root_task_id">>},
     io         |-> {<<"input_ref">>, <<"output_ref">>, <<"arguments_ref">>, <<"input_tokens">>,
                     <<"output_tokens">>, <<"total_tokens">>, <<"cost">>, <<"cost_currency">>},
     model      |-> {<<"provider">>, <<"request_model">>, <<"response_model">>},
     tool       |-> {<<"name">>, <<"call_id">>},
     oversight  |-> {<<"status">>, <<"approval_ref">>, <<"reviewer">>},
     risk       |-> {<<"classification">>, <<"rationale_ref">>, <<"framework">>},
     source     |-> {<<"format">>, <<"span_id">>, <<"trace_id">>, <<"collector_version">>,
                     <<"ingested_at">>}]

\* A decoded event keeps the fields of its structs, the maps attributes and labels as
\* they are, and top-level keys that are not known.
Keeps(path) == Head(path) \in DOMAIN Typed => Tail(path) \in Typed[Head(path)]

Decoded(ev) == [path \in {p \in DOMAIN ev : Keeps(p)} |-> ev[path]]

\* leafContent.
LeafContent(ev) ==
    LET kept == Decoded(ev) IN [path \in {p \in DOMAIN kept : Head(p) # "ledger"} |-> kept[path]]

EventLeafHash(ev) == LeafHash(LeafContent(ev))

----------------------------------------------------------------------------
(* report.go.  A signature is its key and what it signs.                     *)

KeyID(publicKey) == <<"ed25519", publicKey>>

SignCheckpoint(key, origin, size, root) ==
    [origin |-> origin, tree_size |-> size, root_hash |-> root, key_id |-> KeyID(key),
     signature |-> [key |-> key, of |-> [origin |-> origin, tree_size |-> size, root_hash |-> root]]]

VerifyCheckpoint(cp, key) ==
    cp.signature = [key |-> key, of |-> [origin |-> cp.origin, tree_size |-> cp.tree_size,
                                         root_hash |-> cp.root_hash]]

\* The leaf hashes handed to BuildReport, if any, are those of the events.
CommittedLeaf(input) == input.leaf_hash \in {Null, EventLeafHash(input.event)}

\* BuildReport, for inputs that have the leaf hash they were committed with.  The
\* crosswalk is named and not evaluated.
BuildReport(inputs, key, origin, crosswalk) ==
    LET ls == [i \in DOMAIN inputs |-> EventLeafHash(inputs[i].event)]
        unsigned ==
            [events |-> [i \in DOMAIN inputs |->
                            [event |-> LeafContent(inputs[i].event), leaf_index |-> i - 1,
                             leaf_hash |-> inputs[i].leaf_hash,
                             inclusion_proof |-> InclusionProof(ls, i - 1)]],
             crosswalk |-> [id |-> crosswalk, content_hash |-> Null],
             controls |-> <<>>, evidence_gaps |-> <<>>,
             checkpoint |-> SignCheckpoint(key, origin, Len(ls), TreeHash(ls)),
             public_key |-> key]
        signature == [key_id |-> KeyID(key), key |-> key, of |-> unsigned]
    IN  [f \in DOMAIN unsigned \cup {"signature"} |->
            IF f = "signature" THEN signature ELSE unsigned[f]]

\* VerifyReportRoot: of several entries with one index the last counts.
VerifyReportRoot(report) ==
    LET size == report.checkpoint.tree_size
        entry(i) == SelectLastInSeq(report.events, LAMBDA e : e.leaf_index = i - 1)
    IN  /\ \A i \in 1..size : entry(i) # 0
        /\ TreeHash([i \in 1..size |-> EventLeafHash(report.events[entry(i)].event)])
              = report.checkpoint.root_hash
        /\ VerifyCheckpoint(report.checkpoint, report.public_key)
=============================================================================
