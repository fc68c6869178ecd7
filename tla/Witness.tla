------------------------------ MODULE Witness ------------------------------
(***************************************************************************)
(* witness.py, witness_service.py and anchor.py over the heads that the     *)
(* processes of SqlLedger sign with one key: every head is published at the *)
(* anchor, and the writers ask the witness to endorse theirs.               *)
(*                                                                         *)
(* The service answers each request in a thread of its own.  cosign() reads *)
(* the last head endorsed, decides, signs and then notes the new head,      *)
(* without a lock; the head is in memory only.                              *)
(*                                                                         *)
(* The callers are not in src/: a writer asks with the consistency proof    *)
(* from the last head it has an answer for, and asks again for the same     *)
(* head until it is answered.                                               *)
(***************************************************************************)
EXTENDS SqlLedger, Checkpoints

CONSTANTS Key,         \* the producer's key
          WitnessKey,
          StrangerKey, \* the key of somebody else who writes to the anchor
          Null         \* no head, no caller

ASSUME WitnessAssumption == StrangerKey # Key /\ Null \notin Processes

VARIABLES anchor,   \* durable: the heads published, as the leaves they were signed over
          last,     \* _last
          requests, \* the requests in the service
          callers,  \* what each writer asked for and was answered
          endorsed, \* history: the heads endorsed since the service was started
          late      \* history: a caller gave a request up that the service goes on with

vars == <<sqlVars, faults, anchor, last, requests, callers, endorsed, late>>
serviceVars == <<last, requests, callers, endorsed, late>>

Heads == UNION {[1..n -> 1..MaxRows] : n \in 1..MaxRows}

TypeOK ==
    /\ SqlTypeOK
    /\ anchor \subseteq Heads
    /\ last \in anchor \cup {Null}
    /\ \A r \in requests : r.by \in writers \cup {Null} /\ r.head \in anchor /\ r.pc \in {"check", "sign"}
    /\ \A p \in Processes :
          /\ {callers[p].asked, callers[p].known} \subseteq anchor \cup {Null}
          /\ callers[p].refused \in BOOLEAN
          /\ callers[p].waits = \E r \in requests : r.by = p
    /\ endorsed \subseteq anchor
    /\ late \in BOOLEAN

Init ==
    /\ SqlInit
    /\ faults = 0
    /\ anchor = {} /\ endorsed = {}
    /\ last = Null /\ requests = {} /\ late = FALSE
    /\ callers = [p \in Processes |->
                     [asked |-> Null, known |-> Null, waits |-> FALSE, refused |-> FALSE]]

Leaves(head) == [i \in DOMAIN head |-> LeafHash(head[i])]

CheckpointOf(head) == SignCheckpoint(Key, Leaves(head))

\* ledger.consistency_proof_hex(old_size, tree_size) of a log with these leaves.
ProofOf(log, old, size) ==
    IF old \in 1..size THEN ConsistencyProof(SubSeq(Leaves(log), 1, size), old) ELSE <<>>

----------------------------------------------------------------------------
(* witness.py.                                                              *)

\* Mutant: a head of the size of the last one is refused as well.
MayCosignStrictly(prev, cp, proof, producer) ==
    /\ VerifyCheckpoint(cp, producer)
    /\ prev # Null =>
          /\ cp.tree_size > prev.tree_size
          /\ VerifyConsistency(prev.tree_size, cp.tree_size, prev.root_hash, cp.root_hash, proof)

\* What cosign() asks of a checkpoint after the checkpoint prev.
MayCosign(prev, cp, proof, producer) ==
    /\ VerifyCheckpoint(cp, producer)
    /\ prev # Null =>
          /\ cp.tree_size >= prev.tree_size
          /\ cp.tree_size > prev.tree_size =>
                VerifyConsistency(prev.tree_size, cp.tree_size, prev.root_hash, cp.root_hash, proof)

Cosignature(cp, key) ==
    [witness_key_id |-> KeyId(key), tree_size |-> cp.tree_size, root_hash |-> cp.root_hash,
     signature |-> Sign(key, SigningBytes(cp))]

VerifyCosignature(cp, cosig, key) ==
    /\ cosig.witness_key_id = KeyId(key)
    /\ cosig.tree_size = cp.tree_size /\ cosig.root_hash = cp.root_hash
    /\ Verified(key, cosig.signature, SigningBytes(cp))

----------------------------------------------------------------------------
(* anchor.py.                                                               *)

\* Mutant: only heads of one size are compared.
DetectEquivocationAtSize(cps, producer, proofs) ==
    LET valid == {cp \in cps : VerifyCheckpoint(cp, producer)}
    IN  \E a, b \in valid : a.tree_size = b.tree_size /\ a.root_hash # b.root_hash

\* Two valid checkpoints of one size differ, or a proof between two sizes fails.
DetectEquivocation(cps, producer, proofs) ==
    LET valid == {cp \in cps : VerifyCheckpoint(cp, producer)}
    IN  \E a, b \in valid :
           \/ a.tree_size = b.tree_size /\ a.root_hash # b.root_hash
           \/ /\ a.tree_size < b.tree_size /\ <<a.tree_size, b.tree_size>> \in DOMAIN proofs
              /\ ~VerifyConsistency(a.tree_size, b.tree_size, a.root_hash, b.root_hash,
                                    proofs[<<a.tree_size, b.tree_size>>])

----------------------------------------------------------------------------
(* witness_service.py.                                                      *)

\* Ledger.checkpoint, TransparencyAnchor.publish and WitnessClient.cosign, for a new head
\* or again for the one without an answer.
Ask(p) ==
    /\ p \in writers /\ ~callers[p].waits /\ ~callers[p].refused
    /\ LET head == IF callers[p].asked # Null THEN callers[p].asked ELSE ledger[p].leaves
           old == IF callers[p].known # Null THEN Len(callers[p].known) ELSE 0
       IN  /\ head # <<>> /\ head # callers[p].known
           /\ anchor' = anchor \cup {head}
           /\ callers' = [callers EXCEPT ![p].asked = head, ![p].waits = TRUE]
           /\ requests' = requests \cup {[by |-> p, head |-> head, pc |-> "check",
                                          proof |-> ProofOf(ledger[p].leaves, old, Len(head))]}
    /\ UNCHANGED <<sqlVars, faults, last, endorsed, late>>

\* The answer reaches the caller if it still waits, or is lost.
Answered(r, accepted) ==
    \/ /\ r.by # Null
       /\ callers' = [callers EXCEPT ![r.by] =
                         IF accepted THEN [@ EXCEPT !.asked = Null, !.known = r.head, !.waits = FALSE]
                                     ELSE [@ EXCEPT !.refused = TRUE, !.waits = FALSE]]
       /\ UNCHANGED faults
    \/ r.by = Null /\ UNCHANGED <<callers, faults>>
    \/ /\ r.by # Null /\ Fault
       /\ callers' = [callers EXCEPT ![r.by].waits = FALSE]

\* cosign() up to its signature: a request that may not be cosigned is answered by 409.
Check(r) ==
    /\ r.pc = "check"
    /\ LET prev == IF last = Null THEN Null ELSE CheckpointOf(last)
       IN  IF MayCosign(prev, CheckpointOf(r.head), r.proof, Key)
             THEN /\ requests' = (requests \ {r}) \cup {[r EXCEPT !.pc = "sign"]}
                  /\ UNCHANGED <<callers, faults>>
             ELSE requests' = requests \ {r} /\ Answered(r, FALSE)
    /\ UNCHANGED <<sqlVars, anchor, last, endorsed, late>>

Endorse(r) ==
    /\ r.pc = "sign"
    /\ last' = r.head
    /\ endorsed' = endorsed \cup {r.head}
    /\ requests' = requests \ {r}
    /\ Answered(r, TRUE)
    /\ UNCHANGED <<sqlVars, anchor, late>>

\* The caller's five seconds are over; the service does not know.
GiveUp(r) ==
    /\ r.by # Null /\ Fault
    /\ requests' = (requests \ {r}) \cup {[r EXCEPT !.by = Null]}
    /\ callers' = [callers EXCEPT ![r.by].waits = FALSE]
    /\ late' = TRUE
    /\ UNCHANGED <<sqlVars, anchor, last, endorsed>>

\* The service ends and starts again.
RestartService ==
    /\ Fault
    /\ last' = Null /\ requests' = {} /\ endorsed' = {}
    /\ callers' = [p \in Processes |-> [callers[p] EXCEPT !.waits = FALSE]]
    /\ UNCHANGED <<sqlVars, anchor, late>>

Service == \E r \in requests : Check(r) \/ Endorse(r)

Next ==
    \/ SqlNext /\ UNCHANGED <<anchor, serviceVars>>
    \/ \E p \in Processes : Ask(p)
    \/ Service
    \/ \E r \in requests : GiveUp(r)
    \/ RestartService

\* The service's threads run, so that it does not always have requests in it and answer
\* none, and the callers ask again.
Spec == /\ Init /\ [][Next]_vars
        /\ []<>(requests = {}) \/ []<><<Service>>_vars
        /\ \A p \in Processes : WF_vars(callers[p].asked # Null /\ Ask(p))

----------------------------------------------------------------------------
(* Properties.                                                              *)

OnOneHistory(heads) == \A a, b \in heads : IsPrefix(a, b) \/ IsPrefix(b, a)

\* anchor.py:18-24: from the anchor and the producer's own consistency proofs
\* detect_equivocation finds two heads that are of no one history, by processes that
\* commit to one table, and finds nothing else; and a cosignature is good for the head
\* that was endorsed alone.
ForksShow ==
    LET cpOf == [h \in anchor |-> CheckpointOf(h)]
        cps == {cpOf[h] : h \in anchor} \cup {SignCheckpoint(StrangerKey, <<LeafHash(0)>>)}
        oneOf == [n \in {Len(h) : h \in anchor} |-> CHOOSE h \in anchor : Len(h) = n]
        proofs == [pair \in (DOMAIN oneOf) \X (DOMAIN oneOf) |-> ProofOf(oneOf[pair[2]], pair[1], pair[2])]
    IN  /\ DetectEquivocation(cps, Key, proofs) <=> ~OnOneHistory(anchor)
        /\ \A e \in endorsed, h \in anchor :
              VerifyCosignature(cpOf[h], Cosignature(cpOf[e], WitnessKey), WitnessKey) <=> h = e

\* witness_service.py:90, the witness refuses "bad sig / non-extension / equivocation" and
\* nothing else: the only writer gets an answer for each head it asks for, and a good one,
\* whichever answers are lost and whenever the service or a process is restarted, unless it
\* gave a request up that was still in the service, or signed a head that is not of the
\* table's first rows.
HonestEndorsed ==
    \A p \in Processes :
        callers[p].asked # Null ~>
            \/ callers[p].asked = Null \/ late \/ writers # {p}
            \/ \E h \in anchor : ~IsPrefix(h, Selected)
=============================================================================
