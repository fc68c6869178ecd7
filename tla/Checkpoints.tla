---------------------------- MODULE Checkpoints ----------------------------
(***************************************************************************)
(* signing.py: keys, signatures and checkpoints, the signed tree heads.     *)
(*                                                                         *)
(* A signature is its key and what it signs and a key's id is a term of the *)
(* key: cryptography is taken to be perfect.  A checkpoint's timestamp is    *)
(* left out, so that a log has one checkpoint per key.                      *)
(***************************************************************************)
EXTENDS MerkleProofs

CONSTANT Origin  \* what every checkpoint names as its log

KeyId(key) == <<"ed25519", key>>

Sign(key, of) == [key |-> key, of |-> of]

Verified(key, signature, of) == signature = Sign(key, of)

\* checkpoint_signing_bytes.
SigningBytes(cp) == [origin |-> cp.origin, tree_size |-> cp.tree_size, root_hash |-> cp.root_hash]

\* sign_checkpoint, as every Ledger.checkpoint() calls it.
SignCheckpoint(key, leaves) ==
    LET head == [origin |-> Origin, tree_size |-> Len(leaves), root_hash |-> TreeHash(leaves)]
    IN  [origin |-> head.origin, tree_size |-> head.tree_size, root_hash |-> head.root_hash,
         key_id |-> KeyId(key), signature |-> Sign(key, head)]

\* Checkpoint.verify.
VerifyCheckpoint(cp, key) ==
    cp.key_id = KeyId(key) /\ Verified(key, cp.signature, SigningBytes(cp))
=============================================================================
