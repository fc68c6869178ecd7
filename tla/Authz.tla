-------------------------------- MODULE Authz --------------------------------
(***************************************************************************)
(* authz.py: principals, what they may do, and the bearer tokens of the     *)
(* collector.  Nobody is the absent principal or authority.                 *)
(***************************************************************************)
CONSTANT Nobody

Capability == {"write_evidence", "generate_report", "admin"}

Has(principal, cap) == {"admin", cap} \cap principal.capabilities # {}

\* Authorizer.require returns: enforcement is off without an authorizer or a principal.
Require(enforced, principal, cap) ==
    ~enforced \/ principal = Nobody \/ Has(principal, cap)

\* tokens maps each token to its principal; an empty token is none.
PrincipalFor(tokens, token) == IF token \in DOMAIN tokens THEN tokens[token] ELSE Nobody

\* header is the scheme of the Authorization header and what follows it.
AuthorizeBearer(tokens, header, cap) ==
    LET principal == IF header.scheme = "bearer" THEN PrincipalFor(tokens, header.token) ELSE Nobody
    IN  principal # Nobody /\ Has(principal, cap)
=============================================================================
