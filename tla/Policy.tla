------------------------------- MODULE Policy -------------------------------
(***************************************************************************)
(* Origentra Control: the deterministic policy engine, with the identity   *)
(* and rights evaluation it is built on.  Pure operators, no state.        *)
(*   packages/core/src/{types,trust,identity,rights,policy}.ts             *)
(*                                                                         *)
(* Keys, tenants, names, digests and platforms are model values.  A key    *)
(* also stands for the key id derived from it.  A signed document states   *)
(* the id of its signer (keyId) and carries a public key (key): the        *)
(* signature is verified under the key carried (sigValid), trust is asked  *)
(* of the id stated, and no code compares the two.  signerRef writes a     *)
(* matching pair; a document from elsewhere may state one key and carry    *)
(* another.  A trust store is the set of its key ids; an ISO-8601          *)
(* timestamp is a natural number.                                          *)
(***************************************************************************)
EXTENDS Integers

CONSTANT None   \* the value of an absent optional field

ASSUME NoneAssumption == None \notin Nat

(***************************************************************************)
(* identity.ts                                                             *)
(***************************************************************************)

\* Seeded fault: the comparison the wrong way round.
PastInverted(t, now) == t # None /\ now <= t

\* An optional timestamp that has been reached; the code compares with <=.
Past(t, now) == t # None /\ t <= now

SubjectTypes == {"person", "organisation", "brand", "device", "agent"}

\* verifyIdentity(...).valid, sigValid being for the key the claim carries: whether
\* the signer is trusted is reported apart and is no part of it; issuedAt is never
\* consulted.
ClaimValid(c, now) == c.sigValid /\ ~c.revoked /\ ~Past(c.expiresAt, now)

\* verifyIdentity(...).signerTrusted: a lookup of the key id the claim states.
SignerTrusted(c, trusted) == c.keyId \in trusted

HasScope(c, scope) == scope \in c.scopes

\* revokeIdentity: a new claim, signed by the given issuer; the old one stays.
RevokedClaim(c, issuer) ==
  [c EXCEPT !.revoked = TRUE, !.keyId = issuer, !.key = issuer, !.sigValid = TRUE]

(***************************************************************************)
(* rights.ts                                                               *)
(***************************************************************************)

\* A use is inside a restriction list; an empty or absent list restricts nothing.
Within(use, list) == use # None /\ list # {} => use \in list

\* applicable(r, req, now) = null: the record permits this use now.
Applicable(r, req, now) ==
  /\ ~Past(r.revokedAt, now)
  /\ ~Past(r.expiresAt, now)
  /\ ~r.disputed
  /\ Within(req.platform, r.platforms)
  /\ Within(req.territory, r.territories)
  /\ req.advertising => r.advertisingPermitted   \* absent reads as permitted
  /\ req.derivative => r.derivativePermitted

\* Seeded fault: the loop over the records of a kind without its break, so that
\* one record that does not apply spoils the kind.
BlockedKindsNoBreak(rights, req, now) ==
  {kind \in req.required :
     \/ \A r \in rights : r.kind # kind
     \/ \E r \in rights : r.kind = kind /\ ~Applicable(r, req, now)}

\* evaluateRights(...).blocking, by kind: one valid record is enough.
BlockedKinds(rights, req, now) ==
  {kind \in req.required :
     \A r \in rights : r.kind = kind => ~Applicable(r, req, now)}

(***************************************************************************)
(* policy.ts: evaluatePolicy                                               *)
(***************************************************************************)

AiInvolvement == {"none", "assisted", "generated", "synthetic_voice",
                  "synthetic_likeness", "fully_synthetic", "unknown"}

DisclosureRequired(ai) == ai \notin {"none", "unknown"}

\* The mandatory checks that fail; each one blocks.  The proposer's claim must
\* be valid, of the proposal's tenant and scoped: its signer is not required to
\* be trusted, while the key id the passport states is.
Failed(p, trusted, now) ==
  {check \in {"identity", "tenant_isolation", "passport_signature",
              "provenance", "rights", "ai_disclosure"} :
     \/ /\ check = "identity"
        /\ ~ /\ ClaimValid(p.identity, now)
             /\ p.identity.tenantId = p.tenantId
             /\ HasScope(p.identity, "publish:propose")
     \/ check = "tenant_isolation" /\ p.passport.tenantId # p.tenantId
     \/ /\ check = "passport_signature"
        /\ ~ /\ p.passport.sigValid
             /\ p.passport.keyId \in trusted
             /\ ~p.passport.revoked
     \/ check = "provenance" /\ p.asset # p.passport.digest
     \/ /\ check = "rights"
        /\ BlockedKinds(p.passport.rights, p.requirement, now) # {}
     \/ /\ check = "ai_disclosure"
        /\ \/ p.passport.ai = "unknown"
           \/ DisclosureRequired(p.passport.ai) /\ ~p.aiDisclosed}

IsAgent(p) == p.identity.subjectType = "agent"

\* The risk factors with their points.
Factor(p) ==
  [likeness    |-> IF p.passport.ai \in {"synthetic_likeness", "fully_synthetic"} THEN 2 ELSE 0,
   voice       |-> IF p.passport.ai = "synthetic_voice" THEN 1 ELSE 0,
   generated   |-> IF p.passport.ai = "generated" THEN 1 ELSE 0,
   agent       |-> IF IsAgent(p) THEN 2 ELSE 0,
   public      |-> IF p.audience = "public" THEN 1 ELSE 0,
   advertising |-> IF p.requirement.advertising THEN 1 ELSE 0,
   regulated   |-> IF p.regulated THEN 2 ELSE 0,
   political   |-> IF p.political THEN 2 ELSE 0]

Risk(p) ==
  LET f == Factor(p)
      sum == f.likeness + f.voice + f.generated + f.agent + f.public
             + f.advertising + f.regulated + f.political
  IN  IF sum > 6 THEN 6 ELSE sum

ApprovalThreshold == 3

Decide(p, trusted, now) ==
  IF Failed(p, trusted, now) # {} THEN "BLOCK"
  ELSE IF Risk(p) >= ApprovalThreshold \/ IsAgent(p) THEN "REQUIRE_APPROVAL"
  ELSE "ALLOW"

\* The decision record.  decisionDigest hashes exactly this record, so equality
\* of decisions stands for equality of digests: what is not in the record (the
\* asset, its digest, the platform) is not bound by an approval.
EvaluatePolicy(p, trusted, now) ==
  LET failed   == Failed(p, trusted, now)
      decision == Decide(p, trusted, now)
  IN [proposalId        |-> p.proposalId,
      tenantId          |-> p.tenantId,
      decision          |-> decision,
      risk              |-> Risk(p),
      factors           |-> Factor(p),
      failed            |-> failed,
      subject           |-> IF "identity" \in failed THEN None ELSE p.identity.identityId,
      passportKey       |-> IF "passport_signature" \in failed THEN None ELSE p.passport.keyId,
      ai                |-> p.passport.ai,
      requiredApprovals |-> IF decision = "REQUIRE_APPROVAL" THEN 1 ELSE 0,
      principalIsAgent  |-> IsAgent(p),
      evaluatedAt       |-> now]

=============================================================================
