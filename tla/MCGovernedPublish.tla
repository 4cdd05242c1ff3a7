-------------------------- MODULE MCGovernedPublish --------------------------
(* Small instance of the control loop with the runner for TLC: an agent that  *)
(* also holds publish:approve and a key of its own, a human approver whose    *)
(* claim expires, a claim of the approver that states the trusted key's id    *)
(* and carries another key, an author, an approver of another tenant, and an  *)
(* only right that expires.                                                   *)
EXTENDS GovernedPublish, TLC

CONSTANTS tenantA, tenantB, keyA, keyB, siteX, asset1, r1, r2, k1

MCTenants == {tenantA, tenantB}
MCIdentities == {"agent", "author", "approver", "foreign"}
MCKeys == {keyA, keyB}
MCRuns == {r1, r2}
MCIdemKeys == {k1}

MCClaim(id, type, scopes, expires, tenant, keyId, key) ==
  [identityId |-> id, tenantId |-> tenant, subjectType |-> type, scopes |-> scopes,
   expiresAt |-> expires, revoked |-> FALSE, keyId |-> keyId, key |-> key, sigValid |-> TRUE]

Agent    == MCClaim("agent", "agent", {"publish:propose", "publish:approve"}, None, tenantA, keyB, keyB)
Author   == MCClaim("author", "person", {"publish:propose"}, None, tenantA, keyA, keyA)
Approver == MCClaim("approver", "person", {"publish:approve"}, 1, tenantA, keyA, keyA)
Foreign  == MCClaim("foreign", "person", {"publish:approve"}, None, tenantB, keyB, keyB)
Misstated == MCClaim("approver", "person", {"publish:approve"}, None, tenantA, keyA, keyB)

MCClaims == {Agent, Author, Approver, Foreign, Misstated}
MCInitialClaims == {Agent, Author, Approver}
MCInitialTrust == {keyA}
RunSymmetry == Permutations(MCRuns)

MCRequest(proposer, approver, key, audience) ==
  [proposalId |-> "p", tenantId |-> tenantA, proposer |-> proposer, approver |-> approver,
   approverKey |-> key, signingKey |-> keyA, asset |-> asset1, assetId |-> asset1,
   ai |-> "none", aiDisclosed |-> FALSE,
   rights |-> {[kind |-> "ownership", platforms |-> {siteX}, territories |-> {},
                advertisingPermitted |-> TRUE, derivativePermitted |-> TRUE,
                expiresAt |-> 1, revokedAt |-> None, disputed |-> FALSE]},
   required |-> {"ownership"}, platform |-> siteX, audience |-> audience]

MCRequests ==
  {MCRequest(Author, None, None, "public"),
   MCRequest(Agent, None, None, "internal"),
   MCRequest(Agent, Agent, keyB, "internal"),
   MCRequest(Agent, Approver, keyA, "internal"),
   MCRequest(Agent, Approver, keyB, "internal"),
   MCRequest(Agent, Misstated, keyB, "internal"),
   MCRequest(Agent, Foreign, keyB, "internal")}

MCProposals == {ProposalOf(q) : q \in MCRequests}

=============================================================================
