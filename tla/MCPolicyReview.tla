--------------------------- MODULE MCPolicyReview ---------------------------
(* Small instance of PolicyReview for TLC. *)
EXTENDS PolicyReview

CONSTANTS tenantA, tenantB, keyA, keyB, siteX, siteY, asset1

MCKeyIds == {keyA, keyB}
MCPlatforms == {siteX, siteY}

Claim(type, scopes, expires, tenant, key) ==
  [identityId |-> "proposer", tenantId |-> tenant, subjectType |-> type,
   scopes |-> scopes, expiresAt |-> expires, revoked |-> FALSE,
   keyId |-> keyA, key |-> key, sigValid |-> TRUE]

Right(kind, platforms, expires, ad, disputed) ==
  [kind |-> kind, platforms |-> platforms, territories |-> {},
   advertisingPermitted |-> ad, derivativePermitted |-> TRUE,
   expiresAt |-> expires, revokedAt |-> None, disputed |-> disputed]

MCRightsPool ==
  {Right("ownership", {}, None, TRUE, FALSE),
   Right("ownership", {siteX}, 2, FALSE, FALSE),
   Right("ownership", {}, None, TRUE, TRUE),
   Right("music_licence", {}, 1, TRUE, FALSE)}

MCInputs ==
  {[proposalId |-> "p", tenantId |-> tenantA, identity |-> id,
    passport |-> [assetId |-> asset1, tenantId |-> tenantA, digest |-> asset1, ai |-> ai,
                  rights |-> {}, sigValid |-> TRUE, keyId |-> keyB, key |-> keyB, revoked |-> FALSE],
    asset |-> asset1, platform |-> siteX, audience |-> "internal",
    requirement |-> [required |-> kinds, platform |-> None, territory |-> None,
                     advertising |-> FALSE, derivative |-> FALSE],
    aiDisclosed |-> FALSE, regulated |-> FALSE, political |-> FALSE] :
     id \in {Claim("person", {"publish:propose"}, 2, tenantA, keyA),
             Claim("agent", {"publish:propose"}, None, tenantA, keyB),
             Claim("person", {"publish:propose"}, None, tenantB, keyA)},
     ai \in {"none", "generated", "synthetic_likeness", "unknown"},
     kinds \in {{}, {"ownership"}, {"ownership", "music_licence"}}}

=============================================================================
