------------------------------ MODULE MCVerifier ------------------------------
(* Small instance of Verifier for TLC: passports that state two key ids, one of *)
(* them with a broken signature and one marked as revoked; entries that state   *)
(* either key id or a third one, one that does not verify, and one of the other *)
(* type.                                                                        *)
EXTENDS Verifier, TLC

CONSTANTS k1, k2, k3

MCPassport(digest, keyId, valid, revoked, rights, ai) ==
  [digest |-> digest, keyId |-> keyId, sigValid |-> valid, revoked |-> revoked,
   rights |-> rights, ai |-> ai]

MCPassports ==
  {MCPassport("x", k1, TRUE, FALSE, "recorded", "none"),
   MCPassport("x", k2, FALSE, FALSE, "none", "unknown"),
   MCPassport("y", k2, TRUE, TRUE, "disputed", "none")}

MCEntry(type, id, keyId, valid) ==
  [type |-> type, id |-> id, keyId |-> keyId, sigValid |-> valid]

MCEntries ==
  {MCEntry("passport", "x", k1, TRUE), MCEntry("passport", "x", k2, TRUE),
   MCEntry("passport", "x", k3, TRUE), MCEntry("passport", "x", k2, FALSE),
   MCEntry("identity", "x", k1, TRUE)}

=============================================================================
