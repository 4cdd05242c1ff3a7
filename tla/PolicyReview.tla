---------------------------- MODULE PolicyReview ----------------------------
(***************************************************************************)
(* One proposal evaluated again and again while what it depends on moves:  *)
(* time passes, rights are asserted, withdrawn or disputed, credentials    *)
(* are revoked, keys become trusted, the intended use changes.  The engine *)
(* keeps no state, so a decision is a function of the current inputs; the  *)
(* actions are the edits the schema of packages/core/src/types.ts allows.  *)
(* Its names keep clear of those of Governance, which is proved about      *)
(* together with it.                                                       *)
(***************************************************************************)
EXTENDS Policy

CONSTANTS
  Inputs,       \* the proposals to start from
  RightsPool,   \* rights records that may be asserted later
  KeyIds,       \* key ids that may become trusted
  Platforms,    \* platforms a use may be narrowed to
  MaxClock,     \* bound on the clock
  MaxEdits      \* bound on the number of steps

\* RightsRecord, IdentityClaim and PolicyInput as far as the engine reads them: each
\* field is there, be it as None, and a time is a time.
IsRightsRecord(r) ==
  /\ {"kind", "platforms", "territories", "advertisingPermitted", "derivativePermitted",
      "expiresAt", "revokedAt", "disputed"} \subseteq DOMAIN r
  /\ {r.expiresAt, r.revokedAt} \subseteq Nat \union {None}

IsPolicyInput(p) ==
  /\ {"tenantId", "identity", "passport", "asset", "audience", "requirement",
      "aiDisclosed", "regulated", "political"} \subseteq DOMAIN p
  /\ {"tenantId", "subjectType", "scopes", "expiresAt", "revoked", "keyId", "key", "sigValid"}
       \subseteq DOMAIN p.identity
  /\ p.identity.expiresAt \in Nat \union {None}
  /\ {"tenantId", "digest", "ai", "rights", "sigValid", "keyId", "key", "revoked"}
       \subseteq DOMAIN p.passport
  /\ \A r \in p.passport.rights : IsRightsRecord(r)
  /\ {"required", "platform", "territory", "advertising", "derivative"}
       \subseteq DOMAIN p.requirement

ASSUME InputsAssumption ==
  /\ \A p \in Inputs : IsPolicyInput(p)
  /\ \A r \in RightsPool : IsRightsRecord(r)

VARIABLES proposal, trustStore, clock,
          edits   \* steps taken, only there to bound the model

reviewVars == <<proposal, trustStore, clock, edits>>

Verdict == Decide(proposal, trustStore, clock)

\* Order of strictness of the three decisions.
Strictness(d) == IF d = "ALLOW" THEN 0 ELSE IF d = "REQUIRE_APPROVAL" THEN 1 ELSE 2

ReviewInit ==
  /\ proposal \in Inputs
  /\ trustStore \in SUBSET KeyIds
  /\ clock = 0
  /\ edits = 0

TimePasses ==
  /\ clock < MaxClock
  /\ clock' = clock + 1
  /\ UNCHANGED <<proposal, trustStore>>

\* A passport re-issued with one more rights assertion.
AssertRight(r) ==
  /\ proposal' = [proposal EXCEPT !.passport.rights = @ \union {r}]
  /\ UNCHANGED <<trustStore, clock>>

\* The grantor withdraws consent from now on, or the right becomes contested.
WithdrawRight(r) ==
  /\ r \in proposal.passport.rights
  /\ r.revokedAt = None
  /\ \/ proposal' = [proposal EXCEPT !.passport.rights =
                       (@ \ {r}) \union {[r EXCEPT !.revokedAt = clock]}]
     \/ proposal' = [proposal EXCEPT !.passport.rights =
                       (@ \ {r}) \union {[r EXCEPT !.disputed = TRUE]}]
  /\ UNCHANGED <<trustStore, clock>>

\* revokePassport / revokeIdentity, handed to the engine.
RevokeCredential ==
  /\ \/ proposal' = [proposal EXCEPT !.passport.revoked = TRUE]
     \/ proposal' = [proposal EXCEPT !.identity =
                       RevokedClaim(@, proposal.identity.key)]
  /\ UNCHANGED <<trustStore, clock>>

\* TrustStore.add: there is no removal.
AddTrusted(key) ==
  /\ trustStore' = trustStore \union {key}
  /\ UNCHANGED <<proposal, clock>>

\* The intended use widens or becomes more sensitive.
Escalate ==
  /\ \/ proposal' = [proposal EXCEPT !.audience = "public"]
     \/ proposal' = [proposal EXCEPT !.requirement.advertising = TRUE]
     \/ proposal' = [proposal EXCEPT !.requirement.derivative = TRUE]
     \/ proposal' = [proposal EXCEPT !.regulated = TRUE]
     \/ proposal' = [proposal EXCEPT !.political = TRUE]
     \/ /\ proposal.requirement.platform = None
        /\ \E q \in Platforms : proposal' = [proposal EXCEPT !.requirement.platform = q]
  /\ UNCHANGED <<trustStore, clock>>

\* The machine-readable AI disclosure is attached.
Disclose ==
  /\ proposal' = [proposal EXCEPT !.aiDisclosed = TRUE]
  /\ UNCHANGED <<trustStore, clock>>

ReviewNext ==
  /\ edits < MaxEdits
  /\ edits' = edits + 1
  /\ \/ TimePasses
     \/ \E r \in RightsPool : AssertRight(r)
     \/ \E r \in proposal.passport.rights : WithdrawRight(r)
     \/ RevokeCredential
     \/ \E key \in KeyIds : AddTrusted(key)
     \/ Escalate
     \/ Disclose

ReviewSpec == ReviewInit /\ [][ReviewNext]_reviewVars

(***************************************************************************)
(* Properties                                                              *)
(***************************************************************************)

\* A step that can only help the proposer: more evidence, more trust or a
\* disclosure, everything else as before.
Relief ==
  \/ /\ proposal.passport.rights \subseteq proposal'.passport.rights
     /\ proposal' = [proposal EXCEPT !.passport.rights = proposal'.passport.rights]
     /\ UNCHANGED <<trustStore, clock>>
  \/ /\ trustStore \subseteq trustStore'
     /\ UNCHANGED <<proposal, clock>>
  \/ Disclose

\* Nothing but relief ever makes the engine more lenient: time passing, a
\* withdrawal, a dispute, a revocation or a wider use can only keep or harden
\* the decision.  In particular a decision that was ALLOW or REQUIRE_APPROVAL
\* when evaluated may be stale later, but a BLOCK never expires by itself
\* (rights.ts applicable, identity.ts verifyIdentity: no "valid from" test).
OnlyReliefRelaxes ==
  [][Strictness(Verdict') < Strictness(Verdict) => Relief]_reviewVars

\* Relief never hardens the decision: in particular a further rights record,
\* even an expired, disputed or excluded one, cannot block what one valid
\* record already satisfies (rights.ts evaluateRights, the loop with break).
ReliefNeverHardens ==
  [][Relief => Strictness(Verdict') <= Strictness(Verdict)]_reviewVars

=============================================================================
