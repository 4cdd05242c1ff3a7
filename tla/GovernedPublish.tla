--------------------------- MODULE GovernedPublish ---------------------------
(***************************************************************************)
(* The publish runner beside callers that drive the control loop step by   *)
(* step: one call of the runner builds the passport, evaluates, collects   *)
(* the approval, authorizes and executes.  With the simulated adapter the  *)
(* whole call is one step; all callers share the adapter, the trust store  *)
(* and the idempotency keys.                                               *)
(*   apps/publisher/publish.ts, packages/core/src/passport.ts              *)
(***************************************************************************)
EXTENDS Governance

CONSTANT Requests   \* the inputs given to runGovernedPublish

\* createPassport: the digest is that of the bytes given, signed by the tenant's key.
CreatePassport(q) ==
  [assetId |-> q.assetId, tenantId |-> q.tenantId, digest |-> q.asset, ai |-> q.ai,
   rights |-> q.rights, sigValid |-> TRUE, keyId |-> q.signingKey, key |-> q.signingKey,
   revoked |-> FALSE]

\* The PolicyInput: the requirement names kinds only, the platform is outside it
\* and nothing is declared regulated or political.
ProposalOf(q) ==
  [proposalId |-> q.proposalId, tenantId |-> q.tenantId, identity |-> q.proposer,
   passport |-> CreatePassport(q), asset |-> q.asset, platform |-> q.platform,
   audience |-> q.audience,
   requirement |-> [required |-> q.required, platform |-> None, territory |-> None,
                    advertising |-> FALSE, derivative |-> FALSE],
   aiDisclosed |-> q.aiDisclosed, regulated |-> FALSE, political |-> FALSE]

\* A request is among the inputs evaluatePolicy is given, and names an approver only
\* with his key: without either the runner collects no approval (publish.ts:103).
ASSUME RequestsAssumption ==
  \A q \in Requests :
    /\ ProposalOf(q) \in Proposals
    /\ q.approver # None => q.approverKey \in Keys

\* The approvals the runner collects: one, by the approver of the request with the
\* key of the request, if the decision asks for it and there is an approver.
Collected(q, d) ==
  IF d.decision = "REQUIRE_APPROVAL" /\ q.approver # None
  THEN {[decision |-> d, approver |-> q.approver.identityId, signedBy |-> q.approverKey]}
  ELSE {}

\* Seeded fault: the runner takes an approver's presence for his approval.
AuthorizationAssumed(q, d) == d.decision # "BLOCK" /\ q.approver # None

\* The authorization handed to the adapter.
Authorization(q, d) ==
  AuthorizeVerdict(Collected(q, d), d, IF q.approver = None THEN {} ELSE {q.approver},
                   trusted, now)

\* runGovernedPublish: the receipt is the adapter's, for this call or an earlier one.
RunGovernedPublish(r, q, k) ==
  LET p == ProposalOf(q)
      d == EvaluatePolicy(p, trusted, now)
      built == [decision |-> d, platform |-> p.platform, assetId |-> p.passport.assetId,
                key |-> k, status |-> ReceiptStatus(Authorization(q, d)), executedAt |-> now]
      receipt == IF receipts[k] # None THEN receipts[k] ELSE built
  IN  /\ run[r].stage = "idle"
      /\ q.proposer \in claims
      /\ q.approver # None => q.approver \in claims
      /\ Cardinality(approvals \union Collected(q, d)) <= MaxApprovals
      /\ approvals' = approvals \union Collected(q, d)
      /\ receipts' = [receipts EXCEPT ![k] = receipt]
      /\ run' = [run EXCEPT ![r] =
           [stage |-> "done", proposal |-> p, decision |-> d,
            authorized |-> Authorization(q, d), receipt |-> receipt]]
      /\ UNCHANGED <<now, trusted, claims>>

NextWithRunner ==
  \/ Next
  \/ \E r \in Runs, q \in Requests, k \in IdemKeys : RunGovernedPublish(r, q, k)

SpecWithRunner == Init /\ [][NextWithRunner]_vars

(***************************************************************************)
(* Properties                                                              *)
(***************************************************************************)

\* What the runner's callers are told was published was authorised, in the sense of
\* ExecutedIsAuthorised: the receipt a call returns may be an earlier call's, for
\* another proposal, but it is backed by a decision with no failing check and, unless
\* that was ALLOW, by an approval of that decision that stood, between it and the time
\* on the receipt, by a claim stating a trusted key id (publish.ts:97-130).
PublishedWasPermitted ==
  \A r \in Runs :
    run[r].receipt # None /\ run[r].receipt.status = "executed" =>
      /\ run[r].receipt.decision.failed = {}
      /\ Authorised(run[r].receipt.decision, run[r].receipt.executedAt)

=============================================================================
