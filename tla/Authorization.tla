---------------------------- MODULE Authorization ----------------------------
(***************************************************************************)
(* From a decision and approvals to an authorization, and from that to a   *)
(* receipt's status.  Pure operators, no state.                            *)
(*   packages/core/src/execution.ts: authorize, buildReceipt               *)
(*                                                                         *)
(* An approval is [decision, approver, signedBy]: the decision stands for  *)
(* its digest (Policy!EvaluatePolicy), signedBy for the key its signature  *)
(* verifies under.  The approverKeyId an approval states is not read.      *)
(***************************************************************************)
EXTENDS Policy, FiniteSets

\* What a seeded fault would be: the type of the approver's subject unchecked.
AcceptsAnySubject(a, d, c, trusted, t) ==
  /\ a.decision = d
  /\ c.identityId = a.approver
  /\ c.tenantId = d.tenantId
  /\ ClaimValid(c, t)
  /\ SignerTrusted(c, trusted)
  /\ HasScope(c, "publish:approve")
  /\ a.signedBy = c.key

\* The loop body of authorize for one approval, c being the identity claim the
\* caller's directory holds for the named approver.  The approval must verify under
\* the key the claim carries; what is trusted is the key id the claim states.
Accepts(a, d, c, trusted, t) ==
  /\ a.decision = d
  /\ c.identityId = a.approver
  /\ c.tenantId = d.tenantId
  /\ c.subjectType # "agent"
  /\ ClaimValid(c, t)
  /\ SignerTrusted(c, trusted)
  /\ HasScope(c, "publish:approve")
  /\ a.signedBy = c.key

\* Distinct approvers accepted (seenApprovers).
Accepted(as, d, directory, trusted, t) ==
  {a.approver : a \in {b \in as : \E c \in directory : Accepts(b, d, c, trusted, t)}}

\* Seeded fault: the approvals handed in are counted, not the accepted ones.
VerdictCountsAll(as, d, directory, trusted, t) ==
  \/ d.decision = "ALLOW"
  \/ d.decision = "REQUIRE_APPROVAL" /\ Cardinality(as) >= d.requiredApprovals

AuthorizeVerdict(as, d, directory, trusted, t) ==
  \/ d.decision = "ALLOW"
  \/ /\ d.decision = "REQUIRE_APPROVAL"
     /\ Cardinality(Accepted(as, d, directory, trusted, t)) >= d.requiredApprovals

\* approverIdentities: at most one claim per identity id.
IsDirectory(cs) == \A c, e \in cs : c.identityId = e.identityId => c = e

\* buildReceipt, when the adapter names no status: the flag is taken as it is.
ReceiptStatus(authorized) == IF authorized THEN "executed" ELSE "blocked"

=============================================================================
