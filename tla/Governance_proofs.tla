------------------------- MODULE Governance_proofs --------------------------
(***************************************************************************)
(* Machine-checked safety of the control loop and of the publish runner    *)
(* beside it, for any number of runs, keys, claims, proposals, requests    *)
(* and idempotency keys; and, at the end, how the policy engine's verdict  *)
(* moves with its inputs.                                                  *)
(*                                                                         *)
(* ExecutedIsAuthorised is not inductive: it says nothing of a run that    *)
(* holds a positive authorization and has not executed yet, nor of when a  *)
(* decision was made.  Ind adds both, and ties what runs hold to what the  *)
(* adapter stores.                                                         *)
(***************************************************************************)
EXTENDS GovernedPublish, PolicyReview, FiniteSetTheorems, TLAPS

\* A run past evaluation holds a decision made no later than now; one that
\* holds a positive authorization was properly authorised by now.
RunInv ==
  \A r \in Runs :
    run[r].stage # "idle" =>
      /\ run[r].decision.evaluatedAt <= now
      /\ run[r].authorized => Authorised(run[r].decision, now)

\* A stored receipt carries its own key and no time later than now.
ReceiptInv ==
  \A k \in IdemKeys :
    receipts[k] # None => receipts[k].key = k /\ receipts[k].executedAt <= now

\* The receipt a run holds is the one stored under its key.
HeldInv ==
  \A r \in Runs :
    run[r].receipt # None =>
      /\ run[r].receipt.key \in IdemKeys
      /\ receipts[run[r].receipt.key] = run[r].receipt

Ind == TypeOK /\ RunInv /\ ReceiptInv /\ HeldInv /\ ExecutedIsAuthorised

-----------------------------------------------------------------------------
\* What evaluatePolicy guarantees of any decision it returns, whatever the
\* proposal (policy.ts:206-231).
LEMMA DecisionFacts ==
  ASSUME NEW d \in Decision
  PROVE  /\ d.evaluatedAt \in 0..MaxTime
         /\ d.decision \in {"ALLOW", "REQUIRE_APPROVAL", "BLOCK"}
         /\ d.decision # "BLOCK" => d.failed = {}
         /\ d.decision = "REQUIRE_APPROVAL" => d.requiredApprovals = 1
         /\ d.principalIsAgent => d.decision # "ALLOW"
<1>1. PICK p \in Proposals, ts \in SUBSET Keys, t \in 0..MaxTime :
        d = EvaluatePolicy(p, ts, t)
  BY DEF Decision
<1>2. /\ d.evaluatedAt = t
      /\ d.decision = Decide(p, ts, t)
      /\ d.failed = Failed(p, ts, t)
      /\ d.requiredApprovals = IF d.decision = "REQUIRE_APPROVAL" THEN 1 ELSE 0
      /\ d.principalIsAgent = IsAgent(p)
  BY <1>1 DEF EvaluatePolicy
<1> QED
  BY <1>1, <1>2 DEF Decide

LEMMA EvaluateInDecision ==
  ASSUME NEW p \in Proposals, TypeOK
  PROVE  /\ EvaluatePolicy(p, trusted, now) \in Decision
         /\ EvaluatePolicy(p, trusted, now).evaluatedAt = now
<1>1. trusted \in SUBSET Keys /\ now \in 0..MaxTime
  BY DEF TypeOK
<1>2. <<p, trusted, now>> \in Proposals \X (SUBSET Keys) \X (0..MaxTime)
  BY <1>1
<1>3. EvaluatePolicy(p, trusted, now) \in Decision
  BY <1>2 DEF Decision
<1>4. EvaluatePolicy(p, trusted, now).evaluatedAt = now
  BY DEF EvaluatePolicy
<1> QED
  BY <1>3, <1>4

\* A positive verdict of authorize that is not ALLOW rests on an accepted approval
\* of the decision (execution.ts:82-139).
LEMMA VerdictFacts ==
  ASSUME NEW d \in Decision, NEW as, NEW directory, NEW ts, NEW t,
         AuthorizeVerdict(as, d, directory, ts, t), d.decision # "ALLOW"
  PROVE  /\ d.decision = "REQUIRE_APPROVAL"
         /\ \E a \in as, c \in directory : Accepts(a, d, c, ts, t)
<1>1. /\ d.decision = "REQUIRE_APPROVAL"
      /\ Cardinality(Accepted(as, d, directory, ts, t)) >= 1
  BY DecisionFacts DEF AuthorizeVerdict
<1>2. Accepted(as, d, directory, ts, t) # {}
  <2>1. Cardinality({}) = 0
    BY FS_EmptySet
  <2>2. ~(0 >= 1)
    OBVIOUS
  <2> QED
    BY <1>1, <2>1, <2>2, Zenon
<1>3. \E a \in as : \E c \in directory : Accepts(a, d, c, ts, t)
  BY <1>2 DEF Accepted
<1> QED
  BY <1>1, <1>3

\* A positive verdict of authorize establishes Authorised at that moment.
LEMMA VerdictSound ==
  ASSUME NEW d \in Decision, TypeOK, d.evaluatedAt <= now,
         NEW as \in SUBSET approvals, NEW directory \in SUBSET claims,
         AuthorizeVerdict(as, d, directory, trusted, now)
  PROVE  Authorised(d, now)
<1>1. CASE d.decision = "ALLOW"
  BY <1>1 DEF Authorised
<1>2. CASE d.decision # "ALLOW"
  <2>1. d.decision = "REQUIRE_APPROVAL" /\ ApprovalStands(d, now)
    BY <1>2, VerdictFacts DEF ApprovalStands
  <2>2. now \in d.evaluatedAt..now
    BY DecisionFacts DEF TypeOK
  <2> QED
    BY <2>1, <2>2 DEF Authorised
<1> QED
  BY <1>1, <1>2

\* Authority once established is not lost: approvals, claims and trust only
\* accumulate, and the clock only advances.
LEMMA AuthorityStable ==
  ASSUME approvals \subseteq approvals', claims \subseteq claims', trusted \subseteq trusted',
         NEW d \in Decision, NEW s \in Nat, NEW t \in Nat, s <= t, Authorised(d, s)
  PROVE  Authorised(d, t)'
<1>1. ASSUME NEW u, ApprovalStands(d, u) PROVE ApprovalStands(d, u)'
  BY <1>1 DEF ApprovalStands, Accepts, SignerTrusted
<1>2. d.evaluatedAt..s \subseteq d.evaluatedAt..t
  BY DecisionFacts
<1> QED
  BY <1>1, <1>2 DEF Authorised

-----------------------------------------------------------------------------
(***************************************************************************)
(* Type correctness.                                                       *)
(***************************************************************************)
LEMMA InitTypeOK == Init => TypeOK
BY BoundsAssumption, InitialAssumption, ClaimsAssumption
   DEF Init, TypeOK, Idle, RunState

LEMMA NextTypeOK == TypeOK /\ [Next]_vars => TypeOK'
<1> SUFFICES ASSUME TypeOK, [Next]_vars PROVE TypeOK'
  OBVIOUS
<1> USE DEF TypeOK
<1>1. CASE Tick
  BY <1>1, BoundsAssumption DEF Tick
<1>2. CASE \E key \in Keys : Trust(key)
  BY <1>2 DEF Trust
<1>3. CASE \E c \in Claims : IssueIdentity(c) \/ ReceiveClaim(c)
  BY <1>3, ClaimsAssumption DEF IssueIdentity, ReceiveClaim
<1>4. ASSUME NEW c \in claims, NEW key \in Keys, RevokeIdentity(c, key)
      PROVE  TypeOK'
  <2>1. RevokedClaim(c, key) \in SignedIdentityClaim
    BY DEF RevokedClaim, SignedIdentityClaim
  <2> QED
    BY <1>4, <2>1 DEF RevokeIdentity
<1>5. ASSUME NEW r \in Runs, NEW p \in Proposals, Evaluate(r, p)
      PROVE  TypeOK'
  BY <1>5, EvaluateInDecision DEF Evaluate, RunState
<1>6. ASSUME NEW r \in Runs, NEW c \in claims, NEW key \in Keys, Approve(r, c, key)
      PROVE  TypeOK'
  <2>1. run[r].decision \in Decision
    BY <1>6 DEF RunState, Idle, Approve
  <2>2. c.identityId \in Identities
    BY DEF SignedIdentityClaim
  <2> QED
    BY <1>6, <2>1, <2>2 DEF Approve, Approval
<1>7. ASSUME NEW r \in Runs, NEW as \in SUBSET approvals, NEW directory \in SUBSET claims,
             Authorize(r, as, directory)
      PROVE  TypeOK'
  <2> DEFINE verdict == AuthorizeVerdict(as, run[r].decision, directory, trusted, now)
  <2>1. verdict \in BOOLEAN
    BY DEF AuthorizeVerdict
  <2> DEFINE next == [run[r] EXCEPT !.stage = "authorized", !.authorized = verdict]
  <2>2. run' = [run EXCEPT ![r] = next]
    BY <1>7 DEF Authorize
  <2>3. run[r] # Idle
    BY <1>7 DEF Authorize, Idle
  <2> HIDE DEF verdict
  <2>4. next \in RunState
    BY <2>1, <2>3 DEF RunState
  <2> HIDE DEF next
  <2>5. run' \in [Runs -> RunState]
    BY <2>2, <2>4
  <2> QED
    BY <1>7, <2>5 DEF Authorize
<1>8. ASSUME NEW r \in Runs, NEW k \in IdemKeys, Execute(r, k)
      PROVE  TypeOK'
  <2> DEFINE receipt == IF receipts[k] # None THEN receipts[k] ELSE BuildReceipt(r, k)
  <2>1. run[r] # Idle
    BY <1>8 DEF Execute, Idle
  <2>2. BuildReceipt(r, k) \in Receipt
    BY <2>1 DEF BuildReceipt, ReceiptStatus, Receipt, RunState
  <2>3. receipt \in Receipt
    BY <2>2
  <2> DEFINE next == [run[r] EXCEPT !.stage = "done", !.receipt = receipt]
  <2>4. /\ receipts' = [receipts EXCEPT ![k] = receipt]
        /\ run' = [run EXCEPT ![r] = next]
    BY <1>8 DEF Execute
  <2> HIDE DEF receipt
  <2>5. next \in RunState
    BY <2>1, <2>3 DEF RunState
  <2> HIDE DEF next
  <2> QED
    BY <1>8, <2>3, <2>4, <2>5 DEF Execute
<1>9. CASE UNCHANGED vars
  BY <1>9 DEF vars
<1> QED
  BY <1>1, <1>2, <1>3, <1>4, <1>5, <1>6, <1>7, <1>8, <1>9 DEF Next

-----------------------------------------------------------------------------
(***************************************************************************)
(* The inductive invariant.                                                *)
(***************************************************************************)
\* What a run past its idle state holds.
LEMMA ActiveRun ==
  ASSUME TypeOK, NEW r \in Runs, run[r].stage # "idle"
  PROVE  /\ run[r].proposal \in Proposals
         /\ run[r].decision \in Decision
         /\ run[r].authorized \in BOOLEAN
         /\ run[r].receipt \in Receipt \union {None}
BY DEF TypeOK, RunState, Idle

LEMMA InitInd == Init => Ind
BY InitTypeOK DEF Init, Ind, RunInv, ReceiptInv, HeldInv, ExecutedIsAuthorised, Idle

\* Steps that change neither a run nor a receipt, while the rest accumulates.
LEMMA FrameInd ==
  ASSUME Ind, TypeOK', now <= now', approvals \subseteq approvals', claims \subseteq claims',
         trusted \subseteq trusted', UNCHANGED <<run, receipts>>
  PROVE  Ind'
<1> USE DEF Ind
<1>0. now \in Nat /\ now' \in Nat
  BY BoundsAssumption DEF TypeOK
<1>1. RunInv'
  <2> SUFFICES ASSUME NEW r \in Runs, run[r].stage # "idle"
               PROVE  /\ run[r].decision.evaluatedAt <= now'
                      /\ run[r].authorized => Authorised(run[r].decision, now)'
    BY DEF RunInv
  <2>1. run[r].decision \in Decision
    BY ActiveRun
  <2>2. run[r].decision.evaluatedAt <= now'
    BY <1>0, <2>1, DecisionFacts DEF RunInv
  <2>3. ASSUME run[r].authorized PROVE Authorised(run[r].decision, now)'
    <3>1. Authorised(run[r].decision, now)
      BY <2>3 DEF RunInv
    <3> QED
      BY <1>0, <2>1, <3>1, AuthorityStable
  <2> QED
    BY <2>2, <2>3
<1>2. ReceiptInv'
  BY <1>0, BoundsAssumption DEF ReceiptInv, TypeOK, Receipt
<1>3. HeldInv'
  BY DEF HeldInv
<1>4. ExecutedIsAuthorised'
  <2> SUFFICES ASSUME NEW k \in IdemKeys, receipts[k] # None, receipts[k].status = "executed"
               PROVE  /\ receipts[k].decision.failed = {}
                      /\ Authorised(receipts[k].decision, receipts[k].executedAt)'
    BY DEF ExecutedIsAuthorised
  <2>1. /\ receipts[k].decision.failed = {}
        /\ Authorised(receipts[k].decision, receipts[k].executedAt)
    BY DEF ExecutedIsAuthorised
  <2>2. receipts[k].decision \in Decision /\ receipts[k].executedAt \in Nat
    BY BoundsAssumption DEF TypeOK, Receipt
  <2> QED
    BY <2>1, <2>2, AuthorityStable
<1> QED
  BY <1>1, <1>2, <1>3, <1>4

LEMMA EvaluateInd ==
  ASSUME Ind, TypeOK', NEW r \in Runs, NEW p \in Proposals, Evaluate(r, p)
  PROVE  Ind'
<1> USE DEF Ind
<1> DEFINE d == EvaluatePolicy(p, trusted, now)
<1>1. /\ run' = [run EXCEPT ![r] = [stage |-> "evaluated", proposal |-> p, decision |-> d,
                                    authorized |-> FALSE, receipt |-> None]]
      /\ UNCHANGED <<now, trusted, claims, approvals, receipts>>
  BY DEF Evaluate
<1>2. d.evaluatedAt <= now
  BY EvaluateInDecision, BoundsAssumption DEF TypeOK
<1> HIDE DEF d
<1>3. /\ run'[r].stage = "evaluated" /\ run'[r].decision = d
      /\ run'[r].authorized = FALSE /\ run'[r].receipt = None
      /\ \A s \in Runs \ {r} : run'[s] = run[s]
  BY <1>1 DEF TypeOK
<1>4. RunInv'
  BY <1>1, <1>2, <1>3 DEF RunInv, Authorised, ApprovalStands, Accepts, SignerTrusted
<1>5. ReceiptInv'
  BY <1>1 DEF ReceiptInv
<1>6. HeldInv'
  BY <1>1, <1>3 DEF HeldInv
<1>7. ExecutedIsAuthorised'
  BY <1>1 DEF ExecutedIsAuthorised, Authorised, ApprovalStands, Accepts, SignerTrusted
<1> QED
  BY <1>4, <1>5, <1>6, <1>7

LEMMA AuthorizeInd ==
  ASSUME Ind, TypeOK', NEW r \in Runs, NEW as \in SUBSET approvals,
         NEW directory \in SUBSET claims, Authorize(r, as, directory)
  PROVE  Ind'
<1> USE DEF Ind
<1> DEFINE d == run[r].decision
           verdict == AuthorizeVerdict(as, d, directory, trusted, now)
<1>1. /\ run[r].stage = "evaluated"
      /\ run' = [run EXCEPT ![r] = [@ EXCEPT !.stage = "authorized", !.authorized = verdict]]
      /\ UNCHANGED <<now, trusted, claims, approvals, receipts>>
  BY DEF Authorize
<1>2. d \in Decision /\ d.evaluatedAt <= now
  BY <1>1, ActiveRun DEF RunInv
<1>3. verdict => Authorised(d, now)
  BY <1>2, VerdictSound
<1> HIDE DEF verdict
<1>4. /\ run'[r].decision = d /\ run'[r].authorized = verdict
      /\ run'[r].receipt = run[r].receipt
      /\ \A s \in Runs \ {r} : run'[s] = run[s]
  BY <1>1 DEF TypeOK, RunState, Idle
<1>5. RunInv'
  <2> SUFFICES ASSUME NEW s \in Runs, run'[s].stage # "idle"
               PROVE  /\ run'[s].decision.evaluatedAt <= now
                      /\ run'[s].authorized => Authorised(run'[s].decision, now)
    BY <1>1 DEF RunInv, Authorised, ApprovalStands, Accepts, SignerTrusted
  <2>1. CASE s = r
    BY <1>2, <1>3, <1>4, <2>1
  <2>2. CASE s # r
    BY <1>4, <2>2 DEF RunInv
  <2> QED
    BY <2>1, <2>2
<1>6. ReceiptInv'
  BY <1>1 DEF ReceiptInv
<1>7. HeldInv'
  BY <1>1, <1>4 DEF HeldInv
<1>8. ExecutedIsAuthorised'
  BY <1>1 DEF ExecutedIsAuthorised, Authorised, ApprovalStands, Accepts, SignerTrusted
<1> QED
  BY <1>5, <1>6, <1>7, <1>8

LEMMA ExecuteInd ==
  ASSUME Ind, TypeOK', NEW r \in Runs, NEW k \in IdemKeys, Execute(r, k)
  PROVE  Ind'
<1> USE DEF Ind
<1> DEFINE receipt == IF receipts[k] # None THEN receipts[k] ELSE BuildReceipt(r, k)
<1>1. /\ run[r].stage = "authorized"
      /\ receipts' = [receipts EXCEPT ![k] = receipt]
      /\ run' = [run EXCEPT ![r] = [@ EXCEPT !.stage = "done", !.receipt = receipt]]
      /\ UNCHANGED <<now, trusted, claims, approvals>>
  BY DEF Execute
<1>2. run[r].decision \in Decision /\ run[r].authorized \in BOOLEAN
  BY <1>1, ActiveRun
<1>3. /\ run[r].decision.evaluatedAt <= now
      /\ run[r].authorized => Authorised(run[r].decision, now)
  BY <1>1 DEF RunInv
<1>4. receipt.key = k /\ receipt.executedAt <= now
  BY BoundsAssumption DEF BuildReceipt, ReceiptStatus, ReceiptInv, TypeOK
<1>5. receipt.status = "executed" =>
        /\ receipt.decision.failed = {}
        /\ Authorised(receipt.decision, receipt.executedAt)
  <2>1. CASE receipts[k] # None
    BY <2>1 DEF ExecutedIsAuthorised
  <2>2. CASE receipts[k] = None /\ run[r].authorized
    <3>1. run[r].decision.failed = {}
      BY <1>2, <1>3, <2>2, DecisionFacts DEF Authorised
    <3> QED
      BY <1>3, <2>2, <3>1 DEF BuildReceipt, ReceiptStatus
  <2>3. CASE receipts[k] = None /\ ~run[r].authorized
    BY <2>3 DEF BuildReceipt, ReceiptStatus
  <2> QED
    BY <1>2, <2>1, <2>2, <2>3
<1> HIDE DEF receipt
<1>6. /\ run'[r].decision = run[r].decision /\ run'[r].authorized = run[r].authorized
      /\ run'[r].receipt = receipt
      /\ \A s \in Runs \ {r} : run'[s] = run[s]
  BY <1>1 DEF TypeOK, RunState, Idle
<1>7. receipts'[k] = receipt /\ \A j \in IdemKeys \ {k} : receipts'[j] = receipts[j]
  BY <1>1 DEF TypeOK
<1>8. receipts[k] # None => receipt = receipts[k]
  BY DEF receipt
<1>9. RunInv'
  <2> SUFFICES ASSUME NEW s \in Runs, run'[s].stage # "idle"
               PROVE  /\ run'[s].decision.evaluatedAt <= now
                      /\ run'[s].authorized => Authorised(run'[s].decision, now)
    BY <1>1 DEF RunInv, Authorised, ApprovalStands, Accepts, SignerTrusted
  <2>1. CASE s = r
    BY <1>3, <1>6, <2>1
  <2>2. CASE s # r
    BY <1>6, <2>2 DEF RunInv
  <2> QED
    BY <2>1, <2>2
<1>10. ReceiptInv'
  BY <1>1, <1>4, <1>7 DEF ReceiptInv
<1>11. HeldInv'
  <2> SUFFICES ASSUME NEW s \in Runs, run'[s].receipt # None
               PROVE  /\ run'[s].receipt.key \in IdemKeys
                      /\ receipts'[run'[s].receipt.key] = run'[s].receipt
    BY DEF HeldInv
  <2>1. CASE s = r
    BY <1>4, <1>6, <1>7, <2>1
  <2>2. CASE s # r
    BY <1>6, <1>7, <1>8, <2>2 DEF HeldInv
  <2> QED
    BY <2>1, <2>2
<1>12. ExecutedIsAuthorised'
  <2> SUFFICES ASSUME NEW j \in IdemKeys, receipts'[j] # None, receipts'[j].status = "executed"
               PROVE  /\ receipts'[j].decision.failed = {}
                      /\ Authorised(receipts'[j].decision, receipts'[j].executedAt)
    BY <1>1 DEF ExecutedIsAuthorised, Authorised, ApprovalStands, Accepts, SignerTrusted
  <2>1. CASE j = k
    BY <1>5, <1>7, <2>1
  <2>2. CASE j # k
    BY <1>7, <2>2 DEF ExecutedIsAuthorised
  <2> QED
    BY <2>1, <2>2
<1> QED
  BY <1>9, <1>10, <1>11, <1>12

LEMMA NextInd == Ind /\ [Next]_vars => Ind'
<1> SUFFICES ASSUME Ind, [Next]_vars PROVE Ind'
  OBVIOUS
<1>0. TypeOK' /\ now \in Nat
  BY NextTypeOK, BoundsAssumption DEF Ind, TypeOK
<1>1. CASE Tick
  BY <1>0, <1>1, FrameInd DEF Tick
<1>2. CASE \E key \in Keys : Trust(key)
  BY <1>0, <1>2, FrameInd DEF Trust
<1>3. CASE \E c \in Claims : IssueIdentity(c) \/ ReceiveClaim(c)
  BY <1>0, <1>3, FrameInd DEF IssueIdentity, ReceiveClaim
<1>4. CASE \E c \in claims, key \in Keys : RevokeIdentity(c, key)
  BY <1>0, <1>4, FrameInd DEF RevokeIdentity
<1>5. CASE \E r \in Runs, p \in Proposals : Evaluate(r, p)
  BY <1>0, <1>5, EvaluateInd
<1>6. CASE \E r \in Runs, c \in claims, key \in Keys : Approve(r, c, key)
  BY <1>0, <1>6, FrameInd DEF Approve
<1>7. CASE \E r \in Runs, as \in SUBSET approvals, directory \in SUBSET claims :
             Authorize(r, as, directory)
  BY <1>0, <1>7, AuthorizeInd
<1>8. CASE \E r \in Runs, k \in IdemKeys : Execute(r, k)
  BY <1>0, <1>8, ExecuteInd
<1>9. CASE UNCHANGED vars
  BY <1>0, <1>9, FrameInd DEF vars
<1> QED
  BY <1>1, <1>2, <1>3, <1>4, <1>5, <1>6, <1>7, <1>8, <1>9 DEF Next

-----------------------------------------------------------------------------
(***************************************************************************)
(* The runner's step: a decision, an approval, a verdict and a receipt at  *)
(* once.  The approval it signs is accepted, if at all, in the state the   *)
(* step leads to.                                                          *)
(***************************************************************************)
\* What one call of the runner computes.
LEMMA RunnerFacts ==
  ASSUME TypeOK, NEW r \in Runs, NEW q \in Requests, NEW k \in IdemKeys,
         RunGovernedPublish(r, q, k), NEW d, d = EvaluatePolicy(ProposalOf(q), trusted, now)
  PROVE  /\ d \in Decision /\ d.evaluatedAt = now
         /\ Authorization(q, d) \in BOOLEAN
         /\ Authorization(q, d) => Authorised(d, now)'
         /\ Collected(q, d) \subseteq Approval
<1>1. ProposalOf(q) \in Proposals /\ (q.approver # None => q.approverKey \in Keys)
  BY RequestsAssumption
<1>2. d \in Decision /\ d.evaluatedAt = now
  BY <1>1, EvaluateInDecision
<1>3. Authorization(q, d) \in BOOLEAN
  BY DEF Authorization, AuthorizeVerdict
<1>4. /\ q.approver # None => q.approver \in claims
      /\ approvals' = approvals \union Collected(q, d)
      /\ UNCHANGED <<now, trusted, claims>>
  BY DEF RunGovernedPublish
<1>5. Collected(q, d) \subseteq Approval
  BY <1>1, <1>2, <1>4 DEF Collected, Approval, TypeOK, SignedIdentityClaim
<1>6. ASSUME Authorization(q, d), d.decision # "ALLOW"
      PROVE  Authorised(d, now)'
  <2> DEFINE directory == IF q.approver = None THEN {} ELSE {q.approver}
  <2>1. AuthorizeVerdict(Collected(q, d), d, directory, trusted, now)
    BY <1>6 DEF Authorization
  <2>2. directory \subseteq claims'
    BY <1>4
  <2> HIDE DEF directory
  <2>3. /\ d.decision = "REQUIRE_APPROVAL"
        /\ \E a \in Collected(q, d), c \in directory : Accepts(a, d, c, trusted, now)
    BY <2>1, <1>2, <1>6, VerdictFacts
  <2>4. ApprovalStands(d, now)'
    BY <2>2, <2>3, <1>4 DEF ApprovalStands
  <2>5. now' \in d.evaluatedAt..now'
    BY <1>2, <1>4, BoundsAssumption DEF TypeOK
  <2> QED
    BY <2>3, <2>4, <2>5 DEF Authorised
<1>7. d.decision = "ALLOW" => Authorised(d, now)'
  BY DEF Authorised
<1> QED
  BY <1>2, <1>3, <1>5, <1>6, <1>7

LEMMA RunnerInd ==
  ASSUME Ind, NEW r \in Runs, NEW q \in Requests, NEW k \in IdemKeys, RunGovernedPublish(r, q, k)
  PROVE  Ind'
<1> DEFINE p == ProposalOf(q)
<1>1. PICK d : d = EvaluatePolicy(p, trusted, now)
  OBVIOUS
<1>2. PICK ok : ok = Authorization(q, d)
  OBVIOUS
<1> DEFINE built == [decision |-> d, platform |-> p.platform, assetId |-> p.passport.assetId,
                     key |-> k, status |-> ReceiptStatus(ok), executedAt |-> now]
<1>3. PICK receipt : receipt = IF receipts[k] # None THEN receipts[k] ELSE built
  OBVIOUS
<1> DEFINE held == [stage |-> "done", proposal |-> p, decision |-> d,
                    authorized |-> ok, receipt |-> receipt]
<1>4. /\ approvals' = approvals \union Collected(q, d)
      /\ receipts' = [receipts EXCEPT ![k] = receipt]
      /\ run' = [run EXCEPT ![r] = held]
      /\ UNCHANGED <<now, trusted, claims>>
  BY <1>1, <1>2, <1>3 DEF RunGovernedPublish
<1>5. TypeOK
  BY DEF Ind
<1>6. /\ d \in Decision /\ d.evaluatedAt = now
      /\ ok \in BOOLEAN
      /\ ok => Authorised(d, now)'
      /\ Collected(q, d) \subseteq Approval
  BY <1>1, <1>2, <1>5, RunnerFacts
<1>7. p \in Proposals /\ now \in 0..MaxTime /\ now \in Nat
  BY <1>5, RequestsAssumption, BoundsAssumption DEF TypeOK
<1> HIDE DEF p
<1>8. built \in Receipt
  BY <1>6, <1>7 DEF Receipt, ReceiptStatus
<1>9. receipt \in Receipt /\ (receipts[k] # None => receipt = receipts[k])
  BY <1>3, <1>5, <1>8 DEF TypeOK
<1>10. receipt.key = k /\ receipt.executedAt <= now
  <2>1. built.key = k /\ built.executedAt <= now
    BY <1>7
  <2> QED
    BY <2>1, <1>3 DEF Ind, ReceiptInv
<1>11. receipt.status = "executed" =>
        /\ receipt.decision.failed = {}
        /\ Authorised(receipt.decision, receipt.executedAt)'
  <2>1. CASE receipts[k] # None
    <3>1. receipt.status = "executed" =>
            /\ receipt.decision.failed = {}
            /\ Authorised(receipt.decision, receipt.executedAt)
      BY <2>1, <1>9 DEF Ind, ExecutedIsAuthorised
    <3>2. receipt.decision \in Decision /\ receipt.executedAt \in Nat
      BY <1>9, BoundsAssumption DEF Receipt
    <3> QED
      BY <3>1, <3>2, <1>4, AuthorityStable
  <2>2. CASE receipts[k] = None /\ ok
    <3>1. d.decision # "BLOCK"
      BY <2>2, <1>6 DEF Authorised
    <3>2. d.failed = {}
      BY <3>1, <1>6, DecisionFacts
    <3>3. receipt.decision = d /\ receipt.executedAt = now'
      BY <2>2, <1>3, <1>4
    <3>4. Authorised(d, now)'
      BY <2>2, <1>6
    <3> QED
      BY <3>2, <3>3, <3>4 DEF Authorised, ApprovalStands
  <2>3. CASE receipts[k] = None /\ ~ok
    BY <2>3, <1>3 DEF ReceiptStatus
  <2> QED
    BY <1>6, <2>1, <2>2, <2>3
<1>12. held \in RunState
  BY <1>6, <1>7, <1>9 DEF RunState
<1>13. /\ held.stage = "done" /\ held.decision = d /\ held.authorized = ok
       /\ held.receipt = receipt
  OBVIOUS
<1> HIDE DEF held, built
<1>14. /\ run'[r] = held /\ \A s \in Runs \ {r} : run'[s] = run[s]
       /\ receipts'[k] = receipt /\ \A j \in IdemKeys \ {k} : receipts'[j] = receipts[j]
  BY <1>4, <1>5 DEF TypeOK
<1>15. TypeOK'
  BY <1>4, <1>5, <1>6, <1>9, <1>12 DEF TypeOK
<1>16. ASSUME NEW s \in Runs, run'[s].stage # "idle"
       PROVE  /\ run'[s].decision.evaluatedAt <= now'
              /\ run'[s].authorized => \A e : e = run'[s].decision => Authorised(e, now)'
  <2>1. CASE s = r
    BY <2>1, <1>4, <1>6, <1>7, <1>13, <1>14
  <2>2. CASE s # r
    <3>1. run'[s] = run[s] /\ run[s].stage # "idle"
      BY <2>2, <1>14, <1>16
    <3>2. PICK e : e = run[s].decision
      OBVIOUS
    <3>3. e.evaluatedAt <= now /\ (run[s].authorized => Authorised(e, now))
      BY <3>1, <3>2 DEF Ind, RunInv
    <3>4. e \in Decision
      BY <3>1, <3>2, <1>5, ActiveRun
    <3>5. PICK t : t = now
      OBVIOUS
    <3>6. run[s].authorized => Authorised(e, t)'
      BY <3>3, <3>4, <3>5, <1>4, <1>7, AuthorityStable
    <3>7. Authorised(e, t)' => Authorised(e, now)'
      BY <3>5, <1>4 DEF Authorised
    <3> QED
      BY <3>1, <3>2, <3>3, <3>6, <3>7, <1>4
  <2> QED
    BY <2>1, <2>2
<1>17. ReceiptInv'
  BY <1>4, <1>10, <1>14 DEF Ind, ReceiptInv
<1>18. HeldInv'
  <2> SUFFICES ASSUME NEW s \in Runs, run'[s].receipt # None
               PROVE  /\ run'[s].receipt.key \in IdemKeys
                      /\ receipts'[run'[s].receipt.key] = run'[s].receipt
    BY DEF HeldInv
  <2>1. CASE s = r
    BY <2>1, <1>10, <1>13, <1>14
  <2>2. CASE s # r
    BY <2>2, <1>9, <1>14 DEF Ind, HeldInv
  <2> QED
    BY <2>1, <2>2
<1>19. ASSUME NEW j \in IdemKeys, NEW e, e = receipts'[j], e # None, e.status = "executed"
       PROVE  /\ e.decision.failed = {}
              /\ Authorised(e.decision, e.executedAt)'
  <2>1. CASE j = k
    BY <2>1, <1>11, <1>14, <1>19
  <2>2. CASE j # k
    <3>1. e = receipts[j]
      BY <2>2, <1>14, <1>19
    <3>2. e.decision.failed = {} /\ Authorised(e.decision, e.executedAt)
      BY <3>1, <1>19 DEF Ind, ExecutedIsAuthorised
    <3>3. e.decision \in Decision /\ e.executedAt \in Nat
      <4>1. e \in Receipt
        BY <3>1, <1>5, <1>19 DEF TypeOK
      <4> QED
        BY <4>1, BoundsAssumption DEF Receipt
    <3> QED
      BY <3>2, <3>3, <1>4, AuthorityStable
  <2> QED
    BY <2>1, <2>2
<1>20. RunInv'
  BY <1>16 DEF RunInv, Authorised, ApprovalStands
<1>21. ExecutedIsAuthorised'
  BY <1>19 DEF ExecutedIsAuthorised, Authorised, ApprovalStands
<1> QED
  BY <1>15, <1>17, <1>18, <1>20, <1>21 DEF Ind

LEMMA NextWithRunnerInd == Ind /\ [NextWithRunner]_vars => Ind'
BY NextInd, RunnerInd DEF NextWithRunner

-----------------------------------------------------------------------------
\* Without the runner the loop is one behaviour of the specification with it.
LEMMA RunnerAdds == Spec => SpecWithRunner
<1>1. [Next]_vars => [NextWithRunner]_vars
  BY DEF NextWithRunner
<1> QED
  BY <1>1, PTL DEF Spec, SpecWithRunner

LEMMA IndInvariant == SpecWithRunner => []Ind
BY InitInd, NextWithRunnerInd, PTL DEF SpecWithRunner

\* The values of the loop stay within their types (TypeOK of Governance).
THEOREM TypeCorrect == SpecWithRunner => []TypeOK
<1>1. Ind => TypeOK
  BY DEF Ind
<1> QED
  BY <1>1, IndInvariant, PTL

\* Every executed receipt was authorised under a decision with no failed check: the
\* promise of execution.ts:8-14 for claims that state a trusted key id, for every
\* instance.
THEOREM OnlyAuthorisedExecutes == SpecWithRunner => []ExecutedIsAuthorised
<1>1. Ind => ExecutedIsAuthorised
  BY DEF Ind
<1> QED
  BY <1>1, IndInvariant, PTL

\* Where claims carry the keys they state and agents' keys are their own, what an agent
\* proposed was approved with another, trusted key: from ExecutedIsAuthorised and the
\* engine never answering ALLOW to an agent (policy.ts:211, execution.ts:102-129).
THEOREM AgentsNeverSuffice == SpecWithRunner => []AgentNeedsAnotherKey
<1>1. Ind => AgentNeedsAnotherKey
  <2> SUFFICES ASSUME Ind, KeysAsStated, AgentsKeptApart,
                      NEW k \in IdemKeys, receipts[k] # None,
                      receipts[k].status = "executed", receipts[k].decision.principalIsAgent
               PROVE  \E a \in approvals :
                        /\ a.decision = receipts[k].decision
                        /\ a.signedBy \in trusted \ AgentKeys
    BY DEF AgentNeedsAnotherKey
  <2>1. receipts[k].decision \in Decision
    BY DEF Ind, TypeOK, Receipt
  <2>2. Authorised(receipts[k].decision, receipts[k].executedAt)
    BY DEF Ind, ExecutedIsAuthorised
  <2>3. PICK t \in receipts[k].decision.evaluatedAt..receipts[k].executedAt :
          ApprovalStands(receipts[k].decision, t)
    BY <2>1, <2>2, DecisionFacts DEF Authorised
  <2>4. PICK a \in approvals, c \in claims :
          Accepts(a, receipts[k].decision, c, trusted, t)
    BY <2>3 DEF ApprovalStands
  <2>5. /\ a.decision = receipts[k].decision
        /\ c.subjectType # "agent" /\ c.keyId \in trusted /\ a.signedBy = c.key
    BY <2>4 DEF Accepts, SignerTrusted
  <2>6. c.key \in trusted /\ c.key \notin AgentKeys
    BY <2>5 DEF KeysAsStated, AgentsKeptApart
  <2> QED
    BY <2>5, <2>6
<1> QED
  BY <1>1, IndInvariant, PTL

\* Every caller of one idempotency key ends with the same receipt.
THEOREM IdempotentReceipts == SpecWithRunner => []OneReceiptPerKey
<1>1. Ind => OneReceiptPerKey
  BY DEF Ind, HeldInv, OneReceiptPerKey
<1> QED
  BY <1>1, IndInvariant, PTL

\* Whoever the runner tells of a publication is told of an authorised one, though the
\* receipt may be an earlier call's for another proposal (publish.ts:97-130).
THEOREM TellsOfPermittedOnly == SpecWithRunner => []PublishedWasPermitted
<1>1. Ind => PublishedWasPermitted
  <2> SUFFICES ASSUME Ind, NEW r \in Runs, run[r].receipt # None,
                      run[r].receipt.status = "executed"
               PROVE  /\ run[r].receipt.decision.failed = {}
                      /\ Authorised(run[r].receipt.decision, run[r].receipt.executedAt)
    BY DEF PublishedWasPermitted
  <2>1. PICK k \in IdemKeys : receipts[k] = run[r].receipt
    BY DEF Ind, HeldInv
  <2> QED
    BY <2>1 DEF Ind, ExecutedIsAuthorised
<1> QED
  BY <1>1, IndInvariant, PTL

(***************************************************************************)
(* The policy engine by itself: how its verdict moves when its inputs do   *)
(* (PolicyReview), for any proposals, records, keys and platforms.  The    *)
(* engine keeps no state, so this is a matter of comparing two inputs: one *)
(* that passes each check the other passes, with no more points, is not    *)
(* judged more strictly (NoHarder).                                        *)
(***************************************************************************)
\* The six mandatory checks, one by one (policy.ts:88-167).
LEMMA FailedChecks ==
  ASSUME NEW p, NEW ts, NEW t
  PROVE  /\ Failed(p, ts, t) \subseteq {"identity", "tenant_isolation",
              "passport_signature", "provenance", "rights", "ai_disclosure"}
         /\ "identity" \in Failed(p, ts, t) <=>
              ~ /\ ClaimValid(p.identity, t)
                /\ p.identity.tenantId = p.tenantId
                /\ HasScope(p.identity, "publish:propose")
         /\ "tenant_isolation" \in Failed(p, ts, t) <=> p.passport.tenantId # p.tenantId
         /\ "passport_signature" \in Failed(p, ts, t) <=>
              ~ /\ p.passport.sigValid
                /\ p.passport.keyId \in ts
                /\ ~p.passport.revoked
         /\ "provenance" \in Failed(p, ts, t) <=> p.asset # p.passport.digest
         /\ "rights" \in Failed(p, ts, t) <=>
              BlockedKinds(p.passport.rights, p.requirement, t) # {}
         /\ "ai_disclosure" \in Failed(p, ts, t) <=>
              \/ p.passport.ai = "unknown"
              \/ DisclosureRequired(p.passport.ai) /\ ~p.aiDisclosed
BY DEF Failed

LEMMA RiskType == ASSUME NEW p PROVE Risk(p) \in Int
BY DEF Risk, Factor

\* How strict the engine is with these inputs.
Severity(p, ts, t) == Strictness(Decide(p, ts, t))

LEMMA SeverityType == ASSUME NEW p, NEW ts, NEW t PROVE Severity(p, ts, t) \in Int
BY DEF Severity, Strictness

\* The inputs q, us, u pass every check that p, ts, t pass, with no more points.
PassesAll(q, us, u, p, ts, t) ==
  /\ ClaimValid(p.identity, t) => ClaimValid(q.identity, u)
  /\ p.identity.tenantId = p.tenantId => q.identity.tenantId = q.tenantId
  /\ HasScope(p.identity, "publish:propose")
       => HasScope(q.identity, "publish:propose")
  /\ p.passport.tenantId = p.tenantId => q.passport.tenantId = q.tenantId
  /\ p.passport.sigValid /\ p.passport.keyId \in ts /\ ~p.passport.revoked
       => q.passport.sigValid /\ q.passport.keyId \in us /\ ~q.passport.revoked
  /\ p.asset = p.passport.digest => q.asset = q.passport.digest
  /\ BlockedKinds(q.passport.rights, q.requirement, u)
       \subseteq BlockedKinds(p.passport.rights, p.requirement, t)
  /\ q.passport.ai = p.passport.ai
  /\ p.aiDisclosed => q.aiDisclosed
  /\ Risk(q) <= Risk(p)
  /\ IsAgent(q) <=> IsAgent(p)

\* The verdict is monotone in the checks and the points (policy.ts:206-216).
LEMMA NoHarder ==
  ASSUME NEW p, NEW ts, NEW t, NEW q, NEW us, NEW u, PassesAll(q, us, u, p, ts, t)
  PROVE  Severity(q, us, u) <= Severity(p, ts, t)
<1>1. ASSUME Failed(p, ts, t) = {}
      PROVE  Failed(q, us, u) = {}
  <2>1. /\ "identity" \notin Failed(q, us, u)
        /\ "tenant_isolation" \notin Failed(q, us, u)
    BY <1>1, FailedChecks DEF PassesAll
  <2>2. "passport_signature" \notin Failed(q, us, u)
    BY <1>1, FailedChecks DEF PassesAll
  <2>3. "provenance" \notin Failed(q, us, u)
    BY <1>1, FailedChecks DEF PassesAll
  <2>4. "rights" \notin Failed(q, us, u)
    BY <1>1, FailedChecks DEF PassesAll
  <2>5. "ai_disclosure" \notin Failed(q, us, u)
    BY <1>1, FailedChecks DEF PassesAll
  <2>6. Failed(q, us, u) \subseteq {"identity", "tenant_isolation",
           "passport_signature", "provenance", "rights", "ai_disclosure"}
    BY FailedChecks
  <2> QED
    BY <2>1, <2>2, <2>3, <2>4, <2>5, <2>6
<1>2. Risk(q) >= 3 => Risk(p) >= 3
  BY RiskType DEF PassesAll
<1>3. CASE Failed(p, ts, t) # {}
  BY <1>3 DEF Severity, Decide, Strictness
<1>4. CASE Failed(p, ts, t) = {}
  BY <1>1, <1>2, <1>4
     DEF PassesAll, Severity, Decide, Strictness, ApprovalThreshold
<1> QED
  BY <1>3, <1>4

\* What does not apply now does not apply later (rights.ts:23-40).
LEMMA LapsedStaysLapsed ==
  ASSUME NEW r, IsRightsRecord(r), NEW req, NEW t \in Nat, NEW u \in Nat, t <= u,
         Applicable(r, req, u)
  PROVE  Applicable(r, req, t)
<1>1. Past(r.revokedAt, t) => Past(r.revokedAt, u)
  BY NoneAssumption DEF Past, IsRightsRecord
<1>2. Past(r.expiresAt, t) => Past(r.expiresAt, u)
  BY NoneAssumption DEF Past, IsRightsRecord
<1> QED
  BY <1>1, <1>2 DEF Applicable

\* Time only hardens.
LEMMA TimeHardens ==
  ASSUME NEW p, IsPolicyInput(p), NEW ts, NEW t \in Nat, NEW u \in Nat, t <= u
  PROVE  Severity(p, ts, t) <= Severity(p, ts, u)
<1>1. ClaimValid(p.identity, u) => ClaimValid(p.identity, t)
  BY NoneAssumption DEF ClaimValid, Past, IsPolicyInput
<1>2. \A r \in p.passport.rights :
        Applicable(r, p.requirement, u) => Applicable(r, p.requirement, t)
  BY LapsedStaysLapsed DEF IsPolicyInput
<1>3. BlockedKinds(p.passport.rights, p.requirement, t)
        \subseteq BlockedKinds(p.passport.rights, p.requirement, u)
  BY <1>2 DEF BlockedKinds
<1>4. Risk(p) <= Risk(p)
  BY RiskType
<1>5. PassesAll(p, ts, t, p, ts, u)
  BY <1>1, <1>3, <1>4 DEF PassesAll
<1> QED
  BY <1>5, NoHarder

\* More rights records, whatever they say, only relax.
LEMMA EvidenceRelaxes ==
  ASSUME NEW p, IsPolicyInput(p), NEW S, p.passport.rights \subseteq S, NEW ts, NEW t
  PROVE  Severity([p EXCEPT !.passport.rights = S], ts, t) <= Severity(p, ts, t)
<1> DEFINE q == [p EXCEPT !.passport.rights = S]
<1>1. /\ q.passport = [p.passport EXCEPT !.rights = S]
      /\ q.tenantId = p.tenantId /\ q.identity = p.identity /\ q.asset = p.asset
      /\ q.audience = p.audience /\ q.requirement = p.requirement
      /\ q.aiDisclosed = p.aiDisclosed /\ q.regulated = p.regulated /\ q.political = p.political
  BY DEF IsPolicyInput
<1>2. /\ q.passport.rights = S
      /\ q.passport.tenantId = p.passport.tenantId /\ q.passport.digest = p.passport.digest
      /\ q.passport.ai = p.passport.ai /\ q.passport.sigValid = p.passport.sigValid
      /\ q.passport.keyId = p.passport.keyId /\ q.passport.revoked = p.passport.revoked
  BY <1>1 DEF IsPolicyInput
<1> HIDE DEF q
<1>3. BlockedKinds(q.passport.rights, q.requirement, t)
        \subseteq BlockedKinds(p.passport.rights, p.requirement, t)
  BY <1>1, <1>2 DEF BlockedKinds
<1>5. Risk(q) = Risk(p) /\ (IsAgent(q) <=> IsAgent(p))
  BY <1>1, <1>2 DEF Risk, Factor, IsAgent
<1>6. Risk(q) <= Risk(p)
  BY <1>5, RiskType
<1>7. PassesAll(q, ts, t, p, ts, t)
  BY <1>1, <1>2, <1>3, <1>5, <1>6 DEF PassesAll
<1> QED
  BY <1>7, NoHarder DEF q

\* More trusted keys only relax.
LEMMA TrustRelaxes ==
  ASSUME NEW p, NEW ts, NEW us, ts \subseteq us, NEW t
  PROVE  Severity(p, us, t) <= Severity(p, ts, t)
<1>1. Risk(p) <= Risk(p)
  BY RiskType
<1>2. PassesAll(p, us, t, p, ts, t)
  BY <1>1 DEF PassesAll
<1> QED
  BY <1>2, NoHarder

\* The disclosure only relaxes.
LEMMA DisclosureRelaxes ==
  ASSUME NEW p, IsPolicyInput(p), NEW ts, NEW t
  PROVE  /\ Severity([p EXCEPT !.aiDisclosed = TRUE], ts, t) <= Severity(p, ts, t)
         /\ IsPolicyInput([p EXCEPT !.aiDisclosed = TRUE])
<1> DEFINE q == [p EXCEPT !.aiDisclosed = TRUE]
<1>1. /\ q.passport = p.passport /\ q.tenantId = p.tenantId /\ q.identity = p.identity
      /\ q.asset = p.asset /\ q.audience = p.audience /\ q.requirement = p.requirement
      /\ q.aiDisclosed /\ q.regulated = p.regulated /\ q.political = p.political
      /\ DOMAIN q = DOMAIN p
  BY DEF IsPolicyInput
<1> HIDE DEF q
<1>2. Risk(q) = Risk(p) /\ (IsAgent(q) <=> IsAgent(p))
  BY <1>1 DEF Risk, Factor, IsAgent
<1>3. Risk(q) <= Risk(p)
  BY <1>2, RiskType
<1>4. PassesAll(q, ts, t, p, ts, t)
  BY <1>1, <1>2, <1>3 DEF PassesAll
<1>5. IsPolicyInput(q)
  BY <1>1 DEF IsPolicyInput
<1> QED
  BY <1>4, <1>5, NoHarder DEF q

\* q is p for a use that is at least as wide or sensitive.
Wider(q, p) ==
  /\ q.tenantId = p.tenantId /\ q.identity = p.identity /\ q.passport = p.passport
  /\ q.asset = p.asset /\ q.aiDisclosed = p.aiDisclosed
  /\ q.audience \in {p.audience, "public"}
  /\ p.regulated => q.regulated
  /\ p.political => q.political
  /\ q.requirement.required = p.requirement.required
  /\ q.requirement.territory = p.requirement.territory
  /\ p.requirement.advertising => q.requirement.advertising
  /\ p.requirement.derivative => q.requirement.derivative
  /\ p.requirement.platform \in {None, q.requirement.platform}

LEMMA WiderUseHardens ==
  ASSUME NEW p, NEW q, Wider(q, p), NEW ts, NEW t
  PROVE  Severity(p, ts, t) <= Severity(q, ts, t)
<1>1. \A r : Applicable(r, q.requirement, t) => Applicable(r, p.requirement, t)
  BY DEF Wider, Applicable, Within
<1>2. BlockedKinds(p.passport.rights, p.requirement, t)
        \subseteq BlockedKinds(q.passport.rights, q.requirement, t)
  BY <1>1 DEF Wider, BlockedKinds
<1>3. IsAgent(q) <=> IsAgent(p)
  BY DEF Wider, IsAgent
<1>4. Risk(p) <= Risk(q)
  BY <1>3 DEF Wider, Risk, Factor
<1>5. PassesAll(p, ts, t, q, ts, t)
  BY <1>2, <1>3, <1>4 DEF PassesAll, Wider
<1> QED
  BY <1>5, NoHarder

\* A widened use is wider, and still an input the engine can read.
LEMMA EscalationFacts ==
  ASSUME NEW p, IsPolicyInput(p), NEW q,
         \/ q = [p EXCEPT !.audience = "public"]
         \/ q = [p EXCEPT !.requirement.advertising = TRUE]
         \/ q = [p EXCEPT !.requirement.derivative = TRUE]
         \/ q = [p EXCEPT !.regulated = TRUE]
         \/ q = [p EXCEPT !.political = TRUE]
         \/ /\ p.requirement.platform = None
            /\ \E site \in Platforms : q = [p EXCEPT !.requirement.platform = site]
  PROVE  Wider(q, p) /\ IsPolicyInput(q)
<1>1. CASE q = [p EXCEPT !.audience = "public"]
  BY <1>1 DEF Wider, IsPolicyInput
<1>2. CASE q = [p EXCEPT !.requirement.advertising = TRUE]
  BY <1>2 DEF Wider, IsPolicyInput
<1>3. CASE q = [p EXCEPT !.requirement.derivative = TRUE]
  BY <1>3 DEF Wider, IsPolicyInput
<1>4. CASE q = [p EXCEPT !.regulated = TRUE]
  BY <1>4 DEF Wider, IsPolicyInput
<1>5. CASE q = [p EXCEPT !.political = TRUE]
  BY <1>5 DEF Wider, IsPolicyInput
<1>6. ASSUME p.requirement.platform = None, NEW site \in Platforms,
             q = [p EXCEPT !.requirement.platform = site]
      PROVE  Wider(q, p) /\ IsPolicyInput(q)
  BY <1>6 DEF Wider, IsPolicyInput
<1> QED
  BY <1>1, <1>2, <1>3, <1>4, <1>5, <1>6

\* A revoked credential only hardens.
LEMMA RevocationHardens ==
  ASSUME NEW p, IsPolicyInput(p), NEW q, NEW ts, NEW t,
         \/ q = [p EXCEPT !.passport.revoked = TRUE]
         \/ q = [p EXCEPT !.identity = RevokedClaim(p.identity, p.identity.key)]
  PROVE  Severity(p, ts, t) <= Severity(q, ts, t) /\ IsPolicyInput(q)
<1>0. Risk(p) <= Risk(p)
  BY RiskType
<1>1. CASE q = [p EXCEPT !.passport.revoked = TRUE]
  <2>1. /\ q.passport = [p.passport EXCEPT !.revoked = TRUE]
        /\ q.tenantId = p.tenantId /\ q.identity = p.identity /\ q.asset = p.asset
        /\ q.audience = p.audience /\ q.requirement = p.requirement
        /\ q.aiDisclosed = p.aiDisclosed /\ q.regulated = p.regulated /\ q.political = p.political
        /\ DOMAIN q = DOMAIN p
    BY <1>1 DEF IsPolicyInput
  <2>2. /\ q.passport.rights = p.passport.rights
        /\ q.passport.tenantId = p.passport.tenantId /\ q.passport.digest = p.passport.digest
        /\ q.passport.ai = p.passport.ai
        /\ q.passport.revoked
        /\ DOMAIN q.passport = DOMAIN p.passport
    BY <2>1 DEF IsPolicyInput
  <2>3. Risk(q) = Risk(p) /\ (IsAgent(q) <=> IsAgent(p))
    BY <2>1, <2>2 DEF Risk, Factor, IsAgent
  <2>4. PassesAll(p, ts, t, q, ts, t)
    BY <1>0, <2>1, <2>2, <2>3 DEF PassesAll
  <2>5. IsPolicyInput(q)
    BY <2>1, <2>2 DEF IsPolicyInput
  <2> QED
    BY <2>4, <2>5, NoHarder
<1>2. CASE q = [p EXCEPT !.identity = RevokedClaim(p.identity, p.identity.key)]
  <2>1. /\ q.passport = p.passport
        /\ q.tenantId = p.tenantId /\ q.asset = p.asset
        /\ q.audience = p.audience /\ q.requirement = p.requirement
        /\ q.aiDisclosed = p.aiDisclosed /\ q.regulated = p.regulated /\ q.political = p.political
        /\ q.identity = RevokedClaim(p.identity, p.identity.key)
        /\ DOMAIN q = DOMAIN p
    BY <1>2 DEF IsPolicyInput
  <2>2. /\ q.identity.revoked /\ q.identity.subjectType = p.identity.subjectType
        /\ q.identity.expiresAt = p.identity.expiresAt
        /\ DOMAIN q.identity = DOMAIN p.identity
        /\ q.identity.tenantId = p.identity.tenantId
        /\ q.identity.scopes = p.identity.scopes
    BY <2>1 DEF IsPolicyInput, RevokedClaim
  <2>3. Risk(q) = Risk(p) /\ (IsAgent(q) <=> IsAgent(p))
    BY <2>1, <2>2 DEF Risk, Factor, IsAgent
  <2>4. ~ClaimValid(q.identity, t)
    BY <2>2 DEF ClaimValid
  <2>5. PassesAll(p, ts, t, q, ts, t)
    BY <1>0, <2>1, <2>2, <2>3, <2>4 DEF PassesAll, HasScope
  <2>6. IsPolicyInput(q)
    BY <2>1, <2>2 DEF IsPolicyInput
  <2> QED
    BY <2>5, <2>6, NoHarder
<1> QED
  BY <1>1, <1>2

\* Replacing the records of a passport keeps everything else, and the shape if the
\* records have it.
LEMMA ReplacedRights ==
  ASSUME NEW p, IsPolicyInput(p), NEW S, \A r \in S : IsRightsRecord(r)
  PROVE  IsPolicyInput([p EXCEPT !.passport.rights = S])
<1> DEFINE q == [p EXCEPT !.passport.rights = S]
<1>1. /\ q.passport = [p.passport EXCEPT !.rights = S]
      /\ q.identity = p.identity /\ q.requirement = p.requirement
      /\ DOMAIN q = DOMAIN p
  BY DEF IsPolicyInput
<1>2. q.passport.rights = S /\ DOMAIN q.passport = DOMAIN p.passport
  BY <1>1 DEF IsPolicyInput
<1> HIDE DEF q
<1>3. IsPolicyInput(q)
  BY <1>1, <1>2 DEF IsPolicyInput
<1> QED
  BY <1>3 DEF q

\* Withdrawing or disputing a record only hardens: what replaces it never applies.
LEMMA WithdrawalHardens ==
  ASSUME NEW p, IsPolicyInput(p), NEW r \in p.passport.rights, NEW w, NEW ts,
         NEW t \in Nat,
         w \in {[r EXCEPT !.revokedAt = t], [r EXCEPT !.disputed = TRUE]},
         NEW q, q = [p EXCEPT !.passport.rights = (@ \ {r}) \union {w}]
  PROVE  Severity(p, ts, t) <= Severity(q, ts, t) /\ IsPolicyInput(q)
<1> DEFINE S == (p.passport.rights \ {r}) \union {w}
<1>1. q = [p EXCEPT !.passport.rights = S]
  OBVIOUS
<1>2. IsRightsRecord(r)
  BY DEF IsPolicyInput
<1>3. IsRightsRecord(w) /\ (w.disputed \/ w.revokedAt = t)
  BY <1>2 DEF IsRightsRecord
<1>4. IsPolicyInput(q)
  <2>1. \A x \in S : IsRightsRecord(x)
    BY <1>3 DEF IsPolicyInput
  <2> HIDE DEF S
  <2> QED
    BY <1>1, <2>1, ReplacedRights
<1>5. \A req : ~Applicable(w, req, t)
  BY <1>3, NoneAssumption DEF Applicable, Past
<1>6. /\ q.passport = [p.passport EXCEPT !.rights = S]
      /\ q.tenantId = p.tenantId /\ q.identity = p.identity /\ q.asset = p.asset
      /\ q.audience = p.audience /\ q.requirement = p.requirement
      /\ q.aiDisclosed = p.aiDisclosed /\ q.regulated = p.regulated /\ q.political = p.political
  BY <1>1 DEF IsPolicyInput
<1>7. /\ q.passport.rights = S
      /\ q.passport.tenantId = p.passport.tenantId /\ q.passport.digest = p.passport.digest
      /\ q.passport.ai = p.passport.ai /\ q.passport.sigValid = p.passport.sigValid
      /\ q.passport.keyId = p.passport.keyId /\ q.passport.revoked = p.passport.revoked
  BY <1>6 DEF IsPolicyInput
<1>8. BlockedKinds(p.passport.rights, p.requirement, t)
        \subseteq BlockedKinds(q.passport.rights, q.requirement, t)
  BY <1>5, <1>6, <1>7 DEF BlockedKinds
<1>9. Risk(q) = Risk(p) /\ (IsAgent(q) <=> IsAgent(p))
  BY <1>6, <1>7 DEF Risk, Factor, IsAgent
<1>10. Risk(p) <= Risk(q)
  BY <1>9, RiskType
<1>11. PassesAll(p, ts, t, q, ts, t)
  BY <1>6, <1>7, <1>8, <1>9, <1>10 DEF PassesAll
<1> QED
  BY <1>4, <1>11, NoHarder

-----------------------------------------------------------------------------
\* The engine can read its inputs, whatever the edits.
Readable == clock \in Nat /\ IsPolicyInput(proposal)

LEMMA StepHardensOrRelieves ==
  ASSUME Readable, ReviewNext
  PROVE  /\ Readable'
         /\ \/ Relief
            \/ Severity(proposal, trustStore, clock) <= Severity(proposal, trustStore, clock)'
<1> USE DEF Readable
<1>0. IsPolicyInput(proposal) /\ clock \in Nat
  OBVIOUS
<1>1. ASSUME TimePasses
      PROVE  /\ Readable'
             /\ Severity(proposal, trustStore, clock) <= Severity(proposal, trustStore, clock)'
  <2>1. clock' = clock + 1 /\ proposal' = proposal /\ trustStore' = trustStore
    BY <1>1 DEF TimePasses
  <2>2. clock' \in Nat /\ clock <= clock'
    BY <2>1
  <2> QED
    BY <2>1, <2>2, TimeHardens
<1>2. ASSUME NEW r \in RightsPool, AssertRight(r)
      PROVE  Readable' /\ Relief
  <2>1. /\ proposal' = [proposal EXCEPT !.passport.rights = proposal.passport.rights \union {r}]
        /\ trustStore' = trustStore /\ clock' = clock
    BY <1>2 DEF AssertRight
  <2>2. \A x \in proposal.passport.rights \union {r} : IsRightsRecord(x)
    BY InputsAssumption DEF IsPolicyInput
  <2>3. IsPolicyInput(proposal')
    <3> DEFINE S == proposal.passport.rights \union {r}
    <3>1. proposal' = [proposal EXCEPT !.passport.rights = S]
      BY <2>1
    <3> HIDE DEF S
    <3>2. \A x \in S : IsRightsRecord(x)
      BY <2>2 DEF S
    <3> QED
      BY <3>1, <3>2, ReplacedRights
  <2>4. proposal'.passport.rights = proposal.passport.rights \union {r}
    BY <2>1 DEF IsPolicyInput
  <2> QED
    BY <2>1, <2>3, <2>4 DEF Relief
<1>3. ASSUME NEW r \in proposal.passport.rights, WithdrawRight(r)
      PROVE  /\ Readable'
             /\ Severity(proposal, trustStore, clock) <= Severity(proposal, trustStore, clock)'
  <2>1. /\ trustStore' = trustStore /\ clock' = clock
        /\ \E w \in {[r EXCEPT !.revokedAt = clock], [r EXCEPT !.disputed = TRUE]} :
             proposal' = [proposal EXCEPT !.passport.rights = (@ \ {r}) \union {w}]
    BY <1>3 DEF WithdrawRight
  <2>2. Severity(proposal, trustStore, clock) <= Severity(proposal', trustStore, clock)
        /\ IsPolicyInput(proposal')
    BY <2>1, WithdrawalHardens
  <2> QED
    BY <2>1, <2>2
<1>4. ASSUME RevokeCredential
      PROVE  /\ Readable'
             /\ Severity(proposal, trustStore, clock) <= Severity(proposal, trustStore, clock)'
  <2>1. /\ trustStore' = trustStore /\ clock' = clock
        /\ \/ proposal' = [proposal EXCEPT !.passport.revoked = TRUE]
           \/ proposal' = [proposal EXCEPT !.identity =
                             RevokedClaim(proposal.identity, proposal.identity.key)]
    BY <1>4 DEF RevokeCredential
  <2>2. Severity(proposal, trustStore, clock) <= Severity(proposal', trustStore, clock)
        /\ IsPolicyInput(proposal')
    BY <2>1, RevocationHardens
  <2> QED
    BY <2>1, <2>2
<1>5. ASSUME NEW key \in KeyIds, AddTrusted(key)
      PROVE  Readable' /\ Relief
  BY <1>5 DEF AddTrusted, Relief
<1>6. ASSUME Escalate
      PROVE  /\ Readable'
             /\ Severity(proposal, trustStore, clock) <= Severity(proposal, trustStore, clock)'
  <2>1. trustStore' = trustStore /\ clock' = clock
    BY <1>6 DEF Escalate
  <2>2. Wider(proposal', proposal) /\ IsPolicyInput(proposal')
    BY <1>6, EscalationFacts DEF Escalate
  <2>3. Severity(proposal, trustStore, clock) <= Severity(proposal', trustStore, clock)
    BY <2>2, WiderUseHardens
  <2> QED
    BY <2>1, <2>2, <2>3
<1>7. ASSUME Disclose
      PROVE  Readable' /\ Relief
  BY <1>7, DisclosureRelaxes DEF Disclose, Relief
<1> QED
  BY <1>1, <1>2, <1>3, <1>4, <1>5, <1>6, <1>7 DEF ReviewNext

LEMMA ReadableAlways == ReviewSpec => []Readable
<1>1. ReviewInit => Readable
  BY InputsAssumption DEF ReviewInit, Readable
<1>2. Readable /\ [ReviewNext]_reviewVars => Readable'
  BY StepHardensOrRelieves DEF reviewVars, Readable
<1> QED
  BY <1>1, <1>2, PTL DEF ReviewSpec

\* Whatever the proposal, the records and the order of edits: only evidence, trust or a
\* disclosure makes the engine more lenient (policy.ts, rights.ts, identity.ts).
THEOREM OnlyReliefMakesLenient == ReviewSpec => OnlyReliefRelaxes
<1>1. Readable /\ [ReviewNext]_reviewVars =>
        [Strictness(Verdict') < Strictness(Verdict)
           => Relief]_reviewVars
  <2> SUFFICES ASSUME Readable, ReviewNext,
                      Strictness(Verdict') < Strictness(Verdict),
                      ~Relief
               PROVE  FALSE
    OBVIOUS
  <2>1. Severity(proposal, trustStore, clock) <= Severity(proposal, trustStore, clock)'
    BY StepHardensOrRelieves
  <2>2. /\ Severity(proposal, trustStore, clock) = Strictness(Verdict)
        /\ Severity(proposal, trustStore, clock)' = Strictness(Verdict')
    BY DEF Severity, Verdict
  <2>3. Severity(proposal, trustStore, clock) \in Int /\ Severity(proposal', trustStore', clock') \in Int
    BY SeverityType
  <2> QED
    BY <2>1, <2>2, <2>3
<1> QED
  BY <1>1, ReadableAlways, PTL DEF ReviewSpec, OnlyReliefRelaxes

\* Evidence, trust and disclosure never make it stricter: the record of a kind that
\* applies is enough, whatever others say (rights.ts evaluateRights).
THEOREM ReliefIsNeverPunished == ReviewSpec => ReliefNeverHardens
<1>1. Readable /\ [ReviewNext]_reviewVars =>
        [Relief
           => Strictness(Verdict') <= Strictness(Verdict)]_reviewVars
  <2> SUFFICES ASSUME Readable, Relief
               PROVE  Severity(proposal', trustStore', clock') <= Severity(proposal, trustStore, clock)
    BY DEF Severity, Verdict
  <2>1. CASE /\ proposal.passport.rights \subseteq proposal'.passport.rights
             /\ proposal' = [proposal EXCEPT !.passport.rights = proposal'.passport.rights]
             /\ UNCHANGED <<trustStore, clock>>
    <3> DEFINE S == proposal'.passport.rights
    <3>1. /\ proposal.passport.rights \subseteq S
          /\ proposal' = [proposal EXCEPT !.passport.rights = S]
          /\ trustStore' = trustStore /\ clock' = clock
      BY <2>1
    <3> HIDE DEF S
    <3>2. Severity([proposal EXCEPT !.passport.rights = S], trustStore, clock)
            <= Severity(proposal, trustStore, clock)
      BY <3>1, EvidenceRelaxes DEF Readable
    <3> QED
      BY <3>1, <3>2
  <2>2. CASE /\ trustStore \subseteq trustStore'
             /\ UNCHANGED <<proposal, clock>>
    BY <2>2, TrustRelaxes
  <2>3. CASE Disclose
    BY <2>3, DisclosureRelaxes DEF Disclose, Readable
  <2> QED
    BY <2>1, <2>2, <2>3 DEF Relief
<1> QED
  BY <1>1, ReadableAlways, PTL DEF ReviewSpec, ReliefNeverHardens

=============================================================================
