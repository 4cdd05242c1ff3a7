----------------------------- MODULE Governance -----------------------------
(***************************************************************************)
(* The governed control loop of @origentra/core:                           *)
(*   evaluatePolicy -> approve -> authorize -> adapter.execute             *)
(* with identities issued and revoked, keys trusted and time passing       *)
(* between any two of those calls.  Every call is synchronous; what it     *)
(* returns is held by the caller (a run) and handed to the next call, so a *)
(* run may act on a decision, an approval or an authorization that is old. *)
(*   packages/core/src/{identity,policy,execution}.ts                      *)
(***************************************************************************)
EXTENDS Authorization

CONSTANTS
  Identities,   \* identity ids
  Tenants,      \* tenant ids
  Keys,         \* signing keys, named by their key id
  Claims,       \* signed identity claims that may be issued or turn up
  Proposals,    \* the inputs given to evaluatePolicy
  Runs,         \* callers, each driving one proposal through the loop
  IdemKeys,     \* idempotency keys
  InitialClaims,\* the claims issued before the first run
  InitialTrust, \* the keys trusted before the first run
  MaxTime,      \* bound on the clock
  MaxClaims,    \* bound on the claims in circulation
  MaxApprovals  \* bound on the approvals signed

Scopes == {"asset:register", "publish:propose", "publish:approve"}

SignedIdentityClaim ==
  [identityId : Identities, tenantId : Tenants, subjectType : SubjectTypes,
   scopes : SUBSET Scopes, expiresAt : Nat \union {None}, revoked : BOOLEAN,
   keyId : Keys, key : Keys, sigValid : BOOLEAN]

ASSUME ClaimsAssumption == \A c \in Claims : c \in SignedIdentityClaim /\ ~c.revoked
ASSUME InitialAssumption == InitialClaims \subseteq Claims /\ InitialTrust \subseteq Keys
ASSUME BoundsAssumption == MaxTime \in Nat /\ MaxClaims \in Nat /\ MaxApprovals \in Nat

VARIABLES
  now,        \* the clock every call is given
  trusted,    \* the TrustStore
  claims,     \* identity claims in circulation; a revoked copy joins the original
  approvals,  \* signed approvals in circulation
  run,        \* what each caller holds
  receipts    \* SimulatedAdapter.receipts: idempotency key -> receipt

vars == <<now, trusted, claims, approvals, run, receipts>>

Idle == [stage |-> "idle", proposal |-> None, decision |-> None,
         authorized |-> FALSE, receipt |-> None]

Init ==
  /\ now = 0
  /\ trusted = InitialTrust
  /\ claims = InitialClaims
  /\ approvals = {}
  /\ run = [r \in Runs |-> Idle]
  /\ receipts = [k \in IdemKeys |-> None]

Tick ==
  /\ now < MaxTime
  /\ now' = now + 1
  /\ UNCHANGED <<trusted, claims, approvals, run, receipts>>

\* TrustStore.add
Trust(key) ==
  /\ trusted' = trusted \union {key}
  /\ UNCHANGED <<now, claims, approvals, run, receipts>>

\* issueIdentity: the claim states the id of the key it is signed with and carries.
IssueIdentity(c) ==
  /\ c.sigValid /\ c.keyId = c.key
  /\ Cardinality(claims \union {c}) <= MaxClaims
  /\ claims' = claims \union {c}
  /\ UNCHANGED <<now, trusted, approvals, run, receipts>>

\* A caller is handed a claim this library did not make: the key id it states and the
\* key it carries are what its author wrote.
ReceiveClaim(c) ==
  /\ Cardinality(claims \union {c}) <= MaxClaims
  /\ claims' = claims \union {c}
  /\ UNCHANGED <<now, trusted, approvals, run, receipts>>

\* revokeIdentity: whoever still holds the old claim can present it.
RevokeIdentity(c, issuer) ==
  /\ ~c.revoked
  /\ Cardinality(claims \union {RevokedClaim(c, issuer)}) <= MaxClaims
  /\ claims' = claims \union {RevokedClaim(c, issuer)}
  /\ UNCHANGED <<now, trusted, approvals, run, receipts>>

\* evaluatePolicy, on a proposal whose proposer presents a claim it was given.
Evaluate(r, p) ==
  /\ run[r].stage = "idle"
  /\ p.identity \in claims
  /\ run' = [run EXCEPT ![r] = [stage |-> "evaluated", proposal |-> p,
                                decision |-> EvaluatePolicy(p, trusted, now),
                                authorized |-> FALSE, receipt |-> None]]
  /\ UNCHANGED <<now, trusted, claims, approvals, receipts>>

\* approve: any claim can be named and any key can sign; nothing is checked here.
Approve(r, c, key) ==
  /\ run[r].stage = "evaluated"
  /\ LET a == [decision |-> run[r].decision, approver |-> c.identityId, signedBy |-> key]
     IN  /\ Cardinality(approvals \union {a}) <= MaxApprovals
         /\ approvals' = approvals \union {a}
  /\ UNCHANGED <<now, trusted, claims, run, receipts>>

\* authorize, on the approvals and the directory the caller chooses to supply.
Authorize(r, as, directory) ==
  /\ run[r].stage = "evaluated"
  /\ IsDirectory(directory)
  /\ run' = [run EXCEPT ![r] =
       [@ EXCEPT !.stage = "authorized",
                 !.authorized = AuthorizeVerdict(as, run[r].decision, directory, trusted, now)]]
  /\ UNCHANGED <<now, trusted, claims, approvals, receipts>>

\* buildReceipt, with the flag computed earlier.
BuildReceipt(r, k) ==
  [decision |-> run[r].decision, platform |-> run[r].proposal.platform,
   assetId |-> run[r].proposal.passport.assetId, key |-> k,
   status |-> ReceiptStatus(run[r].authorized), executedAt |-> now]

\* Seeded fault: the earlier receipt under the key is not looked up.
ExecuteAnew(r, k) ==
  /\ run[r].stage = "authorized"
  /\ receipts' = [receipts EXCEPT ![k] = BuildReceipt(r, k)]
  /\ run' = [run EXCEPT ![r] = [@ EXCEPT !.stage = "done", !.receipt = BuildReceipt(r, k)]]
  /\ UNCHANGED <<now, trusted, claims, approvals>>

\* SimulatedAdapter.execute: the first receipt for a key, of either status, is
\* stored and returned to every later call with that key.
Execute(r, k) ==
  /\ run[r].stage = "authorized"
  /\ LET receipt == IF receipts[k] # None THEN receipts[k] ELSE BuildReceipt(r, k)
     IN  /\ receipts' = [receipts EXCEPT ![k] = receipt]
         /\ run' = [run EXCEPT ![r] = [@ EXCEPT !.stage = "done", !.receipt = receipt]]
  /\ UNCHANGED <<now, trusted, claims, approvals>>

Next ==
  \/ Tick
  \/ \E key \in Keys : Trust(key)
  \/ \E c \in Claims : IssueIdentity(c) \/ ReceiveClaim(c)
  \/ \E c \in claims, key \in Keys : RevokeIdentity(c, key)
  \/ \E r \in Runs :
       \/ \E p \in Proposals : Evaluate(r, p)
       \/ \E c \in claims, key \in Keys : Approve(r, c, key)
       \/ \E as \in SUBSET approvals, directory \in SUBSET claims : Authorize(r, as, directory)
       \/ \E k \in IdemKeys : Execute(r, k)

Spec == Init /\ [][Next]_vars

(***************************************************************************)
(* Properties                                                              *)
(***************************************************************************)

Decision == {EvaluatePolicy(x[1], x[2], x[3]) : x \in Proposals \X (SUBSET Keys) \X (0..MaxTime)}

Approval == [decision : Decision, approver : Identities, signedBy : Keys]

Receipt == [decision : Decision, platform : {p.platform : p \in Proposals},
            assetId : {p.passport.assetId : p \in Proposals}, key : IdemKeys,
            status : {"executed", "blocked"}, executedAt : 0..MaxTime]

RunState ==
  {Idle} \union
  [stage : {"evaluated", "authorized", "done"}, proposal : Proposals, decision : Decision,
   authorized : BOOLEAN, receipt : Receipt \union {None}]

TypeOK ==
  /\ now \in 0..MaxTime
  /\ trusted \subseteq Keys
  /\ claims \subseteq SignedIdentityClaim
  /\ approvals \subseteq Approval
  /\ run \in [Runs -> RunState]
  /\ receipts \in [IdemKeys -> Receipt \union {None}]

\* What authorize establishes, at some moment up to `until` and after the decision
\* was made.
ApprovalStands(d, t) ==
  \E a \in approvals, c \in claims : Accepts(a, d, c, trusted, t)

Authorised(d, until) ==
  \/ d.decision = "ALLOW"
  \/ /\ d.decision = "REQUIRE_APPROVAL"
     /\ \E t \in d.evaluatedAt..until : ApprovalStands(d, t)

\* Every executed receipt an adapter holds is for a decision the engine really
\* made with every check passing, and, unless that decision was ALLOW, one for
\* which, at a moment between the decision and the execution, there was an approval
\* of that very decision, signed with the key carried by a claim of its approver
\* that was then unexpired and unrevoked, not an agent's, of the same tenant,
\* scoped, and stated a trusted key id (execution.ts:8-14, 86-129;
\* docs/THREAT-MODEL.md T6, T8).  It does not say that the key was a trusted one:
\* see AgentNeedsAnotherKey for what that takes.
ExecutedIsAuthorised ==
  \A k \in IdemKeys :
    receipts[k] # None /\ receipts[k].status = "executed" =>
      /\ receipts[k].decision.failed = {}
      /\ Authorised(receipts[k].decision, receipts[k].executedAt)

\* Every claim in circulation carries the key whose id it states.
KeysAsStated == \A c \in claims : c.keyId = c.key

\* The keys the claims of agents carry.
AgentKeys == {c.key : c \in {e \in claims : e.subjectType = "agent"}}

\* No other claim carries them: agents do not share keys with people.
AgentsKeptApart == \A c \in claims : c.subjectType # "agent" => c.key \notin AgentKeys

\* "Agents propose, humans authorise" (README; policy.ts line 211, execution.ts
\* lines 102-105), as far as signatures can show it: what an agent proposed and was
\* executed was approved with a trusted key that no agent's claim carries, even if the
\* agent holds publish:approve and its own key is trusted.  It takes two things the
\* code does not see to: that claims carry the keys whose ids they state, and that
\* agents' claims are signed with keys of their own (an approval is verified under
\* the key that signed the approver's claim).
AgentNeedsAnotherKey ==
  KeysAsStated /\ AgentsKeptApart =>
    \A k \in IdemKeys :
      receipts[k] # None /\ receipts[k].status = "executed"
        /\ receipts[k].decision.principalIsAgent =>
          \E a \in approvals :
            /\ a.decision = receipts[k].decision
            /\ a.signedBy \in trusted \ AgentKeys

\* All callers that used one idempotency key hold the same receipt, whatever
\* proposals they drove and in whatever order they ran (execution.ts:13-14,
\* docs/THREAT-MODEL.md T7).
OneReceiptPerKey ==
  \A r, s \in Runs :
    run[r].receipt # None /\ run[s].receipt # None /\ run[r].receipt.key = run[s].receipt.key =>
      run[r].receipt = run[s].receipt

=============================================================================
