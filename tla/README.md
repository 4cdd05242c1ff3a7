# Origentra: models, checks and proofs

TLA+ models of the parts of Origentra whose correctness depends on orders of events: who may
authorise what, what happens when a call is repeated, cut short or raced, and what a party that
trusts nobody else can still conclude. TLC checks each model on a small instance; for most of
them TLAPS proves the central properties for every value of the constants.

Contents: 1 the system, 2 modules and the code they model, 3 the runs, 4 bounds and fairness,
5 proofs, 6 disagreements between code and documents, 7 what is not modelled, 8 plan.

Paths below are relative to the repository root.

## 1. The system

Origentra decides, before content is published, whether it may be; publishes it through an
adapter; and keeps evidence that outsiders can check. It is a set of synchronous libraries
under `packages/`, small HTTP services and command-line programs under `apps/`.

| Part | State it keeps | Operations | Talks to |
| --- | --- | --- | --- |
| Identity, trust (`core/identity.ts`, `trust.ts`) | the ids of trusted keys; claims are signed documents held by whoever was given them | issue, revoke, verify, add a key | everything that verifies |
| Rights, policy (`core/rights.ts`, `policy.ts`) | none | `evaluateRights`, `evaluatePolicy` | reads claims, passport, trust store, clock |
| Authorization, receipts (`core/execution.ts`) | the adapter's receipts by idempotency key | `approve`, `authorize`, `buildReceipt`, `execute` | policy's decision record, adapters |
| Publish runner (`apps/publisher/publish.ts`) | none of its own | `runGovernedPublish` | all of the above in one call |
| Local adapter (`store/publish.ts`) | a file of published records, a directory of receipts, an index in memory | `execute`, `add`, reload | file system |
| HTTP adapter (`adapters/http-adapter.ts`, `token.ts`) | a cached token | `execute` with timeout, retries, back-off | a platform over the network |
| Transparency log (`transparency/log.ts`, `merkle.ts`) | leaf hashes in memory and in a file | append, checkpoint, proofs, reload | clients, witnesses |
| Witnesses, gossip (`transparency/witness.ts`, `gossip.ts`, `apps/witness`) | the last head each witness saw, in memory | cosign, distribute, audit | the log, each other's heads through an auditor |
| Revocations, public verifier (`transparency/revocation.ts`, `apps/verifier`) | what was read of two files at the start | verify a presented passport | files that other processes write |
| Enrolment (`enrolment/registry.ts`, `consent.ts`) | consents by subject, encrypted references, an index | record consent, enrol, withdraw, hand out | signed documents of subjects |
| Sentinel (`sentinel/exchange.ts`) | two trust stores, reports, appeals, adjudications, a log | submit, appeal, adjudicate, signals | signed statements |
| SCIM (`enterprise/scim.ts`, `apps/scim/server.ts`) | users, ids by user name, the identity of each user, a counter | create, look up and then patch, delete | HTTP clients of a directory |
| Detectors (`detectors/reuse.ts`, `av.ts`, `impersonation.ts`, `report.ts`) | an index of registered content or identities for each kind | register, detect, sign what was found | passports, Sentinel, linkage graph |
| Linkage graph (`sentinel/linkage.ts`) | a trust store, the links taken, neighbours by account | add a link, ask for a cluster | signed links |
| Event stream (`apps/dashboard`: `event-generator.ts`, `event-source.ts`, `events/route.ts`) | a file of events; the route's offset into it for each browser | append and cut down; connect, poll | two processes over one file |
| Not modelled (section 7) | manifests, anchor, SSO, legal holds, media fingerprints, user interface | | |

What is hard in it, and what would make each part correct:

* **Control loop.** Decision, approvals, authorization and receipt are plain values that callers
  carry from one call to the next. Between two calls claims are revoked, keys trusted, time
  passes. Correct: nothing is executed that was not authorised for that very decision; what an
  agent proposes takes an approval with another trusted key than its own, where claims carry the keys they
  state; all uses of an idempotency key see one receipt.
* **Policy.** A pure function, evaluated again and again. Correct: a decision is only ever
  relaxed by something that helps the proposer, and such a thing never hardens it.
* **Local adapter.** Three file operations in order, and the process may die in each.
  Correct: one receipt per key, what was receipted is served, content is written once.
* **HTTP adapter.** Requests outlive the attempt that sent them, and calls that find the cached token
  stale all ask for one. Correct: a receipt names a post that exists, at most one per key, each call
  ends, and no call takes a cached token that is dead.
* **Log and witnesses.** The log operator is not trusted. Correct: proofs exist for an
  honest log and for no other; what witnesses cosigned lies on one history each, so that two quorums for
  different histories take cosignatures they did not make; an honest log is not accused.
* **Verifier.** It works on old copies of files others write. Correct: it calls a signer trusted only when
  the key id stated is on a published record, takes nothing back, and a restart overlooks nothing.
* **Enrolment.** Documents arrive late and repeatedly. Correct: a withdrawn reference is gone for
  good and none is out of reach of a withdrawal.
* **Sentinel.** Anyone may appeal; statements under trusted key ids report and adjudicate in any order. Correct: a
  corroborated signal can be re-derived from the public log, what is overturned stays out, a
  dispute ends only by a decision.
* **SCIM.** A PATCH looks its user up before it awaits the body and changes him after; a request
  may fail half-way. Correct: who left holds no identity, a name has at most one, scopes are those
  of the present roles, and what is deleted does not come back.

* **Detectors, linkage.** Indexes only grow, statements are signed at one time and checked at another,
  links arrive in any order. Correct: the best match is found whatever the order, what was
  signed can be found again, a cluster is what the links taken connect.
* **Event stream.** The file is rewritten at its cap while others append to it and readers follow it
  by offset. Correct: the file is the tail of the log, a reader sees nothing twice, passes over nothing
  that a rewrite did not move, and does not stay behind.

The hazards behind these, each at its line, are listed in `PROJECT.json`, with the properties
that watch them or the reason none does.

## 2. Modules and the code they model

| Module | Models | Uses |
| --- | --- | --- |
| `Policy` | `identity.ts`, `trust.ts`, `rights.ts`, `policy.ts`: operators, no state | |
| `PolicyReview` | one proposal evaluated while its inputs are edited | `Policy` |
| `Authorization` | `authorize`, `buildReceipt`: operators, no state | `Policy` |
| `Governance` | callers driving evaluate, approve, authorize, execute over shared keys | `Authorization` |
| `GovernedPublish` | the publish runner, beside such callers | `Governance` |
| `AbstractPublish` | the promise of `PublicationAdapter`: the abstract specification | |
| `LocalPublish` | local adapter and published store, with crashes; refines `AbstractPublish` | `AbstractPublish` |
| `HttpPublish` | HTTP adapter and an unreliable platform; refines `AbstractPublish` | `AbstractPublish` |
| `Merkle` | `merkle.ts`: roots, proofs, verification, as recursive functions | |
| `TransparencyLog` | `log.ts` with restarts, failed and cut writes | `Merkle` |
| `Witness` | witnesses, distribution, quorum, audit | |
| `Verifier` | public verifier, revocations, `verifyPassport` | |
| `Enrolment` | consent gate | |
| `Sentinel` | reports, appeals, adjudications, signals | |
| `Lookalikes` | `util.ts` of the detectors: skeletons and edit distance of names | |
| `Detectors` | `reuse.ts`, `av.ts`, `impersonation.ts`: operators, no state | `Lookalikes` |
| `Detection` | the indexes, signed findings, the linkage graph | `Detectors` |
| `EventStream` | the dashboard's generator, events file and polling route | |
| `Scim` | the SCIM server and its provisioner | |
| `Governance_proofs` | proofs about `GovernedPublish` and, at its end, `PolicyReview` | these two |
| `Recursion` | when a recursive function of a number exists: a theorem, no model | |
| `Witness_proofs` | proofs about `Witness`, `Merkle` and `TransparencyLog` | these, `Recursion` |
| `Registries_proofs` | proofs about `Scim` and `Enrolment` | these two |
| `LocalPublish_proofs`, `HttpPublish_proofs` | proofs about the module each is named after | that module |
| `Readers_proofs` | proofs about `Verifier` and, in its second part, `EventStream`, the readers of files that others write | these two, `Recursion` |
| `Sentinel_proofs` | proofs about `Sentinel` and, in its second part, `Detection` | these two |
| `MC*` | the instances TLC checks | |

Operators whose comment starts with "Seeded fault" are not part of any specification. Each is a
plausible bug in the definition below it, kept so that every property can be shown to fail when
the code is wrong in that way (`mutants` in `PROJECT.json`).

### Abstractions common to all modules

* Keys, tenants, ids, digests and platforms are model values; an ISO-8601 timestamp is a natural
  number, and the clock is a variable that may advance between any two steps.
* A signed document states the id of its signer's key (`keyId`) and carries a public key (`key`, where
  something depends on it). Its signature is a flag, `sigValid`: whether it verifies under the key it
  carries. Trust is asked of the id it states. The code compares the two nowhere (section 6), and
  the models do not either: a document that states a trusted key's id and carries another key is an
  input like any other, and passes where it passes in the code. Properties say "states a trusted key
  id" where that is all the code establishes.
* Hashes collide with nothing: the decision record stands for `decisionDigest`, the sequence of
  leaves for a tree head in `Witness`, the term it was computed from for a hash in `Merkle`.
* Wording (reasons, log lines, explanations) is left out, as are evidence references and, outside
  `Detection`, confidences, which no decision in the modelled code depends on.

### Policy, Authorization, Governance, GovernedPublish

`EvaluatePolicy` returns the decision record the code hashes; what is not in the record (asset,
platform) is not bound by an approval, exactly as in `policy.ts`. `Failed` holds the six mandatory
checks, `Factor` the risk points, `Decide` the threshold. `Accepts` is the body of `authorize`'s
loop over approvals. In `Governance` the state is what the code's callers hold (`run`) and what is in
circulation (`claims`, `approvals`); `receipts` is the map in `SimulatedAdapter`. Every action is
one library call. A caller chooses which approvals and which directory it passes to `Authorize`,
old or foreign ones included. `RevokeIdentity` leaves the old claim in circulation, because nothing
takes a signed document back. `IssueIdentity` makes claims that state the key they carry; `ReceiveClaim`
brings in any other claim, which its author wrote as he liked. An approval is verified under the key that
the approver's claim carries, the claim being accepted for the key id it states. `RunGovernedPublish` performs the whole runner as one step, for it
is synchronous over the simulated adapter; it builds its requirement without a platform,
as the code does.

`PolicyReview` keeps one proposal and edits it the way the types allow: assertions added, withdrawn
or disputed, credentials revoked, keys trusted, the use widened, a disclosure attached, time passing.

### AbstractPublish, LocalPublish, HttpPublish

`AbstractPublish` says what any adapter promises: only what an authorised call asked for is posted,
an item at most once; a call is told "executed" only when the item is out; an answer is
final. A call may fail with or without the item being posted.

`LocalPublish` splits `execute` at its file operations: look for a receipt, append the record, index
it, write the receipt, return. `execute` is synchronous, so one call is active at a time. `Crash`
may strike between any two steps or inside a write, leaving nothing, a fragment, or a line without
its newline; `WriteFails` is a full disk, after which the process lives on. `Restart` reads the file
back and is impossible, as in the code, when a line does not parse. An item is a digest there.

`HttpPublish` has one program counter per call (`new, token, asked, send, wait, sleep, body, done`), a set of
requests on their way and a set of responses. `token` and `asked` are `getToken`: a cached token that lasts
longer than the skew is used, otherwise each call asks for one of its own, and the answer that comes last is
what stays cached, its life counted from when it was asked for. The endpoint is external: a token dies
as long after it was issued as its `expires_in` says, or as the provider assumes when it says nothing. `FetchRejects` is the timer or a lost connection; the
request then stays in the network and may still be processed. The platform, which is external, is
modelled from the test's mock platform: it mints one post per idempotency key and may answer with
success, an outage after it has posted, or any refusal. The timer is cleared when headers arrive, so the
body is read in a step of its own, and one that breaks off yields no reference. An item is an
idempotency key there.

### Merkle, TransparencyLog

`Merkle` translates the split at the largest power of two, both kinds of proof, and both verifiers,
which consume the proof from its end. `TransparencyLog` keeps the leaf list in memory and the file as
the content of ended lines and an unended tail. `append` pushes to memory first and writes second,
hence `AppendThrows` keeps the leaf in memory without acknowledging it. Clients hold
acknowledged indices and checkpoints.

The recursions of `merkle.ts` run over slices of the leaf list. In the model a recursion is on the length of
the slice alone, so that it is one on natural numbers, and its value is a function of where the slice starts and,
for a verifier, of how much of the proof is left. `RootCall`, `PathCall`, `InclusionCall`, `SubProofCall`
and `ReconstructCall` are the bodies of the TypeScript functions, with the function they call as a parameter.

### Witness

`dist` is the state of each `distributeCheckpoint` call between its awaits: asking a witness for its latest
head (`Ask`), going on with the answer to make a proof from the log as it is by then (`Send`), and the
witness's answer to the checkpoint (`Cosign`). Either request may be lost, before or after the witness acted; when
the fetch rejects the distribution ends, when an HTTP error comes back the first is read as "nothing seen"
(`failed`) and the second as a refusal. `Submit` is a POST of any checkpoint by anybody: `VerifyCheckpoint`
lets pass what states the log's key id and verifies under the key it carries, whoever made it. `Witnessed` counts
cosignatures as a client is shown them, by the witness key id each states; the witnesses made only those in
`cosigs`. `world` fixes a deployment: whether the log equivocates, whether witnesses restart (they keep
their key and forget what they saw), who has transports to whom, and which witnesses others than the operator can
reach (`open`). The auditor reads one witness per step.

### Verifier, Enrolment, Sentinel, Scim

`Verifier`: publisher and revokers append to two files at any time; the process reads both when it
starts and answers from these copies. Trust is the set of key ids that published records state. A passport or
an entry is believed when its signature verifies under the key it carries and the key id it states is in
that set; which key published what is not asked, as in the code.

`Enrolment`: `consents` holds the last recorded consent per subject with what was withdrawn from it;
`Withdraw` marks it and shreds every active reference of the modalities reached through the subject's
index. `settled` is a history variable, the references a withdrawal was meant for.

`Sentinel`: the maps of `exchange.ts` and its log. `Disposition` is `signals` for one target and
category. `VerifyReport`, `VerifyAppeal` and `VerifyAdjudication` are what the code's functions of
these names accept, by the key ids that statements state. The reporter a report names is a field beside them.

`Detection`: `reuse`, `clips` and `ids` are the entries of the indexes in order. `Detect` runs a detector over
them, `BestOf(OffersFor(c))`: `ReuseOffers`, `ClipOffers`, `HandleOffers` and `LikenessOffers` list what one entry offers, and `Consider`
keeps the best so far, as the closures of that name do. Names are sequences of letters, folded and compared as
in `util.ts`; how alike two texts, images or clips are is a table, in thousandths, and need not be symmetric.
What is found is signed as a report or a link; `AddLink` takes links that state a trusted key id into `adj`, the
graph's neighbour lists, and `Cluster` searches these. `about` is not in a signed statement: it records the
candidate, so that the finding can be looked at again.

`EventStream`: the file is a sequence of units, one or two to a line, so that an offset may fall into a line.
`Emit` is one `appendFileSync`; `TrimReads`, `Truncate` and `Rewrite` are the read and the two effects of the
`writeFileSync` in `trim`. `Kill` may strike anywhere, `RewriteFails` is a write error, which `trim` swallows. The
route's `poll` is `PollSize` and `PollRead`; the file may change between them. `ensureGenerator` decides by the
age of the file, which says nothing certain about a process: both outcomes are possible. `alone`, `lost` and `spied`
are history variables: whether generators never overlapped, whether a rewrite was cut short, and whether a
poll of this connection fell into one.

`Scim`: one HTTP server, whose handlers run without a pause but for the await of a request's body.
`PatchFound` is what a PATCH does before it, `PatchBody` the arrival of the body; its operations are then
one step each (`PatchStep`), and while one PATCH is `running` nothing else does. An operation that
throws ends the request, and what the ones before it did remains. `Provisioned` is `#reprovision`:
issue, replace or revoke the identity of one user; it throws for roles that cannot be iterated,
after its caller has changed the record. A POST reads nothing before its body, so that it is one step.

## 3. The runs

| Run | Question | Distinct states |
| --- | --- | --- |
| `policy_review` | Does anything but evidence, trust or disclosure relax a decision (`OnlyReliefRelaxes`), and do these never harden it (`ReliefNeverHardens`)? | 520,524 |
| `governance` | Two callers and the runner under one key, with claims issued, received and revoked, keys trusted, time passing: `ExecutedIsAuthorised`, `AgentNeedsAnotherKey`, `OneReceiptPerKey`, `PublishedWasPermitted` | 175,290 |
| `local_publish` | Five calls with retries, key reuse and shared bytes, two crashes: `StableReceipt`, `ExecutedIsServed`, refinement of `AbstractPublish` | 123,319 |
| `http_publish` | Two racing calls under one key and an unauthorised one, over one token provider: `RefIsThePost`, `CachedTokenLives`, refinement of `AbstractPublish`, `Terminates` | 363,226 |
| `witness` | `WitnessChain` and `QuorumNeverSplits` against an equivocating log; `NoFalseAlarm` and `RefusedOnlyByRace` for an honest one, with others beside it who send checkpoints under its key id | 99,776 |
| `transparency_log` | `CheckpointsStayConsistent`, `AckedIsProvable` for logs without failed writes; `ForkIsNoticed`, `OnlyLeavesAreIncluded` for all | 12,660 |
| `verifier` | `OnlyPublishedIdsCount`, `NeverTakenBack`, `RestartCatchesUp` | 384,004 |
| `enrolment` | `GoneOnceWithdrawn`, `ExistingCanBeShredded` | 20,012 |
| `sentinel` | `CorroborationIsLogged`, `OverturnedIsOut`, `ContestedUntilAdjudicated` | 528,448 |
| `scim` | `LeaverHasNoIdentity`, `StandingIsOnRecord`, `ScopesFollowRoles`, `DeletedForGood` while two PATCH requests await their bodies and updates fail half-way | 2.2 million |
| `detection` | `DetectionIsBest`, `EvidenceStaysGood`, `ClusterIsReach` | 102,708 |
| `event_stream` | Two generators and a browser over one file, with deaths and failed rewrites: `FileIsTail`, `DeliveredInOrder`, `NothingSkipped`, `CatchesUp` | 472,184 |

`TypeOK` of each module that states one is proved (section 5) rather than made a property of the run.

How to read the less obvious properties:

* `ExecutedIsAuthorised` does not say that the approver is still entitled at the moment of execution,
  only that there was a moment between decision and execution at which `ApprovalStands`: a claim of the
  approver, of the same tenant, no agent's, with the scope, unexpired and unrevoked, stated a trusted key id, and the
  approval is signed with the key that claim carries. It does not say that this key is the trusted one, because the
  code does not see to it.
* `AgentNeedsAnotherKey` says what it takes for such an approval to be somebody else's: that every claim in
  circulation carries the key it states, and that no person's claim carries an agent's key. Then what an agent
  proposed was approved with a trusted key that is no agent's. If either is missing, the
  approval may have been made with the agent's own key.
* `PublishedWasPermitted` speaks of what the *caller* of the runner is told: with a reused key that is
  the receipt of an earlier proposal, which must itself have been permitted, in the sense of
  `ExecutedIsAuthorised`.
* `StableReceipt` and the refinement together say that after a crash the record may exist without a
  receipt, never the other way round, so that a retry completes the call; except when the receipt itself was
  cut: every later call under that key then throws (section 6).
* `ImplementsAbstractPublish` for HTTP rests on the platform's own de-duplication; the adapter's part
  is that all its attempts carry one key and that only a 2xx answer becomes "executed".
* `ForkIsNoticed` tries every proof that can be put together from the hashes of both logs, not
  just the proof the code would send.
* `RefusedOnlyByRace` says why an honest log may be refused: its question for the latest head failed with an
  HTTP error, the witness moved on after it was asked, the log grew before the proof was made, or the witness stands
  beyond the checkpoint. Every other refusal would be a bug. It excepts, as `NoFalseAlarm` does, a witness whose
  `/cosign` others reach and that has cosigned what is no head of the log: a checkpoint that states the log's key
  id and carries another key is enough for that, and the honest log is then refused for good, or accused.
* `QuorumNeverSplits` speaks of the cosignatures a client is shown, not only of those the witnesses made: for two
  histories of which neither extends the other to count as witnessed both, cosignatures must be shown that the
  witnesses did not make, under the key ids of at least 2 * `MinWitnesses` - |`Witnesses`| of them. That none are
  shown is not something the client's check ensures.
* `OnlyPublishedIdsCount` and `RestartCatchesUp` speak of the key ids that passports and entries state. Whoever signs
  may state a published one.
* `CorroborationIsLogged` counts, as the code does, the reporter ids in reports that state a trusted key id; that the
  reporters are as many keys, or as many parties, is not implied. `ContestedUntilAdjudicated` likewise asks for a
  decision that states a trusted adjudicator's key id.
* `CachedTokenLives` says that a token taken from the cache is alive at that moment, not that it lives to the
  end of the call: no attempt asks for another one.
* `DetectionIsBest` compares the running best of the code with the maximum over a set, which knows no order;
  names are compared there by the single-letter changes that lead from one to the other.
* `FileIsTail` and `DeliveredInOrder` hold of generators that never overlapped, and the second of connections
  none of whose polls fell into a rewrite; both are false without these words, because the code does not
  prevent either. `NothingSkipped` and `CatchesUp` have no such condition: a step that passes over a line which
  lay whole beyond the offset is a rewrite.
* `NeverTakenBack` holds because files only grow and each process reads a prefix that contains what
  the one before it read.

Deadlock is not checked in any run: all the models stop when their bounds are used up, and the
code has no operation that must always be possible.

## 4. Bounds and fairness

| Run | Bounds | Why they suffice |
| --- | --- | --- |
| `policy_review` | 36 proposals (3 proposers, 4 kinds of AI involvement, 3 sets of required rights), 4 records, 2 time steps, 4 edits | every mandatory check passes and fails, each decision is reached and left; four edits cover two records of one kind, one of them spoiled, and a change of use |
| `governance` | 2 callers, 1 idempotency key, 2 approvals in circulation, 4 claims, 1 time step | two callers and one key make the key collide; the approver's claim and the only right expire at the one time step; the agent holds the approver scope and a key that may come to be trusted; a foreign approver can be issued, and a claim received that states the approver's key and carries the agent's |
| `local_publish` | 5 calls, 2 keys, 2 digests, 2 crashes | retry, same bytes under another key, key reused for other bytes, unauthorised reuse; the second crash hits the recovery from the first |
| `http_publish` | 3 calls, 2 keys, 1 retry, time up to 2, tokens that live 3, skew 1 | the late delivery of attempt 0 can meet attempt 1 and the other call under the key; further retries repeat that. Two calls find no token, ask at different times and overwrite each other's |
| `witness` | 3 witnesses, 2 distributions, histories of at most 2 leaves over 2 leaf values; quorum 2 | forks at the start; the smallest majority that is not everyone. Six kinds of deployment are separate initial states: an equivocating log with two distributions at once, or with three witnesses anybody reaches; an honest log with restarts, under two distributions or one and an audit; and an honest log beside which others send checkpoints, under a distribution or an audit |
| `transparency_log` | 2 entries, 8 leaves, 4 when a write fails, 1 such write, 1 checkpoint held, made-up proofs up to length 3 | 8 is the first size with three full levels; a consistency proof of 3 in 4 is the smallest in which the old root is rebuilt from parts of the proof |
| `verifier` | 2 records, 2 entries, 3 passports, 5 entries to choose from | entry before and after publication, under either published key id and under a third, one that does not verify, and one of the wrong type |
| `enrolment` | 2 subjects, 2 modalities, 4 consents, 4 withdrawals, 4 enrolments, time up to 2 | one consent replaces another with other modalities, term and key; references are enrolled before, between and after withdrawals |
| `sentinel` | 6 reports, 4 appeals, 4 adjudications, 6 accepted statements, quorum 2 | two reports, also of two reporters under one key id, an appeal, two contradicting adjudications and one statement more |
| `scim` | 2 names, 2 roles, 3 users created, 2 open PATCH requests, 8 bodies of up to 4 operations | a name is given anew after its user was deleted, with both old and new user sought by an open request; bodies deactivate and reactivate, change roles, hold a broken operation or malformed roles before and after good ones |
| `detection` | 3 registrations out of 8, 11 candidates, 2 statements, 2 links taken | two entries that match one candidate differently and a third, of the publisher, that must not; a link found by a detector and one asserted make a path of three accounts |
| `event_stream` | cap 1, generators of 3 and of 1 entry, lines of 2, 1 and 2 units, 1 death or failed rewrite | one generator rewrites twice, to a shorter and then to a longer line; the other appends between the steps of a rewrite, or succeeds one that died in the middle of it |

Symmetry is used for callers (`governance`), for entries (`transparency_log`), and for witnesses,
distributions and leaves (`witness`). None of these runs has a liveness property, no definition
distinguishes members, and the sets of deployments are closed under the permutations.

Fairness is assumed in `HttpPublish` (`FairSpec`) and `EventStream` (`FairStreamSpec`), the parts that wait. In the first
there is weak fairness, for
each call, of its own steps (`OwnStep`: the event loop runs what is ready, and timers fire) and
of two events that no timer bounds: the token endpoint answers or fails (`TokenComes`) and a body whose headers have
arrived ends (`ReadAnyBody`). The platform gets none: it may never answer. `Terminates` says
under these that each call that starts ends. Without the last two a call may hang, for the
abort timer is cleared before the body is read and covers the token request not at all. In
`EventStream` it is the polls of a connection that are fair (`PollSize`, `PollRead`: `setInterval` fires in a live
process); generators and browsers may stop at any time. `CatchesUp` is stated under that. All
other specifications are safety specifications without fairness.

## 5. Proofs

| Theorem | States |
| --- | --- |
| `TypeCorrect` of each `*_proofs` module | `Spec => []TypeOK`, in `Governance_proofs` for `SpecWithRunner`; `EnrolmentTypeCorrect` beside it in `Registries_proofs` |
| `Governance_proofs!OnlyAuthorisedExecutes` | `SpecWithRunner => []ExecutedIsAuthorised` |
| `Governance_proofs!AgentsNeverSuffice` | `SpecWithRunner => []AgentNeedsAnotherKey` |
| `Governance_proofs!IdempotentReceipts` | `SpecWithRunner => []OneReceiptPerKey` |
| `Governance_proofs!TellsOfPermittedOnly` | `SpecWithRunner => []PublishedWasPermitted` |
| `Governance_proofs!OnlyReliefMakesLenient` | `ReviewSpec => OnlyReliefRelaxes`, an action property |
| `Governance_proofs!ReliefIsNeverPunished` | `ReviewSpec => ReliefNeverHardens`, an action property |
| `LocalPublish_proofs!ReceiptsAreStable` | `Spec => []StableReceipt` |
| `LocalPublish_proofs!ExecutedStaysServed` | `Spec => []ExecutedIsServed` |
| `LocalPublish_proofs!KeepsContract` | `Spec => ImplementsAbstractPublish`, a refinement |
| `HttpPublish_proofs!ReceiptsNameThePost` | `Spec => []RefIsThePost` |
| `HttpPublish_proofs!ServedTokensLive` | `Spec => []CachedTokenLives` |
| `HttpPublish_proofs!KeepsContract` | `Spec => ImplementsAbstractPublish`, a refinement |
| `Witness_proofs!CosignsOneHistory` | `Spec => []WitnessChain` |
| `Witness_proofs!NoSplitView` | `Spec => []QuorumNeverSplits` |
| `Witness_proofs!HonestLogNoAlarm` | `Spec => []NoFalseAlarm` |
| `Witness_proofs!HonestLogRefusedOnlyByRace` | `Spec => RefusedOnlyByRace`, an action property |
| `Witness_proofs!InclusionProofVerifies` | `VerifyInclusion` accepts what `InclusionProof` makes, for any tree and leaf of it |
| `Witness_proofs!OnlyTheLeafVerifies` | whatever proof `VerifyInclusion` accepts, the leaf is there |
| `Witness_proofs!ConsistencyProofVerifies` | `VerifyConsistency` accepts what `ConsistencyProof` makes, for any tree and beginning of it |
| `Witness_proofs!OnlyExtensionsVerify` | whatever proof `VerifyConsistency` accepts, the one tree begins with the other |
| `Witness_proofs!NothingShownIsLost` | `LogSpec => []ShownIsKept`, of the log in `TransparencyLog` |
| `Witness_proofs!CheckpointsProved` | `LogSpec => []CheckpointsStayConsistent` |
| `Witness_proofs!AckedProved` | `LogSpec => []AckedIsProvable` |
| `Witness_proofs!ForksAreNoticed` | `LogSpec => []ForkIsNoticed` |
| `Witness_proofs!OnlyLeavesProved` | `LogSpec => []OnlyLeavesAreIncluded` |
| `Recursion!RecursionHasSolution` | a recursive function whose body looks only below its argument exists |
| `Readers_proofs!TrustNeedsPublishedId` | `Spec => []OnlyPublishedIdsCount` |
| `Readers_proofs!AnswersStand` | `Spec => NeverTakenBack`, an action property |
| `Readers_proofs!NothingOverlooked` | `Spec => RestartCatchesUp`, an action property |
| `Readers_proofs!StreamTypeCorrect` | `StreamSpec => []StreamTypeOK`, of `EventStream` |
| `Readers_proofs!FileStaysTail` | `StreamSpec => []FileIsTail` |
| `Readers_proofs!DeliveryStaysInOrder` | `StreamSpec => []DeliveredInOrder` |
| `Readers_proofs!NothingIsSkipped` | `StreamSpec => NothingSkipped`, an action property |
| `Registries_proofs!WithdrawalIsFinal` | `EnrolmentSpec => []GoneOnceWithdrawn` |
| `Registries_proofs!NothingEscapesWithdrawal` | `EnrolmentSpec => []ExistingCanBeShredded` |
| `Sentinel_proofs!OverturnedStaysOut` | `Spec => []OverturnedIsOut` |
| `Sentinel_proofs!CorroborationCanBeChecked` | `Spec => []CorroborationIsLogged` |
| `Sentinel_proofs!OnlyDecisionsEndDisputes` | `Spec => ContestedUntilAdjudicated`, an action property |
| `Sentinel_proofs!DetectionTypeCorrect` | `DetectionSpec => []DetectionTypeOK` |
| `Sentinel_proofs!DistanceIsNear` | the table of `editDistance` counts the changes that lead from one name to another, up to two of them |
| `Sentinel_proofs!DetectionsAreBest` | `DetectionSpec => []DetectionIsBest` |
| `Sentinel_proofs!EvidenceHolds` | `DetectionSpec => []EvidenceStaysGood` |
| `Sentinel_proofs!ClustersAreReach` | `DetectionSpec => []ClusterIsReach` |
| `Registries_proofs!LeaversHoldNothing` | `Spec => []LeaverHasNoIdentity` |
| `Registries_proofs!OneIdentityPerName` | `Spec => []StandingIsOnRecord` |
| `Registries_proofs!MoversKeepNothing` | `Spec => []ScopesFollowRoles` |
| `Registries_proofs!DeletedStayDeleted` | `Spec => DeletedForGood`, an action property |

They hold for any sets of identities, tenants, keys, claims, proposals, callers, calls, records, reports,
witnesses, heads, consents and so on, and any bounds. They rest on the named assumptions of the modules
only, which TLC evaluates in the runs: that constants have their types; that `None` is none of the values it
stands beside (times, receipts, heads, answers); that initial claims and keys are among those that
exist; that the set of witnesses is finite; that the log's key id is among those a checkpoint may state; that a request to the runner is among the inputs of the engine and
names an approver only with his key, without which `publish.ts:103` asks for no approval; and that what a
proposal or a rights record is read for is there.

**Governance.** `ExecutedIsAuthorised` is not inductive: `Execute` believes a flag set by an earlier
step. `Ind` adds what that flag means (`RunInv`: a run that is past "idle" has a decision no later
than now, and if its flag is set the decision was authorised by now), what a stored receipt carries
(`ReceiptInv`) and that a caller's receipt is the stored one (`HeldInv`). `VerdictSound` shows that
`authorize` establishes the property when it says yes, `DecisionFacts` that a decision that is
not BLOCK has no failing check and that an agent's is never ALLOW, which for `AgentNeedsAnotherKey` leaves an approval
by a claim that is no agent's, hence, if keys are as stated and kept apart, a trusted key that is no agent's. `AuthorityStable` shows that an authority
once given remains in evidence, since claims, approvals and trust only accumulate. All is about
`SpecWithRunner`, of which `Spec` is the part in which nobody calls the runner; the runner's one step keeps `Ind`
because it collects, checks and executes what its callers would in several.

**Policy engine.** The engine has no state, so that both properties compare two inputs. `PassesAll` says
that one of them passes each check the other passes, with no more points; `NoHarder` that it is then judged
no more strictly. Each edit is placed on one side by a lemma of its own: time (`LapsedStaysLapsed`: no validity
begins, it only ends), evidence, trust, disclosure, withdrawal, revocation, a wider use.

**Local adapter.** `Ind` ties memory and files to the program counter: one call at a time is carried out, and
only while the process is up (`ProcessInv`); a stored receipt is that of its key, a call past the
check found none, and what a call returned is on disk (`ReceiptInv`); no digest is on file twice, the index
holds nothing else than what is on file and, while the process is up, misses only what is about to be
indexed (`FileInv`); whatever a receipt says was executed is on file and in the index (`ServedInv`). The
refinement counts complete records as posts. A crash in the middle of a record posts nothing; one after its last
byte, or before the receipt is whole, is the contract's call that fails although its item came out.

**HTTP adapter.** `SentInv` and `AnswerInv` follow a message: it was sent for an authorised call, and a success is
about a post under the key of that call and names it or nothing. `CallInv` says the same of the call that
reads the body, so that what it returns is `RefIsThePost`. As the platform mints one post per
key, a late delivery of an earlier attempt finds the post there. `TokenInv`: a token's life is counted from when it was
asked for and it dies that long after it was issued, which is no earlier. The theorems are about `Spec`; they need no
fairness.

**Witness.** `Ind` is `TypeOK`, `WitnessChain` and, unless witnesses restart, `SeenCovers`: the
head a witness has in memory extends all it cosigned. A new cosignature is then comparable with
each old one, because prefixes of one sequence are; who made the checkpoint does not matter. `NoSplitView` follows by
counting: a witness that made cosignatures for both of two histories would contradict `WitnessChain`, so that the
members common to two quorums, of which there are at least 2 * `MinWitnesses` - |`Witnesses`|, are all among those in
whose name other cosignatures are shown.
For an honest log, restarts or not, `TookInd` says that whatever a witness, a distribution or an audit holds as a
witness's head was cosigned by it, and `HonestInd` that a distribution carries heads and proofs of the log only
(`Carries`) and that a witness nobody else reaches has cosigned nothing but its heads. Two such heads of one size are
equal, which is all the auditor compares, and a refusal leaves only what `RefusedOnlyByRace` names.

**Merkle trees.** The provers know neither induction nor that a recursive definition has a solution. `Recursion`
supplies the second: when the body looks at the function only below its argument (`Causal`), solutions up to any
number exist and agree, hence one on all numbers, and the `CHOOSE` behind the definition picks one. It is instantiated
with each of the five bodies. In place of the first a statement about slices of every length is proved by
taking the least length at which it fails (`LeastNatural`): the split point lies strictly inside a slice, so that
both halves satisfy it. Completeness (`PathLeadsToRoot`, `SubProofRebuilds`) says that the verifier, run on what was built for a slice,
returns the slice's roots and leaves of the proof what came before. Soundness (`OnlyTheLeafLeadsToRoot`, `OnlyExtensionsRebuild`) goes the other way:
a verifier that returns the root of a slice, whatever the proof, was at the right leaf, or had the old root's leaves
before it. It rests on `NodeHash` being injective, which is the model's stand-in for collision resistance, and
on leaves not being `Failed`, since a verification that throws does not answer.

**Log.** `FileInv`: until a write fails there is one ended line for each leaf in memory, so that a restart reads
what was there before. `ShownIsKept` is the part of `CheckpointsStayConsistent` and `AckedIsProvable`
that depends on files and restarts; the completeness theorems above give the rest. `ForkIsNoticed` and
`OnlyLeavesAreIncluded` follow from the soundness theorems and hold after failed writes too. All they ask of a state is `OfLines`:
every leaf in memory, acknowledged or in a checkpoint is the hash of a line, hence is not `Failed`, though a
line may then hold the remains of several entries.

**Verifier.** `Stands` says that each answer given follows from `Known`: what the running process has read, or what
one started now would read. Files only grow and each start reads all there is, so `Known` never
shrinks, and what followed from it once still does.

**Event stream.** The properties speak of whole lines, the code of offsets into a file that is cut,
emptied and put back. The two meet in `Holds`: there are places (`Offsets`) where the lines of all
that was ever written end, and the file consists of the lines behind some of them, the base. What a
file of that kind parses into (`ParsedHolds`), where it may be cut (`EndsHold`, `KeptHolds`), what a
line appended makes of it (`AppendHolds`) and which lines lie whole in a window on it
(`WholeIsLine`) are lemmas about sequences, for lines of any size. They rest on `InOrder` putting a
set of numbers in order (`InOrderAscends`), in the one way there is (`AscendsOnce`). `TailInvariant`
then follows the base through the steps of one generator at a time: `trim` keeps the last lines
while the base stays, the write that puts them back moves it to the first of these, and a write that
fails, or a death in it, moves it behind all that was written. The base never goes back, so that an
event sent, whose line ended before the connection's offset (`Sent`), lies before whatever is read
later, whether the offset stayed, grew or was cut to the file's end. `FileIsTail` is the part about
the file, and `DeliveredInOrder` the part about the connection with `Fresh`, that no event is
written twice. `NothingSkipped` needs neither: whatever generators do, a file that is not being
rewritten only goes on, and a line whole before is whole after (`ParsedGrows`).

**Enrolment.** `Ind` is `TypeOK`, `GoneOnceWithdrawn` and `ExistingCanBeShredded`. The two need each
other: a withdrawal shreds only what the index and the status show it, so that it settles everything
it should only if no reference hides.

**Sentinel.** `Covered` relates the log to the exchange's maps: a report that counts is logged and states a key id
trusted for it, an adjudication held is logged, a logged appeal has left its mark, and a report with a logged
"overturned" is on record and inactive. The first three make a signal re-derivable, the last is what
`OverturnedIsOut` needs, as trust is never taken back.

**Detection.** The indexes are sequences that only grow, so that a candidate's offers once made are made for
good (`LaterOffersStay`), and `Consider` keeps an offer that none exceeds: a detection that was signed
stays positive and no less sure. That a detection is the best there is (`DetectionsAreBest`) needs two more
things. The offers a detector makes reach every confidence of the reference definition and no other
(`BestForCandidate`), and the running best of them is their maximum. And the distance of two names is what
the reference says by counting changes of one character. A table of `editDistance` is determined by its rules
(`TablesAgree`), and two tables whose names differ by one change hold columns that differ by one at most
(`ColumnsClose`, carried from the change to the end of the name), so that a change takes a name at most one
nearer (`ChangeIsClose`). Conversely, behind the longest ending that two different names share, the table shows a
last edit that brings them one nearer (`LastEditExists`, `SomeChangeCloser`). Together the distance is the number
of changes as far as the code looks at it, which is up to two (`DistanceIsNear`).

For clusters `AdjacencyOK` says that the graph's neighbour
lists hold each link taken, at both ends, and nothing else. The search runs for as many rounds as there are
accounts: a round that adds nothing is followed by none that does, and rounds that each add an account
run out of accounts, so that the last set is closed under links (`ClusterIsFixed`); that it is the least such set
goes by induction over the rounds (`ClusterIsLeast`).

**Scim.** `StandingIsOnRecord` follows from two facts that are inductive together with it: who left
holds nothing, and `Named`, that the index leads from each user's name to him and a standing identity
bears its user's name. Create, activation and change of roles share one shape, a user put on record
with what `#reprovision` makes of his identity; `PutOnRecord` treats it once, including the case in
which `#reprovision` throws and the old identity stays under the old name. `DeletedForGood` follows because a step changes
only users on record and ids above the counter, whatever a pending PATCH has looked up before.

Model-checked only is liveness, that is `Terminates` and `CatchesUp`, which is out of reach of the provers. Every
invariant and action property that a run checks is also a theorem.

## 6. Where code and documents disagree

Seen while modelling, and visible in the models without a property of their own:

* A key id and a key are never compared. Each signed document states `signer.keyId` and carries
  `signer.publicKeyPem`; the signature is verified under the second and trust is asked of the first, in
  `core/identity.ts:70-83`, `core/passport.ts:103-110`, `core/policy.ts:112-117`, `core/execution.ts:109-125`,
  `transparency/log.ts:140-143`, `transparency/witness.ts:57-60` and `137-142`, `transparency/revocation.ts:50-52`,
  `sentinel/report.ts:32-35` and `56-59`, and `sentinel/linkage.ts:70-73` (paths under `packages/`, `src/` left out).
  `TrustStore.publicKey()` (`core/trust.ts:23`), which could supply the trusted key for an id, is called by nothing.
  What documents call "signed by a trusted key" or "verify only under a trusted key" (`docs/CLAIMS.md:34-35`) is in the
  code "verifies, and states a trusted key id". The models follow the code; `KeysAsStated`, `open` in `Witness` and `others` in `QuorumNeverSplits`
  mark what is said only under the stronger reading.
* An approval is checked against the key in the approver's claim (`core/execution.ts:125`) and not against the
  person: who holds that key approves in his name. A tenant whose agents share its signing key has no approver whose
  approvals an agent could not make, which is why `AgentNeedsAnotherKey` asks for keys kept apart.

* The runner evaluates rights without the platform (`apps/publisher/publish.ts:94`), so a
  right "restricted to" some platforms (`packages/core/src/types.ts:70`) permits all: the requirement that
  `ProposalOf` builds has none.
* A quorum counts witness key ids (`packages/transparency/src/witness.ts:142`), where `witness-registry.ts:4-6` says that
  it counts operators.
* `execute` takes the authorization flag as it is; nothing is re-checked at execution time
  (`execution.ts:205`), although `docs/THREAT-MODEL.md:21-22` can be read otherwise.
* A receipt cut by a crash makes each later call under the key throw (`store/publish.ts:125`); with the
  key's receipt unreadable, no retry repairs it. `LocalPublish` has it as `Throw` in `Check`.
* A second tenant's record of the same bytes is dropped while its receipt says "executed"
  (`store/publish.ts:65`); `ExecutedIsServed` therefore speaks of digests.
* The body of an HTTP answer is read without a timer (`http-adapter.ts:141`) and a broken 2xx body gives
  a receipt without a reference (`http-adapter.ts:102`): `RefIsThePost` allows `None`.
* A witness forgets on restart what it cosigned (`witness.ts:76`): `WitnessChain` and
  `QuorumNeverSplits` are stated for witnesses that do not restart.
* The auditor compares only heads of equal size (`gossip.ts:98`), so that not every fork raises the alarm.
* A failed or cut write makes the log after a restart differ from the one that was shown
  (`log.ts:98-103`): `CheckpointsStayConsistent` is stated for logs without one, and `ForkIsNoticed`
  says that the holder of a checkpoint notices.
* A withdrawn consent can be recorded again (`enrolment/registry.ts:70`). References destroyed stay so;
  new ones may be enrolled under it. A withdrawal goes by the key id it states being that of the consent
  (`enrolment/registry.ts:104`), so that a subject who gave the consent again under another key cannot withdraw with
  the first: `Withdraw` refuses, as the code does.
* An entry under the key id of any published record revokes any passport (`revocation.ts`), and a running verifier
  reads its files only when it starts.
* Corroboration counts reporter ids, which a report names freely and which are not tied to the signing
  key (`packages/sentinel/src/exchange.ts:108`); `docs/CLAIMS.md:43` speaks of distinct trusted reporters.
  `CorroborationIsLogged` therefore counts ids.
* A SCIM request that is answered with an error may have been carried out in part, down to a user who was
  created without an identity (`enterprise/scim.ts:72`), and the text "False" activates a user
  (`apps/scim/server.ts:75`). `ScopesFollowRoles` excepts roles that cannot be read.
* An appeal against an adjudicated report is logged and contests nothing (`exchange.ts:111`).
* An exact copy is reported as a near match when an earlier entry already scored 1 by similarity
  (`detectors/reuse.ts:97-105`): `consider` keeps the first of equals, and "match" goes by its method. So is content
  without bytes, against a passport without a byte-level fingerprint (`reuse.ts:62-73`), for which the
  fingerprint of the empty string is entered. `DetectionIsBest` speaks of confidence for that reason.
* The handle detector does not ask who published (`impersonation.ts:53-101`): a protected identity's own
  variant of its name is reported against itself.
* At the cap the event stream may fall silent: a poll sees sizes only, so that a tick appended and cut back to
  the old size is nothing new, and one cut back to less moves the offset past what was appended
  (`events/route.ts:32`). `NothingSkipped` excepts rewrites. A poll that falls between emptying and writing starts
  again at offset 0 and sends the whole file once more.
* Two generators on one file lose each other's lines (`event-generator.ts:43`), and nothing keeps a second from
  being started by hand or, after four silent seconds, by the dashboard (`event-source.ts:12`).
* A legal hold placed again under its id keeps its earlier targets held after its release, and one placed again
  after its release can never be released (`enterprise/governance.ts:23-38`). Not modelled.

## 7. Not modelled

* Several processes on one publication directory: `docs/LIMITATIONS.md` restricts idempotency to one.
* Power loss, that is, bytes written and lost afterwards.
* Cryptography, fingerprints and their similarity, media processing: numeric, and
  out of a model checker's reach. What the modelled code decides on their results is an input.
* The audit log's hash chain: it has one writer in one process, and no operation that could break it. Passport
  store and evidence pack: look-ups.
* Durable manifests and the anchor: append-only files under the discipline of `TransparencyLog` and
  `LocalPublish`. The registry of revocations kept in memory with its own log.
* SSO and customer-managed keys: checks of tokens and keys, without state that several calls share. SIEM export:
  a format. Legal holds: two maps that nothing else in the repository calls.
* The reference data that the event route sends before the first real event; restarts of the dashboard, after
  which a browser connects anew.
* Command line, benchmark and user interface: presentation over the parts above.

## 8. Plan

Written so far, in order of importance to what the system promises: the control loop (`Policy`,
`Authorization`, `Governance`, `GovernedPublish`) and its proofs; the adapters under one abstract
specification (`AbstractPublish`, `LocalPublish`, `HttpPublish`); the evidence (`Merkle`,
`TransparencyLog`, `Witness` with proofs, `Verifier`); `Enrolment` with proofs; `Sentinel`; `Scim` with proofs.
Then the token provider in `HttpPublish`, `Detection` with the linkage graph, and `EventStream`.

Proved since: the runner, the policy engine, both adapters with their refinements, the witnesses of an honest
log, the durable log, the verifier, Sentinel; then the Merkle trees of any size and
the log's four properties, the enrolment registry and provisioning, the detectors down to the edit distance, the
linkage graph, and the event stream.

Models worth adding: legal holds, if something comes to call them; the in-memory revocation registry beside
`Verifier`; several processes on one publication directory.
