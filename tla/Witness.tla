------------------------------- MODULE Witness -------------------------------
(***************************************************************************)
(* Witnesses, the operator that collects their cosignatures, and the       *)
(* auditor that compares their views.  The log may equivocate: show        *)
(* different, each self-consistent, histories to different parties.        *)
(*   packages/transparency/src/{witness,gossip,http-transport}.ts,         *)
(*   packages/transparency/src/witness-registry.ts, apps/witness/server.ts *)
(*                                                                         *)
(* A head is the sequence of leaves it commits to, for hashes collide with *)
(* nothing and a consistency proof that verifies proves an extension; one  *)
(* log, whose key id every witness trusts.  A checkpoint and a             *)
(* cosignature are verified under the key they carry and trusted by the    *)
(* key id they state, which nothing compares: a checkpoint under the log's *)
(* key id need not be of a head of the log, and a cosignature under a      *)
(* witness's key id need not be the witness's.                             *)
(***************************************************************************)
EXTENDS Naturals, Sequences, FiniteSets

CONSTANTS
  Witnesses,     \* witness key ids, all in the client's witness trust store
  Distributors,  \* concurrent calls of distributeCheckpoint
  Leaves,        \* leaf hashes
  Heads,         \* tree heads: sequences of leaves
  KeyIds,        \* key ids a checkpoint may state
  LogKey,        \* the log's, which is in every trust store for logs
  MinWitnesses,  \* the quorum a client asks for
  Worlds,        \* the deployments looked at: see World
  None

ASSUME HeadsAssumption == Heads \subseteq Seq(Leaves)
ASSUME QuorumAssumption == IsFiniteSet(Witnesses) /\ MinWitnesses \in Nat

ASSUME LogKeyAssumption == LogKey \in KeyIds

\* A signed checkpoint: sigValid says that it verifies under the key it carries.
SignedCheckpoint == [head : Heads, keyId : KeyIds, sigValid : BOOLEAN]

\* TransparencyLog.checkpoint: the log signs its own head.
Signed(h) == [head |-> h, keyId |-> LogKey, sigValid |-> TRUE]

\* verifyCheckpoint, with a trust store for logs that holds the log's key id.
VerifyCheckpoint(c) == c.keyId = LogKey /\ c.sigValid

\* A consistency proof that verifies: the histories of its two sizes.
ConsistencyProofResult == [old : Seq(Leaves), new : Heads]

ASSUME NoneAssumption == None \notin Heads /\ None \notin ConsistencyProofResult

\* A deployment: whether the log may go back on what it showed, whether witness
\* processes may restart with their key, the witnesses whose /cosign others than the
\* operator reach, those the operator and those the auditor has transports to, and
\* which distributions run.
World ==
  [equivocates : BOOLEAN, restarts : BOOLEAN, open : SUBSET Witnesses,
   transports : SUBSET Witnesses, audited : SUBSET Witnesses, callers : SUBSET Distributors]

ASSUME WorldsAssumption == \A x \in Worlds : x \in World

VARIABLES
  world,    \* the deployment; it never changes
  log,      \* the history the log stands by now
  seen,     \* each witness's #seen for this log
  cosigs,   \* cosignatures the witnesses made: <<witness, head>>
  dist,     \* each distribution: the head cp of its checkpoint, the witnesses to do,
            \* the one it is at, the view and whether latest failed, the proof to send
  views     \* what the auditor has read so far: witness -> [head]

vars == <<world, log, seen, cosigs, dist, views>>

\* h commits to everything g does, in the same order.
Extends(g, h) == Len(g) <= Len(h) /\ \A i \in 1..Len(g) : g[i] = h[i]

Idle == [phase |-> "idle", cp |-> None, todo |-> {}, at |-> None, view |-> None,
         failed |-> FALSE, proof |-> None]

\* At the head of the loop over the transports; after latest; before cosign.
Asking(h, todo) == [phase |-> "ask", cp |-> h, todo |-> todo, at |-> None, view |-> None,
                    failed |-> FALSE, proof |-> None]

Answered(r, w, v, failed) == [phase |-> "view", cp |-> r.cp, todo |-> r.todo, at |-> w,
                              view |-> v, failed |-> failed, proof |-> None]

Sending(r, p) == [phase |-> "send", cp |-> r.cp, todo |-> r.todo, at |-> r.at,
                  view |-> r.view, failed |-> r.failed, proof |-> p]

Init ==
  /\ world \in Worlds
  /\ log \in {h \in Heads : Len(h) = 0}
  /\ seen = [w \in Witnesses |-> None]
  /\ cosigs = {}
  /\ dist = [d \in Distributors |-> Idle]
  /\ views = [w \in {} |-> None]

\* TransparencyLog.append, or an operator that turns to another history.
Grow(h) ==
  /\ h # log
  /\ world.equivocates \/ Extends(log, h)
  /\ log' = h
  /\ UNCHANGED <<world, seen, cosigs, dist, views>>

\* checkpoint, and distributeCheckpoint on it with a list of transports.
Distribute(d) ==
  /\ d \in world.callers /\ world.transports # {}
  /\ dist[d].phase = "idle"
  /\ dist' = [dist EXCEPT ![d] = Asking(log, world.transports)]
  /\ UNCHANGED <<world, log, seen, cosigs, views>>

\* The witness answers latest; on any HTTP error the transport returns null.
Ask(d, w) ==
  /\ dist[d].phase = "ask" /\ w \in dist[d].todo
  /\ dist' \in {[dist EXCEPT ![d] = Answered(@, w, seen[w], FALSE)],
                [dist EXCEPT ![d] = Answered(@, w, None, TRUE)]}
  /\ UNCHANGED <<world, log, seen, cosigs, views>>

\* latest rejects (connection lost, no JSON): the distribution throws.
AskLost(d) ==
  /\ dist[d].phase = "ask"
  /\ dist' = [dist EXCEPT ![d] = Idle]
  /\ UNCHANGED <<world, log, seen, cosigs, views>>

\* proofFor(last.size), from the log's leaves as they are by now; a log that has gone
\* back behind that size has none.
ProofFor(v, cp) ==
  IF v # None /\ Len(v) < Len(cp) /\ Len(v) <= Len(log)
  THEN [old |-> SubSeq(log, 1, Len(v)), new |-> log]
  ELSE None

\* The distribution goes on after await t.latest: it makes the proof and sends.
Send(d) ==
  /\ dist[d].phase = "view"
  /\ dist' = [dist EXCEPT ![d] = Sending(@, ProofFor(dist[d].view, dist[d].cp))]
  /\ UNCHANGED <<world, log, seen, cosigs, views>>

\* Seeded faults: the proof taken for any old head of that size; no second
\* cosignature for the head last seen.
CosignsAnyOld(last, c, proof) ==
  /\ VerifyCheckpoint(c)
  /\ \/ last = None
     \/ c.head = last
     \/ /\ Len(c.head) > Len(last)
        /\ proof # None /\ Len(proof.old) = Len(last) /\ proof.new = c.head

CosignsOnlyNew(last, c, proof) ==
  /\ VerifyCheckpoint(c)
  /\ \/ last = None
     \/ /\ Len(c.head) > Len(last)
        /\ proof # None /\ proof.old = last /\ proof.new = c.head
        /\ Extends(last, c.head)

\* Witness.cosign accepts: of a checkpoint under a trusted key id, trust on first use,
\* then only the head last seen or a longer one proved to extend exactly that.
Cosigns(last, c, proof) ==
  /\ VerifyCheckpoint(c)
  /\ \/ last = None
     \/ c.head = last
     \/ /\ Len(c.head) > Len(last)
        /\ proof # None /\ proof.old = last /\ proof.new = c.head
        /\ Extends(last, c.head)

\* The witness remembers the head and signs it, or changes nothing.
AtWitness(w, c, proof) ==
  IF Cosigns(seen[w], c, proof)
  THEN seen' = [seen EXCEPT ![w] = c.head] /\ cosigs' = cosigs \union {<<w, c.head>>}
  ELSE UNCHANGED <<seen, cosigs>>

\* On to the next transport, if there is one.
Onward(r) ==
  IF r.todo = {r.at} THEN Idle
  ELSE Asking(r.cp, r.todo \ {r.at})

\* await t.cosign, answered.
Cosign(d) ==
  /\ dist[d].phase = "send"
  /\ AtWitness(dist[d].at, Signed(dist[d].cp), dist[d].proof)
  /\ dist' = [dist EXCEPT ![d] = Onward(@)]
  /\ UNCHANGED <<world, log, views>>

\* The request or its answer is lost: fetch rejects and the distribution throws, or an
\* HTTP error comes in its stead and counts as a refusal.
CosignLost(d) ==
  /\ dist[d].phase = "send"
  /\ AtWitness(dist[d].at, Signed(dist[d].cp), dist[d].proof) \/ UNCHANGED <<seen, cosigs>>
  /\ dist' \in {[dist EXCEPT ![d] = Idle], [dist EXCEPT ![d] = Onward(@)]}
  /\ UNCHANGED <<world, log, views>>

\* POST /cosign by anybody, with any checkpoint; of the proofs that may come with it
\* only one that starts from what the witness last saw can matter.
Submit(w, c) ==
  /\ w \in world.open
  /\ \E proof \in {None} \union {[old |-> g, new |-> c.head] : g \in {seen[w]} \ {None}} :
       AtWitness(w, c, proof)
  /\ UNCHANGED <<world, log, dist, views>>

\* The witness service restarts with a stable key: #seen is in memory only.
Restart(w) ==
  /\ world.restarts
  /\ seen[w] # None
  /\ seen' = [seen EXCEPT ![w] = None]
  /\ UNCHANGED <<world, log, cosigs, dist, views>>

\* auditSplitView reads one witness after another, null on any HTTP error.
AuditRead(w) ==
  /\ w \in world.audited \ DOMAIN views
  /\ \E v \in {seen[w], None} :
       views' = [x \in DOMAIN views \union {w} |-> IF x = w THEN v ELSE views[x]]
  /\ UNCHANGED <<world, log, seen, cosigs, dist>>

\* The audit is complete, or a read rejected; a further one starts afresh.
AuditDone ==
  /\ DOMAIN views # {}
  /\ views' = [w \in {} |-> None]
  /\ UNCHANGED <<world, log, seen, cosigs, dist>>

\* Seeded fault: the auditor takes any two different heads for a fork.
AlarmAnyTwo(vs) ==
  \E v, w \in DOMAIN vs : vs[v] # None /\ vs[w] # None /\ vs[v] # vs[w]

\* auditSplitView(...).forked: two views of one size differ.
Alarm(vs) ==
  \E v, w \in DOMAIN vs :
    vs[v] # None /\ vs[w] # None /\ Len(vs[v]) = Len(vs[w]) /\ vs[v] # vs[w]

\* Seeded fault: cosignatures are counted whatever checkpoint they are for.
WitnessedByAny(h, shown) ==
  Cardinality({w \in Witnesses : \E g \in Heads : <<w, g>> \in shown}) >= MinWitnesses

\* verifyWitnessed on a checkpoint of the log: shown are cosignatures that verify under
\* the key they carry, each with the witness key id it states and its head.
Witnessed(h, shown) == Cardinality({w \in Witnesses : <<w, h>> \in shown}) >= MinWitnesses

Next ==
  \/ \E h \in Heads : Grow(h)
  \/ \E d \in Distributors :
       \/ Distribute(d) \/ AskLost(d) \/ Send(d) \/ Cosign(d) \/ CosignLost(d)
       \/ \E w \in Witnesses : Ask(d, w)
  \/ \E w \in Witnesses :
       Restart(w) \/ AuditRead(w) \/ \E c \in SignedCheckpoint : Submit(w, c)
  \/ AuditDone

Spec == Init /\ [][Next]_vars

(***************************************************************************)
(* Properties                                                              *)
(***************************************************************************)

Views == Heads \union {None}

Distribution ==
  {Idle}
  \union [phase : {"ask"}, cp : Heads, todo : SUBSET Witnesses, at : {None},
          view : {None}, failed : {FALSE}, proof : {None}]
  \union [phase : {"view"}, cp : Heads, todo : SUBSET Witnesses, at : Witnesses,
          view : Views, failed : BOOLEAN, proof : {None}]
  \union [phase : {"send"}, cp : Heads, todo : SUBSET Witnesses, at : Witnesses,
          view : Views, failed : BOOLEAN, proof : ConsistencyProofResult \union {None}]

TypeOK ==
  /\ world \in Worlds
  /\ log \in Heads
  /\ seen \in [Witnesses -> Views]
  /\ cosigs \subseteq Witnesses \X Heads
  /\ dist \in [Distributors -> Distribution]
  /\ DOMAIN views \subseteq world.audited /\ \A w \in DOMAIN views : views[w] \in Views

Comparable(g, h) == Extends(g, h) \/ Extends(h, g)

\* As long as no witness restarts, the heads one witness ever cosigned lie on one
\* history, whatever the log shows, however distributions interleave and whichever
\* answers are lost (witness.ts:91-117; docs/CLAIMS.md:37 "A witness cosigns only append-only
\* extensions; rollbacks and forks are refused").
WitnessChain ==
  ~world.restarts =>
    \A w \in Witnesses, g, h \in Heads :
      <<w, g>> \in cosigs /\ <<w, h>> \in cosigs => Comparable(g, h)

\* Convincing two clients of different histories takes cosignatures that the witnesses
\* did not make: under the key ids of at least 2 * MinWitnesses - |Witnesses| of them,
\* even for a log that equivocates (witness.ts:119-143).  `others` are the witnesses
\* under whose ids such cosignatures are shown, beside all the witnesses made.
QuorumNeverSplits ==
  ~world.restarts =>
    \A g, h \in Heads : Comparable(g, h) \/
      \A others \in SUBSET Witnesses :
        /\ Witnessed(g, cosigs \union (others \X {g}))
        /\ Witnessed(h, cosigs \union (others \X {h}))
        => Cardinality(others) >= 2 * MinWitnesses - Cardinality(Witnesses)

\* All the witness cosigned are heads of the log, its present one or earlier ones.
OnTheLog(w) == \A c \in cosigs : c[1] = w => Extends(c[2], log)

\* An honest log is refused only by a race or an answer that failed: latest came back
\* as an HTTP error, the witness moved on between latest and cosign, the log grew
\* between the checkpoint and the proof, or the witness already stood beyond the
\* checkpoint (gossip.ts:57-72).  A witness whose /cosign others reach must have
\* cosigned nothing but heads of the log, for it may have been given another under
\* the log's key id.
RefusedOnlyByRace ==
  [][\A d \in Distributors :
       LET r == dist[d]
           held == seen[r.at]
       IN  Cosign(d) /\ ~world.equivocates /\ (r.at \in world.open => OnTheLog(r.at))
             /\ ~Cosigns(held, Signed(r.cp), r.proof) =>
             \/ r.failed
             \/ held # r.view
             \/ r.proof # None /\ r.proof.new # r.cp
             \/ Len(held) > Len(r.cp)]_vars

\* An honest log raises no alarm, though the auditor reads the witnesses one by one
\* while they move (gossip.ts:88-105), unless a witness that was read and whose
\* /cosign others reach has cosigned what is no head of the log.
NoFalseAlarm ==
  Alarm(views) =>
    \/ world.equivocates
    \/ \E w \in DOMAIN views \cap world.open : ~OnTheLog(w)

=============================================================================
