---------------------------- MODULE Witness_proofs ----------------------------
(***************************************************************************)
(* What witnessing guarantees against a log that equivocates, for any      *)
(* number of witnesses, concurrent distributions and heads, in deployments *)
(* where no witness restarts: one that does forgets what it cosigned.      *)
(*                                                                         *)
(* WitnessChain is not inductive: a witness could cosign an extension of   *)
(* what it last saw that is on another history than something it cosigned  *)
(* before.  SeenCovers rules that out: what it last saw extends all it     *)
(* ever cosigned.                                                          *)
(*                                                                         *)
(* An honest log, with or without restarts, is behind all that its         *)
(* operator carries, and what a witness last saw, what it answered and     *)
(* what an audit read of it is among what it cosigned (TookInd,            *)
(* HonestInd).  So where a witness cosigned heads of the log only, as one  *)
(* that nobody but the operator reaches does, all of it is of one history, *)
(* and of one history heads of one size are equal.                         *)
(* Then the log that is witnessed: its Merkle tree, for any leaves, and    *)
(* the durable log that keeps them, for any entries, faults and restarts.  *)
(***************************************************************************)
EXTENDS Witness, TransparencyLog, FiniteSetTheorems, SequenceTheorems, TLAPS

SeenCovers ==
  \A w \in Witnesses, g \in Heads :
    <<w, g>> \in cosigs => seen[w] # None /\ Extends(g, seen[w])

Ind == TypeOK /\ (~world.restarts => SeenCovers) /\ WitnessChain

-----------------------------------------------------------------------------
\* Extending a history is a partial order as far as it is needed here.
LEMMA ExtendsReflexive ==
  ASSUME NEW h \in Heads
  PROVE  Extends(h, h)
BY HeadsAssumption DEF Extends

\* An extension of an extension is one.
LEMMA ExtendsTransitive ==
  ASSUME NEW f \in Heads, NEW g \in Heads, NEW h \in Heads, Extends(f, g), Extends(g, h)
  PROVE  Extends(f, h)
<1>1. Len(f) \in Nat /\ Len(g) \in Nat /\ Len(h) \in Nat
  BY HeadsAssumption
<1>2. Len(f) <= Len(h)
  BY <1>1 DEF Extends
<1>3. ASSUME NEW i \in 1..Len(f) PROVE f[i] = h[i]
  BY <1>1, i \in 1..Len(g) DEF Extends
<1> QED
  BY <1>2, <1>3 DEF Extends

\* A witness accepts nothing but an extension of what it last saw.
LEMMA CosignsExtends ==
  ASSUME NEW last \in Heads, NEW c \in SignedCheckpoint, NEW proof, Cosigns(last, c, proof)
  PROVE  Extends(last, c.head)
BY ExtendsReflexive, NoneAssumption DEF Cosigns, SignedCheckpoint

\* The log's own checkpoint is one, and every witness takes the signature.
LEMMA SignedFacts ==
  ASSUME NEW h \in Heads
  PROVE  Signed(h) \in SignedCheckpoint /\ Signed(h).head = h /\ VerifyCheckpoint(Signed(h))
BY LogKeyAssumption DEF Signed, SignedCheckpoint, VerifyCheckpoint

-----------------------------------------------------------------------------
\* The initial state has the types.
LEMMA InitTypeOK == Init => TypeOK
BY DEF Init, TypeOK, Distribution, Views

\* What a distribution holds in each phase.
LEMMA PhaseTypes ==
  ASSUME NEW r \in Distribution
  PROVE  /\ r.phase = "ask" =>
              r \in [phase : {"ask"}, cp : Heads, todo : SUBSET Witnesses, at : {None},
                     view : {None}, failed : {FALSE}, proof : {None}]
         /\ r.phase = "view" =>
              r \in [phase : {"view"}, cp : Heads, todo : SUBSET Witnesses, at : Witnesses,
                     view : Views, failed : BOOLEAN, proof : {None}]
         /\ r.phase = "send" =>
              r \in [phase : {"send"}, cp : Heads, todo : SUBSET Witnesses, at : Witnesses,
                     view : Views, failed : BOOLEAN,
                     proof : ConsistencyProofResult \union {None}]
         /\ r.cp # None => r.cp \in Heads
<1> DEFINE A == [phase : {"ask"}, cp : Heads, todo : SUBSET Witnesses, at : {None},
                 view : {None}, failed : {FALSE}, proof : {None}]
           V == [phase : {"view"}, cp : Heads, todo : SUBSET Witnesses, at : Witnesses,
                 view : Views, failed : BOOLEAN, proof : {None}]
           S == [phase : {"send"}, cp : Heads, todo : SUBSET Witnesses, at : Witnesses,
                 view : Views, failed : BOOLEAN, proof : ConsistencyProofResult \union {None}]
<1>1. r = Idle \/ r \in A \/ r \in V \/ r \in S
  BY Zenon DEF Distribution
<1>2. r = Idle => r.phase = "idle" /\ r.cp = None
  BY DEF Idle
<1>3. r \in A => r.phase = "ask" /\ r.cp \in Heads
  OBVIOUS
<1>4. r \in V => r.phase = "view" /\ r.cp \in Heads
  OBVIOUS
<1>5. r \in S => r.phase = "send" /\ r.cp \in Heads
  OBVIOUS
<1> HIDE DEF A, V, S
<1>6. /\ r.phase = "ask" => r \in A
      /\ r.phase = "view" => r \in V
      /\ r.phase = "send" => r \in S
      /\ r.cp # None => r.cp \in Heads
  BY <1>1, <1>2, <1>3, <1>4, <1>5
<1> QED
  BY <1>6 DEF A, V, S

\* The states a distribution moves to are of its type.
LEMMA AskingType ==
  ASSUME NEW h \in Heads, NEW todo \in SUBSET Witnesses
  PROVE  Asking(h, todo) \in Distribution
BY DEF Asking, Distribution

\* A distribution's proof is one, or none.
LEMMA ProofForType ==
  ASSUME TypeOK, NEW v \in Views, NEW cp \in Heads
  PROVE  ProofFor(v, cp) \in ConsistencyProofResult \union {None}
<1>1. CASE v # None /\ Len(v) < Len(cp) /\ Len(v) <= Len(log)
  <2>1. log \in Heads /\ log \in Seq(Leaves) /\ v \in Seq(Leaves)
    BY <1>1, HeadsAssumption DEF TypeOK, Views
  <2>2. Len(v) \in Nat /\ Len(log) \in Nat
    BY <2>1
  <2>3. SubSeq(log, 1, Len(v)) \in Seq(Leaves)
    BY <1>1, <2>1, <2>2
  <2> QED
    BY <1>1, <2>1, <2>3 DEF ProofFor, ConsistencyProofResult
<1>2. CASE ~(v # None /\ Len(v) < Len(cp) /\ Len(v) <= Len(log))
  BY <1>2 DEF ProofFor
<1> QED
  BY <1>1, <1>2

\* A witness that handles a checkpoint keeps its types.
LEMMA AtWitnessTypes ==
  ASSUME TypeOK, NEW w \in Witnesses, NEW c \in SignedCheckpoint, NEW proof,
         AtWitness(w, c, proof)
  PROVE  seen' \in [Witnesses -> Views] /\ cosigs' \subseteq Witnesses \X Heads
<1>1. c.head \in Heads
  BY DEF SignedCheckpoint
<1> QED
  BY <1>1 DEF TypeOK, AtWitness, Views

\* One step keeps the types.
LEMMA NextTypeOK == TypeOK /\ [Next]_vars => TypeOK'
<1> SUFFICES ASSUME TypeOK, [Next]_vars PROVE TypeOK'
  OBVIOUS
<1>0. /\ world \in Worlds /\ log \in Heads
      /\ seen \in [Witnesses -> Views] /\ cosigs \subseteq Witnesses \X Heads
      /\ dist \in [Distributors -> Distribution]
      /\ DOMAIN views \subseteq world.audited /\ \A w \in DOMAIN views : views[w] \in Views
  BY DEF TypeOK
<1>1. ASSUME NEW h \in Heads, Grow(h) PROVE TypeOK'
  BY <1>0, <1>1 DEF Grow, TypeOK
<1>2. ASSUME NEW d \in Distributors, Distribute(d) PROVE TypeOK'
  <2>1. world.transports \in SUBSET Witnesses
    BY <1>0, WorldsAssumption DEF World
  <2>2. Asking(log, world.transports) \in Distribution
    BY <1>0, <2>1, AskingType
  <2>3. dist' \in [Distributors -> Distribution]
    BY <1>0, <1>2, <2>2 DEF Distribute
  <2> QED
    BY <1>0, <1>2, <2>3 DEF Distribute, TypeOK
<1>3. ASSUME NEW d \in Distributors, NEW w \in Witnesses, Ask(d, w) PROVE TypeOK'
  <2>1. dist[d] \in [phase : {"ask"}, cp : Heads, todo : SUBSET Witnesses, at : {None},
                     view : {None}, failed : {FALSE}, proof : {None}]
    BY <1>0, <1>3, PhaseTypes DEF Ask
  <2>2. seen[w] \in Views /\ None \in Views
    BY <1>0 DEF Views
  <2>3. /\ Answered(dist[d], w, seen[w], FALSE) \in Distribution
        /\ Answered(dist[d], w, None, TRUE) \in Distribution
    BY <2>1, <2>2 DEF Answered, Distribution
  <2>4. dist' \in [Distributors -> Distribution]
    BY <1>0, <1>3, <2>3 DEF Ask
  <2> QED
    BY <1>0, <1>3, <2>4 DEF Ask, TypeOK
<1>4. ASSUME NEW d \in Distributors, Send(d) PROVE TypeOK'
  <2>1. dist[d] \in [phase : {"view"}, cp : Heads, todo : SUBSET Witnesses, at : Witnesses,
                     view : Views, failed : BOOLEAN, proof : {None}]
    BY <1>0, <1>4, PhaseTypes DEF Send
  <2>2. PICK p : p = ProofFor(dist[d].view, dist[d].cp)
    OBVIOUS
  <2>3. p \in ConsistencyProofResult \union {None}
    BY <2>1, <2>2, ProofForType
  <2>4. Sending(dist[d], p) \in Distribution
    BY <2>1, <2>3 DEF Sending, Distribution
  <2>5. dist' \in [Distributors -> Distribution]
    BY <1>0, <1>4, <2>2, <2>4 DEF Send
  <2> QED
    BY <1>0, <1>4, <2>5 DEF Send, TypeOK
<1>5. ASSUME NEW d \in Distributors, dist[d].phase = "send"
      PROVE  /\ dist[d].at \in Witnesses /\ Signed(dist[d].cp) \in SignedCheckpoint
             /\ Onward(dist[d]) \in Distribution
  <2>1. dist[d] \in [phase : {"send"}, cp : Heads, todo : SUBSET Witnesses, at : Witnesses,
                     view : Views, failed : BOOLEAN,
                     proof : ConsistencyProofResult \union {None}]
    BY <1>0, <1>5, PhaseTypes
  <2>2. dist[d].todo \ {dist[d].at} \in SUBSET Witnesses /\ dist[d].cp \in Heads
    BY <2>1
  <2>3. Asking(dist[d].cp, dist[d].todo \ {dist[d].at}) \in Distribution
    BY <2>2, AskingType
  <2>4. Onward(dist[d]) \in Distribution
    BY <2>3 DEF Distribution, Onward
  <2> QED
    BY <2>1, <2>2, <2>4, SignedFacts
<1>6. ASSUME NEW d \in Distributors, Cosign(d) PROVE TypeOK'
  <2>1. dist' \in [Distributors -> Distribution]
    BY <1>0, <1>5, <1>6 DEF Cosign
  <2>2. seen' \in [Witnesses -> Views] /\ cosigs' \subseteq Witnesses \X Heads
    BY <1>5, <1>6, AtWitnessTypes DEF Cosign
  <2> QED
    BY <1>0, <1>6, <2>1, <2>2 DEF Cosign, TypeOK
<1>7. ASSUME NEW d \in Distributors, CosignLost(d) PROVE TypeOK'
  <2>1. dist' \in [Distributors -> Distribution]
    <3>1. Onward(dist[d]) \in Distribution /\ Idle \in Distribution
      BY <1>5, <1>7 DEF CosignLost, Distribution
    <3> QED
      BY <1>0, <1>7, <3>1 DEF CosignLost
  <2>2. seen' \in [Witnesses -> Views] /\ cosigs' \subseteq Witnesses \X Heads
    BY <1>0, <1>5, <1>7, AtWitnessTypes DEF CosignLost
  <2> QED
    BY <1>0, <1>7, <2>1, <2>2 DEF CosignLost, TypeOK
<1>8. ASSUME NEW w \in Witnesses, NEW c \in SignedCheckpoint, Submit(w, c) PROVE TypeOK'
  <2>1. seen' \in [Witnesses -> Views] /\ cosigs' \subseteq Witnesses \X Heads
    BY <1>8, AtWitnessTypes DEF Submit
  <2> QED
    BY <1>0, <1>8, <2>1 DEF Submit, TypeOK
<1>9. ASSUME NEW w \in Witnesses, Restart(w) PROVE TypeOK'
  BY <1>0, <1>9 DEF Restart, Views, TypeOK
<1>10. ASSUME NEW d \in Distributors, AskLost(d) PROVE TypeOK'
  BY <1>0, <1>10 DEF AskLost, Distribution, TypeOK
<1>11. ASSUME NEW w \in Witnesses, AuditRead(w) PROVE TypeOK'
  <2>1. PICK v \in {seen[w], None} :
          views' = [x \in DOMAIN views \union {w} |-> IF x = w THEN v ELSE views[x]]
    BY <1>11 DEF AuditRead
  <2>2. v \in Views
    BY <1>0, <2>1 DEF Views
  <2> QED
    BY <1>0, <1>11, <2>1, <2>2 DEF AuditRead, TypeOK
<1>12. CASE AuditDone
  BY <1>0, <1>12 DEF AuditDone, TypeOK
<1>13. CASE UNCHANGED vars
  BY <1>0, <1>13 DEF vars, TypeOK
<1> QED
  BY <1>1, <1>2, <1>3, <1>4, <1>6, <1>7, <1>8, <1>9, <1>10, <1>11, <1>12, <1>13 DEF Next

\* The witness states and cosignatures are always well-typed.
THEOREM TypeCorrect == Spec => []TypeOK
BY InitTypeOK, NextTypeOK, PTL DEF Spec

-----------------------------------------------------------------------------
\* A step either lets one witness handle a checkpoint, from the operator or another, or
\* leaves what witnesses saw and cosigned alone, or restarts one.
LEMMA WitnessSteps ==
  ASSUME TypeOK, [Next]_vars
  PROVE  /\ world' = world
         /\ \/ \E w \in Witnesses, c \in SignedCheckpoint :
                 /\ \E proof : AtWitness(w, c, proof)
                 /\ \/ w \in world.open
                    \/ \E d \in Distributors :
                         dist[d].phase = "send" /\ w = dist[d].at /\ c = Signed(dist[d].cp)
                 /\ log' = log
            \/ UNCHANGED <<seen, cosigs>>
            \/ \E w \in Witnesses :
                 world.restarts /\ seen' = [seen EXCEPT ![w] = None] /\ UNCHANGED <<log, cosigs>>
<1>0. dist \in [Distributors -> Distribution]
  BY DEF TypeOK
<1>1. ASSUME NEW d \in Distributors, dist[d].phase = "send"
      PROVE  dist[d].at \in Witnesses /\ Signed(dist[d].cp) \in SignedCheckpoint
  <2>1. dist[d] \in [phase : {"send"}, cp : Heads, todo : SUBSET Witnesses, at : Witnesses,
                     view : Views, failed : BOOLEAN,
                     proof : ConsistencyProofResult \union {None}]
    BY <1>0, <1>1, PhaseTypes
  <2> QED
    BY <2>1, SignedFacts
<1>2. ASSUME NEW d \in Distributors, Cosign(d) \/ CosignLost(d)
      PROVE  /\ UNCHANGED <<world, log>> /\ dist[d].phase = "send"
             /\ \/ AtWitness(dist[d].at, Signed(dist[d].cp), dist[d].proof)
                \/ UNCHANGED <<seen, cosigs>>
  BY <1>2 DEF Cosign, CosignLost
<1>3. ASSUME NEW w \in Witnesses, NEW c \in SignedCheckpoint, Submit(w, c)
      PROVE  /\ UNCHANGED <<world, log>> /\ w \in world.open
             /\ \E proof : AtWitness(w, c, proof)
  BY <1>3 DEF Submit
<1>4. ASSUME NEW w \in Witnesses, Restart(w)
      PROVE  /\ world.restarts /\ seen' = [seen EXCEPT ![w] = None]
             /\ UNCHANGED <<world, log, cosigs>>
  BY <1>4 DEF Restart
<1>5. ASSUME \/ \E h \in Heads : Grow(h)
             \/ \E d \in Distributors : Distribute(d) \/ AskLost(d) \/ Send(d)
             \/ \E d \in Distributors, w \in Witnesses : Ask(d, w)
             \/ \E w \in Witnesses : AuditRead(w)
             \/ AuditDone
             \/ UNCHANGED vars
      PROVE  UNCHANGED <<world, seen, cosigs>>
  <2>1. ASSUME NEW h \in Heads, Grow(h) PROVE UNCHANGED <<world, seen, cosigs>>
    BY <2>1 DEF Grow
  <2>2. ASSUME NEW d \in Distributors, Distribute(d) \/ AskLost(d) \/ Send(d)
        PROVE  UNCHANGED <<world, seen, cosigs>>
    BY <2>2 DEF Distribute, AskLost, Send
  <2>3. ASSUME NEW d \in Distributors, NEW w \in Witnesses, Ask(d, w)
        PROVE  UNCHANGED <<world, seen, cosigs>>
    BY <2>3 DEF Ask
  <2>4. ASSUME NEW w \in Witnesses, AuditRead(w) PROVE UNCHANGED <<world, seen, cosigs>>
    BY <2>4 DEF AuditRead
  <2>5. AuditDone \/ UNCHANGED vars => UNCHANGED <<world, seen, cosigs>>
    BY DEF AuditDone, vars
  <2> QED
    BY <1>5, <2>1, <2>2, <2>3, <2>4, <2>5
<1>6. ASSUME NEW d \in Distributors, Cosign(d) \/ CosignLost(d)
      PROVE  /\ world' = world
             /\ \/ \E w \in Witnesses, c \in SignedCheckpoint :
                     /\ \E proof : AtWitness(w, c, proof)
                     /\ \/ w \in world.open
                        \/ \E e \in Distributors :
                             dist[e].phase = "send" /\ w = dist[e].at /\ c = Signed(dist[e].cp)
                     /\ log' = log
                \/ UNCHANGED <<seen, cosigs>>
  BY <1>1, <1>2, <1>6
<1> QED
  BY <1>3, <1>4, <1>5, <1>6 DEF Next

-----------------------------------------------------------------------------
\* A witness that handles a checkpoint, accepting or refusing it, keeps the chain.
LEMMA AtWitnessInd ==
  ASSUME Ind, NEW w \in Witnesses, NEW c \in SignedCheckpoint, NEW proof,
         AtWitness(w, c, proof), ~world.restarts, world' = world
  PROVE  SeenCovers' /\ WitnessChain'
<1>0. PICK cp \in Heads : cp = c.head
  BY DEF SignedCheckpoint
<1>1. CASE ~Cosigns(seen[w], c, proof)
  BY <1>1 DEF Ind, AtWitness, SeenCovers, WitnessChain, Comparable
<1>2. CASE Cosigns(seen[w], c, proof)
  <2>1. seen' = [seen EXCEPT ![w] = cp] /\ cosigs' = cosigs \union {<<w, cp>>}
    BY <1>0, <1>2 DEF AtWitness
  <2>2. ASSUME NEW g \in Heads, <<w, g>> \in cosigs PROVE Extends(g, cp)
    <3>1. seen[w] \in Heads /\ Extends(g, seen[w])
      BY <2>2 DEF Ind, SeenCovers, TypeOK, Views
    <3>2. Extends(seen[w], cp)
      BY <1>0, <1>2, <3>1, CosignsExtends
    <3> QED
      BY <3>1, <3>2, ExtendsTransitive
  <2>3. Extends(cp, cp) /\ cp # None
    BY ExtendsReflexive, NoneAssumption
  <2>4. SeenCovers'
    <3> SUFFICES ASSUME NEW x \in Witnesses, NEW g \in Heads, <<x, g>> \in cosigs'
                 PROVE  seen'[x] # None /\ Extends(g, seen'[x])
      BY DEF SeenCovers
    <3>1. CASE x = w
      BY <2>1, <2>2, <2>3, <3>1 DEF Ind, TypeOK
    <3>2. CASE x # w
      BY <2>1, <3>2 DEF Ind, TypeOK, SeenCovers
    <3> QED
      BY <3>1, <3>2
  <2>5. WitnessChain'
    <3> SUFFICES ASSUME NEW x \in Witnesses, NEW g \in Heads, NEW h \in Heads,
                        <<x, g>> \in cosigs', <<x, h>> \in cosigs'
                 PROVE  Comparable(g, h)
      BY DEF WitnessChain, Comparable
    <3>1. CASE <<x, g>> \in cosigs /\ <<x, h>> \in cosigs
      BY <3>1 DEF Ind, WitnessChain
    <3>2. CASE <<x, g>> = <<w, cp>> \/ <<x, h>> = <<w, cp>>
      BY <2>1, <2>2, <2>3, <3>2 DEF Comparable
    <3> QED
      BY <2>1, <3>1, <3>2
  <2> QED
    BY <2>4, <2>5
<1> QED
  BY <1>1, <1>2

\* Steps that move no witness keep what is said of witnesses.
LEMMA FrameInd ==
  ASSUME Ind, UNCHANGED <<seen, cosigs>>, ~world.restarts, world' = world
  PROVE  SeenCovers' /\ WitnessChain'
BY DEF Ind, SeenCovers, WitnessChain, Comparable

\* One step keeps the invariant.
LEMMA NextInd ==
  ASSUME Ind, [Next]_vars
  PROVE  Ind'
<1>1. TypeOK' /\ world' = world
  BY NextTypeOK, WitnessSteps DEF Ind
<1>2. ASSUME ~world.restarts PROVE SeenCovers' /\ WitnessChain'
  <2>1. \/ \E w \in Witnesses, c \in SignedCheckpoint : \E proof : AtWitness(w, c, proof)
        \/ UNCHANGED <<seen, cosigs>>
    BY <1>2, WitnessSteps DEF Ind
  <2> QED
    BY <1>1, <1>2, <2>1, AtWitnessInd, FrameInd
<1>3. world'.restarts => WitnessChain'
  BY DEF WitnessChain
<1> QED
  BY <1>1, <1>2, <1>3 DEF Ind, WitnessChain

\* The inductive invariant holds to begin with.
LEMMA InitInd == Init => Ind
BY InitTypeOK DEF Init, Ind, SeenCovers, WitnessChain

\* The inductive invariant always holds.
LEMMA IndInvariant == Spec => []Ind
<1>1. Ind /\ [Next]_vars => Ind'
  BY NextInd
<1> QED
  BY <1>1, InitInd, PTL DEF Spec

\* All that one witness ever cosigned lies on one history.
THEOREM CosignsOneHistory == Spec => []WitnessChain
<1>1. Ind => WitnessChain
  BY DEF Ind
<1> QED
  BY <1>1, IndInvariant, PTL

\* Two quorums of different histories share only witnesses that did not make both of the
\* cosignatures under their ids, for each keeps to one history (witness.ts:119-143).
THEOREM NoSplitView == Spec => []QuorumNeverSplits
<1>1. WitnessChain => QuorumNeverSplits
  <2> SUFFICES ASSUME WitnessChain, ~world.restarts, NEW g \in Heads, NEW h \in Heads,
                      ~Comparable(g, h), NEW others \in SUBSET Witnesses,
                      Witnessed(g, cosigs \union (others \X {g})),
                      Witnessed(h, cosigs \union (others \X {h}))
               PROVE  Cardinality(others) >= 2 * MinWitnesses - Cardinality(Witnesses)
    BY DEF QuorumNeverSplits
  <2> DEFINE G == {w \in Witnesses : <<w, g>> \in cosigs \union (others \X {g})}
             H == {w \in Witnesses : <<w, h>> \in cosigs \union (others \X {h})}
  <2>1. G \subseteq Witnesses /\ H \subseteq Witnesses /\ IsFiniteSet(Witnesses)
    BY QuorumAssumption
  <2>2. Cardinality(G) >= MinWitnesses /\ Cardinality(H) >= MinWitnesses
    BY DEF Witnessed
  <2>3. G \cap H \subseteq others
    <3> SUFFICES ASSUME NEW w \in Witnesses, w \in G, w \in H, w \notin others PROVE FALSE
      OBVIOUS
    <3>1. <<w, g>> \in cosigs /\ <<w, h>> \in cosigs
      OBVIOUS
    <3> QED
      BY <3>1 DEF WitnessChain
  <2> HIDE DEF G, H
  <2>4. /\ IsFiniteSet(G) /\ IsFiniteSet(H) /\ IsFiniteSet(others)
        /\ IsFiniteSet(G \cap H) /\ IsFiniteSet(G \union H)
    BY <2>1, FS_Subset, FS_Union, FS_Intersection
  <2>5. /\ Cardinality(G \union H)
             = Cardinality(G) + Cardinality(H) - Cardinality(G \cap H)
        /\ Cardinality(G \union H) <= Cardinality(Witnesses)
        /\ Cardinality(G \cap H) <= Cardinality(others)
    <3>1. G \union H \subseteq Witnesses
      BY <2>1
    <3> QED
      BY <2>1, <2>3, <2>4, <3>1, FS_Subset, FS_Union
  <2>6. /\ Cardinality(G) \in Nat /\ Cardinality(H) \in Nat /\ Cardinality(others) \in Nat
        /\ Cardinality(G \cap H) \in Nat /\ Cardinality(G \union H) \in Nat
        /\ Cardinality(Witnesses) \in Nat
    BY <2>1, <2>4, FS_CardinalityType
  <2> QED
    BY <2>2, <2>5, <2>6, QuorumAssumption
<1> QED
  BY <1>1, CosignsOneHistory, PTL
-----------------------------------------------------------------------------
(***************************************************************************)
(* Logs that do not equivocate.                                            *)
(***************************************************************************)
\* The witness cosigned this head, if it is one.
Took(w, g) == g # None => <<w, g>> \in cosigs

\* What is known of a witness is among what it cosigned.
TookInd ==
  /\ \A w \in Witnesses : Took(w, seen[w])
  /\ \A d \in Distributors : Took(dist[d].at, dist[d].view)
  /\ \A w \in DOMAIN views : Took(w, views[w])

\* What the operator carries is of the log lg: its checkpoint and the proof, which starts
\* from the size that was answered, and is missing only where none is wanted.
Carries(r, lg) ==
  /\ r.cp # None => Extends(r.cp, lg)
  /\ r.phase = "send" =>
       \/ r.proof = None /\ (r.view # None => ~(Len(r.view) < Len(r.cp)))
       \/ /\ r.proof # None /\ r.view # None
          /\ r.proof.old = SubSeq(r.proof.new, 1, Len(r.view))

\* Nothing has left an honest log's operator but its own heads, and a witness that
\* nobody else reaches has cosigned nothing else.
HonestInd ==
  ~world.equivocates =>
    /\ \A d \in Distributors : Carries(dist[d], log)
    /\ \A w \in Witnesses : w \in world.open \/ OnTheLog(w)

\* Heads of one size on one history are the same head.
LEMMA SameSize ==
  ASSUME NEW f \in Heads, NEW g \in Heads, NEW h \in Heads,
         Extends(f, h), Extends(g, h), Len(f) = Len(g)
  PROVE  f = g
<1>1. \A i \in 1..Len(f) : f[i] = g[i]
  BY DEF Extends
<1>2. f \in Seq(Leaves) /\ g \in Seq(Leaves)
  BY HeadsAssumption
<1> QED
  BY <1>1, <1>2, SeqEqual, Zenon

\* A shorter head on one history is the beginning of a longer one.
LEMMA Beginning ==
  ASSUME NEW f \in Heads, NEW g \in Heads, NEW h \in Heads,
         Extends(f, h), Extends(g, h), Len(f) <= Len(g)
  PROVE  Extends(f, g) /\ SubSeq(g, 1, Len(f)) = f
<1>1. /\ f \in Seq(Leaves) /\ g \in Seq(Leaves) /\ h \in Seq(Leaves)
      /\ Len(f) \in Nat /\ Len(g) \in Nat
  BY HeadsAssumption
<1>2. ASSUME NEW i \in 1..Len(f) PROVE f[i] = g[i]
  <2>1. i \in 1..Len(g)
    BY <1>1
  <2> QED
    BY <1>2, <2>1 DEF Extends
<1>3. /\ SubSeq(g, 1, Len(f)) \in Seq(Leaves)
      /\ Len(SubSeq(g, 1, Len(f))) = Len(f)
      /\ \A i \in 1..Len(f) : SubSeq(g, 1, Len(f))[i] = g[i]
  BY <1>1
<1>4. SubSeq(g, 1, Len(f)) = f
  BY <1>1, <1>2, <1>3, SeqEqual, Zenon
<1> QED
  BY <1>2, <1>4 DEF Extends

\* What was behind an honest log stays behind it, however it grows.
LEMMA LogGrows ==
  ASSUME TypeOK, [Next]_vars, ~world.equivocates, NEW g \in Heads, Extends(g, log)
  PROVE  Extends(g, log')
<1>1. ASSUME NEW h \in Heads, Grow(h) PROVE Extends(g, log')
  <2>1. Extends(log, h) /\ log' = h
    BY <1>1 DEF Grow
  <2> QED
    BY <2>1, ExtendsTransitive DEF TypeOK
<1>2. CASE UNCHANGED log
  BY <1>2
<1>3. ASSUME NEW d \in Distributors,
             Distribute(d) \/ AskLost(d) \/ Send(d) \/ Cosign(d) \/ CosignLost(d)
      PROVE  UNCHANGED log
  BY <1>3 DEF Distribute, AskLost, Send, Cosign, CosignLost
<1>4. ASSUME NEW d \in Distributors, NEW w \in Witnesses, Ask(d, w) PROVE UNCHANGED log
  BY <1>4 DEF Ask
<1>5. ASSUME NEW w \in Witnesses, NEW c \in SignedCheckpoint, Submit(w, c)
      PROVE  UNCHANGED log
  BY <1>5 DEF Submit
<1>6. ASSUME NEW w \in Witnesses, Restart(w) \/ AuditRead(w) PROVE UNCHANGED log
  BY <1>6 DEF Restart, AuditRead
<1>7. AuditDone \/ UNCHANGED vars => UNCHANGED log
  BY DEF AuditDone, vars
<1> QED
  BY <1>1, <1>2, <1>3, <1>4, <1>5, <1>6, <1>7 DEF Next

\* Cosignatures accumulate, and what a witness last saw is among them.
LEMMA SeenIsTaken ==
  ASSUME TypeOK, TookInd, [Next]_vars
  PROVE  cosigs \subseteq cosigs' /\ \A w \in Witnesses : Took(w, seen[w])'
<1>1. ASSUME NEW x \in Witnesses, NEW c \in SignedCheckpoint, NEW proof, AtWitness(x, c, proof)
      PROVE  cosigs \subseteq cosigs' /\ \A w \in Witnesses : Took(w, seen[w])'
  <2>1. CASE Cosigns(seen[x], c, proof)
    BY <1>1, <2>1 DEF AtWitness, Took, TookInd, TypeOK
  <2>2. CASE ~Cosigns(seen[x], c, proof)
    BY <1>1, <2>2 DEF AtWitness, Took, TookInd
  <2> QED
    BY <2>1, <2>2
<1>2. CASE UNCHANGED <<seen, cosigs>>
  BY <1>2 DEF Took, TookInd
<1>3. ASSUME NEW x \in Witnesses, seen' = [seen EXCEPT ![x] = None], cosigs' = cosigs
      PROVE  cosigs \subseteq cosigs' /\ \A w \in Witnesses : Took(w, seen[w])'
  BY <1>3 DEF Took, TookInd, TypeOK
<1> QED
  BY <1>1, <1>2, <1>3, WitnessSteps

\* One distribution moves at most, and to one of these.
LEMMA DistSteps ==
  ASSUME TypeOK, [Next]_vars, NEW d \in Distributors
  PROVE  \/ dist'[d] = dist[d]
         \/ dist'[d] = Idle
         \/ dist'[d] = Asking(log, world.transports) /\ log' = log
         \/ /\ dist[d].phase = "ask" /\ log' = log
            /\ \E w \in Witnesses :
                 \/ dist'[d] = Answered(dist[d], w, seen[w], FALSE)
                 \/ dist'[d] = Answered(dist[d], w, None, TRUE)
         \/ /\ dist[d].phase = "view" /\ log' = log
            /\ dist'[d] = Sending(dist[d], ProofFor(dist[d].view, dist[d].cp))
         \/ dist[d].phase = "send" /\ dist'[d] = Onward(dist[d])
<1>0. dist \in [Distributors -> Distribution]
  BY DEF TypeOK
<1>1. ASSUME NEW e \in Distributors, Distribute(e)
      PROVE  dist'[d] = dist[d] \/ (dist'[d] = Asking(log, world.transports) /\ log' = log)
  BY <1>0, <1>1 DEF Distribute
<1>2. ASSUME NEW e \in Distributors, NEW w \in Witnesses, Ask(e, w)
      PROVE  \/ dist'[d] = dist[d]
             \/ /\ dist[d].phase = "ask" /\ log' = log
                /\ (\/ dist'[d] = Answered(dist[d], w, seen[w], FALSE)
                    \/ dist'[d] = Answered(dist[d], w, None, TRUE))
  BY <1>0, <1>2 DEF Ask
<1>3. ASSUME NEW e \in Distributors, Send(e)
      PROVE  \/ dist'[d] = dist[d]
             \/ /\ dist[d].phase = "view" /\ log' = log
                /\ dist'[d] = Sending(dist[d], ProofFor(dist[d].view, dist[d].cp))
  BY <1>0, <1>3 DEF Send
<1>4. ASSUME NEW e \in Distributors, Cosign(e)
      PROVE  dist'[d] = dist[d] \/ (dist[d].phase = "send" /\ dist'[d] = Onward(dist[d]))
  <2>1. dist[e].phase = "send" /\ dist' = [dist EXCEPT ![e] = Onward(dist[e])]
    BY <1>4 DEF Cosign
  <2>2. CASE e = d
    BY <1>0, <2>1, <2>2
  <2>3. CASE e # d
    <3>1. dist'[d] = dist[d]
      BY <1>0, <2>1, <2>3
    <3> QED
      BY <3>1, Zenon
  <2> QED
    BY <2>2, <2>3
<1>5. ASSUME NEW e \in Distributors, AskLost(e)
      PROVE  dist'[d] = dist[d] \/ dist'[d] = Idle
  BY <1>0, <1>5 DEF AskLost
<1>6. ASSUME NEW e \in Distributors, CosignLost(e)
      PROVE  \/ dist'[d] = dist[d] \/ dist'[d] = Idle
             \/ (dist[d].phase = "send" /\ dist'[d] = Onward(dist[d]))
  <2>1. /\ dist[e].phase = "send"
        /\ \/ dist' = [dist EXCEPT ![e] = Idle]
           \/ dist' = [dist EXCEPT ![e] = Onward(dist[e])]
    BY <1>6 DEF CosignLost
  <2>2. CASE e = d
    <3>1. dist'[d] = Idle \/ dist'[d] = Onward(dist[d])
      BY <1>0, <2>1, <2>2
    <3> QED
      BY <2>1, <2>2, <3>1
  <2>3. CASE e # d
    <3>1. dist'[d] = dist[d]
      BY <1>0, <2>1, <2>3
    <3> QED
      BY <3>1, Zenon
  <2> QED
    BY <2>2, <2>3
<1>7. ASSUME \/ \E h \in Heads : Grow(h)
             \/ \E w \in Witnesses :
                  Restart(w) \/ AuditRead(w) \/ \E c \in SignedCheckpoint : Submit(w, c)
             \/ AuditDone
             \/ UNCHANGED vars
      PROVE  dist'[d] = dist[d]
  BY <1>7 DEF Grow, Restart, AuditRead, Submit, AuditDone, vars
<1> QED
  BY <1>1, <1>2, <1>3, <1>4, <1>5, <1>6, <1>7 DEF Next

\* One step keeps what is known of witnesses among what they cosigned.
LEMMA TookStep == TypeOK /\ TookInd /\ [Next]_vars => TookInd'
<1> SUFFICES ASSUME TypeOK, TookInd, [Next]_vars PROVE TookInd'
  OBVIOUS
<1>1. cosigs \subseteq cosigs' /\ \A w \in Witnesses : Took(w, seen[w])'
  BY SeenIsTaken
<1>2. ASSUME NEW w, NEW g, Took(w, g) PROVE g # None => <<w, g>> \in cosigs'
  BY <1>1, <1>2 DEF Took
<1>3. ASSUME NEW d \in Distributors
      PROVE  dist'[d].view # None => <<dist'[d].at, dist'[d].view>> \in cosigs'
  <2>1. CASE dist'[d] = dist[d]
    BY <1>2, <2>1 DEF TookInd
  <2>2. ASSUME NEW h, NEW todo, dist'[d] = Idle \/ dist'[d] = Asking(h, todo)
        PROVE  dist'[d].view = None
    BY <2>2 DEF Idle, Asking
  <2>3. ASSUME NEW w \in Witnesses,
               \/ dist'[d] = Answered(dist[d], w, seen[w], FALSE)
               \/ dist'[d] = Answered(dist[d], w, None, TRUE)
        PROVE  dist'[d].view # None => <<dist'[d].at, dist'[d].view>> \in cosigs'
    <3>1. dist'[d].at = w /\ dist'[d].view \in {seen[w], None}
      BY <2>3 DEF Answered
    <3>2. Took(w, seen[w])
      BY DEF TookInd
    <3> QED
      BY <1>2, <3>1, <3>2
  <2>4. ASSUME NEW p, dist'[d] = Sending(dist[d], p)
        PROVE  dist'[d].view # None => <<dist'[d].at, dist'[d].view>> \in cosigs'
    <3>1. dist'[d].at = dist[d].at /\ dist'[d].view = dist[d].view
      BY <2>4 DEF Sending
    <3> QED
      BY <1>2, <3>1 DEF TookInd
  <2>5. Onward(dist[d]) = Idle \/ \E h, todo : Onward(dist[d]) = Asking(h, todo)
    BY Zenon DEF Onward
  <2> QED
    BY <2>1, <2>2, <2>3, <2>4, <2>5, DistSteps
<1>4. ASSUME NEW x \in DOMAIN views'
      PROVE  views'[x] # None => <<x, views'[x]>> \in cosigs'
  <2>1. ASSUME NEW w \in Witnesses, AuditRead(w)
        PROVE  views'[x] # None => <<x, views'[x]>> \in cosigs'
    <3>1. PICK v \in {seen[w], None} :
            views' = [y \in DOMAIN views \union {w} |-> IF y = w THEN v ELSE views[y]]
      BY <2>1 DEF AuditRead
    <3>2. CASE x = w
      BY <1>2, <3>1, <3>2 DEF TookInd, Took
    <3>3. CASE x # w
      BY <1>2, <3>1, <3>3 DEF TookInd
    <3> QED
      BY <3>2, <3>3
  <2>2. CASE AuditDone
    BY <2>2 DEF AuditDone
  <2>3. CASE UNCHANGED views
    BY <1>2, <2>3 DEF TookInd
  <2>4. ASSUME NEW d \in Distributors,
               Distribute(d) \/ AskLost(d) \/ Send(d) \/ Cosign(d) \/ CosignLost(d)
        PROVE  UNCHANGED views
    BY <2>4 DEF Distribute, AskLost, Send, Cosign, CosignLost
  <2>5. ASSUME NEW d \in Distributors, NEW w \in Witnesses, Ask(d, w) PROVE UNCHANGED views
    BY <2>5 DEF Ask
  <2>6. ASSUME NEW w \in Witnesses, NEW c \in SignedCheckpoint, Submit(w, c)
        PROVE  UNCHANGED views
    BY <2>6 DEF Submit
  <2>7. ASSUME NEW w \in Witnesses, Restart(w) PROVE UNCHANGED views
    BY <2>7 DEF Restart
  <2>8. ASSUME NEW h \in Heads, Grow(h) PROVE UNCHANGED views
    BY <2>8 DEF Grow
  <2>9. UNCHANGED vars => UNCHANGED views
    BY DEF vars
  <2> QED
    BY <2>1, <2>2, <2>3, <2>4, <2>5, <2>6, <2>7, <2>8, <2>9 DEF Next
<1>5. /\ \A d \in Distributors : Took(dist[d].at, dist[d].view)'
      /\ \A w \in DOMAIN views' : Took(w, views[w])'
  BY <1>3, <1>4 DEF Took
<1> QED
  BY <1>1, <1>5 DEF TookInd

\* What a distribution of an honest log carries stays of the log.
LEMMA CarriesStep ==
  ASSUME TypeOK, HonestInd, [Next]_vars, ~world.equivocates, NEW d \in Distributors
  PROVE  Carries(dist'[d], log')
<1>0. dist[d] \in Distribution /\ log \in Heads
  BY DEF TypeOK
<1>1. Carries(dist[d], log)
  BY DEF HonestInd
<1>2. dist[d].cp # None => dist[d].cp \in Heads /\ Extends(dist[d].cp, log')
  <2>1. dist[d].cp # None => dist[d].cp \in Heads
    BY <1>0, PhaseTypes
  <2> QED
    BY <1>1, <2>1, LogGrows DEF Carries
<1>3. CASE dist'[d] = dist[d]
  BY <1>1, <1>2, <1>3 DEF Carries
<1>4. CASE dist'[d] = Idle
  BY <1>4 DEF Carries, Idle
<1>5. ASSUME NEW h \in Heads, NEW todo, Extends(h, log'), dist'[d] = Asking(h, todo)
      PROVE  Carries(dist'[d], log')
  BY <1>5 DEF Asking, Carries
<1>6. CASE dist'[d] = Asking(log, world.transports) /\ log' = log
  BY <1>0, <1>5, <1>6, ExtendsReflexive
<1>7. ASSUME NEW w, NEW v, NEW failed, dist'[d] = Answered(dist[d], w, v, failed)
      PROVE  Carries(dist'[d], log')
  <2>1. dist'[d].cp = dist[d].cp /\ dist'[d].phase = "view"
    BY <1>7 DEF Answered
  <2> QED
    BY <1>2, <2>1 DEF Carries
<1>8. ASSUME dist[d].phase = "view", log' = log,
             dist'[d] = Sending(dist[d], ProofFor(dist[d].view, dist[d].cp))
      PROVE  Carries(dist'[d], log')
  <2>1. dist[d] \in [phase : {"view"}, cp : Heads, todo : SUBSET Witnesses, at : Witnesses,
                     view : Views, failed : BOOLEAN, proof : {None}]
    BY <1>0, <1>8, PhaseTypes
  <2>2. PICK v \in Views : v = dist[d].view
    BY <2>1
  <2>3. PICK cp \in Heads : cp = dist[d].cp
    BY <2>1
  <2>4. PICK p \in ConsistencyProofResult \union {None} : p = ProofFor(v, cp)
    BY ProofForType
  <2>5. /\ dist'[d].cp = cp /\ dist'[d].view = v
        /\ dist'[d].proof = p
    BY <1>8, <2>2, <2>3, <2>4 DEF Sending
  <2>6. Extends(cp, log) /\ cp # None
    BY <1>1, <2>3, NoneAssumption DEF Carries
  <2>7. CASE v # None /\ Len(v) < Len(cp)
    <3>1. v \in Seq(Leaves) /\ cp \in Seq(Leaves) /\ log \in Seq(Leaves)
      BY <1>0, <2>7, HeadsAssumption DEF Views
    <3>2. Len(v) \in Nat /\ Len(cp) \in Nat /\ Len(log) \in Nat
      BY <3>1
    <3>3. Len(cp) <= Len(log)
      BY <2>6 DEF Extends
    <3>4. Len(v) <= Len(log)
      BY <2>7, <3>2, <3>3
    <3>5. p = [old |-> SubSeq(log, 1, Len(v)), new |-> log]
      BY <2>4, <2>7, <3>4 DEF ProofFor
    <3>6. p # None
      <4>1. SubSeq(log, 1, Len(v)) \in Seq(Leaves)
        BY <3>1, <3>2, <3>4
      <4> QED
        BY <1>0, <3>5, <4>1, NoneAssumption DEF ConsistencyProofResult
    <3>7. p.old = SubSeq(p.new, 1, Len(v))
      BY <3>5
    <3> QED
      BY <1>8, <2>5, <2>6, <2>7, <3>6, <3>7 DEF Carries
  <2>8. CASE ~(v # None /\ Len(v) < Len(cp))
    <3>1. p = None
      BY <2>4, <2>8 DEF ProofFor
    <3> QED
      BY <1>8, <2>5, <2>6, <2>8, <3>1 DEF Carries
  <2> QED
    BY <2>7, <2>8
<1>9. CASE dist[d].phase = "send" /\ dist'[d] = Onward(dist[d])
  <2>1. dist[d].cp \in Heads
    <3>1. dist[d] \in [phase : {"send"}, cp : Heads, todo : SUBSET Witnesses, at : Witnesses,
                       view : Views, failed : BOOLEAN,
                       proof : ConsistencyProofResult \union {None}]
      BY <1>0, <1>9, PhaseTypes
    <3> QED
      BY <3>1
  <2>2. Extends(dist[d].cp, log')
    BY <1>2, <2>1, NoneAssumption
  <2> QED
    BY <1>4, <1>5, <1>9, <2>1, <2>2 DEF Onward
<1> QED
  BY <1>3, <1>4, <1>6, <1>7, <1>8, <1>9, DistSteps

\* One step keeps what is said of an honest log.
LEMMA HonestStep == TypeOK /\ HonestInd /\ [Next]_vars => HonestInd'
<1> SUFFICES ASSUME TypeOK, HonestInd, [Next]_vars, ~world.equivocates
             PROVE  /\ \A d \in Distributors : Carries(dist'[d], log')
                    /\ \A w \in Witnesses : w \in world.open \/ OnTheLog(w)'
  BY WitnessSteps DEF HonestInd
<1>1. \A d \in Distributors : Carries(dist'[d], log')
  BY CarriesStep
<1>2. ASSUME NEW w \in Witnesses, w \notin world.open, NEW c \in cosigs', c[1] = w
      PROVE  Extends(c[2], log')
  <2>1. CASE c \in cosigs
    <3>1. c[2] \in Heads /\ Extends(c[2], log)
      BY <1>2, <2>1 DEF TypeOK, HonestInd, OnTheLog
    <3> QED
      BY <3>1, LogGrows
  <2>2. ASSUME NEW x \in Witnesses, NEW s \in SignedCheckpoint, NEW proof,
               AtWitness(x, s, proof), c \notin cosigs
        PROVE  c = <<x, s.head>>
    BY <1>2, <2>2 DEF AtWitness
  <2>3. ASSUME NEW d \in Distributors, dist[d].phase = "send"
        PROVE  Extends(Signed(dist[d].cp).head, log')
    <3>1. dist[d].cp \in Heads
      <4>1. dist[d] \in Distribution
        BY DEF TypeOK
      <4>2. dist[d] \in [phase : {"send"}, cp : Heads, todo : SUBSET Witnesses, at : Witnesses,
                         view : Views, failed : BOOLEAN,
                         proof : ConsistencyProofResult \union {None}]
        BY <2>3, <4>1, PhaseTypes
      <4> QED
        BY <4>2
    <3>2. Extends(dist[d].cp, log)
      BY <3>1, NoneAssumption DEF HonestInd, Carries
    <3> QED
      BY <3>1, <3>2, LogGrows, SignedFacts
  <2>4. CASE c \notin cosigs
    <3>1. PICK x \in Witnesses, s \in SignedCheckpoint :
            /\ \E proof : AtWitness(x, s, proof)
            /\ \/ x \in world.open
               \/ \E d \in Distributors :
                    dist[d].phase = "send" /\ x = dist[d].at /\ s = Signed(dist[d].cp)
      BY <1>2, <2>4, WitnessSteps
    <3>2. c = <<x, s.head>>
      BY <2>2, <2>4, <3>1
    <3>3. x = w /\ c[2] = s.head
      BY <1>2, <3>2
    <3> QED
      BY <1>2, <2>3, <3>1, <3>3
  <2> QED
    BY <2>1, <2>4
<1>3. \A w \in Witnesses : w \in world.open \/ OnTheLog(w)'
  BY <1>2 DEF OnTheLog
<1> QED
  BY <1>1, <1>3

\* What is known of the witnesses of an honest log.
LEMMA HonestInvariant == Spec => [](TypeOK /\ TookInd /\ HonestInd)
<1>1. Init => TookInd /\ HonestInd
  BY DEF Init, TookInd, Took, HonestInd, Carries, OnTheLog, Idle
<1> QED
  BY <1>1, InitTypeOK, NextTypeOK, TookStep, HonestStep, PTL DEF Spec

\* An honest log raises no alarm, however witnesses move, or restart, while the auditor
\* reads them, unless one of those read was given something else (gossip.ts:88-105).
THEOREM HonestLogNoAlarm == Spec => []NoFalseAlarm
<1>1. TypeOK /\ TookInd /\ HonestInd => NoFalseAlarm
  <2> SUFFICES ASSUME TypeOK, TookInd, HonestInd, ~world.equivocates,
                      \A w \in DOMAIN views \cap world.open : OnTheLog(w),
                      NEW v \in DOMAIN views, NEW w \in DOMAIN views,
                      views[v] # None, views[w] # None, Len(views[v]) = Len(views[w])
               PROVE  views[v] = views[w]
    BY DEF NoFalseAlarm, Alarm
  <2>1. v \in Witnesses /\ w \in Witnesses
    BY WorldsAssumption DEF TypeOK, World
  <2>2. OnTheLog(v) /\ OnTheLog(w)
    BY <2>1 DEF HonestInd
  <2>3. <<v, views[v]>> \in cosigs /\ <<w, views[w]>> \in cosigs
    BY DEF TookInd, Took
  <2>4. Extends(views[v], log) /\ Extends(views[w], log)
    BY <2>2, <2>3 DEF OnTheLog
  <2>5. views[v] \in Heads /\ views[w] \in Heads /\ log \in Heads
    BY DEF TypeOK, Views
  <2> QED
    BY <2>4, <2>5, SameSize
<1> QED
  BY <1>1, HonestInvariant, PTL

\* What an honest log's operator sends a witness that is where it was asked to be, with a
\* proof, if any, up to the checkpoint, is accepted (gossip.ts:57-72).
LEMMA HonestAccepted ==
  ASSUME TypeOK, TookInd, HonestInd, ~world.equivocates, NEW d \in Distributors,
         dist[d].phase = "send", dist[d].at \in world.open => OnTheLog(dist[d].at),
         seen[dist[d].at] = dist[d].view,
         dist[d].proof # None => dist[d].proof.new = dist[d].cp,
         ~(Len(seen[dist[d].at]) > Len(dist[d].cp))
  PROVE  Cosigns(seen[dist[d].at], Signed(dist[d].cp), dist[d].proof)
<1>1. /\ dist[d].at \in Witnesses /\ dist[d].cp \in Heads
      /\ dist[d].proof \in ConsistencyProofResult \union {None}
  <2>1. dist[d] \in Distribution
    BY DEF TypeOK
  <2>2. dist[d] \in [phase : {"send"}, cp : Heads, todo : SUBSET Witnesses, at : Witnesses,
                     view : Views, failed : BOOLEAN,
                     proof : ConsistencyProofResult \union {None}]
    BY <2>1, PhaseTypes
  <2> QED
    BY <2>2
<1>2. PICK cp \in Heads : cp = dist[d].cp
  BY <1>1
<1>3. PICK held : held = seen[dist[d].at]
  OBVIOUS
<1>4. PICK p : p = dist[d].proof
  OBVIOUS
<1>5. Signed(cp).head = cp /\ VerifyCheckpoint(Signed(cp))
  BY SignedFacts
<1>6. CASE held = None
  BY <1>2, <1>3, <1>5, <1>6 DEF Cosigns
<1>7. CASE held # None
  <2>1. held \in Heads /\ log \in Heads
    BY <1>1, <1>3, <1>7 DEF TypeOK, Views
  <2>2. OnTheLog(dist[d].at)
    BY <1>1 DEF HonestInd
  <2>3. <<dist[d].at, held>> \in cosigs
    BY <1>1, <1>3, <1>7 DEF TookInd, Took
  <2>4. Extends(held, log)
    BY <2>2, <2>3 DEF OnTheLog
  <2>5. Carries(dist[d], log)
    BY DEF HonestInd
  <2>6. Extends(cp, log)
    BY <1>2, <2>5, NoneAssumption DEF Carries
  <2>7. Len(held) \in Nat /\ Len(cp) \in Nat
    BY <2>1, HeadsAssumption
  <2>8. Len(held) <= Len(cp)
    BY <1>2, <1>3, <2>7
  <2>9. CASE Len(held) = Len(cp)
    <3>1. held = cp
      BY <2>1, <2>4, <2>6, <2>9, SameSize
    <3> QED
      BY <1>2, <1>3, <1>5, <3>1 DEF Cosigns
  <2>10. CASE Len(held) < Len(cp)
    <3>1. p # None /\ p.old = SubSeq(p.new, 1, Len(held))
      BY <1>2, <1>3, <1>4, <1>7, <2>5, <2>10 DEF Carries
    <3>2. p.new = cp
      BY <1>2, <1>4, <3>1
    <3>3. Extends(held, cp) /\ SubSeq(cp, 1, Len(held)) = held
      BY <2>1, <2>4, <2>6, <2>8, Beginning
    <3>4. p.old = held
      BY <3>1, <3>2, <3>3
    <3>5. Len(cp) > Len(held)
      BY <2>7, <2>10
    <3> QED
      BY <1>2, <1>3, <1>4, <1>5, <3>1, <3>2, <3>3, <3>4, <3>5 DEF Cosigns
  <2> QED
    BY <2>7, <2>8, <2>9, <2>10
<1> QED
  BY <1>6, <1>7

\* An honest log is refused only by a race or a failed answer (gossip.ts:57-72).
THEOREM HonestLogRefusedOnlyByRace == Spec => RefusedOnlyByRace
<1>1. TypeOK /\ TookInd /\ HonestInd =>
        \A d \in Distributors :
          LET r == dist[d]
              held == seen[r.at]
          IN  Cosign(d) /\ ~world.equivocates /\ (r.at \in world.open => OnTheLog(r.at))
                /\ ~Cosigns(held, Signed(r.cp), r.proof) =>
                \/ r.failed
                \/ held # r.view
                \/ r.proof # None /\ r.proof.new # r.cp
                \/ Len(held) > Len(r.cp)
  BY HonestAccepted DEF Cosign
<1> QED
  BY <1>1, HonestInvariant, PTL DEF RefusedOnlyByRace

(***************************************************************************)
(* The tree of the log.  That the recursions of Merkle have solutions is   *)
(* the theorem of Recursion: a call depends on calls for smaller slices.   *)
(* What holds of every slice is proved by the smallest slice for which it  *)
(* would not: the parts it is split into are smaller (SplitPointFacts).    *)
(* A proof made by the log leads to the root, or rebuilds both roots; a    *)
(* proof made by anybody does so from nothing but the leaf, or the         *)
(* beginning, that is there, since a node hash stands for its children.    *)
(***************************************************************************)
RootRecursion == INSTANCE Recursion WITH Def <- RootCall
PathRecursion == INSTANCE Recursion WITH Def <- PathCall
InclusionRecursion == INSTANCE Recursion WITH Def <- InclusionCall
SubProofRecursion == INSTANCE Recursion WITH Def <- SubProofCall
ReconstructRecursion == INSTANCE Recursion WITH Def <- ReconstructCall

\* The largest power of two below n splits n in two parts that are smaller, ...
LEMMA SplitPointFacts ==
  ASSUME NEW n \in Nat, n >= 2
  PROVE  /\ SplitPoint(n) \in 1..(n - 1)
         /\ \E i \in 0..SplitPoint(n) : SplitPoint(n) = 2^i
         /\ \A k \in 1..(n - 1) : (\E i \in 0..k : k = 2^i) => k <= SplitPoint(n)
<1> DEFINE S == {k \in 1..(n - 1) : \E i \in 0..k : k = 2^i}
           T == {n - k : k \in S}
<1>1. 1 \in S
  <2>1. 2^0 = 1 /\ 0 \in 0..1 /\ 1 \in 1..(n - 1)
    OBVIOUS
  <2> QED
    BY <2>1
<1>2. T \in SUBSET Nat /\ T # {}
  BY <1>1
<1>3. PICK m \in T : \A j \in T : m <= j
  BY <1>2, RootRecursion!LeastNatural
<1>4. PICK x \in S : m = n - x
  OBVIOUS
<1>5. \A y \in S : x >= y
  BY <1>3, <1>4
<1>6. SplitPoint(n) \in S /\ \A y \in S : SplitPoint(n) >= y
  BY <1>4, <1>5 DEF SplitPoint, Max
<1> QED
  BY <1>6

\* ... and splits every smaller number above it at the same place.
LEMMA SameSplitPoint ==
  ASSUME NEW n \in Nat, n >= 2, NEW m \in Nat, SplitPoint(n) < m, m <= n
  PROVE  m >= 2 /\ SplitPoint(m) = SplitPoint(n)
<1>1. m >= 2
  BY SplitPointFacts
<1>2. SplitPoint(n) \in 1..(m - 1) /\ SplitPoint(n) <= SplitPoint(m)
  BY <1>1, SplitPointFacts
<1>3. SplitPoint(m) \in 1..(n - 1) /\ SplitPoint(m) <= SplitPoint(n)
  BY <1>1, SplitPointFacts
<1> QED
  BY <1>1, <1>2, <1>3

\* merkleRoot has a solution, so that Roots satisfies the equation that defines it.
LEMMA RootsEquation ==
  ASSUME NEW tree
  PROVE  Roots(tree) = [n \in Nat |-> RootCall(tree, Roots(tree), n)]
<1>1. ASSUME NEW g, NEW h, NEW n \in Nat, \A m \in Nat : m < n => g[m] = h[m]
      PROVE  RootCall(tree, g, n) = RootCall(tree, h, n)
  <2>1. CASE n = 0 \/ n = 1
    BY <2>1 DEF RootCall
  <2>2. CASE n >= 2
    <3>1. g[SplitPoint(n)] = h[SplitPoint(n)] /\ g[n - SplitPoint(n)] = h[n - SplitPoint(n)]
      BY <1>1, <2>2, SplitPointFacts
    <3> QED
      BY <2>2, <3>1 DEF RootCall
  <2> QED
    BY <2>1, <2>2
<1>2. RootRecursion!Causal(tree, Nat)
  BY <1>1 DEF RootRecursion!Causal
<1>3. \E f : f = [n \in Nat |-> RootCall(tree, f, n)]
  BY <1>2, RootRecursion!RecursionHasSolution
<1>4. Roots(tree) = CHOOSE f : f = [n \in Nat |-> RootCall(tree, f, n)]
  BY Zenon DEF Roots
<1> QED
  BY <1>3, <1>4, Zenon

\* merkleRoot, case by case.
LEMMA SliceRootCases ==
  ASSUME NEW tree, NEW i \in Nat
  PROVE  /\ SliceRoot(tree, i, 1) = tree[i + 1]
         /\ \A n \in Nat : n >= 2 =>
              SliceRoot(tree, i, n) =
                NodeHash(SliceRoot(tree, i, SplitPoint(n)),
                         SliceRoot(tree, i + SplitPoint(n), n - SplitPoint(n)))
<1>1. ASSUME NEW n \in Nat
      PROVE  SliceRoot(tree, i, n) = RootCall(tree, Roots(tree), n)[i]
  <2> DEFINE root == Roots(tree)
  <2>1. root = [m \in Nat |-> RootCall(tree, root, m)]
    BY RootsEquation
  <2> HIDE DEF root
  <2>2. root[n] = RootCall(tree, root, n)
    BY <2>1
  <2> QED
    BY <2>2 DEF SliceRoot, root
<1>2. SliceRoot(tree, i, 1) = tree[i + 1]
  BY <1>1 DEF RootCall
<1>3. ASSUME NEW n \in Nat, n >= 2
      PROVE  SliceRoot(tree, i, n) =
                NodeHash(SliceRoot(tree, i, SplitPoint(n)),
                         SliceRoot(tree, i + SplitPoint(n), n - SplitPoint(n)))
  BY <1>1, <1>3 DEF RootCall, SliceRoot
<1> QED
  BY <1>2, <1>3

\* So does inclusionProof, ...
LEMMA PathsEquation ==
  ASSUME NEW tree
  PROVE  Paths(tree) = [n \in Nat \ {0} |-> PathCall(tree, Paths(tree), n)]
<1> DEFINE S == Nat \ {0}
<1>1. ASSUME NEW g, NEW h, NEW n \in S, \A m \in S : m < n => g[m] = h[m]
      PROVE  PathCall(tree, g, n) = PathCall(tree, h, n)
  <2>1. CASE n = 1
    BY <2>1 DEF PathCall
  <2>2. CASE n >= 2
    <3>1. g[SplitPoint(n)] = h[SplitPoint(n)] /\ g[n - SplitPoint(n)] = h[n - SplitPoint(n)]
      BY <1>1, <2>2, SplitPointFacts
    <3> QED
      BY <2>2, <3>1 DEF PathCall
  <2> QED
    BY <2>1, <2>2
<1>2. PathRecursion!Causal(tree, S)
  BY <1>1 DEF PathRecursion!Causal
<1>3. \E f : f = [n \in S |-> PathCall(tree, f, n)]
  BY <1>2, PathRecursion!RecursionHasSolution
<1>4. Paths(tree) = CHOOSE f : f = [n \in S |-> PathCall(tree, f, n)]
  BY Zenon DEF Paths
<1> QED
  BY <1>3, <1>4, Zenon

\* ... which is, case by case, the path of the side the leaf is on and the root of the other.
LEMMA PathCases ==
  ASSUME NEW tree, NEW i \in Nat, NEW at \in Nat
  PROVE  /\ Paths(tree)[1][i][at] = <<>>
         /\ \A n \in Nat : n >= 2 =>
              LET k == SplitPoint(n) IN
              /\ at < k => Paths(tree)[n][i][at] =
                             Append(Paths(tree)[k][i][at], SliceRoot(tree, i + k, n - k))
              /\ ~(at < k) => Paths(tree)[n][i][at] =
                             Append(Paths(tree)[n - k][i + k][at - k], SliceRoot(tree, i, k))
<1> DEFINE path == Paths(tree)
<1>1. path = [m \in Nat \ {0} |-> PathCall(tree, path, m)]
  BY PathsEquation
<1> HIDE DEF path
<1>2. ASSUME NEW n \in Nat \ {0} PROVE path[n][i][at] = PathCall(tree, path, n)[i][at]
  <2>1. path[n] = PathCall(tree, path, n)
    BY <1>1
  <2> QED
    BY <2>1, Zenon
<1>3. path[1][i][at] = <<>>
  BY <1>2 DEF PathCall
<1>4. ASSUME NEW n \in Nat, n >= 2
      PROVE  LET k == SplitPoint(n) IN
              path[n][i][at] =
                IF at < k
                THEN Append(path[k][i][at], SliceRoot(tree, i + k, n - k))
                ELSE Append(path[n - k][i + k][at - k], SliceRoot(tree, i, k))
  BY <1>2, <1>4 DEF PathCall
<1> QED
  BY <1>3, <1>4 DEF path

\* So does rootFromInclusion, ...
LEMMA InclusionRootsEquation ==
  ASSUME NEW x
  PROVE  InclusionRoots(x) = [n \in Nat \ {0} |-> InclusionCall(x, InclusionRoots(x), n)]
<1> DEFINE S == Nat \ {0}
<1>1. ASSUME NEW g, NEW h, NEW n \in S, \A m \in S : m < n => g[m] = h[m]
      PROVE  InclusionCall(x, g, n) = InclusionCall(x, h, n)
  <2>1. CASE n = 1
    BY <2>1 DEF InclusionCall
  <2>2. CASE n >= 2
    <3>1. g[SplitPoint(n)] = h[SplitPoint(n)] /\ g[n - SplitPoint(n)] = h[n - SplitPoint(n)]
      BY <1>1, <2>2, SplitPointFacts
    <3> QED
      BY <2>2, <3>1 DEF InclusionCall
  <2> QED
    BY <2>1, <2>2
<1>2. InclusionRecursion!Causal(x, S)
  BY <1>1 DEF InclusionRecursion!Causal
<1>3. \E f : f = [n \in S |-> InclusionCall(x, f, n)]
  BY <1>2, InclusionRecursion!RecursionHasSolution
<1>4. InclusionRoots(x) = CHOOSE f : f = [n \in S |-> InclusionCall(x, f, n)]
  BY Zenon DEF InclusionRoots
<1> QED
  BY <1>3, <1>4, Zenon

\* ... which throws when the proof is too short, or too long, for the leaf's place.
LEMMA InclusionCases ==
  ASSUME NEW x, NEW at \in Nat, NEW p \in Nat
  PROVE  /\ InclusionRoots(x)[1][at][p] = IF p = 0 THEN x.leaf ELSE Failed
         /\ \A n \in Nat : n >= 2 =>
              LET k == SplitPoint(n) IN
              InclusionRoots(x)[n][at][p] =
                IF p = 0 THEN Failed
                ELSE IF at < k
                THEN NodeHash(InclusionRoots(x)[k][at][p - 1], x.proof[p])
                ELSE NodeHash(x.proof[p], InclusionRoots(x)[n - k][at - k][p - 1])
<1> DEFINE root == InclusionRoots(x)
<1>1. root = [m \in Nat \ {0} |-> InclusionCall(x, root, m)]
  BY InclusionRootsEquation
<1> HIDE DEF root
<1>2. ASSUME NEW n \in Nat \ {0} PROVE root[n][at][p] = InclusionCall(x, root, n)[at][p]
  <2>1. root[n] = InclusionCall(x, root, n)
    BY <1>1
  <2> QED
    BY <2>1, Zenon
<1>3. root[1][at][p] = IF p = 0 THEN x.leaf ELSE Failed
  BY <1>2 DEF InclusionCall
<1>4. ASSUME NEW n \in Nat, n >= 2
      PROVE  LET k == SplitPoint(n) IN
              root[n][at][p] =
                IF p = 0 THEN Failed
                ELSE IF at < k
                THEN NodeHash(root[k][at][p - 1], x.proof[p])
                ELSE NodeHash(x.proof[p], root[n - k][at - k][p - 1])
  BY <1>2, <1>4 DEF InclusionCall
<1> QED
  BY <1>3, <1>4 DEF root

\* A sequence keeps what it has when an element of whatever kind is appended.
LEMMA AppendAny ==
  ASSUME NEW S, NEW s \in Seq(S), NEW e
  PROVE  /\ Append(s, e) \in Seq(S \union {e})
         /\ Len(s) \in Nat /\ Len(Append(s, e)) = Len(s) + 1
         /\ \A j \in 1..Len(s) : Append(s, e)[j] = s[j]
         /\ Append(s, e)[Len(s) + 1] = e
<1>1. s \in Seq(S \union {e})
  BY SeqMonotonic
<1> QED
  BY <1>1, AppendProperties

\* Whoever follows the path of a leaf from the leaf comes to the root.
Leads(tree, x, n, i, at) ==
  LET q == Paths(tree)[n][i][at]
  IN  /\ \E S : q \in Seq(S)
      /\ x.leaf = tree[i + at + 1] /\ (\A j \in 1..Len(q) : x.proof[j] = q[j]) =>
           InclusionRoots(x)[n][at][Len(q)] = SliceRoot(tree, i, n)

\* A place on the path and the next, where the hash h joins.
Joins(tree, x, h, m, j, a, n, i, at) ==
  /\ j + a = i + at
  /\ Paths(tree)[n][i][at] = Append(Paths(tree)[m][j][a], h)
  /\ \A p \in Nat : x.proof[p + 1] = h /\ InclusionRoots(x)[m][a][p] = SliceRoot(tree, j, m) =>
                      InclusionRoots(x)[n][at][p + 1] = SliceRoot(tree, i, n)

\* A path that leads to the root of a part, and joins the other part there, leads to the root.
LEMMA LeadsFurther ==
  ASSUME NEW tree, NEW x, NEW n \in Nat, NEW i \in Nat, NEW at \in Nat,
         NEW m \in Nat, NEW j \in Nat, NEW a \in Nat, NEW h,
         Leads(tree, x, m, j, a), Joins(tree, x, h, m, j, a, n, i, at)
  PROVE  Leads(tree, x, n, i, at)
<1> DEFINE s == Paths(tree)[m][j][a]
           q == Paths(tree)[n][i][at]
<1>1. PICK S : s \in Seq(S)
  BY DEF Leads
<1>2. /\ q = Append(s, h) /\ j + a = i + at
      /\ \A p \in Nat : x.proof[p + 1] = h /\ InclusionRoots(x)[m][a][p] = SliceRoot(tree, j, m) =>
                          InclusionRoots(x)[n][at][p + 1] = SliceRoot(tree, i, n)
  BY DEF Joins
<1>3. /\ x.leaf = tree[j + a + 1] /\ (\A l \in 1..Len(s) : x.proof[l] = s[l]) =>
           InclusionRoots(x)[m][a][Len(s)] = SliceRoot(tree, j, m)
  BY DEF Leads
<1> HIDE DEF s, q
<1>4. /\ q \in Seq(S \union {h}) /\ Len(s) \in Nat /\ Len(q) = Len(s) + 1
      /\ \A l \in 1..Len(s) : q[l] = s[l]
      /\ q[Len(s) + 1] = h
  BY <1>1, <1>2, AppendAny
<1>5. ASSUME x.leaf = tree[i + at + 1], \A l \in 1..Len(q) : x.proof[l] = q[l]
      PROVE  InclusionRoots(x)[n][at][Len(q)] = SliceRoot(tree, i, n)
  <2>1. x.proof[Len(s) + 1] = h
    BY <1>4, <1>5
  <2>2. \A l \in 1..Len(s) : x.proof[l] = s[l]
    BY <1>4, <1>5
  <2>3. x.leaf = tree[j + a + 1]
    BY <1>2, <1>5
  <2> QED
    BY <1>2, <1>3, <1>4, <2>1, <2>2, <2>3
<1> QED
  BY <1>4, <1>5 DEF Leads, q

\* Every path of the tree leads to its root.
LEMMA PathLeadsToRoot ==
  ASSUME NEW tree, NEW x
  PROVE  \A n \in Nat \ {0} : \A i \in Nat : \A at \in 0..(n - 1) : Leads(tree, x, n, i, at)
<1> DEFINE T == {n \in Nat \ {0} : ~ \A i \in Nat : \A at \in 0..(n - 1) : Leads(tree, x, n, i, at)}
<1> SUFFICES ASSUME T # {} PROVE FALSE
  OBVIOUS
<1>1. PICK n \in Nat \ {0} : n \in T /\ \A j \in T : n <= j
  BY RootRecursion!LeastNatural, T \in SUBSET Nat
<1>2. \A m \in Nat \ {0} : m < n => \A i \in Nat : \A at \in 0..(m - 1) : Leads(tree, x, m, i, at)
  BY <1>1
<1>3. PICK i \in Nat, at \in 0..(n - 1) : ~Leads(tree, x, n, i, at)
  BY <1>1
<1> HIDE DEF T
<1>4. CASE n = 1
  <2>1. at = 0 /\ Paths(tree)[n][i][at] = <<>>
    BY <1>4, PathCases
  <2>2. <<>> \in Seq({}) /\ Len(<<>>) = 0
    OBVIOUS
  <2>3. SliceRoot(tree, i, n) = tree[i + at + 1]
    BY <1>4, <2>1, SliceRootCases
  <2>4. InclusionRoots(x)[n][at][0] = x.leaf
    BY <1>4, <2>1, InclusionCases
  <2> QED
    BY <1>3, <2>1, <2>2, <2>3, <2>4 DEF Leads
<1>5. CASE n >= 2
  <2> DEFINE k == SplitPoint(n)
  <2>1. /\ k \in 1..(n - 1) /\ n - k \in 1..(n - 1) /\ at \in Nat /\ i + k \in Nat
        /\ n \in Nat /\ k \in Nat /\ n - k \in Nat
    BY <1>5, SplitPointFacts
  <2>2. SliceRoot(tree, i, n) = NodeHash(SliceRoot(tree, i, k), SliceRoot(tree, i + k, n - k))
    BY <1>5, SliceRootCases
  <2>5. /\ at < k => Paths(tree)[n][i][at] =
                       Append(Paths(tree)[k][i][at], SliceRoot(tree, i + k, n - k))
        /\ ~(at < k) => Paths(tree)[n][i][at] =
                          Append(Paths(tree)[n - k][i + k][at - k], SliceRoot(tree, i, k))
    <3>1. at \in Nat
      OBVIOUS
    <3> QED
      BY <1>5, <3>1, PathCases
  <2>3. CASE at < k
    <3> DEFINE h == SliceRoot(tree, i + k, n - k)
    <3>1. Leads(tree, x, k, i, at)
      BY <1>2, <2>1, <2>3
    <3>2. Paths(tree)[n][i][at] = Append(Paths(tree)[k][i][at], h)
      BY <2>3, <2>5
    <3>3. ASSUME NEW p \in Nat, x.proof[p + 1] = h,
                 InclusionRoots(x)[k][at][p] = SliceRoot(tree, i, k)
          PROVE  InclusionRoots(x)[n][at][p + 1] = SliceRoot(tree, i, n)
      <4>1. InclusionRoots(x)[n][at][p + 1] =
              NodeHash(InclusionRoots(x)[k][at][p + 1 - 1], x.proof[p + 1])
        BY <1>5, <2>1, <2>3, InclusionCases, p + 1 \in Nat, p + 1 # 0
      <4>2. p + 1 - 1 = p
        OBVIOUS
      <4> QED
        BY <2>2, <3>3, <4>1, <4>2
    <3>4. Joins(tree, x, h, k, i, at, n, i, at)
      BY <3>2, <3>3 DEF Joins
    <3> HIDE DEF k, h
    <3> QED
      BY <1>3, <2>1, <3>1, <3>4, LeadsFurther
  <2>4. CASE ~(at < k)
    <3> DEFINE h == SliceRoot(tree, i, k)
    <3>0. at - k \in 0..(n - k - 1) /\ at - k \in Nat /\ (i + k) + (at - k) = i + at
      BY <2>1, <2>4
    <3>1. Leads(tree, x, n - k, i + k, at - k)
      BY <1>2, <2>1, <3>0
    <3>2. Paths(tree)[n][i][at] = Append(Paths(tree)[n - k][i + k][at - k], h)
      BY <2>4, <2>5
    <3>3. ASSUME NEW p \in Nat, x.proof[p + 1] = h,
                 InclusionRoots(x)[n - k][at - k][p] = SliceRoot(tree, i + k, n - k)
          PROVE  InclusionRoots(x)[n][at][p + 1] = SliceRoot(tree, i, n)
      <4>1. InclusionRoots(x)[n][at][p + 1] =
              NodeHash(x.proof[p + 1], InclusionRoots(x)[n - k][at - k][p + 1 - 1])
        BY <1>5, <2>1, <2>4, InclusionCases, p + 1 \in Nat, p + 1 # 0
      <4>2. p + 1 - 1 = p
        OBVIOUS
      <4> QED
        BY <2>2, <3>3, <4>1, <4>2
    <3>4. Joins(tree, x, h, n - k, i + k, at - k, n, i, at)
      BY <3>0, <3>2, <3>3 DEF Joins
    <3> HIDE DEF k, h
    <3> QED
      BY <1>3, <2>1, <3>0, <3>1, <3>4, LeadsFurther
  <2> QED
    BY <2>3, <2>4
<1> QED
  BY <1>4, <1>5

-----------------------------------------------------------------------------
\* A tree of leaves that are hashes has a hash for its root.
LEMMA SliceRootIsHash ==
  ASSUME NEW tree, NEW N \in Nat, \A j \in 1..N : tree[j] # Failed
  PROVE  \A n \in Nat \ {0} : \A i \in Nat : i + n <= N => SliceRoot(tree, i, n) # Failed
<1> DEFINE T == {n \in Nat \ {0} : ~ \A i \in Nat : i + n <= N => SliceRoot(tree, i, n) # Failed}
<1> SUFFICES ASSUME T # {} PROVE FALSE
  OBVIOUS
<1>1. PICK n \in Nat \ {0} : n \in T /\ \A j \in T : n <= j
  BY RootRecursion!LeastNatural, T \in SUBSET Nat
<1>2. \A m \in Nat \ {0} : m < n => \A i \in Nat : i + m <= N => SliceRoot(tree, i, m) # Failed
  BY <1>1
<1>3. PICK i \in Nat : i + n <= N /\ SliceRoot(tree, i, n) = Failed
  BY <1>1
<1>4. CASE n = 1
  BY <1>3, <1>4, SliceRootCases, i + 1 \in 1..N
<1>5. CASE n >= 2
  <2> DEFINE k == SplitPoint(n)
  <2>1. /\ k \in Nat \ {0} /\ k < n /\ n - k \in Nat \ {0} /\ n - k < n
        /\ i + k \in Nat /\ i + k <= N /\ i + k + (n - k) <= N
    BY <1>3, <1>5, SplitPointFacts
  <2>2. SliceRoot(tree, i, n) = NodeHash(SliceRoot(tree, i, k), SliceRoot(tree, i + k, n - k))
    BY <1>5, SliceRootCases
  <2> HIDE DEF k
  <2>3. SliceRoot(tree, i, k) # Failed /\ SliceRoot(tree, i + k, n - k) # Failed
    BY <1>2, <2>1
  <2> QED
    BY <1>3, <2>2, <2>3 DEF NodeHash, Failed
<1> QED
  BY <1>4, <1>5

\* Where two trees have the same leaves, they have the same root, ...
LEMMA SameLeavesSameRoot ==
  ASSUME NEW c, NEW l, NEW N \in Nat, \A j \in 1..N : c[j] = l[j]
  PROVE  \A n \in Nat \ {0} : \A i \in Nat : i + n <= N => SliceRoot(c, i, n) = SliceRoot(l, i, n)
<1> DEFINE T == {n \in Nat \ {0} : ~ \A i \in Nat : i + n <= N => SliceRoot(c, i, n) = SliceRoot(l, i, n)}
<1> SUFFICES ASSUME T # {} PROVE FALSE
  OBVIOUS
<1>1. PICK n \in Nat \ {0} : n \in T /\ \A j \in T : n <= j
  BY RootRecursion!LeastNatural, T \in SUBSET Nat
<1>2. \A m \in Nat \ {0} : m < n => \A i \in Nat : i + m <= N => SliceRoot(c, i, m) = SliceRoot(l, i, m)
  BY <1>1
<1>3. PICK i \in Nat : i + n <= N /\ SliceRoot(c, i, n) # SliceRoot(l, i, n)
  BY <1>1
<1>4. CASE n = 1
  BY <1>3, <1>4, SliceRootCases, i + 1 \in 1..N
<1>5. CASE n >= 2
  <2> DEFINE k == SplitPoint(n)
  <2>1. /\ k \in Nat \ {0} /\ k < n /\ n - k \in Nat \ {0} /\ n - k < n
        /\ i + k \in Nat /\ i + k <= N /\ i + k + (n - k) <= N
    BY <1>3, <1>5, SplitPointFacts
  <2>2. /\ SliceRoot(c, i, n) = NodeHash(SliceRoot(c, i, k), SliceRoot(c, i + k, n - k))
        /\ SliceRoot(l, i, n) = NodeHash(SliceRoot(l, i, k), SliceRoot(l, i + k, n - k))
    BY <1>5, SliceRootCases
  <2> HIDE DEF k
  <2>3. SliceRoot(c, i, k) = SliceRoot(l, i, k) /\ SliceRoot(c, i + k, n - k) = SliceRoot(l, i + k, n - k)
    BY <1>2, <2>1
  <2> QED
    BY <1>3, <2>2, <2>3
<1> QED
  BY <1>4, <1>5

\* A node stands for its two children, unless it stands for a throw.
LEMMA NodeHashInjective ==
  ASSUME NEW a, NEW b, NEW c, NEW d, NodeHash(a, b) = NodeHash(c, d), NodeHash(c, d) # Failed
  PROVE  a = c /\ b = d
BY DEF NodeHash

\* ... and nowhere else.
LEMMA SameRootSameLeaves ==
  ASSUME NEW c, NEW l, NEW N \in Nat, \A j \in 1..N : l[j] # Failed
  PROVE  \A n \in Nat \ {0} : \A i \in Nat :
           i + n <= N /\ SliceRoot(c, i, n) = SliceRoot(l, i, n) =>
             \A j \in (i + 1)..(i + n) : c[j] = l[j]
<1> DEFINE Same(n, i) == i + n <= N /\ SliceRoot(c, i, n) = SliceRoot(l, i, n) =>
                           \A j \in (i + 1)..(i + n) : c[j] = l[j]
           T == {n \in Nat \ {0} : ~ \A i \in Nat : Same(n, i)}
<1> SUFFICES ASSUME T # {} PROVE FALSE
  OBVIOUS
<1>1. PICK n \in Nat \ {0} : n \in T /\ \A j \in T : n <= j
  BY RootRecursion!LeastNatural, T \in SUBSET Nat
<1>2. \A m \in Nat \ {0} : m < n => \A i \in Nat : Same(m, i)
  BY <1>1
<1>3. PICK i \in Nat : ~Same(n, i)
  BY <1>1
<1>4. CASE n = 1
  <2>1. SliceRoot(c, i, n) = c[i + 1] /\ SliceRoot(l, i, n) = l[i + 1]
    BY <1>4, SliceRootCases
  <2> QED
    BY <1>3, <1>4, <2>1
<1>5. CASE n >= 2
  <2> DEFINE k == SplitPoint(n)
  <2>1. /\ k \in Nat \ {0} /\ k < n /\ n - k \in Nat \ {0} /\ n - k < n
        /\ i + k \in Nat /\ i + k <= N /\ i + k + (n - k) <= N
    BY <1>3, <1>5, SplitPointFacts
  <2>2. /\ SliceRoot(c, i, n) = NodeHash(SliceRoot(c, i, k), SliceRoot(c, i + k, n - k))
        /\ SliceRoot(l, i, n) = NodeHash(SliceRoot(l, i, k), SliceRoot(l, i + k, n - k))
    BY <1>5, SliceRootCases
  <2> HIDE DEF k
  <2>3. SliceRoot(l, i, n) # Failed
    BY <1>3, SliceRootIsHash
  <2>4. SliceRoot(c, i, k) = SliceRoot(l, i, k) /\ SliceRoot(c, i + k, n - k) = SliceRoot(l, i + k, n - k)
    BY <1>3, <2>2, <2>3, NodeHashInjective
  <2>5. Same(k, i) /\ Same(n - k, i + k)
    BY <1>2, <2>1
  <2>6. \A j \in (i + 1)..(i + k) : c[j] = l[j]
    BY <2>1, <2>4, <2>5
  <2>7. \A j \in (i + k + 1)..(i + k + (n - k)) : c[j] = l[j]
    BY <2>1, <2>4, <2>5
  <2> QED
    BY <1>3, <2>1, <2>6, <2>7
<1> QED
  BY <1>4, <1>5

\* A proof that leads to the root starts from the leaf of its place: of the first p hashes of
\* the proof in x, in the slice of n leaves after the first i.
OnlyLeads(tree, N, x, n, i, at, p) ==
  i + n <= N /\ InclusionRoots(x)[n][at][p] = SliceRoot(tree, i, n) => x.leaf = tree[i + at + 1]

\* No proof leads from another leaf to the root.
LEMMA OnlyTheLeafLeadsToRoot ==
  ASSUME NEW tree, NEW N \in Nat, \A j \in 1..N : tree[j] # Failed, NEW x
  PROVE  \A n \in Nat \ {0} : \A i \in Nat, at \in 0..(n - 1), p \in Nat :
           OnlyLeads(tree, N, x, n, i, at, p)
<1> DEFINE T == {n \in Nat \ {0} : ~ \A i \in Nat, at \in 0..(n - 1), p \in Nat : OnlyLeads(tree, N, x, n, i, at, p)}
<1> SUFFICES ASSUME T # {} PROVE FALSE
  OBVIOUS
<1>1. PICK n \in Nat \ {0} : n \in T /\ \A j \in T : n <= j
  BY RootRecursion!LeastNatural, T \in SUBSET Nat
<1>2. \A m \in Nat \ {0} : m < n => \A i \in Nat, at \in 0..(m - 1), p \in Nat : OnlyLeads(tree, N, x, m, i, at, p)
  BY <1>1
<1>3. PICK i \in Nat, at \in 0..(n - 1), p \in Nat : ~OnlyLeads(tree, N, x, n, i, at, p)
  BY <1>1
<1>4. SliceRoot(tree, i, n) # Failed /\ at \in Nat
  <2>1. i + n <= N
    BY <1>3 DEF OnlyLeads
  <2>2. SliceRoot(tree, i, n) # Failed
    BY <2>1, SliceRootIsHash
  <2> QED
    BY <2>2
<1>5. CASE n = 1
  <2>1. InclusionRoots(x)[n][at][p] \in {x.leaf, Failed}
    BY <1>4, <1>5, InclusionCases
  <2>2. SliceRoot(tree, i, n) = tree[i + at + 1]
    BY <1>5, SliceRootCases
  <2> QED
    BY <1>3, <1>4, <2>1, <2>2 DEF OnlyLeads
<1>6. CASE n >= 2
  <2> DEFINE k == SplitPoint(n)
  <2>1. /\ k \in Nat \ {0} /\ k < n /\ n - k \in Nat \ {0} /\ n - k < n
        /\ i + k \in Nat /\ i + k <= N /\ i + k + (n - k) <= N
    BY <1>3, <1>6, SplitPointFacts DEF OnlyLeads
  <2>2. SliceRoot(tree, i, n) = NodeHash(SliceRoot(tree, i, k), SliceRoot(tree, i + k, n - k))
    BY <1>6, SliceRootCases
  <2>3. /\ p # 0
        /\ at < k => InclusionRoots(x)[n][at][p] = NodeHash(InclusionRoots(x)[k][at][p - 1], x.proof[p])
        /\ ~(at < k) => InclusionRoots(x)[n][at][p] =
                          NodeHash(x.proof[p], InclusionRoots(x)[n - k][at - k][p - 1])
    BY <1>3, <1>4, <1>6, InclusionCases DEF OnlyLeads
  <2> HIDE DEF k
  <2>4. CASE at < k
    <3>1. InclusionRoots(x)[k][at][p - 1] = SliceRoot(tree, i, k)
      BY <1>3, <1>4, <2>2, <2>3, <2>4, NodeHashInjective DEF OnlyLeads
    <3>2. at \in 0..(k - 1) /\ p - 1 \in Nat
      BY <2>1, <2>3, <2>4
    <3>3. OnlyLeads(tree, N, x, k, i, at, p - 1)
      BY <1>2, <2>1, <3>2
    <3> QED
      BY <1>3, <2>1, <3>1, <3>3 DEF OnlyLeads
  <2>5. CASE ~(at < k)
    <3>1. InclusionRoots(x)[n - k][at - k][p - 1] = SliceRoot(tree, i + k, n - k)
      BY <1>3, <1>4, <2>2, <2>3, <2>5, NodeHashInjective DEF OnlyLeads
    <3>2. at - k \in 0..(n - k - 1) /\ p - 1 \in Nat
      BY <2>1, <2>3, <2>5
    <3>3. OnlyLeads(tree, N, x, n - k, i + k, at - k, p - 1)
      BY <1>2, <2>1, <3>2
    <3>4. (i + k) + (at - k) + 1 = i + at + 1
      BY <2>1
    <3> QED
      BY <1>3, <2>1, <3>1, <3>3, <3>4 DEF OnlyLeads
  <2> QED
    BY <2>4, <2>5
<1> QED
  BY <1>5, <1>6

-----------------------------------------------------------------------------
\* subProof has a solution.
LEMMA SubProofsEquation ==
  ASSUME NEW tree
  PROVE  SubProofs(tree) = [n \in Nat \ {0} |-> SubProofCall(tree, SubProofs(tree), n)]
<1> DEFINE S == Nat \ {0}
<1>1. ASSUME NEW g, NEW h, NEW n \in S, \A m \in S : m < n => g[m] = h[m]
      PROVE  SubProofCall(tree, g, n) = SubProofCall(tree, h, n)
  <2>1. CASE n = 1
    <3>1. \A old \in 1..n : old = n
      BY <2>1
    <3> QED
      BY <3>1 DEF SubProofCall
  <2>2. CASE n >= 2
    <3>1. g[SplitPoint(n)] = h[SplitPoint(n)] /\ g[n - SplitPoint(n)] = h[n - SplitPoint(n)]
      BY <1>1, <2>2, SplitPointFacts
    <3> QED
      BY <2>2, <3>1 DEF SubProofCall
  <2> QED
    BY <2>1, <2>2
<1>2. SubProofRecursion!Causal(tree, S)
  BY <1>1 DEF SubProofRecursion!Causal
<1>3. \E f : f = [n \in S |-> SubProofCall(tree, f, n)]
  BY <1>2, SubProofRecursion!RecursionHasSolution
<1>4. SubProofs(tree) = CHOOSE f : f = [n \in S |-> SubProofCall(tree, f, n)]
  BY Zenon DEF SubProofs
<1> QED
  BY <1>3, <1>4, Zenon

\* What subProof returns, case by case.
SubProofOf(tree, i, n, old, b) ==
  LET q == SubProofs(tree)[n][i][old][b]
      k == SplitPoint(n)
  IN  /\ old = n /\ b => q = <<>>
      /\ old = n /\ ~b => q = <<SliceRoot(tree, i, n)>>
      /\ old < n /\ old <= k =>
           q = Append(SubProofs(tree)[k][i][old][b], SliceRoot(tree, i + k, n - k))
      /\ old < n /\ ~(old <= k) =>
           q = Append(SubProofs(tree)[n - k][i + k][old - k][FALSE], SliceRoot(tree, i, k))

\* That is what it returns.
LEMMA SubProofCases ==
  ASSUME NEW tree, NEW i \in Nat, NEW n \in Nat \ {0}, NEW old \in 1..n, NEW b \in BOOLEAN
  PROVE  SubProofOf(tree, i, n, old, b)
<1> DEFINE sub == SubProofs(tree)
<1>1. sub = [m \in Nat \ {0} |-> SubProofCall(tree, sub, m)]
  BY SubProofsEquation
<1> HIDE DEF sub
<1>2. sub[n][i][old][b] = SubProofCall(tree, sub, n)[i][old][b]
  <2>1. sub[n] = SubProofCall(tree, sub, n)
    BY <1>1
  <2> QED
    BY <2>1, Zenon
<1> DEFINE k == SplitPoint(n)
<1>3. sub[n][i][old][b] =
        IF old = n THEN (IF b THEN <<>> ELSE <<SliceRoot(tree, i, n)>>)
        ELSE IF old <= k
        THEN Append(sub[k][i][old][b], SliceRoot(tree, i + k, n - k))
        ELSE Append(sub[n - k][i + k][old - k][FALSE], SliceRoot(tree, i, k))
  BY <1>2 DEF SubProofCall
<1> HIDE DEF k
<1>4. ASSUME old < n
      PROVE  sub[n][i][old][b] =
               IF old <= k
               THEN Append(sub[k][i][old][b], SliceRoot(tree, i + k, n - k))
               ELSE Append(sub[n - k][i + k][old - k][FALSE], SliceRoot(tree, i, k))
  <2>1. old # n
    BY <1>4
  <2> QED
    BY <1>3, <2>1, Zenon
<1>5. ASSUME old = n
      PROVE  sub[n][i][old][b] = IF b THEN <<>> ELSE <<SliceRoot(tree, i, n)>>
  BY <1>3, <1>5, Zenon
<1> QED
  BY <1>4, <1>5, Zenon DEF SubProofOf, sub, k

\* reconstruct has a solution.
LEMMA ReconstructionsEquation ==
  ASSUME NEW x
  PROVE  Reconstructions(x) = [n \in Nat \ {0} |-> ReconstructCall(x, Reconstructions(x), n)]
<1> DEFINE S == Nat \ {0}
<1>1. ASSUME NEW g, NEW h, NEW n \in S, \A m \in S : m < n => g[m] = h[m]
      PROVE  ReconstructCall(x, g, n) = ReconstructCall(x, h, n)
  <2>1. CASE n = 1
    <3> DEFINE k == SplitPoint(n)
               Result(f, old, b, p) ==
                 IF old = n /\ b THEN [old |-> x.oldRoot, new |-> x.oldRoot, rest |-> p]
                 ELSE IF p = 0 THEN [old |-> Failed, new |-> Failed, rest |-> 0]
                 ELSE IF old = n THEN [old |-> x.proof[p], new |-> x.proof[p], rest |-> p - 1]
                 ELSE IF old <= k
                 THEN [old |-> f[k][old][b][p - 1].old,
                       new |-> NodeHash(f[k][old][b][p - 1].new, x.proof[p]),
                       rest |-> f[k][old][b][p - 1].rest]
                 ELSE [old |-> NodeHash(x.proof[p], f[n - k][old - k][FALSE][p - 1].old),
                       new |-> NodeHash(x.proof[p], f[n - k][old - k][FALSE][p - 1].new),
                       rest |-> f[n - k][old - k][FALSE][p - 1].rest]
               Results(f) == [old \in 1..n |-> [b \in BOOLEAN |-> [p \in Nat |-> Result(f, old, b, p)]]]
    <3>1. \A old \in 1..n : old = n
      BY <2>1
    <3>2. ASSUME NEW old \in 1..n, NEW b \in BOOLEAN, NEW p \in Nat
          PROVE  Result(g, old, b, p) = Result(h, old, b, p)
      <4>1. old = n
        BY <3>1
      <4>2. CASE b
        BY <4>1, <4>2, Zenon
      <4>3. CASE ~b /\ p = 0
        BY <4>1, <4>3, Zenon
      <4>4. CASE ~b /\ p # 0
        BY <4>1, <4>4, Zenon
      <4> QED
        BY <4>2, <4>3, <4>4
    <3>3. ReconstructCall(x, g, n) = Results(g) /\ ReconstructCall(x, h, n) = Results(h)
      BY Zenon DEF ReconstructCall
    <3> HIDE DEF Result
    <3>4. Results(g) = Results(h)
      BY <3>2
    <3> QED
      BY <3>3, <3>4, Zenon
  <2>2. CASE n >= 2
    <3>1. g[SplitPoint(n)] = h[SplitPoint(n)] /\ g[n - SplitPoint(n)] = h[n - SplitPoint(n)]
      BY <1>1, <2>2, SplitPointFacts
    <3> QED
      <4> DEFINE k == SplitPoint(n)
                 Joined(l, r) ==
                   [old \in 1..n |-> [b \in BOOLEAN |-> [p \in Nat |->
                      IF old = n /\ b THEN [old |-> x.oldRoot, new |-> x.oldRoot, rest |-> p]
                      ELSE IF p = 0 THEN [old |-> Failed, new |-> Failed, rest |-> 0]
                      ELSE IF old = n THEN [old |-> x.proof[p], new |-> x.proof[p], rest |-> p - 1]
                      ELSE IF old <= k
                      THEN [old |-> l[old][b][p - 1].old,
                            new |-> NodeHash(l[old][b][p - 1].new, x.proof[p]),
                            rest |-> l[old][b][p - 1].rest]
                      ELSE [old |-> NodeHash(x.proof[p], r[old - k][FALSE][p - 1].old),
                            new |-> NodeHash(x.proof[p], r[old - k][FALSE][p - 1].new),
                            rest |-> r[old - k][FALSE][p - 1].rest]]]]
      <4>1. /\ ReconstructCall(x, g, n) = Joined(g[k], g[n - k])
            /\ ReconstructCall(x, h, n) = Joined(h[k], h[n - k])
        BY Zenon DEF ReconstructCall
      <4> HIDE DEF Joined
      <4> QED
        BY <3>1, <4>1
  <2> QED
    BY <2>1, <2>2
<1>2. ReconstructRecursion!Causal(x, S)
  BY <1>1 DEF ReconstructRecursion!Causal
<1>3. \E f : f = [n \in S |-> ReconstructCall(x, f, n)]
  BY <1>2, ReconstructRecursion!RecursionHasSolution
<1>4. Reconstructions(x) = CHOOSE f : f = [n \in S |-> ReconstructCall(x, f, n)]
  BY Zenon DEF Reconstructions
<1> QED
  BY <1>3, <1>4, Zenon

\* What reconstruct returns, case by case.
Rebuild(x, n, old, b, p) == Reconstructions(x)[n][old][b][p]

ReconstructOf(x, n, old, b, p) ==
  LET r == Rebuild(x, n, old, b, p)
      k == SplitPoint(n)
      left == Rebuild(x, k, old, b, p - 1)
      right == Rebuild(x, n - k, old - k, FALSE, p - 1)
  IN  /\ old = n /\ b => r.old = x.oldRoot /\ r.new = x.oldRoot /\ r.rest = p
      /\ ~(old = n /\ b) /\ p = 0 => r.old = Failed /\ r.new = Failed
      /\ old = n /\ ~b /\ p # 0 =>
           r.old = x.proof[p] /\ r.new = x.proof[p] /\ r.rest = p - 1
      /\ old < n /\ p # 0 /\ old <= k =>
           r.old = left.old /\ r.new = NodeHash(left.new, x.proof[p]) /\ r.rest = left.rest
      /\ old < n /\ p # 0 /\ ~(old <= k) =>
           /\ r.old = NodeHash(x.proof[p], right.old)
           /\ r.new = NodeHash(x.proof[p], right.new)
           /\ r.rest = right.rest

\* That is what it returns.
LEMMA ReconstructCases ==
  ASSUME NEW x, NEW n \in Nat \ {0}, NEW old \in 1..n, NEW b \in BOOLEAN, NEW p \in Nat
  PROVE  ReconstructOf(x, n, old, b, p)
<1> DEFINE recon == Reconstructions(x)
           k == SplitPoint(n)
           r == Rebuild(x, n, old, b, p)
           left == Rebuild(x, k, old, b, p - 1)
           right == Rebuild(x, n - k, old - k, FALSE, p - 1)
<1>1. recon = [m \in Nat \ {0} |-> ReconstructCall(x, recon, m)]
  BY ReconstructionsEquation
<1> HIDE DEF recon
<1>2. recon[n][old][b][p] = ReconstructCall(x, recon, n)[old][b][p]
  <2>1. recon[n] = ReconstructCall(x, recon, n)
    BY <1>1
  <2> QED
    BY <2>1, Zenon
<1> DEFINE rl == recon[k][old][b][p - 1]
           rr == recon[n - k][old - k][FALSE][p - 1]
<1>3. recon[n][old][b][p] =
        IF old = n /\ b THEN [old |-> x.oldRoot, new |-> x.oldRoot, rest |-> p]
        ELSE IF p = 0 THEN [old |-> Failed, new |-> Failed, rest |-> 0]
        ELSE IF old = n THEN [old |-> x.proof[p], new |-> x.proof[p], rest |-> p - 1]
        ELSE IF old <= k
        THEN [old |-> rl.old, new |-> NodeHash(rl.new, x.proof[p]), rest |-> rl.rest]
        ELSE [old |-> NodeHash(x.proof[p], rr.old),
              new |-> NodeHash(x.proof[p], rr.new), rest |-> rr.rest]
  BY <1>2 DEF ReconstructCall
<1>4. r = recon[n][old][b][p] /\ left = rl /\ right = rr
  BY DEF Rebuild, recon
<1> HIDE DEF k, r, left, right, rl, rr
<1>5. ASSUME old = n /\ b PROVE r.old = x.oldRoot /\ r.new = x.oldRoot /\ r.rest = p
  BY <1>3, <1>4, <1>5
<1>6. ASSUME ~(old = n /\ b), p = 0 PROVE r.old = Failed /\ r.new = Failed
  BY <1>3, <1>4, <1>6
<1>7. ASSUME old = n, ~b, p # 0
      PROVE  r.old = x.proof[p] /\ r.new = x.proof[p] /\ r.rest = p - 1
  BY <1>3, <1>4, <1>7
<1>8. ASSUME old < n, p # 0, old <= k
      PROVE  r.old = left.old /\ r.new = NodeHash(left.new, x.proof[p]) /\ r.rest = left.rest
  BY <1>3, <1>4, <1>8
<1>9. ASSUME old < n, p # 0, ~(old <= k)
      PROVE  /\ r.old = NodeHash(x.proof[p], right.old)
             /\ r.new = NodeHash(x.proof[p], right.new)
             /\ r.rest = right.rest
  BY <1>3, <1>4, <1>9
<1>10.
       /\ old = n /\ b => r.old = x.oldRoot /\ r.new = x.oldRoot /\ r.rest = p
       /\ ~(old = n /\ b) /\ p = 0 => r.old = Failed /\ r.new = Failed
       /\ old = n /\ ~b /\ p # 0 =>
            r.old = x.proof[p] /\ r.new = x.proof[p] /\ r.rest = p - 1
       /\ old < n /\ p # 0 /\ old <= k =>
            r.old = left.old /\ r.new = NodeHash(left.new, x.proof[p]) /\ r.rest = left.rest
       /\ old < n /\ p # 0 /\ ~(old <= k) =>
            /\ r.old = NodeHash(x.proof[p], right.old)
            /\ r.new = NodeHash(x.proof[p], right.new)
            /\ r.rest = right.rest
  BY <1>5, <1>6, <1>7, <1>8, <1>9, Zenon
<1> QED
  BY <1>10, Zenon DEF ReconstructOf, k, r, left, right

\* Whoever rebuilds the two trees from the proof that one extends the other comes to both roots.
Rebuilt(r, tree, n, i, old) ==
  r.old = SliceRoot(tree, i, old) /\ r.new = SliceRoot(tree, i, n) /\ r.rest = 0

Rebuilds(tree, x, n, i, old, b) ==
  LET q == SubProofs(tree)[n][i][old][b]
  IN  /\ \E S : q \in Seq(S)
      /\ (b => x.oldRoot = SliceRoot(tree, i, old)) /\ (\A j \in 1..Len(q) : x.proof[j] = q[j]) =>
           Rebuilt(Rebuild(x, n, old, b, Len(q)), tree, n, i, old)

\* A slice, the larger slice it is a part of, and the hash h of the rest of that.
Completes(tree, x, h, m, j, o, c, n, i, old, b) ==
  /\ c => b /\ j = i /\ o = old
  /\ SubProofs(tree)[n][i][old][b] = Append(SubProofs(tree)[m][j][o][c], h)
  /\ \A p \in Nat :
       x.proof[p + 1] = h /\ Rebuilt(Rebuild(x, m, o, c, p), tree, m, j, o) =>
         Rebuilt(Rebuild(x, n, old, b, p + 1), tree, n, i, old)

\* A proof that rebuilds a part, and then adds the root of the other part, rebuilds the whole.
LEMMA RebuildsFurther ==
  ASSUME NEW tree, NEW x, NEW m, NEW j, NEW o, NEW c, NEW n, NEW i, NEW old, NEW b, NEW h,
         Rebuilds(tree, x, m, j, o, c), Completes(tree, x, h, m, j, o, c, n, i, old, b)
  PROVE  Rebuilds(tree, x, n, i, old, b)
<1> DEFINE s == SubProofs(tree)[m][j][o][c]
           q == SubProofs(tree)[n][i][old][b]
<1>1. PICK S : s \in Seq(S)
  BY DEF Rebuilds
<1>2. /\ c => b /\ j = i /\ o = old
      /\ q = Append(s, h)
      /\ \A p \in Nat :
           x.proof[p + 1] = h /\ Rebuilt(Rebuild(x, m, o, c, p), tree, m, j, o) =>
             Rebuilt(Rebuild(x, n, old, b, p + 1), tree, n, i, old)
  BY DEF Completes
<1>3. (c => x.oldRoot = SliceRoot(tree, j, o)) /\ (\A l \in 1..Len(s) : x.proof[l] = s[l]) =>
        Rebuilt(Rebuild(x, m, o, c, Len(s)), tree, m, j, o)
  BY DEF Rebuilds
<1> HIDE DEF s, q
<1>4. /\ q \in Seq(S \union {h}) /\ Len(s) \in Nat /\ Len(q) = Len(s) + 1
      /\ \A l \in 1..Len(s) : q[l] = s[l]
      /\ q[Len(s) + 1] = h
  BY <1>1, <1>2, AppendAny
<1>5. ASSUME b => x.oldRoot = SliceRoot(tree, i, old), \A l \in 1..Len(q) : x.proof[l] = q[l]
      PROVE  Rebuilt(Rebuild(x, n, old, b, Len(q)), tree, n, i, old)
  <2>1. x.proof[Len(s) + 1] = h
    BY <1>4, <1>5
  <2>2. \A l \in 1..Len(s) : x.proof[l] = s[l]
    BY <1>4, <1>5
  <2>3. c => x.oldRoot = SliceRoot(tree, j, o)
    BY <1>2, <1>5, Zenon
  <2>4. Rebuilt(Rebuild(x, m, o, c, Len(s)), tree, m, j, o)
    BY <1>3, <2>2, <2>3, Zenon
  <2>5. Rebuilt(Rebuild(x, n, old, b, Len(s) + 1), tree, n, i, old)
    BY <1>2, <1>4, <2>1, <2>4, Zenon
  <2> QED
    BY <1>4, <2>5, Zenon
<1>6. \E V : q \in Seq(V)
  BY <1>4
<1> QED
  BY <1>5, <1>6, Zenon DEF Rebuilds, q

\* Every consistency proof of the tree rebuilds it.
LEMMA SubProofRebuilds ==
  ASSUME NEW tree, NEW x
  PROVE  \A n \in Nat \ {0} : \A i \in Nat, old \in 1..n, b \in BOOLEAN : Rebuilds(tree, x, n, i, old, b)
<1> DEFINE T == {n \in Nat \ {0} : ~ \A i \in Nat, old \in 1..n, b \in BOOLEAN : Rebuilds(tree, x, n, i, old, b)}
<1> SUFFICES ASSUME T # {} PROVE FALSE
  OBVIOUS
<1>1. PICK n \in Nat \ {0} : n \in T /\ \A j \in T : n <= j
  BY RootRecursion!LeastNatural, T \in SUBSET Nat
<1>2. \A m \in Nat \ {0} : m < n =>
        \A i \in Nat, old \in 1..m, b \in BOOLEAN : Rebuilds(tree, x, m, i, old, b)
  BY <1>1
<1>3. PICK i \in Nat, old \in 1..n, b \in BOOLEAN : ~Rebuilds(tree, x, n, i, old, b)
  BY <1>1
<1> HIDE DEF T
<1>4. CASE old = n /\ b
  <2>0. SubProofOf(tree, i, n, old, b) /\ ReconstructOf(x, n, old, b, 0)
    BY SubProofCases, ReconstructCases
  <2>1. SubProofs(tree)[n][i][old][b] = <<>>
    BY <1>4, <2>0 DEF SubProofOf
  <2>2. <<>> \in Seq({}) /\ Len(<<>>) = 0
    OBVIOUS
  <2>3. /\ Rebuild(x, n, old, b, 0).old = x.oldRoot
        /\ Rebuild(x, n, old, b, 0).new = x.oldRoot
        /\ Rebuild(x, n, old, b, 0).rest = 0
    BY <1>4, <2>0, Zenon DEF ReconstructOf
  <2>4. x.oldRoot = SliceRoot(tree, i, old) => Rebuilt(Rebuild(x, n, old, b, 0), tree, n, i, old)
    BY <1>4, <2>3 DEF Rebuilt
  <2>5. \E S : <<>> \in Seq(S)
    BY <2>2
  <2> QED
    BY <1>3, <1>4, <2>1, <2>2, <2>4, <2>5, Zenon DEF Rebuilds
<1>5. CASE old = n /\ ~b
  <2> DEFINE h == SliceRoot(tree, i, n)
  <2>0. SubProofOf(tree, i, n, old, b) /\ ReconstructOf(x, n, old, b, 1)
    BY SubProofCases, ReconstructCases
  <2>1. SubProofs(tree)[n][i][old][b] = <<h>>
    BY <1>5, <2>0 DEF SubProofOf
  <2>3. /\ Rebuild(x, n, old, b, 1).old = x.proof[1]
        /\ Rebuild(x, n, old, b, 1).new = x.proof[1]
        /\ Rebuild(x, n, old, b, 1).rest = 1 - 1
    BY <1>5, <2>0, 1 # 0, Zenon DEF ReconstructOf
  <2>4. x.proof[1] = h => Rebuilt(Rebuild(x, n, old, b, 1), tree, n, i, old)
    BY <1>5, <2>3 DEF Rebuilt
  <2> HIDE DEF h
  <2>2. <<h>> \in Seq({h}) /\ Len(<<h>>) = 1 /\ <<h>>[1] = h /\ 1 \in 1..1
    OBVIOUS
  <2>5. \E S : <<h>> \in Seq(S)
    BY <2>2
  <2>6. (\A l \in 1..Len(<<h>>) : x.proof[l] = <<h>>[l]) =>
          Rebuilt(Rebuild(x, n, old, b, Len(<<h>>)), tree, n, i, old)
    BY <2>2, <2>4
  <2> QED
    BY <1>3, <1>5, <2>1, <2>5, <2>6, Zenon DEF Rebuilds
<1>6. CASE old < n
  <2> DEFINE k == SplitPoint(n)
  <2>0. n >= 2 /\ n \in Nat /\ old \in Nat
    BY <1>6
  <2>1. /\ k \in Nat \ {0} /\ k < n /\ n - k \in Nat \ {0} /\ n - k < n /\ i + k \in Nat
    BY <2>0, SplitPointFacts
  <2>2. SliceRoot(tree, i, n) = NodeHash(SliceRoot(tree, i, k), SliceRoot(tree, i + k, n - k))
    BY <2>0, SliceRootCases
  <2>5. /\ old <= k => SubProofs(tree)[n][i][old][b] =
                         Append(SubProofs(tree)[k][i][old][b], SliceRoot(tree, i + k, n - k))
        /\ ~(old <= k) => SubProofs(tree)[n][i][old][b] =
                         Append(SubProofs(tree)[n - k][i + k][old - k][FALSE], SliceRoot(tree, i, k))
    BY <1>6, SubProofCases, Zenon DEF SubProofOf
  <2>6. ASSUME NEW p \in Nat
        PROVE  LET r == Rebuild(x, n, old, b, p + 1)
                   left == Rebuild(x, k, old, b, p)
                   right == Rebuild(x, n - k, old - k, FALSE, p)
               IN  /\ old <= k =>
                        r.old = left.old /\ r.new = NodeHash(left.new, x.proof[p + 1]) /\ r.rest = left.rest
                   /\ ~(old <= k) =>
                        /\ r.old = NodeHash(x.proof[p + 1], right.old)
                        /\ r.new = NodeHash(x.proof[p + 1], right.new)
                        /\ r.rest = right.rest
    <3>1. PICK t \in Nat : t = p + 1
      OBVIOUS
    <3>2. t # 0 /\ t - 1 = p
      BY <3>1
    <3>3. ReconstructOf(x, n, old, b, t)
      BY ReconstructCases
    <3>4. LET r == Rebuild(x, n, old, b, t)
              left == Rebuild(x, k, old, b, t - 1)
              right == Rebuild(x, n - k, old - k, FALSE, t - 1)
          IN  /\ old <= k =>
                   r.old = left.old /\ r.new = NodeHash(left.new, x.proof[t]) /\ r.rest = left.rest
              /\ ~(old <= k) =>
                   /\ r.old = NodeHash(x.proof[t], right.old)
                   /\ r.new = NodeHash(x.proof[t], right.new)
                   /\ r.rest = right.rest
      BY <1>6, <3>2, <3>3 DEF ReconstructOf
    <3> HIDE DEF k
    <3> QED
      BY <3>1, <3>2, <3>4
  <2>3. CASE old <= k
    <3> DEFINE h == SliceRoot(tree, i + k, n - k)
    <3>1. Rebuilds(tree, x, k, i, old, b)
      BY <1>2, <2>1, <2>3
    <3>2. SubProofs(tree)[n][i][old][b] = Append(SubProofs(tree)[k][i][old][b], h)
      BY <2>3, <2>5
    <3>3. ASSUME NEW p \in Nat, x.proof[p + 1] = h,
                 Rebuilt(Rebuild(x, k, old, b, p), tree, k, i, old)
          PROVE  Rebuilt(Rebuild(x, n, old, b, p + 1), tree, n, i, old)
      BY <2>2, <2>3, <2>6, <3>3 DEF Rebuilt
    <3>4. Completes(tree, x, h, k, i, old, b, n, i, old, b)
      BY <3>2, <3>3, Zenon DEF Completes
    <3> HIDE DEF k, h
    <3> QED
      BY <1>3, <3>1, <3>4, RebuildsFurther, Zenon
  <2>4. CASE ~(old <= k)
    <3> DEFINE h == SliceRoot(tree, i, k)
    <3>0. old - k \in 1..(n - k) /\ FALSE \in BOOLEAN
      BY <2>1, <2>4
    <3>1. Rebuilds(tree, x, n - k, i + k, old - k, FALSE)
      BY <1>2, <2>1, <3>0
    <3>2. SubProofs(tree)[n][i][old][b] = Append(SubProofs(tree)[n - k][i + k][old - k][FALSE], h)
      BY <2>4, <2>5
    <3>3. SliceRoot(tree, i, old) = NodeHash(h, SliceRoot(tree, i + k, old - k))
      <4>2. SplitPoint(n) < old /\ old <= n
        BY <2>0, <2>1, <2>4
      <4>1. old >= 2 /\ SplitPoint(old) = SplitPoint(n)
        BY <2>0, <4>2, SameSplitPoint
      <4>3. old \in Nat /\ old >= 2
        BY <4>1
      <4>4. SliceRoot(tree, i, old) =
              NodeHash(SliceRoot(tree, i, SplitPoint(old)),
                       SliceRoot(tree, i + SplitPoint(old), old - SplitPoint(old)))
        BY <4>3, SliceRootCases, Zenon
      <4> QED
        BY <4>1, <4>4
    <3>4. ASSUME NEW p \in Nat, x.proof[p + 1] = h,
                 Rebuilt(Rebuild(x, n - k, old - k, FALSE, p), tree, n - k, i + k, old - k)
          PROVE  Rebuilt(Rebuild(x, n, old, b, p + 1), tree, n, i, old)
      BY <2>2, <2>4, <2>6, <3>3, <3>4 DEF Rebuilt
    <3>5. Completes(tree, x, h, n - k, i + k, old - k, FALSE, n, i, old, b)
      BY <3>2, <3>4, Zenon DEF Completes
    <3> HIDE DEF k, h
    <3> QED
      BY <1>3, <3>1, <3>5, RebuildsFurther, Zenon
  <2> QED
    BY <2>3, <2>4
<1> QED
  BY <1>4, <1>5, <1>6

-----------------------------------------------------------------------------
\* What rebuilds the root of a slice of c, and that of one of l, does so only if the first is
\* the beginning of the second: with the first p hashes of the proof in x.
OnlyRebuilds(c, l, M, N, x, n, i, old, b, p) ==
  LET r == Rebuild(x, n, old, b, p)
  IN  i + n <= N /\ i + old <= M /\ r.old = SliceRoot(c, i, old) /\ r.new = SliceRoot(l, i, n) =>
        \A j \in (i + 1)..(i + old) : c[j] = l[j]

\* No proof leads to the roots of two trees of which one does not extend the other.
LEMMA OnlyExtensionsRebuild ==
  ASSUME NEW c, NEW l, NEW M \in Nat, NEW N \in Nat, NEW x,
         \A j \in 1..M : c[j] # Failed, \A j \in 1..N : l[j] # Failed
  PROVE  \A n \in Nat \ {0} : \A i \in Nat, old \in 1..n, b \in BOOLEAN, p \in Nat :
           OnlyRebuilds(c, l, M, N, x, n, i, old, b, p)
<1> DEFINE T == {n \in Nat \ {0} : ~ \A i \in Nat, old \in 1..n, b \in BOOLEAN, p \in Nat : OnlyRebuilds(c, l, M, N, x, n, i, old, b, p)}
<1> SUFFICES ASSUME T # {} PROVE FALSE
  OBVIOUS
<1>1. PICK n \in Nat \ {0} : n \in T /\ \A j \in T : n <= j
  BY RootRecursion!LeastNatural, T \in SUBSET Nat
<1>2. \A m \in Nat \ {0} : m < n =>
        \A i \in Nat, old \in 1..m, b \in BOOLEAN, p \in Nat : OnlyRebuilds(c, l, M, N, x, m, i, old, b, p)
  BY <1>1
<1>3. PICK i \in Nat, old \in 1..n, b \in BOOLEAN, p \in Nat : ~OnlyRebuilds(c, l, M, N, x, n, i, old, b, p)
  BY <1>1
<1> HIDE DEF T
<1> DEFINE r == Rebuild(x, n, old, b, p)
<1>4. /\ i + n <= N /\ i + old <= M /\ old \in Nat \ {0} /\ n \in Nat
      /\ r.old = SliceRoot(c, i, old) /\ r.new = SliceRoot(l, i, n)
      /\ ~ \A j \in (i + 1)..(i + old) : c[j] = l[j]
  BY <1>3 DEF OnlyRebuilds
<1>5. SliceRoot(l, i, n) # Failed /\ SliceRoot(c, i, old) # Failed
  <2>1. SliceRoot(l, i, n) # Failed
    BY <1>4, SliceRootIsHash
  <2>2. SliceRoot(c, i, old) # Failed
    BY <1>4, SliceRootIsHash
  <2> QED
    BY <2>1, <2>2
<1>6. CASE old = n
  <2>0. ReconstructOf(x, n, old, b, p)
    BY ReconstructCases
  <2>1. r.old = r.new
    BY <1>6, <2>0 DEF ReconstructOf
  <2>2. SliceRoot(c, i, n) = SliceRoot(l, i, n)
    BY <1>4, <1>6, <2>1
  <2>3. \A j \in (i + 1)..(i + n) : c[j] = l[j]
    BY <1>4, <2>2, SameRootSameLeaves
  <2> QED
    BY <1>4, <1>6, <2>3
<1>7. CASE old < n
  <2> DEFINE k == SplitPoint(n)
             left == Rebuild(x, k, old, b, p - 1)
             right == Rebuild(x, n - k, old - k, FALSE, p - 1)
  <2>0. n >= 2
    BY <1>4, <1>7
  <2>1. /\ k \in Nat \ {0} /\ k < n /\ n - k \in Nat \ {0} /\ n - k < n
        /\ i + k \in Nat /\ i + k <= N /\ i + k + (n - k) <= N
    BY <1>4, <2>0, SplitPointFacts
  <2>2. SliceRoot(l, i, n) = NodeHash(SliceRoot(l, i, k), SliceRoot(l, i + k, n - k))
    BY <2>0, SliceRootCases
  <2>3. /\ p # 0
        /\ old <= k => r.old = left.old /\ r.new = NodeHash(left.new, x.proof[p])
        /\ ~(old <= k) => /\ r.old = NodeHash(x.proof[p], right.old)
                          /\ r.new = NodeHash(x.proof[p], right.new)
    <3>0. ReconstructOf(x, n, old, b, p)
      BY ReconstructCases
    <3>1. p = 0 => r.old = Failed
      BY <1>7, <3>0 DEF ReconstructOf
    <3>2. p # 0
      BY <1>4, <1>5, <3>1
    <3> QED
      BY <1>7, <3>0, <3>2 DEF ReconstructOf
  <2>4. ~(old <= k) => SliceRoot(c, i, old) = NodeHash(SliceRoot(c, i, k), SliceRoot(c, i + k, old - k))
    <3> SUFFICES ASSUME ~(old <= k)
                 PROVE  SliceRoot(c, i, old) = NodeHash(SliceRoot(c, i, k), SliceRoot(c, i + k, old - k))
      OBVIOUS
    <3>1. SplitPoint(n) < old /\ old <= n /\ old \in Nat /\ n \in Nat
      BY <1>4, <1>7, <2>1
    <3>2. old >= 2 /\ SplitPoint(old) = SplitPoint(n)
      BY <2>0, <3>1, SameSplitPoint
    <3>3. SliceRoot(c, i, old) =
            NodeHash(SliceRoot(c, i, SplitPoint(old)), SliceRoot(c, i + SplitPoint(old), old - SplitPoint(old)))
      BY <3>1, <3>2, SliceRootCases
    <3> QED
      BY <3>2, <3>3, Zenon
  <2> HIDE DEF k, r
  <2>5. p - 1 \in Nat
    BY <2>3
  <2>6. CASE old <= k
    <3>1. left.old = SliceRoot(c, i, old) /\ left.new = SliceRoot(l, i, k)
      BY <1>4, <1>5, <2>2, <2>3, <2>6, NodeHashInjective
    <3>2. OnlyRebuilds(c, l, M, N, x, k, i, old, b, p - 1)
      BY <1>2, <1>4, <2>1, <2>5, <2>6
    <3> QED
      BY <1>4, <2>1, <3>1, <3>2 DEF OnlyRebuilds
  <2>7. CASE ~(old <= k)
    <3>1. /\ x.proof[p] = SliceRoot(c, i, k) /\ right.old = SliceRoot(c, i + k, old - k)
          /\ x.proof[p] = SliceRoot(l, i, k) /\ right.new = SliceRoot(l, i + k, n - k)
      <4>1. NodeHash(x.proof[p], right.old) = NodeHash(SliceRoot(c, i, k), SliceRoot(c, i + k, old - k))
        BY <1>4, <2>3, <2>4, <2>7, Zenon
      <4>2. NodeHash(x.proof[p], right.new) = NodeHash(SliceRoot(l, i, k), SliceRoot(l, i + k, n - k))
        BY <1>4, <2>2, <2>3, <2>7, Zenon
      <4>3. /\ NodeHash(SliceRoot(c, i, k), SliceRoot(c, i + k, old - k)) # Failed
            /\ NodeHash(SliceRoot(l, i, k), SliceRoot(l, i + k, n - k)) # Failed
        BY <1>5, <2>2, <2>4, <2>7, Zenon
      <4> HIDE DEF right
      <4>4. x.proof[p] = SliceRoot(c, i, k) /\ right.old = SliceRoot(c, i + k, old - k)
        BY <4>1, <4>3, NodeHashInjective
      <4>5. x.proof[p] = SliceRoot(l, i, k) /\ right.new = SliceRoot(l, i + k, n - k)
        BY <4>2, <4>3, NodeHashInjective
      <4> QED
        BY <4>4, <4>5
    <3>2. \A j \in (i + 1)..(i + k) : c[j] = l[j]
      <4>1. SliceRoot(c, i, k) = SliceRoot(l, i, k) /\ k \in Nat \ {0} /\ i + k <= N
        BY <2>1, <3>1
      <4> HIDE DEF right, left
      <4> QED
        BY <4>1, SameRootSameLeaves
    <3>3. old - k \in 1..(n - k) /\ FALSE \in BOOLEAN
      BY <1>4, <2>1, <2>7
    <3>4. OnlyRebuilds(c, l, M, N, x, n - k, i + k, old - k, FALSE, p - 1)
      BY <1>2, <2>1, <2>5, <3>3
    <3>5. i + k + (old - k) <= M /\ i + k + (old - k) = i + old
      BY <1>4, <2>1
    <3>6. \A j \in (i + k + 1)..(i + k + (old - k)) : c[j] = l[j]
      BY <2>1, <3>1, <3>4, <3>5 DEF OnlyRebuilds
    <3> QED
      BY <1>4, <2>1, <3>2, <3>5, <3>6
  <2> QED
    BY <2>6, <2>7
<1> QED
  BY <1>4, <1>6, <1>7

-----------------------------------------------------------------------------
\* Every inclusion proof the log gives is accepted (merkle.ts:44-81): for trees of any size
\* and every leaf of them.
THEOREM InclusionProofVerifies ==
  ASSUME NEW S, NEW tree \in Seq(S), NEW index \in 0..(Len(tree) - 1)
  PROVE  VerifyInclusion(tree[index + 1], index, Len(tree), InclusionProof(index, tree), MerkleRoot(tree))
<1> DEFINE n == Len(tree)
           q == Paths(tree)[n][0][index]
           x == [leaf |-> tree[index + 1], proof |-> q]
<1>1. n \in Nat \ {0} /\ 0 \in Nat
  OBVIOUS
<1>2. Leads(tree, x, n, 0, index)
  BY <1>1, PathLeadsToRoot
<1>3. x.leaf = tree[0 + index + 1] /\ x.proof = q
  OBVIOUS
<1> HIDE DEF x, q
<1>4. InclusionRoots(x)[n][index][Len(q)] = SliceRoot(tree, 0, n)
  BY <1>2, <1>3 DEF Leads, q
<1>5. RootFromInclusion(index, n, tree[index + 1], q) = SliceRoot(tree, 0, n)
  BY <1>4 DEF RootFromInclusion, x
<1> QED
  BY <1>5 DEF VerifyInclusion, InclusionProof, MerkleRoot, q

\* No inclusion proof, however it was made, is accepted for a leaf that is elsewhere or
\* nowhere in the tree (merkle.ts:68-81).
THEOREM OnlyTheLeafVerifies ==
  ASSUME NEW S, NEW tree \in Seq(S), Failed \notin S, NEW leaf, NEW index,
         NEW proof, Len(proof) \in Nat,
         VerifyInclusion(leaf, index, Len(tree), proof, MerkleRoot(tree))
  PROVE  index \in 0..(Len(tree) - 1) /\ leaf = tree[index + 1]
<1> DEFINE n == Len(tree)
           x == [leaf |-> leaf, proof |-> proof]
<1>1. index \in 0..(n - 1) /\ n \in Nat
  BY DEF VerifyInclusion
<1>2. n \in Nat \ {0} /\ 0 \in Nat /\ 0 + n <= n /\ \A j \in 1..n : tree[j] # Failed
  BY <1>1
<1>3. InclusionRoots(x)[n][index][Len(proof)] = SliceRoot(tree, 0, n)
  BY DEF VerifyInclusion, RootFromInclusion, MerkleRoot
<1>4. x.leaf = leaf
  OBVIOUS
<1> HIDE DEF x, n
<1>5. OnlyLeads(tree, n, x, n, 0, index, Len(proof))
  BY <1>1, <1>2, OnlyTheLeafLeadsToRoot
<1>6. 0 + index + 1 = index + 1
  BY <1>1
<1> QED
  BY <1>1, <1>2, <1>3, <1>4, <1>5, <1>6 DEF OnlyLeads, n

\* The root of a beginning of the tree is that of as many leaves.
LEMMA SameBeginningSameRoot ==
  ASSUME NEW c, NEW tree, NEW m \in Nat \ {0}, \A j \in 1..m : c[j] = tree[j]
  PROVE  SliceRoot(c, 0, m) = SliceRoot(tree, 0, m)
<1>1. \A n \in Nat \ {0} : \A i \in Nat : i + n <= m => SliceRoot(c, i, n) = SliceRoot(tree, i, n)
  BY SameLeavesSameRoot
<1> QED
  BY <1>1

\* Every consistency proof the log gives is accepted (merkle.ts:83-152), by whoever holds the
\* root of any beginning of the tree.
THEOREM ConsistencyProofVerifies ==
  ASSUME NEW S, NEW tree \in Seq(S), NEW c, Len(c) \in 0..Len(tree), c = SubSeq(tree, 1, Len(c))
  PROVE  VerifyConsistency(Len(c), MerkleRoot(c), Len(tree), MerkleRoot(tree), ConsistencyProof(Len(c), tree))
<1>1. PICK m \in 0..Len(tree) : m = Len(c)
  OBVIOUS
<1>2. PICK n \in Nat : n = Len(tree)
  OBVIOUS
<1>3. c = SubSeq(tree, 1, m) /\ ~(m > n) /\ m \in Nat /\ m <= n
  BY <1>1, <1>2
<1>4. CASE m = n
  <2>1. c = tree
    BY <1>2, <1>3, <1>4
  <2> QED
    BY <1>1, <1>2, <1>3, <1>4, <2>1 DEF VerifyConsistency, ConsistencyProof
<1>5. CASE m = 0 /\ m # n
  BY <1>1, <1>2, <1>3, <1>5 DEF VerifyConsistency, ConsistencyProof
<1>6. CASE m # 0 /\ m # n
  <2> DEFINE q == SubProofs(tree)[n][0][m][TRUE]
             x == [proof |-> q, oldRoot |-> MerkleRoot(c)]
             r == Reconstruct(m, n, q, MerkleRoot(c))
  <2>1. \A j \in 1..m : c[j] = tree[j]
    BY <1>2, <1>3
  <2>2. MerkleRoot(c) = SliceRoot(tree, 0, m)
    <3>1. m \in Nat \ {0}
      BY <1>3, <1>6
    <3>2. SliceRoot(c, 0, m) = SliceRoot(tree, 0, m)
      BY <2>1, <3>1, SameBeginningSameRoot
    <3> QED
      BY <1>1, <3>2 DEF MerkleRoot
  <2>3. Rebuilds(tree, x, n, 0, m, TRUE)
    <3>1. n \in Nat \ {0} /\ m \in 1..n /\ 0 \in Nat /\ TRUE \in BOOLEAN
      BY <1>3, <1>6
    <3> HIDE DEF x, r
    <3> QED
      BY <3>1, SubProofRebuilds
  <2>4. x.oldRoot = SliceRoot(tree, 0, m) /\ x.proof = q
    BY <2>2
  <2>5. r = Rebuild(x, n, m, TRUE, Len(q))
    BY DEF Reconstruct, Rebuild
  <2> HIDE DEF x, q, r
  <2>6. Rebuilt(r, tree, n, 0, m)
    BY <2>3, <2>4, <2>5 DEF Rebuilds, q
  <2>7. r.rest = 0 /\ r.old = MerkleRoot(c) /\ r.new = MerkleRoot(tree)
    BY <1>2, <2>2, <2>6 DEF Rebuilt, MerkleRoot
  <2>8. ConsistencyProof(m, tree) = q
    BY <1>2, <1>6 DEF ConsistencyProof, SubProof, q
  <2>9. VerifyConsistency(m, MerkleRoot(c), n, MerkleRoot(tree), q)
    BY <1>3, <1>6, <2>7, Zenon DEF VerifyConsistency, r
  <2> QED
    BY <1>1, <1>2, <2>8, <2>9
<1> QED
  BY <1>4, <1>5, <1>6

\* No consistency proof, however it was made, is accepted between two trees of which the
\* larger does not begin with the smaller (merkle.ts:132-152).
THEOREM OnlyExtensionsVerify ==
  ASSUME NEW S, NEW tree \in Seq(S), NEW c \in Seq(S), Failed \notin S,
         NEW proof, Len(proof) \in Nat,
         VerifyConsistency(Len(c), MerkleRoot(c), Len(tree), MerkleRoot(tree), proof)
  PROVE  Len(c) <= Len(tree) /\ \A i \in 1..Len(c) : c[i] = tree[i]
<1>1. PICK m \in Nat : m = Len(c)
  OBVIOUS
<1>2. PICK n \in Nat : n = Len(tree)
  OBVIOUS
<1>3. VerifyConsistency(m, SliceRoot(c, 0, m), n, SliceRoot(tree, 0, n), proof)
  BY <1>1, <1>2 DEF MerkleRoot
<1>4. /\ \A j \in 1..m : c[j] # Failed
      /\ \A j \in 1..n : tree[j] # Failed
  BY <1>1, <1>2
<1>5. m <= n
  BY <1>3 DEF VerifyConsistency
<1>6. ASSUME m # 0 PROVE \A i \in 1..m : c[i] = tree[i]
  <2>1. m \in Nat \ {0} /\ n \in Nat \ {0} /\ 0 + n <= n /\ 0 + m <= m /\ 0 \in Nat /\ m \in 1..n
    BY <1>5, <1>6
  <2>2. CASE m = n
    <3>1. SliceRoot(c, 0, n) = SliceRoot(tree, 0, n)
      BY <1>3, <2>2 DEF VerifyConsistency
    <3>2. \A j \in (0 + 1)..(0 + n) : c[j] = tree[j]
      BY <1>4, <2>1, <3>1, SameRootSameLeaves
    <3> QED
      BY <2>2, <3>2
  <2>3. CASE m # n
    <3> DEFINE x == [proof |-> proof, oldRoot |-> SliceRoot(c, 0, m)]
               r == Rebuild(x, n, m, TRUE, Len(proof))
    <3>1. r = Reconstruct(m, n, proof, SliceRoot(c, 0, m))
      BY DEF Reconstruct, Rebuild
    <3>2. r.old = SliceRoot(c, 0, m) /\ r.new = SliceRoot(tree, 0, n)
      <4>1. ~(m > n) /\ ~(m = n) /\ ~(m = 0)
        BY <1>5, <1>6, <2>3
      <4> HIDE DEF r
      <4> QED
        BY <1>3, <3>1, <4>1, Zenon DEF VerifyConsistency
    <3> HIDE DEF x
    <3>3. OnlyRebuilds(c, tree, m, n, x, n, 0, m, TRUE, Len(proof))
      BY <1>4, <2>1, OnlyExtensionsRebuild, TRUE \in BOOLEAN
    <3>4. \A j \in (0 + 1)..(0 + m) : c[j] = tree[j]
      BY <2>1, <3>2, <3>3 DEF OnlyRebuilds
    <3> QED
      BY <3>4
  <2> QED
    BY <2>2, <2>3
<1> QED
  BY <1>1, <1>2, <1>5, <1>6

(***************************************************************************)
(* The log that is witnessed, as it is kept: TransparencyLog, for any      *)
(* entries and bounds.  Until a write fails, the file has one line for     *)
(* each leaf in memory, so that a restart changes nothing (FileInv) and    *)
(* the log never goes back on what it showed.                              *)
(***************************************************************************)
\* What clients were shown of the log is in it: their checkpoints are its beginnings and
\* each entry is where append said.
ShownIsIn(l) ==
  /\ \A c \in issued : Len(c) \in 0..Len(l) /\ c = SubSeq(l, 1, Len(c))
  /\ \A a \in acked : a.index \in 0..(Len(l) - 1) /\ l[a.index + 1] = a.leaf

\* Until a write fails, each line of the file is one entry, and the log in memory is the one
\* that a restart would read.
FileInv ==
  faults = 0 =>
    /\ file = [lines |-> file.lines, tail |-> <<>>]
    /\ file.lines \in Seq(Seq(Entries))
    /\ up => leaves = Loaded(file)
    /\ ShownIsIn(Loaded(file))

LogInd == faults \in Nat /\ FileInv

LogLeaves == {LeafHash(x) : x \in Seq(Entries)}

\* A function on 1..n is a sequence of length n.
LEMMA FunctionIsSequence ==
  ASSUME NEW S, NEW n \in Nat, NEW f \in [1..n -> S]
  PROVE  f \in Seq(S) /\ Len(f) = n
<1>1. f \in Seq(S)
  BY SeqDef
<1> QED
  BY <1>1

\* With no line left unended, the log read is one leaf for each line.
LEMMA LoadedFacts ==
  ASSUME NEW f, f.tail = <<>>, f.lines \in Seq(Seq(Entries))
  PROVE  /\ Loaded(f) = [i \in 1..Len(f.lines) |-> LeafHash(f.lines[i])]
         /\ Len(Loaded(f)) = Len(f.lines)
         /\ Loaded(f) \in Seq(LogLeaves)
<1>1. Len(f.lines) \in Nat
  OBVIOUS
<1>2. Loaded(f) = [i \in 1..Len(f.lines) |-> LeafHash(f.lines[i])]
  BY <1>1 DEF Loaded
<1> HIDE DEF Loaded
<1>3. \A i \in 1..Len(f.lines) : LeafHash(f.lines[i]) \in LogLeaves
  BY ElementOfSeq DEF LogLeaves
<1>4. Loaded(f) \in [1..Len(f.lines) -> LogLeaves]
  BY <1>2, <1>3
<1>5. Loaded(f) \in Seq(LogLeaves)
  BY <1>1, <1>4, FunctionIsSequence
<1>6. Len(Loaded(f)) = Len(f.lines)
  BY <1>1, <1>4, FunctionIsSequence
<1> QED
  BY <1>2, <1>5, <1>6

\* A line written adds one leaf at the end.
LEMMA WrittenFacts ==
  ASSUME NEW f, f = [lines |-> f.lines, tail |-> <<>>], f.lines \in Seq(Seq(Entries)),
         NEW e \in Entries
  PROVE  /\ Written(f, e) = [lines |-> Written(f, e).lines, tail |-> <<>>]
         /\ Written(f, e).lines \in Seq(Seq(Entries))
         /\ Loaded(Written(f, e))
              = Append(Loaded(f), LeafHash(<<e>>))
<1> DEFINE g == Written(f, e)
           old == Loaded(f)
           new == Loaded(g)
<1>0. f.tail = <<>>
  OBVIOUS
<1>1. Append(f.tail, e) = <<e>>
  BY <1>0
<1>2. g = [lines |-> Append(f.lines, <<e>>), tail |-> <<>>]
  BY <1>1 DEF Written
<1>3. g.lines = Append(f.lines, <<e>>) /\ g.tail = <<>> /\ <<e>> \in Seq(Entries)
  BY <1>2
<1>4. g.lines \in Seq(Seq(Entries)) /\ Len(g.lines) = Len(f.lines) + 1
  BY <1>3
<1> HIDE DEF g
<1>5. /\ new = [i \in 1..Len(g.lines) |-> LeafHash(g.lines[i])]
      /\ Len(new) = Len(g.lines)
      /\ new \in Seq(LogLeaves)
  BY <1>3, <1>4, LoadedFacts
<1>6. /\ old = [i \in 1..Len(f.lines) |-> LeafHash(f.lines[i])]
      /\ Len(old) = Len(f.lines)
      /\ old \in Seq(LogLeaves)
  BY <1>0, LoadedFacts
<1> DEFINE leaf == LeafHash(<<e>>)
<1> HIDE DEF old, new, leaf
<1>7. leaf \in LogLeaves
  BY <1>3 DEF leaf, LogLeaves
<1>8. Append(old, leaf) \in Seq(LogLeaves)
      /\ Len(Append(old, leaf)) = Len(f.lines) + 1
  BY <1>6, <1>7
<1>9. ASSUME NEW i \in 1..Len(new)
      PROVE  new[i] = Append(old, leaf)[i]
  <2>1. i \in 1..(Len(f.lines) + 1) /\ Len(f.lines) \in Nat
    BY <1>4, <1>5
  <2>2. CASE i = Len(f.lines) + 1
    <3>1. new[i] = LeafHash(<<e>>)
      BY <1>3, <1>4, <1>5, <2>1, <2>2
    <3> QED
      BY <1>6, <2>2, <3>1 DEF leaf
  <2>3. CASE i \in 1..Len(f.lines)
    <3>1. g.lines[i] = f.lines[i]
      BY <1>3, <2>3
    <3>2. new[i] = LeafHash(f.lines[i])
      BY <1>4, <1>5, <2>1, <3>1
    <3>3. Append(old, leaf)[i] = old[i]
      BY <1>6, <2>3
    <3>4. old[i] = LeafHash(f.lines[i])
      BY <1>6, <2>3
    <3> QED
      BY <3>2, <3>3, <3>4
  <2>4. i = Len(f.lines) + 1 \/ i \in 1..Len(f.lines)
    BY <2>1
  <2> QED
    BY <2>2, <2>3, <2>4, Zenon
<1>10. new = Append(old, leaf)
  <2>1. Len(new) = Len(Append(old, leaf))
    BY <1>4, <1>5, <1>8
  <2>2. new \in Seq(LogLeaves) /\ Append(old, leaf) \in Seq(LogLeaves)
    BY <1>5, <1>8
  <2>3. \A i \in 1..Len(new) : new[i] = Append(old, leaf)[i]
    BY <1>9
  <2> QED
    BY <2>1, <2>2, <2>3, SeqEqual, Zenon
<1> QED
  BY <1>2, <1>3, <1>4, <1>10 DEF g, old, new, leaf

\* A log that grew at its end still has in it what was shown before.
LEMMA ShownStaysIn ==
  ASSUME NEW S, NEW l \in Seq(S), NEW x \in S, ShownIsIn(l)
  PROVE  ShownIsIn(Append(l, x))
<1> DEFINE m == Append(l, x)
<1>1. m \in Seq(S) /\ Len(m) = Len(l) + 1 /\ \A i \in 1..Len(l) : m[i] = l[i]
  OBVIOUS
<1> HIDE DEF m
<1>2. ASSUME NEW c \in issued
      PROVE  Len(c) \in 0..Len(m) /\ c = SubSeq(m, 1, Len(c))
  <2>1. Len(c) \in 0..Len(l) /\ c = SubSeq(l, 1, Len(c))
    BY DEF ShownIsIn
  <2>2. Len(c) \in 0..Len(m) /\ Len(l) \in Nat
    BY <1>1, <2>1
  <2>3. PICK n \in 0..Len(l) : n = Len(c)
    BY <2>1
  <2>4. SubSeq(m, 1, n) = SubSeq(l, 1, n)
    BY <1>1, <2>2
  <2> QED
    BY <2>1, <2>2, <2>3, <2>4
<1>3. ASSUME NEW a \in acked
      PROVE  a.index \in 0..(Len(m) - 1) /\ m[a.index + 1] = a.leaf
  <2>1. a.index \in 0..(Len(l) - 1) /\ l[a.index + 1] = a.leaf
    BY DEF ShownIsIn
  <2>2. a.index + 1 \in 1..Len(l) /\ a.index \in 0..(Len(m) - 1)
    BY <1>1, <2>1
  <2> QED
    BY <1>1, <2>1, <2>2
<1> QED
  BY <1>2, <1>3 DEF ShownIsIn, m

\* An empty log has lost nothing, ...
LEMMA LogStartsInd == LogInit => LogInd
<1> SUFFICES ASSUME LogInit PROVE LogInd
  OBVIOUS
<1> USE DEF LogInit
<1>1. /\ file = [lines |-> <<>>, tail |-> <<>>] /\ faults = 0 /\ leaves = <<>>
      /\ issued = {} /\ acked = {}
  OBVIOUS
<1>2. file.lines = <<>> /\ file.tail = <<>> /\ file.lines \in Seq(Seq(Entries))
  BY <1>1
<1>3. Len(Loaded(file)) = 0 /\ Loaded(file) \in Seq(LogLeaves)
  BY <1>2, LoadedFacts
<1>4. Loaded(file) = <<>>
  BY <1>3
<1>5. ShownIsIn(Loaded(file))
  BY <1>1 DEF ShownIsIn
<1> QED
  BY <1>1, <1>2, <1>4, <1>5 DEF LogInd, FileInv

\* ... and no step loses anything, as long as no write fails.
LEMMA LogKeepsInd == LogInd /\ [LogNext]_logVars => LogInd'
<1> SUFFICES ASSUME LogInd, [LogNext]_logVars PROVE LogInd'
  OBVIOUS
<1>1. ASSUME faults' \in Nat, faults' # 0
      PROVE  LogInd'
  BY <1>1 DEF LogInd, FileInv
<1>2. ASSUME faults' = 0
      PROVE  LogInd'
  <2>0. faults \in Nat
    BY DEF LogInd
  <2>1. ASSUME NEW e \in Entries, AppendEntry(e)
        PROVE  LogInd'
    <3>1. /\ up /\ up' = up /\ faults' = faults /\ issued' = issued
          /\ file' = Written(file, e)
          /\ leaves' = Append(leaves, LeafHash(<<e>>))
          /\ acked' = acked \union {[index |-> Len(leaves), leaf |-> LeafHash(<<e>>)]}
      BY <2>1 DEF AppendEntry
    <3>2. /\ file = [lines |-> file.lines, tail |-> <<>>]
          /\ file.lines \in Seq(Seq(Entries))
          /\ leaves = Loaded(file)
          /\ ShownIsIn(leaves)
      BY <1>2, <3>1 DEF LogInd, FileInv
    <3>3. /\ file' = [lines |-> file'.lines, tail |-> <<>>]
          /\ file'.lines \in Seq(Seq(Entries))
          /\ Loaded(file') = leaves'
      BY <3>1, <3>2, WrittenFacts
    <3>4. leaves \in Seq(LogLeaves)
      <4>1. file.tail = <<>>
        BY <3>2
      <4> QED
        BY <3>2, <4>1, LoadedFacts
    <3>5. LeafHash(<<e>>) \in LogLeaves
      <4>1. <<e>> \in Seq(Entries)
        OBVIOUS
      <4> QED
        BY <4>1 DEF LogLeaves
    <3>6. ShownIsIn(leaves')
      BY <3>1, <3>2, <3>4, <3>5, ShownStaysIn
    <3>7. ShownIsIn(leaves)'
      <4>1. /\ Len(leaves) \in 0..(Len(leaves') - 1)
            /\ leaves'[Len(leaves) + 1] = LeafHash(<<e>>)
        BY <3>1, <3>4, <3>5
      <4>2. ASSUME NEW a \in acked'
            PROVE  a.index \in 0..(Len(leaves') - 1) /\ leaves'[a.index + 1] = a.leaf
        BY <3>1, <3>6, <4>1 DEF ShownIsIn
      <4> QED
        BY <3>1, <3>6, <4>2 DEF ShownIsIn
    <3> QED
      BY <1>2, <3>3, <3>7 DEF LogInd, FileInv
  <2>2. CASE Stop
    BY <1>2, <2>2 DEF Stop, LogInd, FileInv, ShownIsIn
  <2>3. CASE Start
    BY <1>2, <2>3 DEF Start, LogInd, FileInv, ShownIsIn
  <2>4. ASSUME Checkpoint
        PROVE  LogInd'
    <3>1. /\ up /\ up' = up /\ faults' = faults /\ acked' = acked /\ file' = file
          /\ leaves' = leaves /\ issued' = issued \union {leaves}
      BY <2>4 DEF Checkpoint
    <3>2. /\ file = [lines |-> file.lines, tail |-> <<>>]
          /\ file.lines \in Seq(Seq(Entries))
          /\ leaves = Loaded(file)
          /\ ShownIsIn(leaves)
      BY <1>2, <3>1 DEF LogInd, FileInv
    <3>3. leaves \in Seq(LogLeaves)
      <4>1. file.tail = <<>>
        BY <3>2
      <4> QED
        BY <3>2, <4>1, LoadedFacts
    <3>4. Len(leaves) \in 0..Len(leaves) /\ leaves = SubSeq(leaves, 1, Len(leaves))
      BY <3>3
    <3>5. ShownIsIn(leaves)'
      BY <3>1, <3>2, <3>4 DEF ShownIsIn
    <3> QED
      BY <1>2, <3>1, <3>2, <3>5 DEF LogInd, FileInv
  <2>5. CASE UNCHANGED logVars
    BY <1>2, <2>5 DEF logVars, LogInd, FileInv, ShownIsIn
  <2>6. ASSUME NEW e \in Entries, AppendThrows(e) \/ DieInAppend(e)
        PROVE  FALSE
    BY <1>2, <2>0, <2>6 DEF AppendThrows, DieInAppend
  <2> QED
    BY <2>1, <2>2, <2>3, <2>4, <2>5, <2>6 DEF LogNext
<1>3. faults' \in Nat
  <2>1. faults' \in {faults, faults + 1}
    <3>1. ASSUME NEW e \in Entries,
                 \/ AppendEntry(e) \/ AppendThrows(e) \/ DieInAppend(e)
          PROVE  faults' \in {faults, faults + 1}
      BY <3>1 DEF AppendEntry, AppendThrows, DieInAppend
    <3>2. CASE Stop \/ Start \/ Checkpoint
      BY <3>2 DEF Stop, Start, Checkpoint
    <3>3. CASE UNCHANGED logVars
      BY <3>3 DEF logVars
    <3> QED
      BY <3>1, <3>2, <3>3 DEF LogNext
  <2> QED
    BY <2>1 DEF LogInd
<1> QED
  BY <1>1, <1>2, <1>3

\* As long as no write failed, and through any number of restarts, the running log has all
\* in it that clients were shown: each checkpoint held is one of its beginnings, so that the
\* root the log gives for that size is the checkpoint's, and each entry is at the index that
\* append returned (log.ts append, the constructor).
ShownIsKept == up /\ faults = 0 => ShownIsIn(leaves)

THEOREM NothingShownIsLost == LogSpec => []ShownIsKept
<1>1. LogInd => ShownIsKept
  BY DEF LogInd, FileInv, ShownIsKept
<1> QED
  BY <1>1, LogStartsInd, LogKeepsInd, PTL DEF LogSpec

-----------------------------------------------------------------------------
\* As long as no write failed, restarts included, whoever kept a checkpoint is given a proof
\* it accepts that the log now extends it (log.ts:8-10).
THEOREM CheckpointsProved == LogSpec => []CheckpointsStayConsistent
<1>1. LogInd => CheckpointsStayConsistent
  <2> SUFFICES ASSUME LogInd, up, faults = 0, NEW c \in issued
               PROVE  /\ Len(c) <= Len(leaves)
                      /\ ConsistencyProofOf(Len(c)).oldRoot = MerkleRoot(c)
                      /\ VerifyConsistencyResult(ConsistencyProofOf(Len(c)))
    BY DEF CheckpointsStayConsistent
  <2>1. leaves \in Seq(LogLeaves)
    BY LoadedFacts DEF LogInd, FileInv
  <2>2. Len(c) \in 0..Len(leaves) /\ c = SubSeq(leaves, 1, Len(c))
    BY DEF LogInd, FileInv, ShownIsIn
  <2>3. ConsistencyProofOf(Len(c)).oldRoot = MerkleRoot(c)
    BY <2>2 DEF ConsistencyProofOf
  <2>4. VerifyConsistency(Len(c), MerkleRoot(c), Len(leaves), MerkleRoot(leaves),
                          ConsistencyProof(Len(c), leaves))
    BY <2>1, <2>2, ConsistencyProofVerifies
  <2> QED
    BY <2>1, <2>2, <2>3, <2>4 DEF VerifyConsistencyResult, ConsistencyProofOf
<1> QED
  BY <1>1, LogStartsInd, LogKeepsInd, PTL DEF LogSpec

\* As long as no write failed, whoever was told an index can have the entry's inclusion there
\* proved, in the log of any later size (log.ts:6-7).
THEOREM AckedProved == LogSpec => []AckedIsProvable
<1>1. LogInd => AckedIsProvable
  <2> SUFFICES ASSUME LogInd, up, faults = 0, NEW a \in acked
               PROVE  /\ a.index < Len(leaves)
                      /\ InclusionProofOf(a.index).leafHash = a.leaf
                      /\ VerifyInclusionResult(InclusionProofOf(a.index))
    BY DEF AckedIsProvable
  <2>1. leaves \in Seq(LogLeaves)
    BY LoadedFacts DEF LogInd, FileInv
  <2>2. a.index \in 0..(Len(leaves) - 1) /\ leaves[a.index + 1] = a.leaf
    BY DEF LogInd, FileInv, ShownIsIn
  <2>3. VerifyInclusion(leaves[a.index + 1], a.index, Len(leaves),
                        InclusionProof(a.index, leaves), MerkleRoot(leaves))
    BY <2>1, <2>2, InclusionProofVerifies
  <2> QED
    BY <2>1, <2>2, <2>3 DEF VerifyInclusionResult, InclusionProofOf
<1> QED
  BY <1>1, LogStartsInd, LogKeepsInd, PTL DEF LogSpec

-----------------------------------------------------------------------------
\* With writes that fail, the log may fork from what it showed, but all of it is still
\* hashes of lines: what an entry is cut to is a line as well.
Lines == Seq(Entries \union {Cut(d) : d \in Entries})
LineHashes == {LeafHash(x) : x \in Lines}

OfLines ==
  /\ file \in [lines : Seq(Lines), tail : Lines]
  /\ leaves \in Seq(LineHashes)
  /\ issued \subseteq Seq(LineHashes)

\* What the constructor reads are hashes of lines.
LEMMA LoadedIsOfLines ==
  ASSUME NEW f \in [lines : Seq(Lines), tail : Lines]
  PROVE  Loaded(f) \in Seq(LineHashes)
<1>1. PICK n \in Nat : n = Len(f.lines) + IF f.tail = <<>> THEN 0 ELSE 1
  OBVIOUS
<1>2. ASSUME NEW i \in 1..n
      PROVE  LeafHash(IF i <= Len(f.lines) THEN f.lines[i] ELSE f.tail) \in LineHashes
  BY DEF LineHashes
<1>3. Loaded(f) \in [1..n -> LineHashes]
  BY <1>1, <1>2 DEF Loaded
<1> QED
  BY <1>1, <1>3, FunctionIsSequence

\* The log never has anything else, whatever fails.
LEMMA OfLinesInvariant == LogSpec => []OfLines
<1>1. LogInit => OfLines
  <2>1. <<>> \in Seq(Lines) /\ <<>> \in Lines /\ <<>> \in Seq(LineHashes)
    BY DEF Lines
  <2> QED
    BY <2>1 DEF LogInit, OfLines
<1>2. OfLines /\ [LogNext]_logVars => OfLines'
  <2> SUFFICES ASSUME OfLines, [LogNext]_logVars PROVE OfLines'
    OBVIOUS
  <2>1. ASSUME NEW d \in Entries
        PROVE  /\ Append(file.tail, d) \in Lines /\ Append(file.tail, Cut(d)) \in Lines
               /\ Append(leaves, LeafHash(<<d>>)) \in Seq(LineHashes)
    <3>0. <<d>> \in Seq(Entries \union {Cut(e) : e \in Entries})
      OBVIOUS
    <3>1. LeafHash(<<d>>) \in LineHashes
      BY <3>0 DEF LineHashes, Lines
    <3> QED
      BY <3>1 DEF OfLines, Lines
  <2>2. ASSUME NEW d \in Entries
        PROVE  /\ Written(file, d) \in [lines : Seq(Lines), tail : Lines]
               /\ Remains(file, d) \subseteq [lines : Seq(Lines), tail : Lines]
    <3>1. file \in [lines : Seq(Lines), tail : Lines] /\ <<>> \in Lines
      BY DEF OfLines, Lines
    <3> DEFINE piece == Cut(d)
    <3>2. Append(file.tail, d) \in Lines /\ Append(file.tail, piece) \in Lines
      BY <2>1
    <3>3. Append(file.lines, Append(file.tail, d)) \in Seq(Lines)
      BY <3>1, <3>2
    <3>4. Written(file, d) \in [lines : Seq(Lines), tail : Lines]
      BY <3>1, <3>3 DEF Written
    <3>5. Remains(file, d) \subseteq {file, [file EXCEPT !.tail = Append(@, piece)],
                                      [file EXCEPT !.tail = Append(@, d)]}
      BY DEF Remains
    <3> HIDE DEF piece
    <3>6. \A t \in Lines : [file EXCEPT !.tail = t] \in [lines : Seq(Lines), tail : Lines]
      BY <3>1
    <3>7. Remains(file, d) \subseteq [lines : Seq(Lines), tail : Lines]
      BY <3>1, <3>2, <3>5, <3>6
    <3> QED
      BY <3>4, <3>7
  <2>3. ASSUME NEW d \in Entries, AppendEntry(d) PROVE OfLines'
    BY <2>1, <2>2, <2>3 DEF AppendEntry, OfLines
  <2>4. ASSUME NEW d \in Entries, AppendThrows(d) PROVE OfLines'
    BY <2>1, <2>2, <2>4 DEF AppendThrows, OfLines
  <2>5. ASSUME NEW d \in Entries, DieInAppend(d) PROVE OfLines'
    BY <2>2, <2>5 DEF DieInAppend, OfLines
  <2>6. CASE Stop
    BY <2>6 DEF Stop, OfLines
  <2>7. CASE Start
    BY <2>7, LoadedIsOfLines DEF Start, OfLines
  <2>8. CASE Checkpoint
    BY <2>8 DEF Checkpoint, OfLines
  <2>9. CASE UNCHANGED logVars
    BY <2>9 DEF logVars, OfLines
  <2> QED
    BY <2>3, <2>4, <2>5, <2>6, <2>7, <2>8, <2>9 DEF LogNext
<1> QED
  BY <1>1, <1>2, PTL DEF LogSpec

\* No line's hash is what a throw comes to, and every proof tried has a length.
LEMMA LineHashesFacts ==
  /\ Failed \notin LineHashes
  /\ \A hashes : \A proof \in ProofsOver(hashes) : Len(proof) \in Nat
<1>1. Failed \notin LineHashes
  BY DEF Failed, LineHashes, LeafHash
<1>2. ASSUME NEW hashes, NEW proof \in ProofsOver(hashes)
      PROVE  Len(proof) \in Nat
  <2>1. PICK k \in 0..MaxProof : proof \in [1..k -> hashes]
    BY DEF ProofsOver
  <2>2. k \in Nat
    BY BoundsAssumption
  <2> QED
    BY <2>1, <2>2, FunctionIsSequence
<1> QED
  BY <1>1, <1>2

\* However the log forked from a checkpoint, no proof makes its holder believe that the log
\* extends it (merkle.ts:132-135).
THEOREM ForksAreNoticed == LogSpec => []ForkIsNoticed
<1>1. OfLines => ForkIsNoticed
  <2> SUFFICES ASSUME OfLines, NEW c \in issued,
                      \E i \in 1..Len(c) : i > Len(leaves) \/ c[i] # leaves[i],
                      NEW proof \in ProofsOver(Nodes(c) \union Nodes(leaves)),
                      VerifyConsistency(Len(c), MerkleRoot(c), Len(leaves), MerkleRoot(leaves), proof)
               PROVE  FALSE
    BY DEF ForkIsNoticed
  <2>1. c \in Seq(LineHashes) /\ leaves \in Seq(LineHashes)
    BY DEF OfLines
  <2>2. Failed \notin LineHashes /\ Len(proof) \in Nat
    BY LineHashesFacts
  <2>3. Len(c) <= Len(leaves) /\ \A i \in 1..Len(c) : c[i] = leaves[i]
    BY <2>1, <2>2, OnlyExtensionsVerify
  <2> QED
    BY <2>1, <2>3
<1> QED
  BY <1>1, OfLinesInvariant, PTL

\* No proof places a leaf where it is not (merkle.ts:68-81).
THEOREM OnlyLeavesProved == LogSpec => []OnlyLeavesAreIncluded
<1>1. OfLines => OnlyLeavesAreIncluded
  <2> SUFFICES ASSUME OfLines, NEW leaf, NEW index, leaf # leaves[index + 1],
                      NEW proof \in ProofsOver(Nodes(leaves)),
                      VerifyInclusion(leaf, index, Len(leaves), proof, MerkleRoot(leaves))
               PROVE  FALSE
    BY Zenon DEF OnlyLeavesAreIncluded
  <2>1. leaves \in Seq(LineHashes) /\ Failed \notin LineHashes /\ Len(proof) \in Nat
    BY LineHashesFacts DEF OfLines
  <2>2. leaf = leaves[index + 1]
    BY <2>1, OnlyTheLeafVerifies
  <2> QED
    BY <2>2
<1> QED
  BY <1>1, OfLinesInvariant, PTL

===============================================================================
