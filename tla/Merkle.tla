-------------------------------- MODULE Merkle --------------------------------
(***************************************************************************)
(* The Merkle tree of the transparency log: roots, inclusion and           *)
(* consistency proofs and their verification.                              *)
(*   packages/transparency/src/merkle.ts                                   *)
(*                                                                         *)
(* A hash is the term it was computed from: two are equal exactly when     *)
(* they were computed from the same data, and the domain separation of     *)
(* leaves and nodes is their tag.  A recursion is on the size of the slice *)
(* of the leaves it is about, and returns a function of the offset of that *)
(* slice and, for a verifier, which consumes its proof from the end, of    *)
(* the length that is left of it.  What one call returns, given what the   *)
(* calls it makes return, is a definition of its own (RootCall, ...).      *)
(***************************************************************************)
EXTENDS Integers, Sequences, FiniteSetsExt

LeafHash(data) == <<"leaf", data>>

EmptyHash == <<"empty">>

\* What a throw inside a verification comes to.
Failed == <<"failed">>

NodeHash(left, right) ==
  IF Failed \in {left, right} THEN Failed ELSE <<"node", left, right>>

\* Largest power of two strictly less than n (n >= 2).
SplitPoint(n) == Max({k \in 1..(n - 1) : \E i \in 0..k : k = 2^i})

\* merkleRoot of the n leaves after the first i, given what the calls it makes return.
RootCall(leaves, root, n) ==
  [i \in Nat |->
     IF n = 0 THEN EmptyHash
     ELSE IF n = 1 THEN leaves[i + 1]
     ELSE LET k == SplitPoint(n)
          IN  NodeHash(root[k][i], root[n - k][i + k])]

Roots(leaves) == LET root[n \in Nat] == RootCall(leaves, root, n) IN root

SliceRoot(leaves, from, n) == Roots(leaves)[n][from]

MerkleRoot(leaves) == SliceRoot(leaves, 0, Len(leaves))

PathCall(leaves, path, n) ==
  [i \in Nat |-> [at \in Nat |->
     IF n = 1 THEN <<>>
     ELSE LET k == SplitPoint(n) IN
          IF at < k
          THEN Append(path[k][i][at], SliceRoot(leaves, i + k, n - k))
          ELSE Append(path[n - k][i + k][at - k], SliceRoot(leaves, i, k))]]

Paths(leaves) == LET path[n \in Nat \ {0}] == PathCall(leaves, path, n) IN path

InclusionProof(index, leaves) == Paths(leaves)[Len(leaves)][0][index]

\* x: the leaf and the proof, of which the first p hashes are left.
InclusionCall(x, root, n) ==
  [at \in Nat |-> [p \in Nat |->
     IF n = 1 THEN (IF p = 0 THEN x.leaf ELSE Failed)
     ELSE IF p = 0 THEN Failed
     ELSE LET k == SplitPoint(n) IN
          IF at < k
          THEN NodeHash(root[k][at][p - 1], x.proof[p])
          ELSE NodeHash(x.proof[p], root[n - k][at - k][p - 1])]]

InclusionRoots(x) == LET root[n \in Nat \ {0}] == InclusionCall(x, root, n) IN root

RootFromInclusion(index, size, leaf, proof) ==
  InclusionRoots([leaf |-> leaf, proof |-> proof])[size][index][Len(proof)]

\* Seeded fault: the size is not compared with the length of the proof.
VerifyInclusionLoosely(leaf, index, size, proof, root) ==
  \E n \in 1..size : index < n /\ RootFromInclusion(index, n, leaf, proof) = root

VerifyInclusion(leaf, index, size, proof, root) ==
  /\ index \in 0..(size - 1)
  /\ RootFromInclusion(index, size, leaf, proof) = root

\* subProof, of a slice in which the old tree has `old` leaves; defined for 0 < old <= n.
SubProofCall(leaves, sub, n) ==
  [i \in Nat |-> [old \in 1..n |-> [b \in BOOLEAN |->
     IF old = n THEN (IF b THEN <<>> ELSE <<SliceRoot(leaves, i, n)>>)
     ELSE LET k == SplitPoint(n) IN
          IF old <= k
          THEN Append(sub[k][i][old][b], SliceRoot(leaves, i + k, n - k))
          ELSE Append(sub[n - k][i + k][old - k][FALSE], SliceRoot(leaves, i, k))]]]

SubProofs(leaves) == LET sub[n \in Nat \ {0}] == SubProofCall(leaves, sub, n) IN sub

SubProof(m, leaves) == SubProofs(leaves)[Len(leaves)][0][m][TRUE]

ConsistencyProof(m, leaves) ==
  IF m \in {0, Len(leaves)} THEN <<>> ELSE SubProof(m, leaves)

\* reconstruct: the old and the new root and how much of the proof is left.
\* x: the proof and the old root.
ReconstructCall(x, recon, n) ==
  LET underflow == [old |-> Failed, new |-> Failed, rest |-> 0] IN
  [old \in 1..n |-> [b \in BOOLEAN |-> [p \in Nat |->
     IF old = n /\ b THEN [old |-> x.oldRoot, new |-> x.oldRoot, rest |-> p]
     ELSE IF p = 0 THEN underflow
     ELSE IF old = n THEN [old |-> x.proof[p], new |-> x.proof[p], rest |-> p - 1]
     ELSE LET k == SplitPoint(n) IN
          IF old <= k
          THEN LET left == recon[k][old][b][p - 1]
               IN  [old |-> left.old, new |-> NodeHash(left.new, x.proof[p]), rest |-> left.rest]
          ELSE LET right == recon[n - k][old - k][FALSE][p - 1]
               IN  [old |-> NodeHash(x.proof[p], right.old),
                    new |-> NodeHash(x.proof[p], right.new), rest |-> right.rest]]]]

Reconstructions(x) == LET recon[n \in Nat \ {0}] == ReconstructCall(x, recon, n) IN recon

Reconstruct(m, n, proof, oldRoot) ==
  Reconstructions([proof |-> proof, oldRoot |-> oldRoot])[n][m][TRUE][Len(proof)]

\* Seeded fault: the reconstructed old root is not compared with the one held.
VerifyConsistencyNewOnly(m, oldRoot, n, newRoot, proof) ==
  IF m > n THEN FALSE
  ELSE IF m \in {0, n} THEN proof = <<>> /\ (m = n => oldRoot = newRoot)
  ELSE Reconstruct(m, n, proof, oldRoot).new = newRoot

VerifyConsistency(m, oldRoot, n, newRoot, proof) ==
  IF m > n THEN FALSE
  ELSE IF m = n THEN proof = <<>> /\ oldRoot = newRoot
  ELSE IF m = 0 THEN proof = <<>>
  ELSE LET r == Reconstruct(m, n, proof, oldRoot)
       IN  r.rest = 0 /\ r.old = oldRoot /\ r.new = newRoot

=============================================================================
