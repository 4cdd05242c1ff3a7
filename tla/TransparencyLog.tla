--------------------------- MODULE TransparencyLog ---------------------------
(***************************************************************************)
(* The durable transparency log: leaf hashes in memory and, one line each, *)
(* in a file it is rebuilt from after a restart; the checkpoints and       *)
(* proofs its clients hold.                                                *)
(*   packages/transparency/src/{log,merkle}.ts                             *)
(*                                                                         *)
(* append pushes to memory before it writes to the file.  A write may fail *)
(* (append throws and the process lives on) or be cut by the death of the  *)
(* process; either leaves nothing, a part of the line, or the line without *)
(* its end, and the next line written then joins it.                       *)
(***************************************************************************)
EXTENDS Merkle

CONSTANTS
  Entries,        \* what is appended
  MaxSize,        \* bound on the log
  MaxFaultySize,  \* bound on the log in which a write fails
  MaxFaults,      \* bound on the writes that fail or are cut
  MaxCheckpoints, \* bound on the checkpoints held
  MaxProof        \* bound on the length of a made-up proof

ASSUME BoundsAssumption ==
  /\ MaxSize \in Nat /\ MaxFaultySize \in Nat /\ MaxFaults \in Nat /\ MaxCheckpoints \in Nat
  /\ MaxProof \in Nat

VARIABLES
  file,     \* [lines: what each ended line decodes from, tail: the line not ended]
  up,       \* the process is running
  leaves,   \* #leaves
  acked,    \* what append returned: [index, leaf]
  issued,   \* checkpoints held by clients: the leaves their root commits to
  faults    \* writes that failed or were cut so far

logVars == <<file, up, leaves, acked, issued, faults>>

\* What is left of an entry's line when it is cut short: it decodes to something else.
Cut(d) == <<"cut", d>>

\* The leaves the constructor reads: one for every line with anything in it.
Loaded(f) ==
  [i \in 1..(Len(f.lines) + IF f.tail = <<>> THEN 0 ELSE 1) |->
     LeafHash(IF i <= Len(f.lines) THEN f.lines[i] ELSE f.tail)]

\* The file after a line was added to it.
Written(f, d) == [lines |-> Append(f.lines, Append(f.tail, d)), tail |-> <<>>]

\* What a write that does not complete may leave.
Remains(f, d) == {f, [f EXCEPT !.tail = Append(@, Cut(d))], [f EXCEPT !.tail = Append(@, d)]}

LogInit ==
  /\ file = [lines |-> <<>>, tail |-> <<>>]
  /\ up = TRUE
  /\ leaves = <<>>
  /\ acked = {}
  /\ issued = {}
  /\ faults = 0

Room(n) == Len(leaves) < n /\ (faults > 0 => Len(leaves) < MaxFaultySize)

\* Seeded fault: the caller is given the size for the index.
AppendGivingSize(d) ==
  /\ up /\ Room(MaxSize)
  /\ leaves' = Append(leaves, LeafHash(<<d>>))
  /\ file' = Written(file, d)
  /\ acked' = acked \union {[index |-> Len(leaves) + 1, leaf |-> LeafHash(<<d>>)]}
  /\ UNCHANGED <<up, issued, faults>>

\* append, of which the caller learns the index.
AppendEntry(d) ==
  /\ up /\ Room(MaxSize)
  /\ leaves' = Append(leaves, LeafHash(<<d>>))
  /\ file' = Written(file, d)
  /\ acked' = acked \union {[index |-> Len(leaves), leaf |-> LeafHash(<<d>>)]}
  /\ UNCHANGED <<up, issued, faults>>

\* append throws: the leaf stays in memory.
AppendThrows(d) ==
  /\ up /\ Room(MaxFaultySize) /\ faults < MaxFaults
  /\ leaves' = Append(leaves, LeafHash(<<d>>))
  /\ file' \in Remains(file, d)
  /\ faults' = faults + 1
  /\ UNCHANGED <<up, acked, issued>>

\* The process dies while append writes.
DieInAppend(d) ==
  /\ up /\ Room(MaxFaultySize) /\ faults < MaxFaults
  /\ up' = FALSE
  /\ leaves' = <<>>
  /\ file' \in Remains(file, d)
  /\ faults' = faults + 1
  /\ UNCHANGED <<acked, issued>>

Stop ==
  /\ up
  /\ up' = FALSE
  /\ leaves' = <<>>
  /\ UNCHANGED <<file, acked, issued, faults>>

\* Seeded fault: the last line is dropped as if it were the void after its end.
StartShort ==
  /\ ~up
  /\ up' = TRUE
  /\ leaves' = SubSeq(Loaded(file), 1, Len(file.lines) - 1)
  /\ UNCHANGED <<file, acked, issued, faults>>

\* The constructor, on the file there is.
Start ==
  /\ ~up
  /\ up' = TRUE
  /\ leaves' = Loaded(file)
  /\ UNCHANGED <<file, acked, issued, faults>>

Checkpoint ==
  /\ up /\ Cardinality(issued \union {leaves}) <= MaxCheckpoints
  /\ issued' = issued \union {leaves}
  /\ UNCHANGED <<file, up, leaves, acked, faults>>

\* inclusionProof and consistencyProof: what the log says of itself now.
InclusionProofOf(index) ==
  [index |-> index, size |-> Len(leaves), leafHash |-> leaves[index + 1],
   rootHash |-> MerkleRoot(leaves), proof |-> InclusionProof(index, leaves)]

ConsistencyProofOf(oldSize) ==
  [oldSize |-> oldSize, newSize |-> Len(leaves), newRoot |-> MerkleRoot(leaves),
   oldRoot |-> MerkleRoot(SubSeq(leaves, 1, oldSize)),
   proof |-> ConsistencyProof(oldSize, leaves)]

\* verifyInclusionResult and verifyConsistencyResult, by whoever is shown one.
VerifyInclusionResult(r) == VerifyInclusion(r.leafHash, r.index, r.size, r.proof, r.rootHash)
VerifyConsistencyResult(r) ==
  VerifyConsistency(r.oldSize, r.oldRoot, r.newSize, r.newRoot, r.proof)

LogNext ==
  \/ \E d \in Entries : AppendEntry(d) \/ AppendThrows(d) \/ DieInAppend(d)
  \/ Stop
  \/ Start
  \/ Checkpoint

LogSpec == LogInit /\ [][LogNext]_logVars

(***************************************************************************)
(* Properties                                                              *)
(***************************************************************************)

\* As long as no write failed, restarts included, a client that kept a checkpoint
\* of any size is given a proof it accepts that the log now extends it
\* (docs/CLAIMS.md:39; log.ts:8-10).
CheckpointsStayConsistent ==
  up /\ faults = 0 =>
    \A c \in issued :
      /\ Len(c) <= Len(leaves)
      /\ LET r == ConsistencyProofOf(Len(c))
         IN  r.oldRoot = MerkleRoot(c) /\ VerifyConsistencyResult(r)

\* As long as no write failed, whoever was told an index can have the entry's
\* inclusion there proved, in the log of any later size (log.ts:6-7).
AckedIsProvable ==
  up /\ faults = 0 =>
    \A a \in acked :
      /\ a.index < Len(leaves)
      /\ LET r == InclusionProofOf(a.index)
         IN  r.leafHash = a.leaf /\ VerifyInclusionResult(r)

\* Every hash that occurs in the tree of a log.
Nodes(s) == UNION {{SliceRoot(s, i, n) : n \in 1..(Len(s) - i)} : i \in 0..Len(s)}

ProofsOver(hashes) == UNION {[1..k -> hashes] : k \in 0..MaxProof}

\* When failed writes have made the log fork from a checkpoint, no proof put
\* together from hashes of the two logs makes its holder believe the log extends
\* it (merkle.ts:132-135): the fork is noticed whatever the log answers.  Proofs are
\* tried for logs of up to MaxFaultySize leaves, and no larger one forks here.
ForkIsNoticed ==
  up =>
    \A c \in {c \in issued : Len(c) <= MaxFaultySize} :
      (\E i \in 1..Len(c) : i > Len(leaves) \/ c[i] # leaves[i]) =>
        \A proof \in ProofsOver(Nodes(c) \union Nodes(leaves)) :
          ~VerifyConsistency(Len(c), MerkleRoot(c), Len(leaves), MerkleRoot(leaves), proof)

\* No proof put together from the hashes of the log places a leaf where it is not
\* (merkle.ts:68-81), for leaves of the log and those its clients were told of;
\* tried for logs of up to MaxFaultySize leaves.
OnlyLeavesAreIncluded ==
  up /\ Len(leaves) <= MaxFaultySize =>
    LET size == Len(leaves)
        root == MerkleRoot(leaves)
        proofs == ProofsOver(Nodes(leaves))
    IN  \A leaf \in {leaves[i] : i \in 1..size} \union {a.leaf : a \in acked},
           index \in 0..(size - 1) :
          leaf # leaves[index + 1] =>
            \A proof \in proofs : ~VerifyInclusion(leaf, index, size, proof, root)

=============================================================================
