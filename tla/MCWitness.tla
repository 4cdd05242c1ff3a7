------------------------------ MODULE MCWitness ------------------------------
(* Small instances of Witness for TLC: histories that fork at the start, of  *)
(* up to two leaves.  A log that equivocates: two distributions at once to a *)
(* witness that keeps its memory, and three such witnesses whom anybody may  *)
(* send anything.  An honest log with witnesses that may restart: two        *)
(* distributions at once to one, and one distribution and an auditor with    *)
(* two.  An honest log beside which others send checkpoints under its key id *)
(* to witnesses that keep their memory: with a distribution to one, and with *)
(* an auditor of two.                                                        *)
EXTENDS Witness, TLC

CONSTANTS a, b, w1, w2, w3, p1, p2, logKey, otherKey

MCHeads == {<<>>, <<a>>, <<b>>, <<a, b>>, <<b, a>>}
MCLeaves == {a, b}
MCWitnesses == {w1, w2, w3}
MCDistributors == {p1, p2}
MCKeyIds == {logKey, otherKey}

\* Deployments that differ only in which witnesses and which callers there are: the
\* parts played towards those witnesses are the operator's, the auditor's, others'.
Deployments(equivocates, restarts, parts, taken, callers) ==
  {[equivocates |-> equivocates, restarts |-> restarts, callers |-> ps,
    transports |-> IF "operator" \in parts THEN ws ELSE {},
    audited    |-> IF "auditor" \in parts THEN ws ELSE {},
    open       |-> IF "others" \in parts THEN ws ELSE {}] : ws \in taken, ps \in callers}

One   == {{w} : w \in MCWitnesses}
Pairs == {MCWitnesses \ {w} : w \in MCWitnesses}
OneCaller == {{p} : p \in MCDistributors}

MCWorlds ==
  UNION {Deployments(TRUE, FALSE, {"operator"}, One, {MCDistributors}),
         Deployments(TRUE, FALSE, {"others"}, {MCWitnesses}, {{}}),
         Deployments(FALSE, TRUE, {"operator"}, One, {MCDistributors}),
         Deployments(FALSE, TRUE, {"operator", "auditor"}, Pairs, OneCaller),
         Deployments(FALSE, FALSE, {"operator", "others"}, One, OneCaller),
         Deployments(FALSE, FALSE, {"auditor", "others"}, Pairs, {{}})}

\* No action tells witnesses, distributions or leaves apart, and the deployments
\* are closed under the permutations.
MCSymmetry ==
  Permutations(MCWitnesses) \union Permutations(MCDistributors) \union Permutations(MCLeaves)

=============================================================================
