---------------------------- MODULE MCEventStream ----------------------------
(* Lines of two units and of one in turn, so that offsets fall into lines. *)
EXTENDS EventStream

CONSTANTS g1, g2

MCGenerators == {g1, g2}
MCLineSize == <<2, 1, 2>>
MCMaxEvents == [g \in MCGenerators |-> IF g = g1 THEN 3 ELSE 1]
================================================================================
