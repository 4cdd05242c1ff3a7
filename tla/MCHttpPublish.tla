---------------------------- MODULE MCHttpPublish ----------------------------
(* Small instance of HttpPublish for TLC: two concurrent calls under one     *)
(* key, and one that is not authorised, under another key.                    *)
EXTENDS HttpPublish, TLC

CONSTANTS c1, c2, c3, k1, k2

MCCalls == {c1, c2, c3}
MCIdemKeys == {k1, k2}
MCRequest ==
  [c \in MCCalls |-> [key |-> IF c = c3 THEN k2 ELSE k1, authorized |-> c # c3]]

=============================================================================
