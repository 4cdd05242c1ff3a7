---------------------------- MODULE MCLocalPublish ----------------------------
(* Small instance of LocalPublish for TLC: a call and its retry, another     *)
(* call publishing the same bytes under its own key, and the first key       *)
(* reused for other content and for an unauthorised call.                    *)
EXTENDS LocalPublish

CONSTANTS c1, c2, c3, c4, c5, k1, k2, d1, d2

MCCalls == {c1, c2, c3, c4, c5}
MCIdemKeys == {k1, k2}
MCDigests == {d1, d2}

MCCall(k, d, ok) == [key |-> k, digest |-> d, authorized |-> ok]

MCRequest ==
  [c \in MCCalls |->
     CASE c = c1 -> MCCall(k1, d1, TRUE)
       [] c = c2 -> MCCall(k1, d1, TRUE)
       [] c = c3 -> MCCall(k2, d1, TRUE)
       [] c = c4 -> MCCall(k1, d2, TRUE)
       [] c = c5 -> MCCall(k2, d2, FALSE)]

=============================================================================
