--------------------------- MODULE AbstractPublish ---------------------------
(***************************************************************************)
(* What a PublicationAdapter promises its callers, whatever the medium:    *)
(* nothing is posted that no authorised call asked for, an item is posted  *)
(* at most once however often calls are repeated, a call is told executed  *)
(* only once the item is out, and an answer given is final.  A call may    *)
(* fail and the item be posted all the same, before or after.              *)
(*   packages/core/src/execution.ts: PublicationAdapter                    *)
(***************************************************************************)
EXTENDS Naturals

CONSTANTS Calls, Items, None

VARIABLES
  requested,  \* items authorised calls have asked for
  posts,      \* how often each item was posted
  outcome     \* what each call was told: None, or [status, item]

vars == <<requested, posts, outcome>>

Init ==
  /\ requested = {}
  /\ posts = [i \in Items |-> 0]
  /\ outcome = [c \in Calls |-> None]

Commission(i) ==
  /\ requested' = requested \union {i}
  /\ UNCHANGED <<posts, outcome>>

Post(i) ==
  /\ i \in requested
  /\ posts[i] = 0
  /\ posts' = [posts EXCEPT ![i] = 1]
  /\ UNCHANGED <<requested, outcome>>

Answer(c, o) ==
  /\ outcome[c] = None
  /\ o.status = "executed" => posts[o.item] = 1
  /\ outcome' = [outcome EXCEPT ![c] = o]
  /\ UNCHANGED <<requested, posts>>

\* The item goes out and the call fails before it can say so.
PostAndFail(c, i) ==
  /\ i \in requested
  /\ posts[i] = 0
  /\ posts' = [posts EXCEPT ![i] = 1]
  /\ outcome[c] = None
  /\ outcome' = [outcome EXCEPT ![c] = [status |-> "failed", item |-> None]]
  /\ UNCHANGED requested

Answers ==
  [status : {"blocked", "failed"}, item : {None}] \union
  [status : {"executed"}, item : Items]

Next ==
  \/ \E i \in Items : Commission(i) \/ Post(i)
  \/ \E c \in Calls, o \in Answers : Answer(c, o)
  \/ \E c \in Calls, i \in Items : PostAndFail(c, i)

Spec == Init /\ [][Next]_vars

=============================================================================
