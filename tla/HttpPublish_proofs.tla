-------------------------- MODULE HttpPublish_proofs --------------------------
(***************************************************************************)
(* Machine-checked properties of the network adapter, for any calls, keys, *)
(* number of retries, token lives and skew, and whatever the network does: *)
(* no post is claimed that is not there, no token near its death is used,  *)
(* and the adapter implements the contract of AbstractPublish.             *)
(***************************************************************************)
EXTENDS HttpPublish, TLAPS

\* What is on its way was sent for an authorised call.
SentInv ==
  \A m \in net \union replies : Request[m.call].authorized /\ pc[m.call] # "new"

\* A good answer is about a post, and names it or nothing.
AnswerInv ==
  \A m \in replies :
    /\ m.status = "ok" => posts[Request[m.call].key] = 1
    /\ m.ref \in {Request[m.call].key, None}

\* Where a call is, against what it was told and may send.
CallInv ==
  \A c \in Calls :
    /\ pc[c] \notin {"new", "done"} => Request[c].authorized
    /\ pc[c] = "body" => posts[Request[c].key] = 1
    /\ result[c] # None <=> pc[c] = "done"
    /\ asking[c] # None <=> pc[c] = "asked"

\* A token lives at least as long as the provider takes it to.
TokenInv ==
  /\ cached # None => cached.expiresAt <= cached.dies
  /\ \A c \in Calls :
       asking[c] # None =>
         /\ asking[c].at <= now
         /\ asking[c].answer # None =>
              asking[c].at + LifeOf(asking[c].answer.expiresIn) <= asking[c].answer.dies

Ind == TypeOK /\ SentInv /\ AnswerInv /\ CallInv /\ TokenInv /\ RefIsThePost

-----------------------------------------------------------------------------
(***************************************************************************)
(* Type correctness.                                                       *)
(***************************************************************************)
LEMMA Bounds == MaxRetries \in Nat /\ Skew \in Nat /\ DefaultLife \in Nat /\ MaxNow \in Nat
BY HttpAssumption

LEMMA Lives == \A x \in Lifetimes : LifeOf(x) \in Nat
BY HttpAssumption DEF LifeOf

LEMMA InitTypeOK == Init => TypeOK
BY HttpAssumption DEF Init, TypeOK

\* A call ends, with an outcome of its type.
LEMMA EndTypes ==
  ASSUME TypeOK, NEW c \in Calls, NEW status \in {"blocked", "failed", "executed"},
         NEW ref \in IdemKeys \union {None}, End(c, status, ref)
  PROVE  /\ pc' \in [Calls -> {"new", "token", "asked", "send", "wait", "sleep", "body", "done"}]
         /\ result' \in [Calls -> Outcome \union {None}]
<1>1. [status |-> status, ref |-> ref] \in Outcome
  BY DEF Outcome
<1> QED
  BY <1>1 DEF TypeOK, End, Goto

LEMMA RetryTypes ==
  ASSUME TypeOK, NEW c \in Calls, RetryOrFail(c)
  PROVE  /\ pc' \in [Calls -> {"new", "token", "asked", "send", "wait", "sleep", "body", "done"}]
         /\ result' \in [Calls -> Outcome \union {None}]
         /\ attempt' \in [Calls -> 0..MaxRetries]
<1>1. CASE attempt[c] < MaxRetries
  <2>1. attempt[c] + 1 \in 0..MaxRetries
    BY <1>1, Bounds DEF TypeOK
  <2>2. /\ Goto(c, "sleep") /\ attempt' = [attempt EXCEPT ![c] = attempt[c] + 1]
        /\ UNCHANGED result
    BY <1>1 DEF RetryOrFail
  <2> QED
    BY <2>1, <2>2 DEF TypeOK, Goto
<1>2. CASE ~(attempt[c] < MaxRetries)
  BY <1>2, EndTypes DEF TypeOK, RetryOrFail
<1> QED
  BY <1>1, <1>2

LEMMA ResponseTypes ==
  ASSUME TypeOK, NEW m \in net, NEW status \in {"ok"} \union Transient \union Definite,
         NEW ref \in IdemKeys \union {None}, Respond(m, status, ref)
  PROVE  net' \subseteq HttpRequest /\ replies' \subseteq HttpResponse
<1>1. m \in HttpRequest
  BY DEF TypeOK
<1>2. [call |-> m.call, attempt |-> m.attempt, status |-> status, ref |-> ref] \in HttpResponse
  BY <1>1 DEF HttpRequest, HttpResponse
<1> QED
  BY <1>2 DEF Respond, TypeOK

\* The endpoint's answer joins the request it answers; it lives from when it is given.
LEMMA IssueFacts ==
  ASSUME TypeOK, NEW c \in Calls, IssueToken(c)
  PROVE  /\ asking' \in [Calls -> TokenRequest \union {None}]
         /\ asking[c] \in TokenRequest /\ asking'[c] \in TokenRequest
         /\ asking'[c].at = asking[c].at
         /\ asking'[c].answer # None
         /\ asking'[c].answer.dies = now + LifeOf(asking'[c].answer.expiresIn)
         /\ \A e \in Calls \ {c} : asking'[e] = asking[e]
<1>1. PICK x \in Lifetimes :
        asking' = [asking EXCEPT ![c].answer = [expiresIn |-> x, dies |-> now + LifeOf(x)]]
  BY DEF IssueToken
<1> DEFINE answer == [expiresIn |-> x, dies |-> now + LifeOf(x)]
<1>2. /\ answer \in TokenResponse
      /\ answer.dies = now + LifeOf(answer.expiresIn)
  BY Lives, Bounds DEF TypeOK, TokenResponse
<1>3. asking[c] \in TokenRequest
  BY DEF IssueToken, TypeOK
<1>4. asking'[c] = [asking[c] EXCEPT !.answer = answer]
  BY <1>1 DEF TypeOK
<1> HIDE DEF answer
<1>5. /\ [asking[c] EXCEPT !.answer = answer] \in TokenRequest
      /\ asking'[c].at = asking[c].at /\ asking'[c].answer = answer
  BY <1>2, <1>3, <1>4 DEF TokenRequest
<1>6. /\ asking' \in [Calls -> TokenRequest \union {None}]
      /\ \A e \in Calls \ {c} : asking'[e] = asking[e]
  BY <1>1, <1>5 DEF TypeOK, answer
<1> QED
  BY <1>2, <1>3, <1>4, <1>5, <1>6, NoneAssumption

\* A call that awaits a token has a request for one: CallInv is needed.
LEMMA NextTypeOK == TypeOK /\ CallInv /\ [Next]_vars => TypeOK'
<1> SUFFICES ASSUME TypeOK, CallInv, [Next]_vars PROVE TypeOK'
  OBVIOUS
<1>1. ASSUME NEW c \in Calls, Start(c) PROVE TypeOK'
  <2>1. CASE Request[c].authorized
    BY <1>1, <2>1 DEF Start, Goto, tokens, TypeOK
  <2>2. CASE ~Request[c].authorized
    BY <1>1, <2>2, EndTypes DEF Start, tokens, TypeOK
  <2> QED
    BY <2>1, <2>2
<1>2. ASSUME NEW c \in Calls, UseCachedToken(c) \/ Wake(c) PROVE TypeOK'
  BY <1>2 DEF UseCachedToken, Wake, Goto, tokens, TypeOK
<1>3. ASSUME NEW c \in Calls, AskForToken(c) PROVE TypeOK'
  <2>1. [at |-> now, answer |-> None] \in TokenRequest
    BY HttpAssumption DEF TypeOK, TokenRequest
  <2> QED
    BY <1>3, <2>1 DEF AskForToken, Goto, TypeOK
<1>4. ASSUME NEW c \in Calls, Send(c) PROVE TypeOK'
  <2>1. [call |-> c, attempt |-> attempt[c]] \in HttpRequest
    BY DEF TypeOK, HttpRequest
  <2> QED
    BY <1>4, <2>1 DEF Send, Goto, tokens, TypeOK
<1>5. ASSUME NEW c \in Calls, FetchRejects(c) PROVE TypeOK'
  BY <1>5, RetryTypes DEF FetchRejects, tokens, TypeOK
<1>6. ASSUME NEW c \in Calls, NEW m \in replies, Receive(c, m) PROVE TypeOK'
  <2>1. UNCHANGED <<net, replies, posts, now, cached, asking>>
    BY <1>6 DEF Receive, tokens
  <2>2. CASE m.status = "ok"
    BY <1>6, <2>1, <2>2 DEF Receive, Goto, TypeOK, Transient, Definite
  <2>3. CASE m.status \in Definite
    BY <1>6, <2>1, <2>3, EndTypes DEF Receive, TypeOK, Transient, Definite
  <2>4. CASE m.status \in Transient
    BY <1>6, <2>1, <2>4, RetryTypes DEF Receive, TypeOK, Transient, Definite
  <2>5. m.status = "ok" \/ m.status \in Definite \/ m.status \in Transient
    BY <1>6 DEF Receive
  <2> QED
    BY <2>2, <2>3, <2>4, <2>5
<1>7. ASSUME NEW c \in Calls, TokenComes(c) PROVE TypeOK'
  <2>0. asking' \in [Calls -> TokenRequest \union {None}]
    BY <1>7 DEF TokenComes, TypeOK
  <2>1. CASE asking[c].answer # None /\ KeepToken(c) /\ Goto(c, "send") /\ UNCHANGED result
    <3>1. asking[c] \in TokenRequest
      BY <1>7 DEF TokenComes, CallInv, TypeOK
    <3>2. asking[c].at \in Nat /\ asking[c].answer \in TokenResponse
      BY <2>1, <3>1 DEF TokenRequest
    <3>3. cached' \in CachedToken
      BY <2>1, <3>2, Lives DEF KeepToken, CachedToken, TokenResponse
    <3> QED
      BY <1>7, <2>0, <2>1, <3>3 DEF TokenComes, Goto, TypeOK
  <2>2. CASE End(c, "failed", None) /\ UNCHANGED cached
    BY <1>7, <2>0, <2>2, EndTypes DEF TokenComes, TypeOK
  <2> QED
    BY <1>7, <2>1, <2>2 DEF TokenComes
<1>8. ASSUME NEW c \in Calls, IssueToken(c) PROVE TypeOK'
  BY <1>8, IssueFacts DEF IssueToken, TypeOK
<1>9. ASSUME NEW c \in Calls, NEW m \in replies, ReadBody(c, m) PROVE TypeOK'
  <2>1. PICK ref \in {m.ref, None} : End(c, "executed", ref)
    BY <1>9 DEF ReadBody
  <2>2. ref \in IdemKeys \union {None}
    BY DEF TypeOK, HttpResponse
  <2> QED
    BY <1>9, <2>1, <2>2, EndTypes DEF ReadBody, tokens, TypeOK
<1>10. CASE Tick
  BY <1>10, Bounds DEF Tick, TypeOK
<1>11. ASSUME NEW m \in net, Process(m) PROVE TypeOK'
  <2>1. m \in HttpRequest /\ Request[m.call].key \in IdemKeys
    BY HttpAssumption DEF TypeOK, HttpRequest
  <2>2. posts' \in [IdemKeys -> {0, 1}]
    BY <1>11, <2>1 DEF Process, TypeOK
  <2>3. net' \subseteq HttpRequest /\ replies' \subseteq HttpResponse
    BY <1>11, <2>1, ResponseTypes DEF Process, TypeOK, Transient
  <2> QED
    BY <1>11, <2>2, <2>3 DEF Process, tokens, TypeOK
<1>12. ASSUME NEW m \in net, Refuse(m) PROVE TypeOK'
  <2>1. net' \subseteq HttpRequest /\ replies' \subseteq HttpResponse
    BY <1>12, ResponseTypes DEF Refuse, TypeOK
  <2> QED
    BY <1>12, <2>1 DEF Refuse, tokens, TypeOK
<1>13. CASE UNCHANGED vars
  BY <1>13 DEF vars, tokens, TypeOK
<1> QED
  BY <1>1, <1>2, <1>3, <1>4, <1>5, <1>6, <1>7, <1>8, <1>9, <1>10, <1>11, <1>12, <1>13
     DEF Next, OwnStep, ReadAnyBody

-----------------------------------------------------------------------------
(***************************************************************************)
(* What a step does to the calls, the network and the platform.            *)
(***************************************************************************)
\* The moves of one call, posts and responses apart.
Ended(c, status, ref) ==
  /\ pc' = [pc EXCEPT ![c] = "done"]
  /\ result' = [result EXCEPT ![c] = [status |-> status, ref |-> ref]]

Moved(c, place) ==
  /\ pc' = [pc EXCEPT ![c] = place]
  /\ UNCHANGED result

LEMMA RetryMoves ==
  ASSUME NEW c \in Calls, RetryOrFail(c)
  PROVE  Moved(c, "sleep") \/ Ended(c, "failed", None)
BY DEF RetryOrFail, Moved, Ended, Goto, End

\* Every step by what it does to pc and result.
LEMMA StepMoves ==
  ASSUME TypeOK, CallInv, [Next]_vars
  PROVE  \/ /\ UNCHANGED <<pc, result>>
            /\ \A c \in Calls : asking'[c] # None <=> asking[c] # None
         \/ \E c \in Calls :
              /\ pc[c] = "new" /\ ~Request[c].authorized
              /\ Ended(c, "blocked", None) /\ UNCHANGED <<posts, asking>>
         \/ \E c \in Calls :
              /\ pc[c] = "new" /\ Request[c].authorized
              /\ Moved(c, "token") /\ UNCHANGED <<posts, asking>>
         \/ \E c \in Calls :
              /\ pc[c] = "token" /\ Moved(c, "asked") /\ UNCHANGED posts
              /\ asking' = [asking EXCEPT ![c] = [at |-> now, answer |-> None]]
         \/ \E c \in Calls :
              /\ pc[c] = "asked" /\ UNCHANGED posts
              /\ asking' = [asking EXCEPT ![c] = None]
              /\ Moved(c, "send") \/ Ended(c, "failed", None)
         \/ \E c \in Calls :
              /\ pc[c] \in {"token", "send", "sleep", "wait"} /\ UNCHANGED <<posts, asking>>
              /\ \/ \E place \in {"send", "wait", "sleep"} : Moved(c, place)
                 \/ Ended(c, "failed", None)
         \/ \E c \in Calls :
              /\ pc[c] = "wait" /\ UNCHANGED <<posts, asking>> /\ Moved(c, "body")
              /\ \E m \in replies : m.call = c /\ m.status = "ok"
         \/ \E c \in Calls :
              /\ pc[c] = "body" /\ UNCHANGED <<posts, asking>>
              /\ \E m \in replies : m.call = c /\ \E ref \in {m.ref, None} : Ended(c, "executed", ref)
<1> USE DEF Moved, Ended, Goto, End, tokens
<1>1. ASSUME NEW c \in Calls, Start(c)
      PROVE  /\ pc[c] = "new" /\ UNCHANGED <<posts, asking>>
             /\ \/ Request[c].authorized /\ Moved(c, "token")
                \/ ~Request[c].authorized /\ Ended(c, "blocked", None)
  BY <1>1 DEF Start
<1>2. ASSUME NEW c \in Calls, UseCachedToken(c) \/ Wake(c)
      PROVE  pc[c] \in {"token", "sleep"} /\ Moved(c, "send") /\ UNCHANGED <<posts, asking>>
  BY <1>2 DEF UseCachedToken, Wake
<1>3. ASSUME NEW c \in Calls, AskForToken(c)
      PROVE  /\ pc[c] = "token" /\ Moved(c, "asked") /\ UNCHANGED posts
             /\ asking' = [asking EXCEPT ![c] = [at |-> now, answer |-> None]]
  BY <1>3 DEF AskForToken
<1>4. ASSUME NEW c \in Calls, TokenComes(c)
      PROVE  /\ pc[c] = "asked" /\ UNCHANGED posts
             /\ asking' = [asking EXCEPT ![c] = None]
             /\ Moved(c, "send") \/ Ended(c, "failed", None)
  BY <1>4 DEF TokenComes
<1>5. ASSUME NEW c \in Calls, Send(c)
      PROVE  pc[c] = "send" /\ Moved(c, "wait") /\ UNCHANGED <<posts, asking>>
  BY <1>5 DEF Send
<1>6. ASSUME NEW c \in Calls, FetchRejects(c)
      PROVE  /\ pc[c] = "wait" /\ UNCHANGED <<posts, asking>>
             /\ Moved(c, "sleep") \/ Ended(c, "failed", None)
  BY <1>6, RetryMoves DEF FetchRejects
<1>7. ASSUME NEW c \in Calls, NEW m \in replies, Receive(c, m)
      PROVE  /\ pc[c] = "wait" /\ UNCHANGED <<posts, asking>> /\ m.call = c
             /\ \/ m.status = "ok" /\ Moved(c, "body")
                \/ Moved(c, "sleep") \/ Ended(c, "failed", None)
  BY <1>7, RetryMoves DEF Receive
<1>8. ASSUME NEW c \in Calls, NEW m \in replies, ReadBody(c, m)
      PROVE  /\ pc[c] = "body" /\ UNCHANGED <<posts, asking>> /\ m.call = c
             /\ \E ref \in {m.ref, None} : Ended(c, "executed", ref)
  BY <1>8 DEF ReadBody
<1>9. ASSUME NEW c \in Calls, IssueToken(c)
      PROVE  /\ UNCHANGED <<pc, result>>
             /\ \A e \in Calls : asking'[e] # None <=> asking[e] # None
  <2>1. /\ asking[c] # None /\ asking'[c] # None
        /\ \A e \in Calls \ {c} : asking'[e] = asking[e]
    BY <1>9, IssueFacts, NoneAssumption DEF IssueToken
  <2> QED
    BY <1>9, <2>1 DEF IssueToken
<1>10. ASSUME Tick \/ (\E m \in net : Process(m) \/ Refuse(m)) \/ UNCHANGED vars
       PROVE  UNCHANGED <<pc, result, asking>>
  BY <1>10 DEF Tick, Process, Refuse, vars
<1> HIDE DEF Moved, Ended
<1>11. CASE \E c \in Calls : OwnStep(c)
  BY <1>11, <1>1, <1>2, <1>3, <1>5, <1>6, <1>7 DEF OwnStep
<1>12. CASE \E c \in Calls : TokenComes(c) \/ IssueToken(c) \/ ReadAnyBody(c)
  BY <1>12, <1>4, <1>8, <1>9 DEF ReadAnyBody
<1> QED
  BY <1>10, <1>11, <1>12 DEF Next

LEMMA PostsStay ==
  ASSUME TypeOK, [Next]_vars, NEW k \in IdemKeys, posts[k] = 1
  PROVE  posts'[k] = 1
<1>1. ASSUME NEW m \in net, Process(m) PROVE posts'[k] = 1
  BY <1>1 DEF Process, TypeOK
<1>2. CASE UNCHANGED posts
  BY <1>2
<1> QED
  BY <1>1, <1>2 DEF Next, OwnStep, ReadAnyBody, Start, UseCachedToken, AskForToken, TokenComes,
     IssueToken, Tick, Send, FetchRejects, Receive, Wake, ReadBody, Refuse, vars

LEMMA CallInvStep == Ind /\ [Next]_vars => CallInv' /\ RefIsThePost'
<1> SUFFICES ASSUME Ind, [Next]_vars PROVE CallInv' /\ RefIsThePost'
  OBVIOUS
<1>0. /\ TypeOK /\ CallInv /\ TypeOK'
  BY NextTypeOK DEF Ind
<1>1. \A c \in Calls : posts[Request[c].key] = 1 => posts'[Request[c].key] = 1
  BY <1>0, PostsStay, HttpAssumption
\* What is left to show of the call that moved, and of any other.
<1>2. ASSUME NEW c \in Calls, NEW place, NEW out, NEW token,
             pc'[c] = place, result'[c] = out, asking'[c] # None <=> token,
             \A e \in Calls \ {c} :
               pc'[e] = pc[e] /\ result'[e] = result[e] /\ (asking'[e] # None <=> asking[e] # None),
             place \notin {"new", "done"} => Request[c].authorized,
             place = "body" => posts'[Request[c].key] = 1,
             out # None <=> place = "done", token <=> place = "asked",
             out # None /\ out.status = "executed" =>
               posts'[Request[c].key] = 1 /\ out.ref \in {Request[c].key, None}
      PROVE  CallInv' /\ RefIsThePost'
  BY <1>1, <1>2 DEF Ind, CallInv, RefIsThePost
<1>3. CASE UNCHANGED <<pc, result>> /\ \A c \in Calls : asking'[c] # None <=> asking[c] # None
  BY <1>1, <1>3 DEF Ind, CallInv, RefIsThePost
<1> USE DEF Moved, Ended
<1>4. ASSUME NEW c \in Calls, NEW place, Moved(c, place)
      PROVE  /\ pc'[c] = place /\ result'[c] = result[c]
             /\ \A e \in Calls \ {c} : pc'[e] = pc[e] /\ result'[e] = result[e]
  BY <1>0, <1>4 DEF TypeOK
<1>5. ASSUME NEW c \in Calls, NEW status \in {"blocked", "failed", "executed"},
             NEW ref \in IdemKeys \union {None}, Ended(c, status, ref)
      PROVE  /\ pc'[c] = "done" /\ result'[c] = [status |-> status, ref |-> ref]
             /\ result'[c] # None /\ result'[c].status = status /\ result'[c].ref = ref
             /\ \A e \in Calls \ {c} : pc'[e] = pc[e] /\ result'[e] = result[e]
  <2>1. [status |-> status, ref |-> ref] # None
    BY NoneAssumption DEF Outcome
  <2> QED
    BY <1>0, <1>5, <2>1 DEF TypeOK
<1> HIDE DEF Moved, Ended
\* A call that ends unsuccessfully, its token request done with.
<1>6. ASSUME NEW c \in Calls, NEW status \in {"blocked", "failed"}, Ended(c, status, None),
              asking'[c] = None, \A e \in Calls \ {c} : asking'[e] = asking[e]
       PROVE  CallInv' /\ RefIsThePost'
  <2>1. /\ pc'[c] = "done" /\ result'[c] # None /\ result'[c].status = status
        /\ \A e \in Calls \ {c} : pc'[e] = pc[e] /\ result'[e] = result[e]
    BY <1>5, <1>6
  <2>2. status # "executed"
    BY <1>6
  <2> QED
    BY <1>2, <1>6, <2>1, <2>2
<1>7. ASSUME NEW c \in Calls, pc[c] = "new", ~Request[c].authorized,
             Ended(c, "blocked", None), UNCHANGED asking
      PROVE  CallInv' /\ RefIsThePost'
  BY <1>0, <1>7, <1>6 DEF CallInv
<1>8. ASSUME NEW c \in Calls, pc[c] = "new", Request[c].authorized, Moved(c, "token"),
             UNCHANGED asking
      PROVE  CallInv' /\ RefIsThePost'
  BY <1>0, <1>2, <1>4, <1>8 DEF CallInv
<1>9. ASSUME NEW c \in Calls, pc[c] = "token", Moved(c, "asked"),
             asking' = [asking EXCEPT ![c] = [at |-> now, answer |-> None]]
      PROVE  CallInv' /\ RefIsThePost'
  <2>1. [at |-> now, answer |-> None] \in TokenRequest
    BY <1>0, Bounds DEF TypeOK, TokenRequest
  <2>2. asking'[c] # None /\ \A e \in Calls \ {c} : asking'[e] = asking[e]
    BY <1>0, <1>9, <2>1, NoneAssumption DEF TypeOK
  <2> QED
    BY <1>0, <1>2, <1>4, <1>9, <2>2 DEF CallInv
<1>10. ASSUME NEW c \in Calls, pc[c] = "asked", asking' = [asking EXCEPT ![c] = None],
             Moved(c, "send") \/ Ended(c, "failed", None)
      PROVE  CallInv' /\ RefIsThePost'
  <2>1. asking'[c] = None /\ \A e \in Calls \ {c} : asking'[e] = asking[e]
    BY <1>0, <1>10 DEF TypeOK
  <2>2. CASE Moved(c, "send")
    BY <1>0, <1>2, <1>4, <1>10, <2>1, <2>2 DEF CallInv
  <2>3. CASE Ended(c, "failed", None)
    BY <1>6, <2>1, <2>3
  <2> QED
    BY <1>10, <2>2, <2>3
<1>11. ASSUME NEW c \in Calls, pc[c] \in {"token", "send", "sleep", "wait"}, UNCHANGED asking,
              (\E place \in {"send", "wait", "sleep"} : Moved(c, place)) \/ Ended(c, "failed", None)
       PROVE  CallInv' /\ RefIsThePost'
  <2>1. ASSUME NEW place \in {"send", "wait", "sleep"}, Moved(c, place)
        PROVE  CallInv' /\ RefIsThePost'
    BY <1>0, <1>2, <1>4, <1>11, <2>1 DEF CallInv
  <2>2. CASE Ended(c, "failed", None)
    BY <1>0, <1>11, <1>6, <2>2 DEF CallInv
  <2> QED
    BY <1>11, <2>1, <2>2
<1>12. ASSUME NEW c \in Calls, pc[c] = "wait", UNCHANGED <<posts, asking>>, Moved(c, "body"),
              NEW m \in replies, m.call = c, m.status = "ok"
       PROVE  CallInv' /\ RefIsThePost'
  <2>1. posts'[Request[c].key] = 1
    BY <1>12 DEF Ind, AnswerInv
  <2> QED
    BY <1>0, <1>2, <1>4, <1>12, <2>1 DEF CallInv
<1>13. ASSUME NEW c \in Calls, pc[c] = "body", UNCHANGED <<posts, asking>>,
              NEW m \in replies, m.call = c, NEW ref \in {m.ref, None}, Ended(c, "executed", ref)
       PROVE  CallInv' /\ RefIsThePost'
  <2>1. posts'[Request[c].key] = 1
    BY <1>0, <1>13 DEF CallInv
  <2>2. ref \in {Request[c].key, None} /\ ref \in IdemKeys \union {None}
    BY <1>13, HttpAssumption DEF Ind, AnswerInv
  <2>3. /\ pc'[c] = "done" /\ result'[c] = [status |-> "executed", ref |-> ref]
        /\ result'[c] # None /\ result'[c].status = "executed" /\ result'[c].ref = ref
        /\ \A e \in Calls \ {c} : pc'[e] = pc[e] /\ result'[e] = result[e]
    BY <1>5, <1>13, <2>2, Zenon
  <2>4. asking'[c] = None /\ \A e \in Calls \ {c} : asking'[e] = asking[e]
    BY <1>0, <1>13 DEF CallInv
  <2> QED
    BY <1>2, <2>1, <2>2, <2>3, <2>4
<1> QED
  BY <1>0, <1>3, <1>7, <1>8, <1>9, <1>10, <1>11, <1>12, <1>13, StepMoves

-----------------------------------------------------------------------------
\* Where what is on its way comes from.
LEMMA SentInvStep == Ind /\ [Next]_vars => SentInv'
<1> SUFFICES ASSUME Ind, [Next]_vars PROVE SentInv'
  OBVIOUS
<1>0. /\ TypeOK /\ CallInv /\ SentInv
      /\ \A m \in net \union replies : m.call \in Calls
  BY DEF Ind, TypeOK, HttpRequest, HttpResponse
<1>1. \A c \in Calls : pc[c] # "new" => pc'[c] # "new"
  BY <1>0, StepMoves DEF Moved, Ended, TypeOK
<1>2. ASSUME NEW m \in net' \union replies',
             \/ \E n \in net \union replies : n.call = m.call
             \/ m.call \in Calls /\ pc[m.call] = "send"
      PROVE  Request[m.call].authorized /\ pc'[m.call] # "new"
  BY <1>0, <1>1, <1>2 DEF SentInv, CallInv
<1>3. ASSUME NEW m \in net' \union replies'
      PROVE  \/ \E n \in net \union replies : n.call = m.call
             \/ m.call \in Calls /\ pc[m.call] = "send"
  <2>1. ASSUME NEW c \in Calls, Send(c)
        PROVE  \/ \E n \in net \union replies : n.call = m.call
               \/ m.call \in Calls /\ pc[m.call] = "send"
    BY <1>3, <2>1 DEF Send
  <2>2. ASSUME NEW n \in net, Process(n) \/ Refuse(n)
        PROVE  \E o \in net \union replies : o.call = m.call
    BY <1>3, <2>2 DEF Process, Refuse, Respond
  <2>3. CASE UNCHANGED <<net, replies>>
    BY <1>3, <2>3
  <2> QED
    BY <2>1, <2>2, <2>3 DEF Next, OwnStep, ReadAnyBody, Start, UseCachedToken, AskForToken,
       TokenComes, IssueToken, Tick, FetchRejects, Receive, Wake, ReadBody, vars
<1> QED
  BY <1>2, <1>3 DEF SentInv

LEMMA AnswerInvStep == Ind /\ [Next]_vars => AnswerInv'
<1> SUFFICES ASSUME Ind, [Next]_vars, NEW m \in replies'
             PROVE  /\ m.status = "ok" => posts'[Request[m.call].key] = 1
                    /\ m.ref \in {Request[m.call].key, None}
  BY DEF AnswerInv
<1>1. CASE m \in replies
  <2>1. Request[m.call].key \in IdemKeys /\ TypeOK
    BY <1>1, HttpAssumption DEF Ind, TypeOK, HttpResponse
  <2> QED
    BY <1>1, <2>1, PostsStay DEF Ind, AnswerInv
<1>2. ASSUME NEW n \in net, Process(n), m \notin replies
      PROVE  /\ m.status = "ok" => posts'[Request[m.call].key] = 1
             /\ m.ref \in {Request[m.call].key, None}
  <2>1. m.call = n.call /\ m.ref \in {Request[n.call].key, None}
    BY <1>2 DEF Process, Respond
  <2>2. Request[n.call].key \in IdemKeys
    BY HttpAssumption DEF Ind, TypeOK, HttpRequest
  <2>3. posts'[Request[n.call].key] = 1
    BY <1>2, <2>2 DEF Process, Ind, TypeOK
  <2> QED
    BY <2>1, <2>3
<1>3. ASSUME NEW n \in net, Refuse(n), m \notin replies
      PROVE  m.status # "ok" /\ m.ref = None
  BY <1>3 DEF Refuse, Respond, Transient, Definite
<1>4. CASE UNCHANGED replies
  BY <1>1, <1>4
<1> QED
  BY <1>1, <1>2, <1>3, <1>4 DEF Next, OwnStep, ReadAnyBody, Start, UseCachedToken, AskForToken,
     TokenComes, IssueToken, Tick, Send, FetchRejects, Receive, Wake, ReadBody, vars

LEMMA TokenInvStep == Ind /\ [Next]_vars => TokenInv'
<1> SUFFICES ASSUME Ind, [Next]_vars PROVE TokenInv'
  OBVIOUS
<1>0. TypeOK /\ CallInv /\ TokenInv /\ now \in Nat
  BY Bounds DEF Ind, TypeOK
<1>1. ASSUME NEW c \in Calls, AskForToken(c) PROVE TokenInv'
  <2>1. asking'[c] = [at |-> now, answer |-> None] /\ \A e \in Calls \ {c} : asking'[e] = asking[e]
    BY <1>0, <1>1 DEF AskForToken, TypeOK
  <2>2. UNCHANGED <<now, cached>>
    BY <1>1 DEF AskForToken
  <2> QED
    BY <1>0, <2>1, <2>2 DEF TokenInv
<1>2. ASSUME NEW c \in Calls, TokenComes(c) PROVE TokenInv'
  <2>1. asking'[c] = None /\ \A e \in Calls \ {c} : asking'[e] = asking[e]
    BY <1>0, <1>2 DEF TokenComes, TypeOK
  <2>2. cached' # None => cached'.expiresAt <= cached'.dies
    <3>1. CASE UNCHANGED cached
      BY <1>0, <3>1 DEF TokenInv
    <3>2. CASE asking[c].answer # None /\ KeepToken(c)
      <4>1. asking[c] # None
        BY <1>0, <1>2 DEF TokenComes, CallInv
      <4> QED
        BY <1>0, <3>2, <4>1 DEF KeepToken, TokenInv
    <3> QED
      BY <1>2, <3>1, <3>2 DEF TokenComes
  <2> QED
    BY <1>0, <1>2, <2>1, <2>2 DEF TokenInv, TokenComes
<1>3. ASSUME NEW c \in Calls, IssueToken(c) PROVE TokenInv'
  <2>1. /\ asking[c] # None /\ asking'[c].at = asking[c].at
        /\ asking'[c].answer.dies = now + LifeOf(asking'[c].answer.expiresIn)
        /\ \A e \in Calls \ {c} : asking'[e] = asking[e]
        /\ asking'[c] \in TokenRequest /\ asking'[c].answer # None
    BY <1>0, <1>3, IssueFacts DEF IssueToken
  <2>2. asking'[c].at \in Nat /\ LifeOf(asking'[c].answer.expiresIn) \in Nat
    BY <2>1, Lives DEF TokenRequest, TokenResponse
  <2>3. asking'[c].at <= now
    BY <1>0, <2>1 DEF TokenInv
  <2>4. asking'[c].at + LifeOf(asking'[c].answer.expiresIn) <= asking'[c].answer.dies
    BY <1>0, <2>1, <2>2, <2>3
  <2>5. UNCHANGED <<now, cached>>
    BY <1>3 DEF IssueToken
  <2> QED
    BY <1>0, <2>1, <2>3, <2>4, <2>5 DEF TokenInv
<1>4. CASE Tick
  <2>1. now' = now + 1 /\ UNCHANGED <<cached, asking>>
    BY <1>4 DEF Tick
  <2>2. \A c \in Calls : asking[c] # None => asking[c].at \in Nat
    BY <1>0 DEF TypeOK, TokenRequest
  <2> QED
    BY <1>0, <2>1, <2>2 DEF TokenInv
<1>5. CASE UNCHANGED <<now, cached, asking>>
  BY <1>0, <1>5 DEF TokenInv
<1> QED
  BY <1>1, <1>2, <1>3, <1>4, <1>5 DEF Next, OwnStep, ReadAnyBody, Start, UseCachedToken,
     Send, FetchRejects, Receive, Wake, ReadBody, Process, Refuse, vars, tokens

LEMMA InitInd == Init => Ind
<1> SUFFICES ASSUME Init PROVE Ind
  OBVIOUS
<1>1. TypeOK
  BY InitTypeOK
<1>2. SentInv /\ AnswerInv /\ CallInv /\ TokenInv /\ RefIsThePost
  BY DEF Init, SentInv, AnswerInv, CallInv, TokenInv, RefIsThePost
<1> QED
  BY <1>1, <1>2 DEF Ind

LEMMA Inductive == Spec => []Ind
<1>1. Ind /\ [Next]_vars => TypeOK'
  BY NextTypeOK DEF Ind
<1>2. Ind /\ [Next]_vars => Ind'
  BY <1>1, CallInvStep, SentInvStep, AnswerInvStep, TokenInvStep DEF Ind
<1> QED
  BY <1>2, InitInd, PTL DEF Spec

-----------------------------------------------------------------------------
\* The adapter, its token provider and the network are well-typed in every state.
THEOREM TypeCorrect == Spec => []TypeOK
<1>1. Ind => TypeOK
  BY DEF Ind
<1> QED
  BY <1>1, Inductive, PTL

\* No reference in a receipt but the platform's own, to a post that is there
\* (http-adapter.ts:13-14).
THEOREM ReceiptsNameThePost == Spec => []RefIsThePost
<1>1. Ind => RefIsThePost
  BY DEF Ind
<1> QED
  BY <1>1, Inductive, PTL

\* The provider never serves a token about to die (token.ts:19-20, 63-88).
THEOREM ServedTokensLive == Spec => []CachedTokenLives
<1>1. Ind => CachedTokenLives
  <2> SUFFICES ASSUME Ind, cached # None, cached.expiresAt > now + Skew
               PROVE  cached.dies > now + Skew
    BY DEF CachedTokenLives
  <2>1. cached.expiresAt <= cached.dies
    BY DEF Ind, TokenInv
  <2>2. cached.expiresAt \in Nat /\ cached.dies \in Nat /\ now \in Nat
    BY Bounds DEF Ind, TypeOK, CachedToken
  <2> QED
    BY <2>1, <2>2, Bounds
<1> QED
  BY <1>1, Inductive, PTL

-----------------------------------------------------------------------------
(***************************************************************************)
(* The adapter implements AbstractPublish: a call that gets past its       *)
(* authorisation commissions its key, a request processed for the first    *)
(* time posts it, the end of a call is its answer, and everything else is  *)
(* invisible.                                                              *)
(***************************************************************************)
Requested == {Request[c].key : c \in {e \in Calls : Request[e].authorized /\ pc[e] # "new"}}

LEMMA InitRefines == Init => Promise!Init
<1> SUFFICES ASSUME Init PROVE Promise!Init
  OBVIOUS
<1>1. Requested = {}
  BY DEF Init, Requested
<1>2. [c \in Calls |-> Told(c)] = [c \in Calls |-> None]
  BY DEF Init, Told
<1> QED
  BY <1>1, <1>2 DEF Init, Promise!Init, Requested

\* What the callers are told, and what was asked for, when one call moves.
LEMMA ToldMoves ==
  ASSUME TypeOK, NEW c \in Calls, NEW place, Moved(c, place)
  PROVE  [e \in Calls |-> Told(e)]' = [e \in Calls |-> Told(e)]
BY DEF Moved, Told

LEMMA RequestedMoves ==
  ASSUME TypeOK, NEW c \in Calls, pc[c] # "new", NEW place, place # "new",
         pc' = [pc EXCEPT ![c] = place]
  PROVE  Requested' = Requested
<1>1. \A e \in Calls : pc'[e] # "new" <=> pc[e] # "new"
  BY DEF TypeOK
<1> QED
  BY <1>1 DEF Requested

\* The end of a call is an answer.
LEMMA EndedAnswers ==
  ASSUME Ind, Ind', [Next]_vars, NEW c \in Calls, pc[c] # "done", UNCHANGED posts,
         Requested' = Requested,
         NEW status \in {"blocked", "failed", "executed"}, NEW ref, Ended(c, status, ref)
  PROVE  \E o \in Promise!Answers : Promise!Answer(c, o)
<1> DEFINE o == [status |-> status,
                 item |-> IF status = "executed" THEN Request[c].key ELSE None]
           out == [status |-> status, ref |-> ref]
<1>1. result[c] = None
  BY DEF Ind, CallInv
<1>2. result'[c] = out /\ pc'[c] = "done" /\ \A e \in Calls \ {c} : result'[e] = result[e]
  BY DEF Ended, Ind, TypeOK
<1>3. out # None /\ out.status = status
  BY <1>2 DEF Ind, CallInv
<1>4. Told(c) = None /\ Told(c)' = o /\ \A e \in Calls \ {c} : Told(e)' = Told(e)
  BY <1>1, <1>2, <1>3 DEF Told
<1>5. o.status = "executed" => posts[o.item] = 1
  BY <1>2, <1>3 DEF Ind, RefIsThePost
<1>6. o \in Promise!Answers
  BY HttpAssumption DEF Promise!Answers
<1> HIDE DEF o, out
<1>7. [e \in Calls |-> Told(e)]' = [[e \in Calls |-> Told(e)] EXCEPT ![c] = o]
  BY <1>4
<1> QED
  BY <1>4, <1>5, <1>6, <1>7 DEF Promise!Answer, Requested

LEMMA PostsMove ==
  ASSUME [Next]_vars
  PROVE  \/ UNCHANGED posts
         \/ \E m \in net : posts' = [posts EXCEPT ![Request[m.call].key] = 1]
BY DEF Next, OwnStep, ReadAnyBody, Start, UseCachedToken, AskForToken, TokenComes, IssueToken,
   Tick, Send, FetchRejects, Receive, Wake, ReadBody, Process, Refuse, vars

LEMMA NextRefines ==
  ASSUME Ind, Ind', [Next]_vars
  PROVE  [Promise!Next]_(Promise!vars)
<1> USE DEF Ind
<1>0. TypeOK /\ CallInv
  OBVIOUS
<1>1. ASSUME Requested' = Requested, [c \in Calls |-> Told(c)]' = [c \in Calls |-> Told(c)],
             UNCHANGED posts
      PROVE  [Promise!Next]_(Promise!vars)
  BY <1>1 DEF Promise!vars, Requested
<1>2. ASSUME NEW c \in Calls, pc[c] \notin {"new", "done"}, UNCHANGED posts,
             NEW status \in {"blocked", "failed", "executed"}, NEW ref, Ended(c, status, ref)
      PROVE  [Promise!Next]_(Promise!vars)
  <2>1. Requested' = Requested
    BY <1>0, <1>2, RequestedMoves DEF Ended
  <2> QED
    BY <1>2, <2>1, EndedAnswers DEF Promise!Next
<1>3. ASSUME NEW c \in Calls, pc[c] \notin {"new", "done"}, UNCHANGED posts, NEW place,
             place # "new", Moved(c, place)
      PROVE  [Promise!Next]_(Promise!vars)
  <2>1. Requested' = Requested
    BY <1>0, <1>3, RequestedMoves DEF Moved
  <2> QED
    BY <1>0, <1>1, <1>3, <2>1, ToldMoves
<1>4. CASE UNCHANGED <<pc, result>>
  <2>1. Requested' = Requested /\ [c \in Calls |-> Told(c)]' = [c \in Calls |-> Told(c)]
    BY <1>4 DEF Requested, Told
  <2>2. ASSUME NEW m \in net, posts' = [posts EXCEPT ![Request[m.call].key] = 1]
        PROVE  [Promise!Next]_(Promise!vars)
    <3>1. PICK k \in IdemKeys : k = Request[m.call].key
      BY HttpAssumption DEF TypeOK, HttpRequest
    <3>2. k \in Requested
      BY <3>1 DEF Requested, SentInv, TypeOK, HttpRequest
    <3>3. CASE posts[k] = 0
      <4>1. Promise!Post(k)
        BY <2>1, <2>2, <3>1, <3>2, <3>3 DEF Promise!Post, Requested
      <4> QED
        BY <4>1 DEF Promise!Next
    <3>4. CASE posts[k] = 1
      <4>1. UNCHANGED posts
        BY <2>2, <3>1, <3>4 DEF TypeOK
      <4> QED
        BY <1>1, <2>1, <4>1
    <3> QED
      BY <3>3, <3>4 DEF TypeOK
  <2> QED
    BY <1>1, <2>1, <2>2, PostsMove
<1>5. ASSUME NEW c \in Calls, pc[c] = "new", ~Request[c].authorized, UNCHANGED posts,
             Ended(c, "blocked", None)
      PROVE  [Promise!Next]_(Promise!vars)
  <2>1. \A e \in Calls \ {c} : pc'[e] = pc[e]
    BY <1>5 DEF Ended, TypeOK
  <2>2. Requested' = Requested
    BY <1>5, <2>1 DEF Requested
  <2>3. \E o \in Promise!Answers : Promise!Answer(c, o)
    BY <1>5, <2>2, EndedAnswers
  <2> QED
    BY <2>3 DEF Promise!Next
<1>6. ASSUME NEW c \in Calls, pc[c] = "new", Request[c].authorized, UNCHANGED posts,
             Moved(c, "token")
      PROVE  [Promise!Next]_(Promise!vars)
  <2>1. pc'[c] = "token" /\ \A e \in Calls \ {c} : pc'[e] = pc[e]
    BY <1>6 DEF Moved, TypeOK
  <2>2. Requested' = Requested \union {Request[c].key}
    BY <1>6, <2>1 DEF Requested
  <2>3. [e \in Calls |-> Told(e)]' = [e \in Calls |-> Told(e)]
    BY <1>0, <1>6, ToldMoves
  <2>4. Promise!Commission(Request[c].key)
    BY <1>6, <2>2, <2>3 DEF Promise!Commission, Requested
  <2> QED
    BY <2>4, HttpAssumption DEF Promise!Next
<1> QED
  BY <1>0, <1>2, <1>3, <1>4, <1>5, <1>6, StepMoves

\* The network adapter keeps the contract of a PublicationAdapter, however requests and
\* answers are lost, delayed or repeated (execution.ts: PublicationAdapter).
THEOREM KeepsContract == Spec => ImplementsAbstractPublish
<1>1. Init => Promise!Init
  BY InitRefines
<1>2. Ind /\ Ind' /\ [Next]_vars => [Promise!Next]_(Promise!vars)
  BY NextRefines
<1> QED
  BY <1>1, <1>2, Inductive, PTL DEF Spec, ImplementsAbstractPublish, Promise!Spec
=============================================================================
