----------------------------- MODULE HttpPublish -----------------------------
(***************************************************************************)
(* The network adapter and the platform behind it: requests may be lost,   *)
(* delivered after the adapter has given up on them, or processed and      *)
(* answered by an error all the same; concurrent calls and retries share   *)
(* an idempotency key, by which the platform de-duplicates.  The calls     *)
(* share a token provider, which keeps the token it was given last.        *)
(*   packages/adapters/src/{http-adapter,token,errors}.ts                  *)
(* The platform is external: a request it processes mints one post per     *)
(* idempotency key (packages/adapters/test/mock-platform.ts), and nothing  *)
(* is assumed of when, or whether, it answers.                             *)
(***************************************************************************)
EXTENDS Naturals

CONSTANTS
  Calls,       \* calls of execute
  IdemKeys,    \* idempotency keys
  Request,     \* Calls -> [key, authorized]
  MaxRetries,  \* cfg.maxRetries
  Skew,        \* refreshSkewMs
  Lifetimes,   \* what the token endpoint may say of a token's life: expires_in, or None
  DefaultLife, \* what is taken for its life when the endpoint does not say
  MaxNow,      \* bound on the clock
  None

ASSUME HttpAssumption ==
  /\ \A c \in Calls : Request[c].key \in IdemKeys /\ Request[c].authorized \in BOOLEAN
  /\ {MaxRetries, Skew, DefaultLife, MaxNow} \union (Lifetimes \ {None}) \subseteq Nat

\* What a call ends in, the token request of a call and its answer, the token kept.
Outcome == [status : {"blocked", "failed", "executed"}, ref : IdemKeys \union {None}]
TokenResponse == [expiresIn : Lifetimes, dies : Nat]
TokenRequest == [at : Nat, answer : TokenResponse \union {None}]
CachedToken == [expiresAt : Nat, dies : Nat]

ASSUME NoneAssumption ==
  /\ None \notin Outcome /\ None \notin CachedToken
  /\ None \notin TokenResponse /\ None \notin TokenRequest

VARIABLES
  pc,       \* where each call is
  attempt,  \* retries each call has made
  net,      \* requests on their way: [call, attempt]
  replies,  \* responses on their way: [call, attempt, status, ref]
  result,   \* what each call ended in: None, or [status, ref]
  posts,    \* the platform: posts minted under each idempotency key
  now,      \* the clock
  cached,   \* #cached: None, or [expiresAt, dies], when the token is to be replaced and dies
  asking    \* the token request of a call: None, or [at, answer]

tokens == <<now, cached, asking>>
vars == <<pc, attempt, net, replies, result, posts, tokens>>

Transient == {"rate", "outage"}                  \* 429 and 5xx
Definite == {"auth", "rejected"}                 \* 401/403, and every other non-2xx

\* A request on its way, and a response.
HttpRequest == [call : Calls, attempt : 0..MaxRetries]
HttpResponse ==
  [call : Calls, attempt : 0..MaxRetries, status : {"ok"} \union Transient \union Definite,
   ref : IdemKeys \union {None}]

Init ==
  /\ pc = [c \in Calls |-> "new"]
  /\ attempt = [c \in Calls |-> 0]
  /\ net = {}
  /\ replies = {}
  /\ result = [c \in Calls |-> None]
  /\ posts = [k \in IdemKeys |-> 0]
  /\ now = 0
  /\ cached = None
  /\ asking = [c \in Calls |-> None]

Goto(c, place) == pc' = [pc EXCEPT ![c] = place]

End(c, status, ref) ==
  /\ Goto(c, "done")
  /\ result' = [result EXCEPT ![c] = [status |-> status, ref |-> ref]]

\* execute: unauthorised, nothing is sent.
Start(c) ==
  /\ pc[c] = "new"
  /\ \/ Request[c].authorized /\ Goto(c, "token") /\ UNCHANGED result
     \/ ~Request[c].authorized /\ End(c, "blocked", None)
  /\ UNCHANGED <<attempt, net, replies, posts, tokens>>

\* getToken, once for all attempts: a cached token that lasts longer than the skew will do.
UseCachedToken(c) ==
  /\ pc[c] = "token" /\ cached # None /\ cached.expiresAt > now + Skew
  /\ Goto(c, "send")
  /\ UNCHANGED <<attempt, net, replies, result, posts, tokens>>

\* Otherwise one is asked for, by each call that finds none; the clock was read before.
AskForToken(c) ==
  /\ pc[c] = "token" /\ (cached # None => cached.expiresAt <= now + Skew)
  /\ Goto(c, "asked")
  /\ asking' = [asking EXCEPT ![c] = [at |-> now, answer |-> None]]
  /\ UNCHANGED <<attempt, net, replies, result, posts, now, cached>>

LifeOf(expiresIn) == IF expiresIn = None THEN DefaultLife ELSE expiresIn

\* Seeded fault: the life of the token is counted from when the answer comes.
KeepTokenFromNow(c) == cached' = [expiresAt |-> now + LifeOf(asking[c].answer.expiresIn), dies |-> asking[c].answer.dies]

\* Its life is counted from when it was asked for; whatever was cached is overwritten.
KeepToken(c) ==
  cached' = [expiresAt |-> asking[c].at + LifeOf(asking[c].answer.expiresIn), dies |-> asking[c].answer.dies]

\* The answer with the token has come, or the request has failed and getToken throws.
TokenComes(c) ==
  /\ pc[c] = "asked"
  /\ \/ asking[c].answer # None /\ KeepToken(c) /\ Goto(c, "send") /\ UNCHANGED result
     \/ End(c, "failed", None) /\ UNCHANGED cached
  /\ asking' = [asking EXCEPT ![c] = None]
  /\ UNCHANGED <<attempt, net, replies, posts, now>>

\* The token endpoint issues a token that lives as long as it says, or, if it says
\* nothing, as long as the provider assumes.
IssueToken(c) ==
  /\ asking[c] # None /\ asking[c].answer = None
  /\ \E expiresIn \in Lifetimes :
       asking' = [asking EXCEPT ![c].answer = [expiresIn |-> expiresIn, dies |-> now + LifeOf(expiresIn)]]
  /\ UNCHANGED <<pc, attempt, net, replies, result, posts, now, cached>>

Tick ==
  /\ now < MaxNow
  /\ now' = now + 1
  /\ UNCHANGED <<pc, attempt, net, replies, result, posts, cached, asking>>

\* fetch, with its timer started.
Send(c) ==
  /\ pc[c] = "send"
  /\ net' = net \union {[call |-> c, attempt |-> attempt[c]]}
  /\ Goto(c, "wait")
  /\ UNCHANGED <<attempt, replies, result, posts, tokens>>

\* Seeded fault: the retry that is not counted.
RetryUncounted(c) ==
  IF attempt[c] < MaxRetries
  THEN Goto(c, "sleep") /\ UNCHANGED <<attempt, result>>
  ELSE End(c, "failed", None) /\ UNCHANGED attempt

\* Back off and try again while retries are left, else throw.
RetryOrFail(c) ==
  IF attempt[c] < MaxRetries
  THEN Goto(c, "sleep") /\ attempt' = [attempt EXCEPT ![c] = @ + 1] /\ UNCHANGED result
  ELSE End(c, "failed", None) /\ UNCHANGED attempt

\* fetch rejects: aborted by the timer, or a network error.
FetchRejects(c) ==
  /\ pc[c] = "wait"
  /\ RetryOrFail(c)
  /\ UNCHANGED <<net, replies, posts, tokens>>

\* Seeded fault: whatever is not worth a retry counts as a success.
ReceiveAnyAsOk(c, m) ==
  /\ pc[c] = "wait" /\ m \in replies /\ m.call = c /\ m.attempt = attempt[c]
  /\ \/ m.status \notin Transient /\ Goto(c, "body") /\ UNCHANGED <<attempt, result>>
     \/ m.status \in Transient /\ RetryOrFail(c)
  /\ UNCHANGED <<net, replies, posts, tokens>>

\* The headers of the response to the attempt being waited for: the timer is
\* cleared here, before the body is read.
Receive(c, m) ==
  /\ pc[c] = "wait" /\ m \in replies /\ m.call = c /\ m.attempt = attempt[c]
  /\ \/ m.status = "ok" /\ Goto(c, "body") /\ UNCHANGED <<attempt, result>>
     \/ m.status \in Definite /\ End(c, "failed", None) /\ UNCHANGED attempt
     \/ m.status \in Transient /\ RetryOrFail(c)
  /\ UNCHANGED <<net, replies, posts, tokens>>

Wake(c) ==
  /\ pc[c] = "sleep"
  /\ Goto(c, "send")
  /\ UNCHANGED <<attempt, net, replies, result, posts, tokens>>

\* Seeded fault: a reference is made up when the body has none.
ReadBodyInventing(c, m) ==
  /\ pc[c] = "body" /\ m \in replies /\ m.call = c /\ m.attempt = attempt[c]
  /\ \E ref \in {m.ref, c} : End(c, "executed", ref)
  /\ UNCHANGED <<attempt, net, replies, posts, tokens>>

\* res.json().catch(() => ({})): a body that breaks off reads as no reference.
ReadBody(c, m) ==
  /\ pc[c] = "body" /\ m \in replies /\ m.call = c /\ m.attempt = attempt[c]
  /\ \E ref \in {m.ref, None} : End(c, "executed", ref)
  /\ UNCHANGED <<attempt, net, replies, posts, tokens>>

Respond(m, status, ref) ==
  /\ net' = net \ {m}
  /\ replies' = replies \union
       {[call |-> m.call, attempt |-> m.attempt, status |-> status, ref |-> ref]}

\* The platform processes a request: at most one post per key, whose id is the key's.
Process(m) ==
  /\ posts' = [posts EXCEPT ![Request[m.call].key] = 1]
  /\ Respond(m, "ok", Request[m.call].key) \/ Respond(m, "outage", None)
  /\ UNCHANGED <<pc, attempt, result, tokens>>

\* The platform turns a request down.
Refuse(m) ==
  /\ \E status \in Transient \union Definite : Respond(m, status, None)
  /\ UNCHANGED <<pc, attempt, result, posts, tokens>>

ReadAnyBody(c) == \E m \in replies : ReadBody(c, m)
OwnStep(c) ==
  \/ Start(c) \/ UseCachedToken(c) \/ AskForToken(c) \/ Send(c) \/ FetchRejects(c) \/ Wake(c)
  \/ \E m \in replies : Receive(c, m)

Next ==
  \/ \E c \in Calls : OwnStep(c) \/ TokenComes(c) \/ IssueToken(c) \/ ReadAnyBody(c)
  \/ Tick
  \/ \E m \in net : Process(m) \/ Refuse(m)

Spec == Init /\ [][Next]_vars

\* The event loop runs what is ready and fires timers; of the network only that the
\* token endpoint answers and that a body whose headers have come ends.  No timer
\* runs while either is waited for, so without these two a call may hang.
FairSpec ==
  Spec /\ \A c \in Calls : WF_vars(OwnStep(c)) /\ WF_vars(TokenComes(c)) /\ WF_vars(ReadAnyBody(c))

(***************************************************************************)
(* Properties                                                              *)
(***************************************************************************)

TypeOK ==
  /\ pc \in [Calls -> {"new", "token", "asked", "send", "wait", "sleep", "body", "done"}]
  /\ attempt \in [Calls -> 0..MaxRetries]
  /\ net \subseteq HttpRequest
  /\ replies \subseteq HttpResponse
  /\ result \in [Calls -> Outcome \union {None}]
  /\ posts \in [IdemKeys -> {0, 1}]
  /\ now \in 0..MaxNow
  /\ cached \in CachedToken \union {None}
  /\ asking \in [Calls -> TokenRequest \union {None}]

\* Behind an executed receipt there is a post under its own key, whichever attempt
\* of whichever call minted it and however late its answer came, and the receipt
\* names that post or, when the body of the answer broke off, none: never a reference
\* that is not the platform's (http-adapter.ts:13-14).
RefIsThePost ==
  \A c \in Calls :
    result[c] # None /\ result[c].status = "executed" =>
      posts[Request[c].key] = 1 /\ result[c].ref \in {Request[c].key, None}

\* A token served from the cache outlives the skew, however long its answer was on the
\* way, and whichever of two answers, the older or the newer, was kept last
\* (token.ts:19-20, 63-88).
CachedTokenLives ==
  cached # None /\ cached.expiresAt > now + Skew => cached.dies > now + Skew

Told(c) ==
  IF result[c] = None THEN None
  ELSE [status |-> result[c].status,
        item |-> IF result[c].status = "executed" THEN Request[c].key ELSE None]

\* The adapter implements the adapter contract, an item being what one idempotency
\* key stands for: no receipt says executed before the platform has posted.
Promise == INSTANCE AbstractPublish WITH
  Items <- IdemKeys,
  requested <- {Request[c].key : c \in {e \in Calls : Request[e].authorized /\ pc[e] # "new"}},
  outcome <- [c \in Calls |-> Told(c)]

ImplementsAbstractPublish == Promise!Spec

\* Every call ends, in a receipt or an error, whatever the platform loses, delays
\* or refuses (the retry loop, http-adapter.ts:89-122).
Terminates == \A c \in Calls : pc[c] = "token" ~> pc[c] = "done"

=============================================================================
