---------------------------- MODULE Readers_proofs ----------------------------
(***************************************************************************)
(* The two readers of files that others go on writing: the public verifier *)
(* and the dashboard's stream.                                             *)
(*                                                                         *)
(* What the public verifier's answers are worth, for any passports, any    *)
(* entries and files of any length, across restarts: only the key ids of   *)
(* published records count, nothing it said of a signer or a revocation is *)
(* taken back, and after a restart nothing written is overlooked.          *)
(*                                                                         *)
(* The first two rest on one invariant (Stands): what was answered follows *)
(* from what the verifier has read by now, or would read were it started.  *)
(* The files only grow, so that what is read later contains what was read  *)
(* before, and trust and revocations grow with it.                         *)
(*                                                                         *)
(* What the stream sends, for any generators, lines of any size, any cap   *)
(* and any number of rewrites: the file is the tail of what was written, a *)
(* browser sees it in order and once, and nothing ahead of it is passed    *)
(* over.  Offsets only mean something while one knows where lines end, so  *)
(* that the invariant (TailInvariant) says of every state that there are   *)
(* places where the lines of the history end, that the file holds those    *)
(* behind some line, and that all that was sent ends before the offset.    *)
(***************************************************************************)
EXTENDS Verifier, EventStream, TLAPS

\* What the running verifier knows, or one started now would.
Known == IF verifier = None THEN [store |-> published, entries |-> revocations] ELSE verifier

RevokedBy(p, known) ==
  <<"passport", p.digest>> \in FromEntries(known.entries, TrustFromPublished(known.store))

FollowsFrom(p, known) ==
  /\ "SIGNER_TRUSTED" \in answer[p] => p.keyId \in TrustFromPublished(known.store)
  /\ "CREDENTIAL_REVOKED" \in answer[p] /\ ~p.revoked => RevokedBy(p, known)

Stands == \A p \in Passports : answer[p] # None => FollowsFrom(p, Known)

Ind == TypeOK /\ Stands

-----------------------------------------------------------------------------
(***************************************************************************)
(* Files that grow.                                                        *)
(***************************************************************************)
LEMMA PrefixFacts ==
  ASSUME NEW S, NEW s \in Seq(S), NEW t \in Seq(S), IsPrefix(s, t)
  PROVE  DOMAIN s \subseteq DOMAIN t /\ \A i \in DOMAIN s : s[i] = t[i]
<1>1. /\ DOMAIN s = 1..Len(s) /\ DOMAIN t = 1..Len(t)
      /\ Len(s) \in Nat /\ Len(t) \in Nat /\ Len(s) <= Len(t)
  BY DEF IsPrefix
<1>2. \A i \in 1..Len(s) : SubSeq(s, 1, Len(s))[i] = s[i] /\ SubSeq(t, 1, Len(s))[i] = t[i]
  BY <1>1
<1> QED
  BY <1>1, <1>2 DEF IsPrefix

LEMMA PrefixReflexive ==
  ASSUME NEW S, NEW s \in Seq(S)
  PROVE  IsPrefix(s, s)
BY DEF IsPrefix

LEMMA PrefixAppend ==
  ASSUME NEW S, NEW s \in Seq(S), NEW t \in Seq(S), NEW x \in S, IsPrefix(s, t)
  PROVE  IsPrefix(s, Append(t, x))
<1>1. Len(s) \in Nat /\ Len(t) \in Nat /\ Len(s) <= Len(t) /\ Len(Append(t, x)) = Len(t) + 1
  BY DEF IsPrefix
<1>2. SubSeq(t, 1, Len(s)) = SubSeq(Append(t, x), 1, Len(s))
  BY <1>1
<1> QED
  BY <1>1, <1>2 DEF IsPrefix

\* Whoever reads more trusts no fewer keys and honours no fewer entries.
LEMMA KnowledgeGrows ==
  ASSUME NEW before \in Loaded, NEW after \in Loaded,
         IsPrefix(before.store, after.store), IsPrefix(before.entries, after.entries)
  PROVE  /\ TrustFromPublished(before.store) \subseteq TrustFromPublished(after.store)
         /\ \A p \in Passports : RevokedBy(p, before) => RevokedBy(p, after)
<1>1. /\ before.store \in Seq(Passports) /\ after.store \in Seq(Passports)
      /\ before.entries \in Seq(Entries) /\ after.entries \in Seq(Entries)
  BY DEF Loaded
<1>2. /\ DOMAIN before.store \subseteq DOMAIN after.store
      /\ \A i \in DOMAIN before.store : before.store[i] = after.store[i]
  BY <1>1, PrefixFacts
<1>3. /\ DOMAIN before.entries \subseteq DOMAIN after.entries
      /\ \A i \in DOMAIN before.entries : before.entries[i] = after.entries[i]
  BY <1>1, PrefixFacts
<1>4. TrustFromPublished(before.store) \subseteq TrustFromPublished(after.store)
  BY <1>2 DEF TrustFromPublished
<1>5. ToSet(before.entries) \subseteq ToSet(after.entries)
  BY <1>3 DEF ToSet
<1> QED
  BY <1>4, <1>5 DEF RevokedBy, FromEntries

-----------------------------------------------------------------------------
LEMMA VerifyTypes ==
  ASSUME NEW p \in Passports, NEW bytes, NEW trust, NEW registry
  PROVE  VerifyPassport(p, bytes, trust, registry) \in SUBSET States
BY DEF VerifyPassport, States

\* What an answer says of the signer and of revocation.
LEMMA VerifyFacts ==
  ASSUME NEW p \in Passports, NEW bytes, NEW trust, NEW registry
  PROVE  LET said == VerifyPassport(p, bytes, trust, registry)
         IN  /\ said # None
             /\ "SIGNER_TRUSTED" \in said <=> p.keyId \in trust
             /\ "CREDENTIAL_REVOKED" \in said <=>
                  p.revoked \/ <<"passport", p.digest>> \in registry
<1>1. VerifyPassport(p, bytes, trust, registry) # None
  BY VerifyTypes, InputsAssumption
<1>2. "SIGNER_TRUSTED" \in VerifyPassport(p, bytes, trust, registry) <=> p.keyId \in trust
  BY DEF VerifyPassport
<1>3. "CREDENTIAL_REVOKED" \in VerifyPassport(p, bytes, trust, registry) <=>
        p.revoked \/ <<"passport", p.digest>> \in registry
  BY DEF VerifyPassport
<1> QED
  BY <1>1, <1>2, <1>3

LEMMA InitTypeOK == Init => TypeOK
BY DEF Init, TypeOK

LEMMA NextTypeOK == TypeOK /\ [Next]_vars => TypeOK'
<1> SUFFICES ASSUME TypeOK, [Next]_vars PROVE TypeOK'
  OBVIOUS
<1>0. verifier # None => verifier.store \in Seq(Passports) /\ verifier.entries \in Seq(Entries)
  BY DEF TypeOK, Loaded
<1>1. ASSUME NEW p \in Passports, Publish(p) PROVE TypeOK'
  <2>1. published' \in Seq(Passports) /\ UNCHANGED <<revocations, verifier, answer>>
    BY <1>1 DEF Publish, TypeOK
  <2>2. verifier # None => IsPrefix(verifier.store, published')
    BY <1>0, <1>1, PrefixAppend DEF Publish, TypeOK
  <2> QED
    BY <2>1, <2>2 DEF TypeOK
<1>2. ASSUME NEW e \in Entries, Revoke(e) PROVE TypeOK'
  <2>1. revocations' \in Seq(Entries) /\ UNCHANGED <<published, verifier, answer>>
    BY <1>2 DEF Revoke, TypeOK
  <2>2. verifier # None => IsPrefix(verifier.entries, revocations')
    BY <1>0, <1>2, PrefixAppend DEF Revoke, TypeOK
  <2> QED
    BY <2>1, <2>2 DEF TypeOK
<1>3. CASE Start
  <2>1. verifier' \in Loaded
    BY <1>3 DEF Start, TypeOK, Loaded
  <2>2. IsPrefix(verifier'.store, published') /\ IsPrefix(verifier'.entries, revocations')
    BY <1>3, PrefixReflexive DEF Start, TypeOK
  <2> QED
    BY <1>3, <2>1, <2>2 DEF Start, TypeOK
<1>4. CASE Stop
  BY <1>4 DEF Stop, TypeOK
<1>5. ASSUME NEW p \in Passports, NEW bytes \in Bytes, Verify(p, bytes) PROVE TypeOK'
  BY <1>5, VerifyTypes DEF Verify, TypeOK
<1>6. CASE UNCHANGED vars
  BY <1>6 DEF vars, TypeOK
<1> QED
  BY <1>1, <1>2, <1>3, <1>4, <1>5, <1>6 DEF Next

LEMMA KnownTypes ==
  TypeOK => /\ Known \in Loaded
            /\ IsPrefix(Known.store, published) /\ IsPrefix(Known.entries, revocations)
<1> SUFFICES ASSUME TypeOK
             PROVE  /\ Known \in Loaded
                    /\ IsPrefix(Known.store, published) /\ IsPrefix(Known.entries, revocations)
  OBVIOUS
<1>1. CASE verifier = None
  BY <1>1, PrefixReflexive DEF Known, TypeOK, Loaded
<1>2. CASE verifier # None
  BY <1>2 DEF Known, TypeOK
<1> QED
  BY <1>1, <1>2

KnownLoaded == Known \in Loaded

LEMMA KnownTypesNext == TypeOK' => KnownLoaded'
<1>1. TypeOK => KnownLoaded
  BY KnownTypes DEF KnownLoaded
<1> QED
  BY <1>1, PTL

\* The verifier forgets nothing, though it restarts.
LEMMA KnownGrows ==
  ASSUME TypeOK, [Next]_vars
  PROVE  IsPrefix(Known.store, Known'.store) /\ IsPrefix(Known.entries, Known'.entries)
<1>0. Known.store \in Seq(Passports) /\ Known.entries \in Seq(Entries)
  BY KnownTypes DEF Loaded
<1>1. ASSUME NEW p \in Passports, Publish(p)
      PROVE  IsPrefix(Known.store, Known'.store) /\ IsPrefix(Known.entries, Known'.entries)
  <2>1. CASE verifier = None
    <3>1. Known'.store = Append(published, p) /\ Known'.entries = revocations
      BY <1>1, <2>1 DEF Publish, Known
    <3> QED
      BY <3>1, KnownTypes, <1>0, PrefixAppend DEF TypeOK
  <2>2. CASE verifier # None
    BY <1>0, <1>1, <2>2, PrefixReflexive DEF Publish, Known
  <2> QED
    BY <2>1, <2>2
<1>2. ASSUME NEW e \in Entries, Revoke(e)
      PROVE  IsPrefix(Known.store, Known'.store) /\ IsPrefix(Known.entries, Known'.entries)
  <2>1. CASE verifier = None
    <3>1. Known'.store = published /\ Known'.entries = Append(revocations, e)
      BY <1>2, <2>1 DEF Revoke, Known
    <3> QED
      BY <3>1, KnownTypes, <1>0, PrefixAppend DEF TypeOK
  <2>2. CASE verifier # None
    BY <1>0, <1>2, <2>2, PrefixReflexive DEF Revoke, Known
  <2> QED
    BY <2>1, <2>2
<1>3. CASE Start
  <2>1. Known' = Known
    BY <1>3 DEF Start, Known
  <2> QED
    BY <1>0, <2>1, PrefixReflexive
<1>4. CASE Stop
  <2>1. Known' = [store |-> published, entries |-> revocations]
    BY <1>4 DEF Stop, Known
  <2> QED
    BY <2>1, KnownTypes
<1>5. CASE UNCHANGED <<published, revocations, verifier>>
  BY <1>0, <1>5, PrefixReflexive DEF Known
<1> QED
  BY <1>1, <1>2, <1>3, <1>4, <1>5 DEF Next, Verify, vars

\* What was answered before still follows.
LEMMA StillFollows ==
  ASSUME Ind, [Next]_vars, NEW p \in Passports, answer[p] # None
  PROVE  /\ "SIGNER_TRUSTED" \in answer[p] => p.keyId \in TrustFromPublished(Known'.store)
         /\ "CREDENTIAL_REVOKED" \in answer[p] /\ ~p.revoked => RevokedBy(p, Known')
<1>1. Known \in Loaded /\ Known' \in Loaded
  BY KnownTypes, KnownTypesNext, NextTypeOK DEF Ind, KnownLoaded
<1>2. IsPrefix(Known.store, Known'.store) /\ IsPrefix(Known.entries, Known'.entries)
  BY KnownGrows DEF Ind
<1>3. /\ TrustFromPublished(Known.store) \subseteq TrustFromPublished(Known'.store)
      /\ RevokedBy(p, Known) => RevokedBy(p, Known')
  BY <1>1, <1>2, KnowledgeGrows
<1>4. FollowsFrom(p, Known)
  BY DEF Ind, Stands
<1> QED
  BY <1>3, <1>4 DEF FollowsFrom
LEMMA StandsStep == Ind /\ [Next]_vars => Stands'
<1> SUFFICES ASSUME Ind, [Next]_vars, NEW p \in Passports, answer'[p] # None
             PROVE  /\ "SIGNER_TRUSTED" \in answer'[p] =>
                         p.keyId \in TrustFromPublished(Known'.store)
                    /\ "CREDENTIAL_REVOKED" \in answer'[p] /\ ~p.revoked => RevokedBy(p, Known')
  BY DEF Stands, FollowsFrom
<1>1. CASE answer'[p] = answer[p]
  BY <1>1, StillFollows
<1>2. ASSUME NEW q \in Passports, NEW bytes \in Bytes, Verify(q, bytes), answer'[p] # answer[p]
      PROVE  /\ "SIGNER_TRUSTED" \in answer'[p] =>
                  p.keyId \in TrustFromPublished(Known'.store)
             /\ "CREDENTIAL_REVOKED" \in answer'[p] /\ ~p.revoked => RevokedBy(p, Known')
  <2>1. Known' = verifier
    BY <1>2 DEF Verify, Known
  <2>2. answer'[p] = VerifyPassport(p, bytes, TrustFromPublished(verifier.store),
                       FromEntries(verifier.entries, TrustFromPublished(verifier.store)))
    BY <1>2 DEF Verify, Ind, TypeOK
  <2> QED
    BY <2>1, <2>2, VerifyFacts DEF RevokedBy
<1> QED
  BY <1>1, <1>2 DEF Next, Publish, Revoke, Start, Stop, vars

LEMMA InitInd == Init => Ind
BY InitTypeOK DEF Init, Ind, Stands

LEMMA Inductive == Spec => []Ind
<1>1. Ind /\ [Next]_vars => Ind'
  BY NextTypeOK, StandsStep DEF Ind
<1> QED
  BY <1>1, InitInd, PTL DEF Spec

-----------------------------------------------------------------------------
\* The files, what was read of them and the answers are well-typed; what was read is the
\* beginning of what is written.
THEOREM TypeCorrect == Spec => []TypeOK
<1>1. Ind => TypeOK
  BY DEF Ind
<1> QED
  BY <1>1, Inductive, PTL

\* The verifier calls trusted only signers under the key id of a record published here, and
\* honours only entries that verify and state such a key id, whichever key signed them
\* (server.ts:10-13, trust.ts:4-5, revocation.ts:50-52).
THEOREM TrustNeedsPublishedId == Spec => []OnlyPublishedIdsCount
<1>1. Ind => OnlyPublishedIdsCount
  <2> SUFFICES ASSUME Ind, NEW p \in Passports, answer[p] # None
               PROVE  /\ "SIGNER_TRUSTED" \in answer[p] => p.keyId \in PublishedIds
                      /\ "CREDENTIAL_REVOKED" \in answer[p] /\ ~p.revoked =>
                           \E i \in DOMAIN revocations :
                             /\ revocations[i].type = "passport" /\ revocations[i].id = p.digest
                             /\ revocations[i].sigValid /\ revocations[i].keyId \in PublishedIds
    BY DEF OnlyPublishedIdsCount
  <2> DEFINE whole == [store |-> published, entries |-> revocations]
  <2>1. /\ whole \in Loaded /\ Known \in Loaded
        /\ IsPrefix(Known.store, whole.store) /\ IsPrefix(Known.entries, whole.entries)
    BY KnownTypes DEF Ind, TypeOK, Loaded
  <2>2. FollowsFrom(p, Known)
    BY DEF Ind, Stands
  <2>3. /\ "SIGNER_TRUSTED" \in answer[p] => p.keyId \in TrustFromPublished(whole.store)
        /\ "CREDENTIAL_REVOKED" \in answer[p] /\ ~p.revoked => RevokedBy(p, whole)
    BY <2>1, <2>2, KnowledgeGrows DEF FollowsFrom
  <2>4. TrustFromPublished(whole.store) = PublishedIds
    BY DEF TrustFromPublished, PublishedIds
  <2> QED
    BY <2>3, <2>4 DEF RevokedBy, FromEntries, ToSet
<1> QED
  BY <1>1, Inductive, PTL

\* No later answer takes back what a client was told of a signer or a revocation
\* (docs/CLAIMS.md:36).
THEOREM AnswersStand == Spec => NeverTakenBack
<1>1. ASSUME Ind, [Next]_vars, NEW p \in Passports, answer[p] # None
      PROVE  answer[p] \intersect {"SIGNER_TRUSTED", "CREDENTIAL_REVOKED"} \subseteq answer'[p]
  <2>1. CASE answer'[p] = answer[p]
    BY <2>1
  <2>2. ASSUME NEW q \in Passports, NEW bytes \in Bytes, Verify(q, bytes), answer'[p] # answer[p]
        PROVE  answer[p] \intersect {"SIGNER_TRUSTED", "CREDENTIAL_REVOKED"} \subseteq answer'[p]
    <3>1. Known' = verifier
      BY <2>2 DEF Verify, Known
    <3>2. answer'[p] = VerifyPassport(p, bytes, TrustFromPublished(verifier.store),
                         FromEntries(verifier.entries, TrustFromPublished(verifier.store)))
      BY <2>2 DEF Verify, Ind, TypeOK
    <3>3. /\ "SIGNER_TRUSTED" \in answer'[p] <=> p.keyId \in TrustFromPublished(Known'.store)
          /\ "CREDENTIAL_REVOKED" \in answer'[p] <=> p.revoked \/ RevokedBy(p, Known')
      BY <3>1, <3>2, VerifyFacts DEF RevokedBy
    <3> QED
      BY <1>1, <3>3, StillFollows
  <2> QED
    BY <1>1, <2>1, <2>2 DEF Next, Publish, Revoke, Start, Stop, vars
<1>2. Ind /\ [Next]_vars =>
        [\A p \in Passports :
           answer[p] # None =>
             answer[p] \intersect {"SIGNER_TRUSTED",
               "CREDENTIAL_REVOKED"} \subseteq answer'[p]]_vars
  BY <1>1
<1> QED
  BY <1>2, Inductive, PTL DEF Spec, NeverTakenBack

\* A verifier that read both files whole reports a passport as revoked if and only if it
\* says so or some entry does that verifies and states the key id of a published record
\* (docs/CLAIMS.md:36).
THEOREM NothingOverlooked == Spec => RestartCatchesUp
<1>1. ASSUME TypeOK, [Next]_vars, NEW p \in Passports, answer'[p] # answer[p],
             verifier.store = published, verifier.entries = revocations
      PROVE  "CREDENTIAL_REVOKED" \in answer'[p] <=>
               \/ p.revoked
               \/ \E i \in DOMAIN revocations :
                    /\ revocations[i].type = "passport" /\ revocations[i].id = p.digest
                    /\ revocations[i].sigValid /\ revocations[i].keyId \in PublishedIds
  <2>1. PICK bytes \in Bytes : Verify(p, bytes)
    <3>1. ASSUME NEW q \in Passports, NEW bytes \in Bytes, Verify(q, bytes)
          PROVE  q = p
      BY <1>1, <3>1 DEF Verify, TypeOK
    <3> QED
      BY <1>1, <3>1 DEF Next, Publish, Revoke, Start, Stop, vars
  <2>2. answer'[p] = VerifyPassport(p, bytes, PublishedIds, FromEntries(revocations, PublishedIds))
    BY <1>1, <2>1 DEF Verify, TypeOK, TrustFromPublished, PublishedIds
  <2>3. "CREDENTIAL_REVOKED" \in answer'[p] <=>
          p.revoked \/ <<"passport", p.digest>> \in FromEntries(revocations, PublishedIds)
    BY <2>2, VerifyFacts
  <2> QED
    BY <2>3 DEF FromEntries, ToSet
<1>2. TypeOK /\ [Next]_vars =>
        [\A p \in Passports :
           answer'[p] # answer[p] /\ verifier.store = published /\ verifier.entries = revocations =>
             ("CREDENTIAL_REVOKED" \in answer'[p] <=>
                \/ p.revoked
                \/ \E i \in DOMAIN revocations :
                     /\ revocations[i].type = "passport" /\ revocations[i].id = p.digest
                     /\ revocations[i].sigValid /\ revocations[i].keyId \in PublishedIds)]_vars
  BY <1>1
<1> QED
  BY <1>2, TypeCorrect, PTL DEF Spec, RestartCatchesUp

-----------------------------------------------------------------------------
(***************************************************************************)
(* The event stream.  Numbers in order.                                    *)
(***************************************************************************)
\* The body of InOrder's recursive definition.
OrderCall(places, upTo, i) ==
  IF i = 0 THEN <<>> ELSE IF i \in places THEN Append(upTo[i - 1], i) ELSE upTo[i - 1]

\* And what holds of every definition by such a recursion.
OrderRecursion == INSTANCE Recursion WITH Def <- OrderCall

\* s is what there is of S up to n, in order.
Ascends(s, S, n) ==
  /\ s \in Seq(Nat)
  /\ \A k \in 1..Len(s) : s[k] \in 1..n /\ s[k] \in S
  /\ \A j, k \in 1..Len(s) : j < k => s[j] < s[k]
  /\ \A i \in 1..n : i \in S => \E k \in 1..Len(s) : s[k] = i

\* InOrder is the last of the sequences it goes through.
LEMMA OrderEquation ==
  ASSUME NEW S, NEW n \in Nat
  PROVE  \E upTo : /\ upTo = [i \in 0..n |-> OrderCall(S, upTo, i)]
                   /\ InOrder(S, n) = upTo[n]
<1> DEFINE N == 0..n
<1>1. ASSUME NEW g, NEW h, NEW i \in N, \A m \in N : m < i => g[m] = h[m]
      PROVE  OrderCall(S, g, i) = OrderCall(S, h, i)
  <2>1. CASE i = 0
    BY <2>1 DEF OrderCall
  <2>2. CASE i # 0
    <3>1. g[i - 1] = h[i - 1]
      BY <1>1, <2>2
    <3> QED
      BY <2>2, <3>1 DEF OrderCall
  <2> QED
    BY <2>1, <2>2
<1>2. OrderRecursion!Causal(S, N)
  BY <1>1 DEF OrderRecursion!Causal
<1>3. N \in SUBSET Nat
  OBVIOUS
<1>4. \E f : f = [i \in N |-> OrderCall(S, f, i)]
  BY <1>2, <1>3, OrderRecursion!RecursionHasSolution
<1> DEFINE upTo == CHOOSE f : f = [i \in N |-> OrderCall(S, f, i)]
<1>5. InOrder(S, n) = upTo[n]
  BY Zenon DEF InOrder, OrderCall
<1>6. upTo = [i \in N |-> OrderCall(S, upTo, i)]
  BY <1>4, Zenon
<1> QED
  BY <1>5, <1>6

\* One more number.
LEMMA AscendsOn ==
  ASSUME NEW S, NEW i \in Nat, NEW s, Ascends(s, S, i)
  PROVE  Ascends(IF i + 1 \in S THEN Append(s, i + 1) ELSE s, S, i + 1)
<1>1. CASE i + 1 \in S
  <2> DEFINE t == Append(s, i + 1)
  <2>0. s \in Seq(Nat) /\ Len(s) \in Nat
    BY DEF Ascends
  <2>1. /\ t \in Seq(Nat) /\ Len(t) = Len(s) + 1 /\ t[Len(s) + 1] = i + 1
        /\ \A k \in 1..Len(s) : t[k] = s[k]
    BY <2>0
  <2> HIDE DEF t
  <2>2. \A k \in 1..Len(s) : s[k] \in 1..i /\ s[k] \in S
    BY DEF Ascends
  <2>3. \A k \in 1..Len(t) : t[k] \in 1..(i + 1) /\ t[k] \in S
    <3> SUFFICES ASSUME NEW k \in 1..Len(t) PROVE t[k] \in 1..(i + 1) /\ t[k] \in S
      OBVIOUS
    <3>1. k \in 1..Len(s) \/ k = Len(s) + 1
      BY <2>0, <2>1
    <3> QED
      BY <1>1, <2>1, <2>2, <3>1
  <2>7. PICK p \in Nat : p = Len(s) /\ Len(t) = p + 1
    BY <2>0, <2>1
  <2>4. ASSUME NEW j \in 1..Len(t), NEW k \in 1..Len(t), j < k PROVE t[j] < t[k]
    <3>0. j \in 1..p /\ (k \in 1..p \/ k = p + 1)
      BY <2>4, <2>7
    <3>1. j \in 1..Len(s) /\ (k \in 1..Len(s) \/ k = Len(s) + 1)
      BY <2>7, <3>0
    <3>2. CASE k \in 1..Len(s)
      <4>1. s[j] < s[k]
        BY <2>4, <3>1, <3>2 DEF Ascends
      <4> QED
        BY <2>1, <3>1, <3>2, <4>1
    <3>3. CASE k = Len(s) + 1
      <4>1. s[j] \in 1..i /\ t[j] = s[j]
        BY <2>1, <2>2, <3>1
      <4>2. t[k] = i + 1
        BY <2>1, <3>3
      <4> QED
        BY <4>1, <4>2
    <3> QED
      BY <3>1, <3>2, <3>3
  <2>5. ASSUME NEW x \in 1..(i + 1), x \in S PROVE \E k \in 1..Len(t) : t[k] = x
    <3>1. CASE x = i + 1
      <4>1. Len(s) + 1 \in 1..Len(t)
        BY <2>0, <2>1
      <4> QED
        BY <2>1, <3>1, <4>1
    <3>2. CASE x # i + 1
      <4>1. x \in 1..i
        BY <3>2
      <4>2. PICK k \in 1..Len(s) : s[k] = x
        BY <2>5, <4>1 DEF Ascends
      <4>3. k \in 1..Len(t)
        BY <2>0, <2>1
      <4> QED
        BY <2>1, <4>2, <4>3
    <3> QED
      BY <3>1, <3>2
  <2>6. Ascends(t, S, i + 1)
    BY <2>1, <2>3, <2>4, <2>5 DEF Ascends
  <2> QED
    BY <1>1, <2>6 DEF t
<1>2. CASE i + 1 \notin S
  <2>1. \A x \in 1..i : x \in 1..(i + 1)
    OBVIOUS
  <2>2. \A x \in 1..(i + 1) : x \in S => x \in 1..i
    BY <1>2
  <2>3. Ascends(s, S, i + 1)
    BY <2>1, <2>2 DEF Ascends
  <2> QED
    BY <1>2, <2>3
<1> QED
  BY <1>1, <1>2

\* InOrder puts a set in order.
LEMMA InOrderAscends ==
  ASSUME NEW S, NEW n \in Nat
  PROVE  Ascends(InOrder(S, n), S, n)
<1>1. PICK upTo : upTo = [i \in 0..n |-> OrderCall(S, upTo, i)] /\ InOrder(S, n) = upTo[n]
  BY OrderEquation
<1>2. upTo[0] = <<>>
  BY <1>1 DEF OrderCall
<1>3. ASSUME NEW i \in Nat, i + 1 \in 0..n
      PROVE  upTo[i + 1] = IF i + 1 \in S THEN Append(upTo[i], i + 1) ELSE upTo[i]
  <2>1. upTo[i + 1] = OrderCall(S, upTo, i + 1)
    BY <1>1, <1>3
  <2>2. i + 1 # 0 /\ (i + 1) - 1 = i
    OBVIOUS
  <2> QED
    BY <2>1, <2>2 DEF OrderCall
<1> DEFINE Bad == {i \in Nat : i \in 0..n /\ ~Ascends(upTo[i], S, i)}
<1>4. Bad = {}
  <2> SUFFICES ASSUME Bad # {} PROVE FALSE
    OBVIOUS
  <2>1. PICK i \in Bad : \A m \in Bad : i <= m
    BY OrderRecursion!LeastNatural, Bad \in SUBSET Nat
  <2>2. CASE i = 0
    <3>1. Ascends(<<>>, S, 0)
      BY DEF Ascends
    <3> QED
      BY <1>2, <2>1, <2>2, <3>1
  <2>3. CASE i # 0
    <3> DEFINE h == i - 1
    <3>1. h \in Nat /\ h + 1 = i /\ h + 1 \in 0..n /\ h \in 0..n /\ ~(i <= h)
      BY <2>1, <2>3
    <3>2. h \notin Bad
      BY <2>1, <3>1
    <3>3. Ascends(upTo[h], S, h)
      BY <3>1, <3>2
    <3> HIDE DEF h
    <3>4. Ascends(upTo[h + 1], S, h + 1)
      BY <1>3, <3>1, <3>3, AscendsOn
    <3> QED
      BY <2>1, <3>1, <3>4
  <2> QED
    BY <2>2, <2>3
<1>5. n \notin Bad
  BY <1>4
<1> QED
  BY <1>1, <1>5

\* There is but one order.
LEMMA AscendsOnce ==
  ASSUME NEW S, NEW n \in Nat, NEW s, NEW t, Ascends(s, S, n), Ascends(t, S, n)
  PROVE  s = t
<1>0. s \in Seq(Nat) /\ t \in Seq(Nat) /\ Len(s) \in Nat /\ Len(t) \in Nat
  BY DEF Ascends
<1>1. ASSUME NEW u, NEW v, Ascends(u, S, n), Ascends(v, S, n), NEW k \in 1..Len(u),
             \A j \in 1..(k - 1) : j \in 1..Len(v) /\ u[j] = v[j]
      PROVE  k \in 1..Len(v) /\ v[k] <= u[k]
  <2>0. u \in Seq(Nat) /\ v \in Seq(Nat) /\ Len(u) \in Nat /\ Len(v) \in Nat /\ k \in Nat
    BY <1>1 DEF Ascends
  <2>1. u[k] \in 1..n /\ u[k] \in S
    BY <1>1 DEF Ascends
  <2>2. PICK m \in 1..Len(v) : v[m] = u[k]
    BY <1>1, <2>1 DEF Ascends
  <2>3. ~(m < k)
    <3> SUFFICES ASSUME m < k PROVE FALSE
      OBVIOUS
    <3>1. m \in 1..(k - 1) /\ m \in 1..Len(u)
      BY <2>0
    <3>2. u[m] = u[k]
      BY <1>1, <2>2, <3>1
    <3>3. u[m] < u[k]
      BY <1>1, <3>1 DEF Ascends
    <3> QED
      BY <2>1, <3>2, <3>3
  <2>4. k \in 1..Len(v) /\ (k = m \/ k < m)
    BY <2>0, <2>3
  <2>5. v[k] \in Nat
    BY <2>0, <2>4
  <2>6. CASE k < m
    <3>1. v[k] < v[m]
      BY <1>1, <2>4, <2>6 DEF Ascends
    <3> QED
      BY <2>1, <2>2, <2>4, <2>5, <3>1
  <2>7. CASE k = m
    BY <2>1, <2>2, <2>4, <2>7
  <2> QED
    BY <2>4, <2>6, <2>7
<1> DEFINE Bad == {k \in Nat : (k \in 1..Len(s) \/ k \in 1..Len(t))
                              /\ ~(k \in 1..Len(s) /\ k \in 1..Len(t) /\ s[k] = t[k])}
<1>2. Bad = {}
  <2> SUFFICES ASSUME Bad # {} PROVE FALSE
    OBVIOUS
  <2>1. PICK k \in Bad : \A m \in Bad : k <= m
    BY OrderRecursion!LeastNatural, Bad \in SUBSET Nat
  <2>2. \A j \in 1..(k - 1) : j \in 1..Len(s) /\ j \in 1..Len(t) /\ s[j] = t[j]
    <3> SUFFICES ASSUME NEW j \in 1..(k - 1)
                 PROVE  j \in 1..Len(s) /\ j \in 1..Len(t) /\ s[j] = t[j]
      OBVIOUS
    <3>1. j \in Nat /\ ~(k <= j) /\ (j \in 1..Len(s) \/ j \in 1..Len(t))
      BY <1>0, <2>1
    <3>2. j \notin Bad
      BY <2>1, <3>1
    <3> QED
      BY <3>1, <3>2
  <2>3. k \in 1..Len(s) => k \in 1..Len(t) /\ t[k] <= s[k]
    BY <1>1, <2>2
  <2>4. k \in 1..Len(t) => k \in 1..Len(s) /\ s[k] <= t[k]
    <3>1. \A j \in 1..(k - 1) : j \in 1..Len(s) /\ t[j] = s[j]
      BY <2>2
    <3> QED
      BY <1>1, <3>1
  <2>5. k \in 1..Len(s) /\ k \in 1..Len(t) /\ t[k] <= s[k] /\ s[k] <= t[k]
    BY <2>1, <2>3, <2>4
  <2>6. s[k] \in Nat /\ t[k] \in Nat
    BY <1>0, <2>5
  <2>7. s[k] = t[k]
    BY <2>5, <2>6
  <2> QED
    BY <2>1, <2>5, <2>7
<1>3. \A k \in Nat : (k \in 1..Len(s) \/ k \in 1..Len(t)) => k \in 1..Len(s) /\ k \in 1..Len(t)
        /\ s[k] = t[k]
  BY <1>2
<1>4. Len(s) = Len(t)
  <2>0. PICK p \in Nat, q \in Nat : p = Len(s) /\ q = Len(t)
    BY <1>0
  <2>1. p > 0 => p \in 1..q
    BY <1>3, <2>0
  <2>2. q > 0 => q \in 1..p
    BY <1>3, <2>0
  <2>3. CASE p > 0
    BY <2>0, <2>1, <2>2, <2>3
  <2>4. CASE p = 0
    BY <2>0, <2>2, <2>4
  <2> QED
    BY <2>3, <2>4
<1>5. PICK p \in Nat : p = Len(s) /\ p = Len(t)
  BY <1>0, <1>4
<1>6. s = [k \in 1..p |-> s[k]] /\ t = [k \in 1..p |-> t[k]]
  <2>1. DOMAIN s = 1..Len(s) /\ s = [k \in DOMAIN s |-> s[k]]
    BY <1>0
  <2>2. DOMAIN t = 1..Len(t) /\ t = [k \in DOMAIN t |-> t[k]]
    BY <1>0
  <2> QED
    BY <1>5, <2>1, <2>2
<1>7. \A k \in 1..p : s[k] = t[k]
  BY <1>3, <1>5
<1> QED
  BY <1>6, <1>7

-----------------------------------------------------------------------------
(***************************************************************************)
(* Files of whole lines, and where their lines end.                        *)
(***************************************************************************)
\* The entries of the audit logs, and what a file is made of.
Events == {e \in [gen : Generators, seq : Nat] : e.seq \in 1..MaxEvents[e.gen]}

\* A unit of a file is a part of a line.
Units == [event : Events, part : Nat]

\* The places in units where a whole line begins.
Whole(units) == {i \in DOMAIN units : WholeAt(units, i)}

\* The lines of the events w, one behind the other, end at off[1], ..., off[n].
Offsets(off, w, n) ==
  /\ off \in [0..n -> Nat]
  /\ w \in Seq(Events) /\ n = Len(w)
  /\ \A k \in 1..n : off[k] = off[k - 1] + LineSize[w[k].seq]
  /\ \A j, k \in 0..n : j < k => off[j] < off[k]

\* The units are the lines of w behind the first b.
Holds(units, w, off, b, n) ==
  /\ units \in Seq(Units) /\ b \in 0..n /\ Len(units) = off[n] - off[b]
  /\ \A k \in (b + 1)..n : \A p \in 1..LineSize[w[k].seq] :
       units[(off[k - 1] - off[b]) + p] = [event |-> w[k], part |-> p]

\* Every line has a unit at least.
LEMMA LinesAreLong ==
  /\ \A e \in Events : LineSize[e.seq] \in Nat /\ LineSize[e.seq] >= 1
  /\ \A g \in Generators : \A seq \in 1..MaxEvents[g] : Event(g, seq) \in Events
<1>1. ASSUME NEW e \in Events PROVE LineSize[e.seq] \in Nat /\ LineSize[e.seq] >= 1
  <2>1. e.gen \in Generators /\ e.seq \in 1..MaxEvents[e.gen]
    BY DEF Events
  <2>2. LineSize[e.seq] \in Nat \ {0}
    BY <2>1, SizesAssumption
  <2> QED
    BY <2>2
<1>2. ASSUME NEW g \in Generators, NEW seq \in 1..MaxEvents[g] PROVE Event(g, seq) \in Events
  <2>1. MaxEvents[g] \in Nat
    BY SizesAssumption
  <2> QED
    BY <2>1 DEF Events, Event
<1> QED
  BY <1>1, <1>2

\* What Offsets says of one line.
LEMMA OffsetFacts ==
  ASSUME NEW off, NEW w, NEW n, Offsets(off, w, n)
  PROVE  /\ n \in Nat /\ \A k \in 0..n : off[k] \in Nat
         /\ \A k \in 1..n : w[k] \in Events
         /\ \A j, k \in 0..n : j <= k => off[j] <= off[k]
<1>1. n \in Nat /\ (\A k \in 0..n : off[k] \in Nat) /\ \A k \in 1..n : w[k] \in Events
  BY DEF Offsets
<1>2. ASSUME NEW j \in 0..n, NEW k \in 0..n, j <= k PROVE off[j] <= off[k]
  <2>1. j = k \/ j < k
    BY <1>1, <1>2
  <2>2. j < k => off[j] < off[k]
    BY DEF Offsets
  <2>3. off[j] \in Nat /\ off[k] \in Nat
    BY <1>1
  <2> QED
    BY <2>1, <2>2, <2>3
<1> QED
  BY <1>1, <1>2

\* One line as the file has it.
LEMMA LineFacts ==
  ASSUME NEW off, NEW w, NEW n, Offsets(off, w, n), NEW b, NEW u, Holds(u, w, off, b, n),
         NEW k \in (b + 1)..n
  PROVE  /\ k \in 1..n /\ k - 1 \in 0..n /\ k \in 0..n /\ b \in 0..n /\ b <= k - 1
         /\ w[k] \in Events /\ LineSize[w[k].seq] \in Nat /\ LineSize[w[k].seq] >= 1
         /\ off[b] \in Nat /\ off[k - 1] \in Nat /\ off[k] \in Nat /\ off[n] \in Nat
         /\ off[b] <= off[k - 1] /\ off[k] = off[k - 1] + LineSize[w[k].seq] /\ off[k] <= off[n]
<1>1. n \in Nat /\ b \in 0..n
  BY OffsetFacts DEF Holds
<1>2. k \in 1..n /\ k - 1 \in 0..n /\ k \in 0..n /\ n \in 0..n /\ b <= k - 1 /\ k <= n
  BY <1>1
<1>3. w[k] \in Events /\ off[b] \in Nat /\ off[k - 1] \in Nat /\ off[k] \in Nat /\ off[n] \in Nat
  BY <1>1, <1>2, OffsetFacts
<1>4. off[b] <= off[k - 1] /\ off[k] <= off[n]
  BY <1>1, <1>2, OffsetFacts
<1>5. off[k] = off[k - 1] + LineSize[w[k].seq]
  BY <1>2 DEF Offsets
<1> QED
  BY <1>1, <1>2, <1>3, <1>4, <1>5, LinesAreLong

\* The unit at i belongs to one of the lines.
InLine(u, w, off, b, n, i) ==
  \E k \in (b + 1)..n : \E p \in 1..LineSize[w[k].seq] :
    i = (off[k - 1] - off[b]) + p /\ u[i] = [event |-> w[k], part |-> p]

\* Every unit of a file of whole lines belongs to one of them.
LEMMA UnitFacts ==
  ASSUME NEW off, NEW w, NEW n, Offsets(off, w, n), NEW b, NEW u, Holds(u, w, off, b, n),
         NEW i \in 1..Len(u)
  PROVE  InLine(u, w, off, b, n, i)
<1>1. n \in Nat /\ b \in 0..n /\ Len(u) = off[n] - off[b] /\ off[n] \in Nat /\ off[b] \in Nat
  <2>1. n \in Nat /\ b \in 0..n
    BY OffsetFacts DEF Holds
  <2>2. n \in 0..n
    BY <2>1
  <2> QED
    BY <2>1, <2>2, OffsetFacts DEF Holds
<1> DEFINE T == {k \in Nat : k \in 0..n /\ off[k] >= off[b] + i}
<1>2. n \in T
  BY <1>1
<1>3. PICK k \in T : \A m \in T : k <= m
  BY <1>2, OrderRecursion!LeastNatural, T \in SUBSET Nat
<1>4. k \in 0..n /\ k \in Nat /\ off[k] >= off[b] + i /\ off[k] \in Nat
  BY <1>3, OffsetFacts
<1>5. k > b
  <2> SUFFICES ASSUME k <= b PROVE FALSE
    BY <1>1, <1>4
  <2>1. off[k] <= off[b]
    BY <1>1, <1>4, OffsetFacts
  <2> QED
    BY <1>1, <1>4, <2>1
<1>6. k \in (b + 1)..n
  BY <1>1, <1>4, <1>5
<1>7. off[b] \in Nat /\ off[k - 1] \in Nat /\ k - 1 \in 0..n /\ LineSize[w[k].seq] \in Nat
      /\ off[k] = off[k - 1] + LineSize[w[k].seq] /\ off[b] <= off[k - 1]
  BY <1>6, LineFacts
<1>8. k - 1 \notin T
  <2> SUFFICES ASSUME k - 1 \in T PROVE FALSE
    OBVIOUS
  <2>1. k <= k - 1
    <3> HIDE DEF T
    <3> QED
      BY <1>3
  <2> QED
    BY <1>4, <2>1
<1>12. k - 1 \in Nat /\ ~(off[k - 1] >= off[b] + i)
  BY <1>1, <1>7, <1>8
<1> DEFINE p == i - (off[k - 1] - off[b])
<1> HIDE DEF T
<1>13. PICK A \in Nat, B \in Nat, C \in Nat, size \in Nat :
         A = off[k - 1] /\ B = off[b] /\ C = off[k] /\ size = LineSize[w[k].seq]
  BY <1>4, <1>7
<1>14. ~(A >= B + i) /\ C >= B + i /\ C = A + size /\ B <= A
  BY <1>4, <1>7, <1>12, <1>13
<1>15. p = i - (A - B)
  BY <1>13
<1>10. p \in 1..LineSize[w[k].seq] /\ i = (off[k - 1] - off[b]) + p
  <2> HIDE DEF p
  <2>1. p \in 1..size /\ i = (A - B) + p
    BY <1>14, <1>15
  <2> QED
    BY <1>13, <2>1
<1> HIDE DEF p
<1>11. u[(off[k - 1] - off[b]) + p] = [event |-> w[k], part |-> p]
  BY <1>6, <1>10 DEF Holds
<1> QED
  BY <1>6, <1>10, <1>11 DEF InLine

\* A line of the file that begins at i of the units from a + 1 to c, which are v, and ends
\* among them.
LineWithin(v, w, off, b, n, a, c, i) ==
  \E k \in (b + 1)..n : /\ v[i].event = w[k]
                        /\ (off[k - 1] - off[b]) + 1 = a + i
                        /\ off[k] <= off[b] + c

\* The units of a file between two places of it.
Window(u, a, c) == SubSeq(u, a + 1, c)

\* What is whole in a window on the file is a line of it, and lies in the window.
LEMMA WholeIsLine ==
  ASSUME NEW off, NEW w, NEW n, Offsets(off, w, n), NEW b, NEW u, Holds(u, w, off, b, n),
         NEW a \in Nat, NEW c \in Nat, c <= Len(u),
         NEW i \in 1..Len(Window(u, a, c)), WholeAt(Window(u, a, c), i)
  PROVE  LineWithin(Window(u, a, c), w, off, b, n, a, c, i)
<1> DEFINE v == Window(u, a, c)
<1>0. u \in Seq(Units) /\ Len(u) \in Nat
  BY DEF Holds
<1>1. v \in Seq(Units) /\ Len(v) = c - a /\ a < c /\ \A j \in 1..Len(v) : v[j] = u[a + j]
  <2> USE DEF Window
  <2>1. a + 1 \in Nat /\ Len(v) = IF a + 1 <= c THEN c - a ELSE 0
    BY <1>0
  <2>2. a + 1 <= c
    BY <2>1
  <2>3. \A j \in (a + 1)..c : j \in 1..Len(u)
    BY <1>0, <2>2
  <2>4. v = [j \in 1..(c - a) |-> u[(a + 1) + j - 1]]
    BY <1>0, <2>2
  <2>5. \A j \in 1..(c - a) : v[j] = u[a + j]
    BY <2>4
  <2>6. v \in Seq(Units)
    BY <1>0
  <2> QED
    BY <2>1, <2>2, <2>5, <2>6
<1>2. i \in 1..Len(v) /\ WholeAt(v, i)
  OBVIOUS
<1> HIDE DEF v
<1> DEFINE x == a + i
<1>3. x \in 1..Len(u) /\ v[i] = u[x] /\ i \in Nat /\ i >= 1
  BY <1>0, <1>1, <1>2
<1>14. x = a + i
  OBVIOUS
<1> HIDE DEF x
<1>16. InLine(u, w, off, b, n, x)
  BY <1>3, UnitFacts, Zenon
<1>4. PICK k \in (b + 1)..n : \E p \in 1..LineSize[w[k].seq] :
        x = (off[k - 1] - off[b]) + p /\ u[x] = [event |-> w[k], part |-> p]
  BY <1>16 DEF InLine
<1>5. PICK p \in 1..LineSize[w[k].seq] :
        x = (off[k - 1] - off[b]) + p /\ u[x] = [event |-> w[k], part |-> p]
  BY <1>4
<1>6. v[i].event = w[k] /\ v[i].part = p
  BY <1>3, <1>5
<1> DEFINE size == LineSize[w[k].seq]
           end == (i + size) - 1
<1>10. /\ off[b] \in Nat /\ off[k - 1] \in Nat /\ off[k] \in Nat
       /\ off[k] = off[k - 1] + size /\ off[b] <= off[k - 1]
       /\ size \in Nat /\ size >= 1
  BY LineFacts
<1>8. end <= Len(v) /\ SubSeq(v, i, end) = LineOf(w[k])
  <2>1. v[i].event = w[k] /\ LineSize[v[i].event.seq] = size
    BY <1>6
  <2>2. WholeAt(v, i) <=>
          LET e == i + LineSize[v[i].event.seq] - 1
          IN  e <= Len(v) /\ SubSeq(v, i, e) = LineOf(v[i].event)
    BY DEF WholeAt
  <2> HIDE DEF size
  <2> QED
    <3> DEFINE last == i + LineSize[v[i].event.seq] - 1
    <3>1. last <= Len(v) /\ SubSeq(v, i, last) = LineOf(v[i].event)
      BY <1>2, <2>2
    <3>2. last = end
      BY <1>3, <1>10, <2>1
    <3> HIDE DEF last, end
    <3> QED
      BY <2>1, <3>1, <3>2
<1>7. LineOf(w[k])[1] = [event |-> w[k], part |-> 1]
  BY <1>10 DEF LineOf
<1> HIDE DEF size
<1>15. end \in 1..Len(v) /\ i \in 1..Len(v) /\ i <= end
  BY <1>1, <1>2, <1>3, <1>8, <1>10
<1>9. p = 1
  <2> HIDE DEF end
  <2>3. SubSeq(v, i, end)[1] = v[i]
    BY <1>1, <1>15
  <2>4. v[i] = [event |-> w[k], part |-> 1]
    BY <1>7, <1>8, <2>3
  <2> QED
    BY <1>6, <2>4
<1>12. (off[k - 1] - off[b]) + 1 = a + i
  BY <1>5, <1>9, <1>14
<1>11. off[k] <= off[b] + c
  <2>1. PICK A \in Nat, B \in Nat, C \in Nat :
          A = off[k - 1] /\ B = off[b] /\ C = off[k] /\ C = A + size /\ (A - B) + 1 = a + i
    BY <1>10, <1>12
  <2>2. (i + size) - 1 <= c - a
    BY <1>1, <1>8
  <2>3. C = A + size /\ (A - B) + 1 = a + i /\ i \in Nat /\ size \in Nat
    BY <1>3, <1>10, <2>1, Zenon
  <2>4. C <= B + c
    BY <2>2, <2>3
  <2> QED
    BY <2>1, <2>4, Zenon
<1>13. v[i].event = w[k] /\ (off[k - 1] - off[b]) + 1 = a + i /\ off[k] <= off[b] + c
  BY <1>6, <1>11, <1>12
<1> QED
  BY <1>4, <1>13 DEF v, LineWithin

\* Every line of the file is whole.
LEMMA LineIsWhole ==
  ASSUME NEW off, NEW w, NEW n, Offsets(off, w, n), NEW b, NEW u, Holds(u, w, off, b, n),
         NEW k \in (b + 1)..n
  PROVE  LET i == (off[k - 1] - off[b]) + 1
         IN  i \in 1..Len(u) /\ WholeAt(u, i) /\ u[i].event = w[k]
<1> DEFINE z == off[k - 1] - off[b]
           size == LineSize[w[k].seq]
<1>0. u \in Seq(Units) /\ Len(u) \in Nat /\ Len(u) = off[n] - off[b]
  BY DEF Holds
<1>1. /\ off[b] \in Nat /\ off[k - 1] \in Nat /\ off[k] \in Nat /\ off[n] \in Nat
      /\ off[b] <= off[k - 1] /\ off[k] = off[k - 1] + size /\ off[k] <= off[n]
      /\ size \in Nat /\ size >= 1
  BY LineFacts
<1>2. \A p \in 1..size : u[z + p] = [event |-> w[k], part |-> p]
  BY DEF Holds
<1>3. LineOf(w[k]) = [p \in 1..size |-> [event |-> w[k], part |-> p]]
  BY DEF LineOf
<1>4. WholeAt(u, z + 1) <=>
        LET e == (z + 1) + LineSize[u[z + 1].event.seq] - 1
        IN  e <= Len(u) /\ SubSeq(u, z + 1, e) = LineOf(u[z + 1].event)
  BY DEF WholeAt
<1>5. u[z + 1] = [event |-> w[k], part |-> 1]
  BY <1>1, <1>2
<1>6. u[z + 1].event = w[k] /\ LineSize[u[z + 1].event.seq] = size
  BY <1>5
<1> HIDE DEF size
<1>7. z \in Nat /\ z + size <= Len(u)
  BY <1>0, <1>1
<1> HIDE DEF z
<1>8. (z + 1) + size - 1 = z + size /\ z + 1 \in 1..Len(u)
  BY <1>0, <1>1, <1>7
<1>9. SubSeq(u, z + 1, z + size) = LineOf(w[k])
  <2>1. SubSeq(u, z + 1, z + size) = [p \in 1..size |-> u[z + p]]
    <3> DEFINE h == z + size
    <3>1. h \in 1..Len(u) /\ z + 1 <= h /\ h - (z + 1) + 1 = size
      BY <1>0, <1>1, <1>7
    <3>2. \A p \in 1..size : (z + 1) + p - 1 = z + p
      BY <1>1, <1>7
    <3> HIDE DEF h
    <3>4. PICK y \in 1..Len(u) : y = z + 1
      BY <1>8
    <3>5. u \in Seq(Units) /\ h \in 1..Len(u) /\ y <= h
      BY <1>0, <3>1, <3>4
    <3>6. SubSeq(u, y, h) = [p \in 1..(h - y + 1) |-> u[y + p - 1]]
      BY <3>5
    <3>3. SubSeq(u, z + 1, h) = [p \in 1..(h - (z + 1) + 1) |-> u[(z + 1) + p - 1]]
      BY <3>4, <3>6
    <3> QED
      BY <3>1, <3>2, <3>3 DEF h
  <2> QED
    BY <1>2, <1>3, <2>1
<1>10. WholeAt(u, z + 1)
  BY <1>4, <1>6, <1>7, <1>8, <1>9
<1> QED
  BY <1>6, <1>8, <1>10 DEF z

-----------------------------------------------------------------------------
(***************************************************************************)
(* What is parsed of a file, and where it may be cut.                      *)
(***************************************************************************)
\* Parsed takes the whole lines in order.
ParsedAs(u, places) ==
  /\ Ascends(places, Whole(u), Len(u))
  /\ Parsed(u) = [k \in 1..Len(places) |-> u[places[k]].event]

\* There are such places of every file.
LEMMA ParsedPlaces ==
  ASSUME NEW u \in Seq(Units)
  PROVE  \E places : ParsedAs(u, places)
<1> DEFINE places == InOrder(Whole(u), Len(u))
<1>1. Ascends(places, Whole(u), Len(u))
  BY InOrderAscends
<1>2. places \in Seq(Nat)
  BY <1>1 DEF Ascends
<1>3. Parsed(u) = [k \in DOMAIN places |-> u[places[k]].event]
  BY Zenon DEF Parsed, Whole
<1> HIDE DEF places
<1>4. DOMAIN places = 1..Len(places)
  BY <1>2
<1> QED
  BY <1>1, <1>3, <1>4 DEF ParsedAs

\* What is parsed are the events of the whole lines.
LEMMA ParsedRange ==
  ASSUME NEW u \in Seq(Units)
  PROVE  /\ Parsed(u) \in Seq(Events)
         /\ \A e : e \in Range(Parsed(u)) <=> \E i \in 1..Len(u) : WholeAt(u, i) /\ u[i].event = e
<1>1. PICK places : ParsedAs(u, places)
  BY ParsedPlaces
<1>2. /\ places \in Seq(Nat)
      /\ \A k \in 1..Len(places) : places[k] \in 1..Len(u) /\ places[k] \in Whole(u)
      /\ \A i \in 1..Len(u) : i \in Whole(u) => \E k \in 1..Len(places) : places[k] = i
      /\ Parsed(u) = [k \in 1..Len(places) |-> u[places[k]].event]
  BY <1>1 DEF ParsedAs, Ascends
<1>3. PICK m \in Nat : m = Len(places)
  BY <1>2
<1>4. DOMAIN u = 1..Len(u) /\ \A i \in 1..Len(u) : u[i].event \in Events
  <2>1. DOMAIN u = 1..Len(u) /\ \A i \in 1..Len(u) : u[i] \in Units
    OBVIOUS
  <2> QED
    BY <2>1 DEF Units
<1>5. Parsed(u) = [k \in 1..m |-> u[places[k]].event]
  BY <1>2, <1>3
<1>6. Parsed(u) \in Seq(Events)
  BY <1>2, <1>3, <1>4, <1>5
<1>7. ASSUME NEW e, e \in Range(Parsed(u)) PROVE \E i \in 1..Len(u) : WholeAt(u, i)
               /\ u[i].event = e
  <2>1. PICK k \in 1..m : e = u[places[k]].event
    BY <1>5, <1>7 DEF Range
  <2>2. places[k] \in 1..Len(u) /\ WholeAt(u, places[k])
    BY <1>2, <1>3, <2>1 DEF Whole
  <2> QED
    BY <2>1, <2>2
<1>8. ASSUME NEW i \in 1..Len(u), WholeAt(u, i) PROVE u[i].event \in Range(Parsed(u))
  <2>1. i \in Whole(u)
    BY <1>4, <1>8 DEF Whole
  <2>2. PICK k \in 1..m : places[k] = i
    BY <1>2, <1>3, <2>1
  <2>3. Parsed(u)[k] = u[i].event /\ k \in DOMAIN Parsed(u)
    BY <1>5, <2>2
  <2> QED
    BY <2>3 DEF Range
<1> QED
  BY <1>6, <1>7, <1>8

\* A file of whole lines is parsed into their events, and its lines end where Offsets says.
LEMMA ParsedHolds ==
  ASSUME NEW off, NEW w, NEW n, Offsets(off, w, n), NEW b, NEW u, Holds(u, w, off, b, n)
  PROVE  Parsed(u) = [j \in 1..(n - b) |-> w[b + j]]
<1>0. n \in Nat /\ b \in 0..n /\ u \in Seq(Units) /\ Len(u) \in Nat /\ n - b \in Nat
  BY OffsetFacts DEF Holds
<1>1. PICK m \in Nat : m = n - b
  BY <1>0
<1> DEFINE s == [j \in 1..m |-> (off[(b + j) - 1] - off[b]) + 1]
<1>2. ASSUME NEW j \in 1..m
      PROVE  /\ b + j \in (b + 1)..n
             /\ s[j] \in 1..Len(u) /\ WholeAt(u, s[j]) /\ u[s[j]].event = w[b + j]
  <2> DEFINE k == b + j
  <2>1. k \in (b + 1)..n
    BY <1>0, <1>1
  <2>2. s[j] = (off[k - 1] - off[b]) + 1
    OBVIOUS
  <2> HIDE DEF k, s
  <2>3. s[j] \in 1..Len(u) /\ WholeAt(u, s[j]) /\ u[s[j]].event = w[k]
    BY <2>1, <2>2, LineIsWhole
  <2> QED
    BY <2>1, <2>3 DEF k
<1>3. s \in Seq(Nat) /\ Len(s) = m
  <2>1. \A j \in 1..m : s[j] \in Nat
    BY <1>0, <1>2
  <2> QED
    BY <2>1
<1>4. DOMAIN u = 1..Len(u)
  BY <1>0
<1>5. ASSUME NEW i \in 1..m, NEW j \in 1..m, i < j PROVE s[i] < s[j]
  <2> DEFINE p == (b + i) - 1
             q == (b + j) - 1
  <2>1. p \in 0..n /\ q \in 0..n /\ p < q
    BY <1>0, <1>1, <1>5
  <2>2. s[i] = (off[p] - off[b]) + 1 /\ s[j] = (off[q] - off[b]) + 1
    OBVIOUS
  <2> HIDE DEF p, q, s
  <2>3. off[p] < off[q]
    BY <2>1 DEF Offsets
  <2>4. off[p] \in Nat /\ off[q] \in Nat /\ off[b] \in Nat
    BY <1>0, <2>1, OffsetFacts
  <2> QED
    BY <2>2, <2>3, <2>4
<1>6. ASSUME NEW i \in 1..Len(u), WholeAt(u, i) PROVE \E j \in 1..m : s[j] = i
  <2> DEFINE a == 0
             c == Len(u)
             v == Window(u, a, c)
  <2>0. a \in Nat /\ c \in Nat /\ c <= Len(u) /\ v = u /\ a + i = i
    BY <1>0 DEF Window
  <2> HIDE DEF a, c, v, s
  <2>1. WholeAt(v, i) /\ i \in 1..Len(v)
    BY <1>6, <2>0
  <2>6. LineWithin(v, w, off, b, n, a, c, i)
    BY <2>0, <2>1, WholeIsLine DEF v
  <2>2. PICK k \in (b + 1)..n : (off[k - 1] - off[b]) + 1 = i
    BY <2>0, <2>6 DEF LineWithin
  <2>3. PICK j \in 1..m : b + j = k /\ k - 1 = (b + j) - 1
    <3>1. k - b \in 1..m /\ b + (k - b) = k
      BY <1>0, <1>1, <2>2
    <3> QED
      BY <3>1
  <2>4. s[j] = (off[k - 1] - off[b]) + 1
    BY <2>3 DEF s
  <2> QED
    BY <2>2, <2>4
<1> HIDE DEF s
<1>7. Ascends(s, Whole(u), Len(u))
  <2>1. \A k \in 1..Len(s) : s[k] \in 1..Len(u) /\ s[k] \in Whole(u)
    BY <1>2, <1>3, <1>4 DEF Whole
  <2>2. \A i \in 1..Len(u) : i \in Whole(u) => \E k \in 1..Len(s) : s[k] = i
    BY <1>3, <1>6 DEF Whole
  <2> QED
    BY <1>3, <1>5, <2>1, <2>2 DEF Ascends
<1>8. PICK places : ParsedAs(u, places)
  BY <1>0, ParsedPlaces
<1>9. places = s
  BY <1>0, <1>7, <1>8, AscendsOnce DEF ParsedAs
<1>10. Parsed(u) = [k \in 1..m |-> u[s[k]].event]
  BY <1>3, <1>8, <1>9 DEF ParsedAs
<1>11. Parsed(u) = [j \in 1..m |-> w[b + j]]
  BY <1>2, <1>10
<1> QED
  BY <1>1, <1>11

\* The lines of such a file end where Offsets says, which is where trim may cut it.
LEMMA EndsHold ==
  ASSUME NEW off, NEW w, NEW n, Offsets(off, w, n), NEW b, NEW u, Holds(u, w, off, b, n)
  PROVE  Ends(u) = [j \in 1..(n - b) |-> off[b + j] - off[b]]
<1>0. n \in Nat /\ b \in 0..n /\ u \in Seq(Units) /\ Len(u) \in Nat /\ n - b \in Nat
      /\ Len(u) = off[n] - off[b]
  BY OffsetFacts DEF Holds
<1>1. PICK m \in Nat : m = n - b
  BY <1>0
<1> DEFINE s == [j \in 1..m |-> off[b + j] - off[b]]
           S == {i \in DOMAIN u : EndsLine(u[i])}
<1>2. ASSUME NEW k \in (b + 1)..n
      PROVE  LET i == off[k] - off[b] IN i \in 1..Len(u) /\ EndsLine(u[i])
  <2> DEFINE size == LineSize[w[k].seq]
             z == off[k - 1] - off[b]
  <2>1. /\ off[b] \in Nat /\ off[k - 1] \in Nat /\ off[k] \in Nat /\ off[n] \in Nat
        /\ off[b] <= off[k - 1] /\ off[k] = off[k - 1] + size /\ off[k] <= off[n]
        /\ size \in Nat /\ size >= 1
    BY LineFacts
  <2>2. u[z + size] = [event |-> w[k], part |-> size]
    <3>1. size \in 1..size
      BY <2>1
    <3> QED
      BY <3>1 DEF Holds
  <2>3. EndsLine(u[z + size])
    BY <2>2 DEF EndsLine
  <2> HIDE DEF size
  <2>4. off[k] - off[b] = z + size /\ off[k] - off[b] \in 1..Len(u)
    <3>1. PICK A \in Nat, B \in Nat, C \in Nat, N \in Nat :
            A = off[k - 1] /\ B = off[b] /\ C = off[k] /\ N = off[n]
      BY <2>1
    <3>2. B <= A /\ C = A + size /\ C <= N /\ size \in Nat /\ size >= 1 /\ Len(u) = N - B
      BY <1>0, <2>1, <3>1
    <3>3. C - B = (A - B) + size /\ C - B \in 1..(N - B)
      BY <3>2
    <3>4. z = A - B
      BY <3>1
    <3> QED
      BY <3>1, <3>2, <3>3, <3>4
  <2> QED
    BY <2>3, <2>4
<1>3. ASSUME NEW i \in 1..Len(u), EndsLine(u[i])
      PROVE  \E k \in (b + 1)..n : i = off[k] - off[b]
  <2>1. InLine(u, w, off, b, n, i)
    BY UnitFacts
  <2>2. PICK k \in (b + 1)..n : \E p \in 1..LineSize[w[k].seq] :
          i = (off[k - 1] - off[b]) + p /\ u[i] = [event |-> w[k], part |-> p]
    BY <2>1 DEF InLine
  <2>3. PICK p \in 1..LineSize[w[k].seq] :
          i = (off[k - 1] - off[b]) + p /\ u[i] = [event |-> w[k], part |-> p]
    BY <2>2
  <2>4. p = LineSize[w[k].seq]
    BY <1>3, <2>3 DEF EndsLine
  <2>5. /\ off[b] \in Nat /\ off[k - 1] \in Nat /\ off[k] \in Nat
        /\ off[k] = off[k - 1] + LineSize[w[k].seq]
    BY LineFacts
  <2>6. i = off[k] - off[b]
    BY <2>3, <2>4, <2>5
  <2> QED
    BY <2>6
<1>4. ASSUME NEW j \in 1..m
      PROVE  b + j \in (b + 1)..n /\ s[j] = off[b + j] - off[b] /\ s[j] \in 1..Len(u) /\ s[j] \in S
  <2> DEFINE k == b + j
  <2>1. k \in (b + 1)..n
    BY <1>0, <1>1
  <2>2. s[j] = off[k] - off[b]
    OBVIOUS
  <2> HIDE DEF k, s
  <2>3. s[j] \in 1..Len(u) /\ EndsLine(u[s[j]])
    BY <1>2, <2>1, <2>2
  <2>4. DOMAIN u = 1..Len(u)
    BY <1>0
  <2> QED
    BY <2>1, <2>2, <2>3, <2>4 DEF k
<1>5. s \in Seq(Nat) /\ Len(s) = m
  <2>1. \A j \in 1..m : s[j] \in Nat
    <3> HIDE DEF s, S
    <3>1. \A j \in 1..m : s[j] \in 1..Len(u)
      BY <1>4
    <3> QED
      BY <1>0, <3>1
  <2> QED
    BY <2>1
<1>6. ASSUME NEW i \in 1..m, NEW j \in 1..m, i < j PROVE s[i] < s[j]
  <2> DEFINE p == b + i
             q == b + j
  <2>1. p \in 0..n /\ q \in 0..n /\ p < q
    BY <1>0, <1>1, <1>6
  <2>2. s[i] = off[p] - off[b] /\ s[j] = off[q] - off[b]
    OBVIOUS
  <2> HIDE DEF p, q, s
  <2>3. off[p] < off[q]
    BY <2>1 DEF Offsets
  <2>4. off[p] \in Nat /\ off[q] \in Nat /\ off[b] \in Nat
    BY <1>0, <2>1, OffsetFacts
  <2> QED
    BY <2>2, <2>3, <2>4
<1>7. ASSUME NEW i \in 1..Len(u), i \in S PROVE \E j \in 1..m : s[j] = i
  <2>1. PICK k \in (b + 1)..n : i = off[k] - off[b]
    BY <1>3, <1>7
  <2>2. PICK j \in 1..m : b + j = k
    <3>1. k - b \in 1..m /\ b + (k - b) = k
      BY <1>0, <1>1, <2>1
    <3> QED
      BY <3>1
  <2> QED
    BY <2>1, <2>2
<1> HIDE DEF s, S
<1>8. Ascends(s, S, Len(u))
  <2>1. \A k \in 1..Len(s) : s[k] \in 1..Len(u) /\ s[k] \in S
    BY <1>4, <1>5
  <2>2. \A i \in 1..Len(u) : i \in S => \E k \in 1..Len(s) : s[k] = i
    BY <1>5, <1>7
  <2> QED
    BY <1>5, <1>6, <2>1, <2>2 DEF Ascends
<1>9. Ends(u) = InOrder(S, Len(u))
  BY Zenon DEF Ends, S
<1>10. Ends(u) = s
  BY <1>0, <1>8, <1>9, InOrderAscends, AscendsOnce
<1> QED
  BY <1>1, <1>10 DEF s

-----------------------------------------------------------------------------
(***************************************************************************)
(* The file after trim and after emit.                                     *)
(***************************************************************************)
\* The lines of a file from some line on.
LEMMA TailHolds ==
  ASSUME NEW off, NEW w, NEW n, Offsets(off, w, n), NEW b, NEW u, Holds(u, w, off, b, n),
         NEW x \in b..n
  PROVE  /\ off[x] - off[b] \in 0..Len(u)
         /\ Holds(SubSeq(u, (off[x] - off[b]) + 1, Len(u)), w, off, x, n)
<1>0. n \in Nat /\ b \in 0..n /\ x \in 0..n /\ n \in 0..n /\ b <= x /\ x <= n
  BY OffsetFacts DEF Holds
<1>1. /\ off[b] \in Nat /\ off[x] \in Nat /\ off[n] \in Nat /\ off[b] <= off[x] /\ off[x] <= off[n]
      /\ u \in Seq(Units) /\ Len(u) \in Nat /\ Len(u) = off[n] - off[b]
  BY <1>0, OffsetFacts DEF Holds
<1> DEFINE d == off[x] - off[b]
           v == SubSeq(u, d + 1, Len(u))
<1>2. d \in 0..Len(u) /\ Len(u) - d = off[n] - off[x]
  BY <1>1
<1>3. off[x] = off[b] + d
  BY <1>1
<1> HIDE DEF d
<1>4. v \in Seq(Units)
  <2>1. d + 1 \in Nat /\ d + 1 >= 1
    BY <1>2
  <2> QED
    BY <1>1, <2>1
<1>5. Len(v) = Len(u) - d /\ \A j \in 1..(Len(u) - d) : v[j] = u[d + j]
  <2>1. CASE d = Len(u)
    BY <1>1, <1>2, <2>1
  <2>2. CASE d < Len(u)
    <3> DEFINE h == d + 1
    <3>1. h \in 1..Len(u) /\ Len(u) \in 1..Len(u) /\ h <= Len(u)
      BY <1>1, <1>2, <2>2
    <3>5. v = SubSeq(u, h, Len(u))
      OBVIOUS
    <3> HIDE DEF v, h
    <3>6. v = [j \in 1..(Len(u) - h + 1) |-> u[h + j - 1]]
      BY <1>1, <3>1, <3>5
    <3>2. v = [j \in 1..(Len(u) - (d + 1) + 1) |-> u[(d + 1) + j - 1]]
      BY <3>6 DEF h
    <3>3. Len(u) - (d + 1) + 1 = Len(u) - d /\ \A j \in 1..(Len(u) - d) : (d + 1) + j - 1 = d + j
      BY <1>1, <1>2
    <3>4. v = [j \in 1..(Len(u) - d) |-> u[d + j]]
      BY <3>2, <3>3
    <3> QED
      BY <1>1, <1>2, <3>4
  <2> QED
    BY <1>2, <2>1, <2>2
<1> HIDE DEF v
<1>6. ASSUME NEW k \in (x + 1)..n, NEW p \in 1..LineSize[w[k].seq]
      PROVE  v[(off[k - 1] - off[x]) + p] = [event |-> w[k], part |-> p]
  <2>1. k \in (b + 1)..n /\ x <= k - 1 /\ k - 1 \in 0..n
    BY <1>0
  <2>2. /\ off[k - 1] \in Nat /\ off[k] \in Nat /\ off[k] = off[k - 1] + LineSize[w[k].seq]
        /\ off[k] <= off[n] /\ LineSize[w[k].seq] \in Nat
    BY <2>1, LineFacts
  <2>3. off[x] <= off[k - 1]
    BY <1>0, <2>1, OffsetFacts
  <2>4. u[(off[k - 1] - off[b]) + p] = [event |-> w[k], part |-> p]
    BY <2>1 DEF Holds
  <2> DEFINE j == (off[k - 1] - off[x]) + p
  <2>5. p \in Nat /\ p >= 1 /\ p <= off[k] - off[k - 1]
    BY <2>2
  <2>9. PICK A \in Nat, B \in Nat, C \in Nat, X \in Nat, N \in Nat :
          A = off[k - 1] /\ B = off[b] /\ C = off[k] /\ X = off[x] /\ N = off[n]
    BY <1>1, <2>2
  <2>10. X <= A /\ B <= X /\ C <= N /\ p <= C - A /\ X = B + d /\ d \in Nat
    BY <1>1, <1>2, <1>3, <2>2, <2>3, <2>5, <2>9
  <2>11. (A - X) + p \in 1..(N - X) /\ d + ((A - X) + p) = (A - B) + p
    BY <2>5, <2>10
  <2>6. j \in 1..(off[n] - off[x])
    BY <2>9, <2>11
  <2>7. d + j = (off[k - 1] - off[b]) + p
    BY <2>9, <2>11
  <2> HIDE DEF j
  <2>8. v[j] = u[d + j]
    BY <1>2, <1>5, <2>6
  <2> QED
    BY <2>4, <2>7, <2>8 DEF j
<1>7. Len(v) = off[n] - off[x]
  BY <1>2, <1>5
<1>8. Holds(v, w, off, x, n)
  BY <1>0, <1>4, <1>6, <1>7 DEF Holds
<1> QED
  BY <1>2, <1>8 DEF d, v

\* trim keeps the last lines, or the file as it is.
LEMMA KeptHolds ==
  ASSUME NEW off, NEW w, NEW n, Offsets(off, w, n), NEW b, NEW u, Holds(u, w, off, b, n)
  PROVE  /\ n - b > Cap => /\ n - Cap \in (b + 1)..n /\ n - Cap \in 0..n
                           /\ Holds(Kept(u), w, off, n - Cap, n)
                           /\ Kept(u) # u
         /\ n - b <= Cap => Kept(u) = u
<1>0. n \in Nat /\ b \in 0..n /\ n - b \in Nat /\ Cap \in Nat
  BY OffsetFacts, SizesAssumption DEF Holds
<1> DEFINE ends == Ends(u)
<1>1. ends = [j \in 1..(n - b) |-> off[b + j] - off[b]]
  BY EndsHold
<1>2. Len(ends) = n - b
  BY <1>0, <1>1
<1>3. Kept(u) = IF Len(ends) > Cap THEN SubSeq(u, ends[Len(ends) - Cap] + 1, Len(u)) ELSE u
  BY Zenon DEF Kept
<1>4. ASSUME n - b > Cap
      PROVE  /\ n - Cap \in (b + 1)..n /\ n - Cap \in 0..n
             /\ Holds(Kept(u), w, off, n - Cap, n)
             /\ Kept(u) # u
  <2> DEFINE x == n - Cap
  <2>1. x \in (b + 1)..n /\ x \in 0..n /\ x \in b..n /\ (n - b) - Cap \in 1..(n - b)
        /\ b + ((n - b) - Cap) = x
    BY <1>0, <1>4
  <2>2. ends[(n - b) - Cap] = off[x] - off[b]
    BY <1>1, <2>1
  <2>3. Kept(u) = SubSeq(u, (off[x] - off[b]) + 1, Len(u))
    BY <1>2, <1>3, <1>4, <2>2
  <2> HIDE DEF x, ends
  <2>4. Holds(Kept(u), w, off, x, n)
    BY <2>1, <2>3, TailHolds
  <2>5. off[b] < off[x]
    BY <1>0, <2>1 DEF Offsets
  <2>6. off[b] \in Nat /\ off[x] \in Nat /\ off[n] \in Nat
    <3>1. n \in 0..n
      BY <1>0
    <3> QED
      BY <1>0, <2>1, <3>1, OffsetFacts
  <2>7. Len(Kept(u)) = off[n] - off[x] /\ Len(u) = off[n] - off[b]
    BY <2>4 DEF Holds
  <2>8. Len(Kept(u)) # Len(u)
    BY <2>5, <2>6, <2>7
  <2>9. Kept(u) # u
    BY <2>8
  <2> QED
    BY <2>1, <2>4, <2>9 DEF x
<1>5. n - b <= Cap => Kept(u) = u
  <2> HIDE DEF ends
  <2> QED
    BY <1>0, <1>2, <1>3
<1> QED
  BY <1>4, <1>5

\* Nothing is what the lines behind the last are.
LEMMA EmptyHolds ==
  ASSUME NEW off, NEW w, NEW n, Offsets(off, w, n)
  PROVE  Holds(<<>>, w, off, n, n)
<1>1. n \in Nat /\ off[n] \in Nat
  <2>1. n \in Nat /\ n \in 0..n
    BY OffsetFacts
  <2> QED
    BY <2>1, OffsetFacts
<1>2. (n + 1)..n = {} /\ off[n] - off[n] = 0 /\ n \in 0..n
  BY <1>1
<1> QED
  BY <1>2 DEF Holds

\* The ends of the lines when one more is written.
Extended(off, off2, n) == \A k \in 0..n : off2[k] = off[k]

\* Offsets can be continued for the entry that emit appends.
LEMMA AppendOffsets ==
  ASSUME NEW off, NEW w, NEW n, Offsets(off, w, n), NEW e \in Events
  PROVE  \E off2 : /\ Offsets(off2, Append(w, e), n + 1)
                   /\ Extended(off, off2, n)
<1>0. n \in Nat /\ w \in Seq(Events) /\ n = Len(w) /\ (\A k \in 0..n : off[k] \in Nat)
  BY OffsetFacts DEF Offsets
<1> DEFINE size == LineSize[e.seq]
           off2 == [k \in 0..(n + 1) |-> IF k <= n THEN off[k] ELSE off[n] + size]
           w2 == Append(w, e)
<1>1. size \in Nat /\ size >= 1
  BY LinesAreLong
<1>2. off[n] \in Nat
  <2>1. n \in 0..n
    BY <1>0
  <2> QED
    BY <1>0, <2>1
<1>3. w2 \in Seq(Events) /\ Len(w2) = n + 1 /\ w2[n + 1] = e /\ \A k \in 1..n : w2[k] = w[k]
  BY <1>0
<1>4. /\ off2 \in [0..(n + 1) -> Nat] /\ off2[n + 1] = off[n] + size
      /\ \A k \in 0..n : off2[k] = off[k]
  <2>1. n + 1 \in 0..(n + 1) /\ ~(n + 1 <= n)
    BY <1>0
  <2>2. \A k \in 0..(n + 1) : k \in 0..n <=> k <= n
    BY <1>0
  <2>3. \A k \in 0..n : k \in 0..(n + 1)
    BY <1>0
  <2>4. off[n] + size \in Nat
    BY <1>1, <1>2
  <2> HIDE DEF size
  <2> QED
    BY <1>0, <2>1, <2>2, <2>3, <2>4
<1> HIDE DEF off2, w2
<1>5. ASSUME NEW k \in 1..(n + 1) PROVE off2[k] = off2[k - 1] + LineSize[w2[k].seq]
  <2>1. CASE k = n + 1
    <3>1. k - 1 = n /\ n \in 0..n
      BY <1>0, <2>1
    <3>2. off2[n] = off[n]
      BY <1>4, <3>1
    <3>3. w2[k] = e
      BY <1>3, <2>1
    <3> QED
      BY <1>4, <2>1, <3>1, <3>2, <3>3
  <2>2. CASE k # n + 1
    <3>1. k \in 1..n /\ k \in 0..n /\ k - 1 \in 0..n
      BY <1>0, <2>2
    <3>2. off2[k] = off[k] /\ off2[k - 1] = off[k - 1] /\ w2[k] = w[k]
      BY <1>3, <1>4, <3>1
    <3>3. off[k] = off[k - 1] + LineSize[w[k].seq]
      BY <3>1 DEF Offsets
    <3> QED
      BY <3>2, <3>3
  <2> QED
    BY <2>1, <2>2
<1>6. ASSUME NEW j \in 0..(n + 1), NEW k \in 0..(n + 1), j < k PROVE off2[j] < off2[k]
  <2>0. j \in 0..n
    BY <1>0, <1>6
  <2>1. CASE k = n + 1
    <3>1. n \in 0..n /\ j <= n
      BY <1>0, <2>0
    <3>2. off[j] <= off[n] /\ off[j] \in Nat
      BY <2>0, <3>1, OffsetFacts
    <3>3. off2[j] = off[j] /\ off2[k] = off[n] + size
      BY <1>4, <2>0, <2>1
    <3> HIDE DEF size
    <3> QED
      BY <1>1, <1>2, <3>2, <3>3
  <2>2. CASE k # n + 1
    <3>1. k \in 0..n
      BY <1>0, <2>2
    <3>2. off[j] < off[k]
      BY <1>6, <2>0, <3>1 DEF Offsets
    <3> QED
      BY <1>4, <2>0, <3>1, <3>2
  <2> QED
    BY <2>1, <2>2
<1>7. Offsets(off2, w2, n + 1)
  BY <1>3, <1>4, <1>5, <1>6 DEF Offsets
<1>8. Extended(off, off2, n)
  BY <1>4 DEF Extended
<1> QED
  BY <1>7, <1>8 DEF w2

\* What emit appends is a line of the entry's size, part by part.
LEMMA LineFits ==
  ASSUME NEW e \in Events
  PROVE  /\ LineOf(e) \in Seq(Units) /\ Len(LineOf(e)) = LineSize[e.seq]
         /\ \A p \in 1..LineSize[e.seq] : LineOf(e)[p] = [event |-> e, part |-> p]
<1>1. PICK size \in Nat : size = LineSize[e.seq]
  BY LinesAreLong
<1>2. LineOf(e) = [p \in 1..size |-> [event |-> e, part |-> p]]
  BY <1>1 DEF LineOf
<1>3. \A p \in 1..size : [event |-> e, part |-> p] \in Units
  BY DEF Units
<1> QED
  BY <1>1, <1>2, <1>3

\* An entry appended to the file is one more whole line.
LEMMA AppendHolds ==
  ASSUME NEW off, NEW w, NEW n, Offsets(off, w, n), NEW e \in Events,
         NEW off2, Offsets(off2, Append(w, e), n + 1), Extended(off, off2, n),
         NEW b, NEW u, Holds(u, w, off, b, n)
  PROVE  Holds(u \o LineOf(e), Append(w, e), off2, b, n + 1)
<1>0. /\ n \in Nat /\ b \in 0..n /\ w \in Seq(Events) /\ n = Len(w)
      /\ u \in Seq(Units) /\ Len(u) \in Nat /\ Len(u) = off[n] - off[b]
  BY OffsetFacts DEF Offsets, Holds
<1> DEFINE size == LineSize[e.seq]
           v == u \o LineOf(e)
           w2 == Append(w, e)
           m == n + 1
<1>1. size \in Nat /\ LineOf(e) \in Seq(Units) /\ Len(LineOf(e)) = size
      /\ \A p \in 1..size : LineOf(e)[p] = [event |-> e, part |-> p]
  BY LineFits, LinesAreLong
<1>2. /\ w2[m] = e /\ \A k \in 1..n : w2[k] = w[k]
  BY <1>0
<1>3. /\ v \in Seq(Units) /\ Len(v) = Len(u) + size
      /\ \A i \in 1..Len(u) : v[i] = u[i]
      /\ \A p \in 1..size : v[Len(u) + p] = [event |-> e, part |-> p]
  <2> HIDE DEF size
  <2>0. u \in Seq(Units) /\ LineOf(e) \in Seq(Units) /\ Len(LineOf(e)) = size
    BY <1>0, <1>1
  <2>1. v \in Seq(Units) /\ Len(v) = Len(u) + size
    BY <2>0
  <2>2. \A i \in 1..Len(u) : v[i] = u[i]
    BY <1>0, <1>1
  <2>3. \A p \in 1..size : v[Len(u) + p] = LineOf(e)[p]
    BY <1>0, <1>1
  <2> QED
    BY <1>1, <2>1, <2>2, <2>3
<1>4. /\ m \in Nat /\ b \in 0..m /\ n \in 0..n /\ m \in 1..m /\ m - 1 = n
  BY <1>0
<1>5. off2[m] = off2[n] + size /\ off2[n] = off[n] /\ off2[b] = off[b] /\ off[n] \in Nat
        /\ off[b] \in Nat
  <2>1. off2[m] = off2[m - 1] + LineSize[w2[m].seq]
    <3> HIDE DEF m, w2
    <3>1. Offsets(off2, w2, m)
      BY DEF m, w2
    <3> QED
      BY <1>4, <3>1 DEF Offsets
  <2>2. off2[n] = off[n] /\ off2[b] = off[b]
    BY <1>0, <1>4 DEF Extended
  <2>3. off[n] \in Nat /\ off[b] \in Nat
    BY <1>0, <1>4, OffsetFacts
  <2> QED
    BY <1>2, <1>4, <2>1, <2>2, <2>3
<1> HIDE DEF v, w2, m, size
<1>6. Len(v) = off2[m] - off2[b]
  BY <1>0, <1>1, <1>3, <1>5
<1>7. ASSUME NEW k \in (b + 1)..m, NEW p \in 1..LineSize[w2[k].seq]
      PROVE  v[(off2[k - 1] - off2[b]) + p] = [event |-> w2[k], part |-> p]
  <2>1. CASE k = m
    <3>1. w2[k] = e /\ k - 1 = n /\ p \in 1..size
      BY <1>2, <1>4, <2>1 DEF size
    <3>2. off2[k - 1] - off2[b] = Len(u)
      BY <1>0, <1>5, <3>1
    <3>3. v[Len(u) + p] = [event |-> e, part |-> p]
      BY <1>3, <3>1
    <3> QED
      BY <3>1, <3>2, <3>3
  <2>2. CASE k # m
    <3>1. k \in (b + 1)..n /\ k \in 1..n /\ k - 1 \in 0..n
      BY <1>0, <2>2 DEF m
    <3>2. w2[k] = w[k] /\ off2[k - 1] = off[k - 1] /\ off2[b] = off[b]
      BY <1>2, <1>5, <3>1 DEF Extended
    <3>3. p \in 1..LineSize[w[k].seq]
      BY <3>2
    <3>4. u[(off[k - 1] - off[b]) + p] = [event |-> w[k], part |-> p]
      BY <3>1, <3>3 DEF Holds
    <3>5. /\ off[k - 1] \in Nat /\ off[k] \in Nat /\ off[k] = off[k - 1] + LineSize[w[k].seq]
          /\ off[k] <= off[n] /\ LineSize[w[k].seq] \in Nat /\ off[b] <= off[k - 1]
      BY <3>1, LineFacts
    <3> DEFINE i == (off[k - 1] - off[b]) + p
    <3>8. PICK A \in Nat, B \in Nat, C \in Nat, N \in Nat :
            A = off[k - 1] /\ B = off[b] /\ C = off[k] /\ N = off[n]
      BY <1>5, <3>5
    <3>11. C <= N /\ B <= A /\ Len(u) = N - B
      BY <1>0, <3>5, <3>8
    <3>12. p \in 1..LineSize[w[k].seq] /\ LineSize[w[k].seq] = C - A
      BY <3>3, <3>5, <3>8
    <3>9. C <= N /\ B <= A /\ p \in 1..(C - A) /\ Len(u) = N - B
      BY <3>11, <3>12
    <3>10. (A - B) + p \in 1..(N - B)
      BY <3>9
    <3>6. i \in 1..Len(u)
      BY <3>8, <3>9, <3>10
    <3> HIDE DEF i
    <3>7. v[i] = u[i]
      BY <1>3, <3>6
    <3> QED
      BY <3>2, <3>4, <3>7 DEF i
  <2> QED
    BY <2>1, <2>2
<1>8. Holds(v, w2, off2, b, m)
  BY <1>3, <1>4, <1>6, <1>7 DEF Holds
<1> QED
  BY <1>8 DEF v, w2, m

-----------------------------------------------------------------------------
(***************************************************************************)
(* Types.                                                                  *)
(***************************************************************************)
\* Where a generator process may be in its tick.
Places == {"off", "idle", "emit", "trim", "truncate", "rewrite"}

\* The state of a generator process.
GenRecords == [up : BOOLEAN, pc : Places, seq : Nat, kept : Seq(Units)]

\* Of every variable the type; a connection that ended was sent nothing, and a size taken lies
\* beyond the offset.
GenOK == gen \in [Generators -> GenRecords] /\ \A g \in Generators : gen[g].seq <= MaxEvents[g]

\* The file and the history.
FileOK == file \in Seq(Units) /\ written \in Seq(Events)

\* The connection: a size taken lies beyond the offset, and one that ended was sent nothing.
FeedOK ==
  /\ reader \in {Null} \union [pos : Nat, size : Nat \union {Null}]
  /\ reader = Null => delivered = <<>>
  /\ reader # Null => (reader.size # Null => reader.pos < reader.size)
  /\ delivered \in Seq(Events) /\ spied \in BOOLEAN

\* The flags.
FlagsOK == attempted \in BOOLEAN /\ alone \in BOOLEAN /\ lost \in BOOLEAN

\* Of every variable the type.
StreamTypeOK == GenOK /\ FileOK /\ FeedOK /\ FlagsOK

\* A part of a file is one.
LEMMA BetweenFacts ==
  ASSUME NEW u \in Seq(Units), NEW a \in Nat, NEW c \in Nat
  PROVE  SubSeq(u, a + 1, c) \in Seq(Units) \/ c > Len(u)
<1>1. CASE c <= Len(u)
  <2>1. a + 1 \in Nat /\ a + 1 >= 1 /\ Len(u) \in Nat
    OBVIOUS
  <2> QED
    BY <1>1, <2>1
<1>2. CASE ~(c <= Len(u))
  <2>1. Len(u) \in Nat
    OBVIOUS
  <2> QED
    BY <1>2, <2>1
<1> QED
  BY <1>1, <1>2

\* What is kept of a file, and what of one lies beyond another, are files.
LEMMA KeptIsFile ==
  ASSUME NEW u \in Seq(Units)
  PROVE  Kept(u) \in Seq(Units)
<1> DEFINE ends == Ends(u)
           S == {i \in DOMAIN u : EndsLine(u[i])}
<1>1. Ascends(ends, S, Len(u))
  <2>1. ends = InOrder(S, Len(u))
    BY Zenon DEF Ends
  <2>2. Len(u) \in Nat
    OBVIOUS
  <2> HIDE DEF ends, S
  <2> QED
    BY <2>1, <2>2, InOrderAscends
<1>2. ends \in Seq(Nat) /\ Len(ends) \in Nat /\ Cap \in Nat
  BY <1>1, SizesAssumption DEF Ascends
<1>3. Kept(u) = IF Len(ends) > Cap THEN SubSeq(u, ends[Len(ends) - Cap] + 1, Len(u)) ELSE u
  BY Zenon DEF Kept
<1> HIDE DEF ends
<1>4. CASE Len(ends) > Cap /\ Cap >= 1
  <2> DEFINE a == ends[Len(ends) - Cap]
             c == Len(u)
  <2>1. PICK i \in 1..Len(ends) : i = Len(ends) - Cap
    <3>1. PICK L \in Nat, C \in Nat : L = Len(ends) /\ C = Cap /\ L > C /\ C >= 1
      BY <1>2, <1>4
    <3>2. L - C \in 1..L
      BY <3>1
    <3> QED
      BY <3>1, <3>2
  <2>4. ends[i] \in Nat
    BY <1>2
  <2>2. a \in Nat /\ c \in Nat
    BY <2>1, <2>4
  <2>5. ~(c > Len(u))
    BY <2>2
  <2>3. Kept(u) = SubSeq(u, a + 1, c) /\ ~(c > Len(u))
    BY <1>3, <1>4, <2>5, Zenon
  <2> HIDE DEF a, c
  <2> QED
    BY <2>2, <2>3, BetweenFacts
<1>5. CASE Len(ends) > Cap /\ Cap = 0
  <2> DEFINE a == ends[Len(ends)]
             c == Len(u)
  <2>1. Len(ends) - Cap = Len(ends) /\ Len(ends) \in 1..Len(ends)
    BY <1>2, <1>5
  <2>2. a \in Nat /\ c \in Nat
    BY <1>2, <2>1
  <2>3. Kept(u) = SubSeq(u, a + 1, c) /\ ~(c > Len(u))
    BY <1>3, <1>5, <2>1, <2>2
  <2> HIDE DEF a, c
  <2> QED
    BY <2>2, <2>3, BetweenFacts
<1>6. CASE ~(Len(ends) > Cap)
  BY <1>3, <1>6
<1> QED
  BY <1>2, <1>4, <1>5, <1>6

\* What trim's write leaves of a file is one; of an empty file it leaves what was kept.
LEMMA OverwrittenIsFile ==
  ASSUME NEW k \in Seq(Units), NEW u \in Seq(Units)
  PROVE  /\ k \o SubSeq(u, Len(k) + 1, Len(u)) \in Seq(Units)
         /\ k \o SubSeq(<<>>, Len(k) + 1, Len(<<>>)) = k
<1>1. SubSeq(u, Len(k) + 1, Len(u)) \in Seq(Units)
  <2> DEFINE a == Len(k)
             c == Len(u)
  <2>1. a \in Nat /\ c \in Nat /\ ~(c > Len(u))
    OBVIOUS
  <2> HIDE DEF a, c
  <2>2. SubSeq(u, a + 1, c) \in Seq(Units)
    BY <2>1, BetweenFacts
  <2> QED
    BY <2>2 DEF a, c
<1>2. SubSeq(<<>>, Len(k) + 1, Len(<<>>)) = <<>>
  <2>1. Len(<<>>) = 0 /\ Len(k) + 1 > 0
    OBVIOUS
  <2> QED
    BY <2>1
<1> QED
  BY <1>1, <1>2

\* What a poll reads is a window on the file.
LEMMA BetweenIsWindow ==
  ASSUME StreamTypeOK, NEW a \in Nat, NEW c \in Nat
  PROVE  \E d \in Nat : /\ d <= Len(file) /\ d <= c
                        /\ Between(a, c) = Window(file, a, d) /\ Between(a, c) \in Seq(Units)
<1>1. file \in Seq(Units) /\ Len(file) \in Nat
  BY DEF StreamTypeOK, GenOK, FileOK, FeedOK, FlagsOK
<1> DEFINE d == IF c < Len(file) THEN c ELSE Len(file)
<1>2. d \in Nat /\ d <= Len(file) /\ d <= c /\ ~(d > Len(file))
  BY <1>1
<1>3. Between(a, c) = SubSeq(file, a + 1, d)
  BY DEF Between
<1> HIDE DEF d
<1>4. Between(a, c) \in Seq(Units)
  BY <1>1, <1>2, <1>3, BetweenFacts
<1> QED
  BY <1>2, <1>3, <1>4 DEF Window

\* The types hold before anything runs.
LEMMA StreamTypeInit == StreamInit => StreamTypeOK
<1> SUFFICES ASSUME StreamInit PROVE StreamTypeOK
  OBVIOUS
<1> USE DEF StreamInit
<1>1. gen \in [Generators -> GenRecords]
  BY DEF Places, GenRecords
<1>2. \A g \in Generators : gen[g].seq <= MaxEvents[g]
  <2>1. \A g \in Generators : gen[g].seq = 0 /\ MaxEvents[g] \in Nat
    BY SizesAssumption
  <2> QED
    BY <2>1
<1>3. file \in Seq(Units) /\ delivered \in Seq(Events) /\ written \in Seq(Events)
  OBVIOUS
<1>4. /\ reader = Null /\ delivered = <<>> /\ attempted \in BOOLEAN
      /\ alone \in BOOLEAN /\ lost \in BOOLEAN /\ spied \in BOOLEAN
  OBVIOUS
<1> QED
  BY <1>1, <1>2, <1>3, <1>4 DEF StreamTypeOK, GenOK, FileOK, FeedOK, FlagsOK

\* Each generator's record after a step of g.
LEMMA GenIsTyped ==
  ASSUME StreamTypeOK, NEW g \in Generators, NEW r,
         r \in GenRecords, r.seq <= MaxEvents[g],
         gen' = [gen EXCEPT ![g] = r]
  PROVE  /\ gen' \in [Generators -> GenRecords]
         /\ \A h \in Generators : gen'[h].seq <= MaxEvents[h]
         /\ gen'[g] = r /\ \A h \in Generators : h # g => gen'[h] = gen[h]
<1>1. gen \in [Generators -> GenRecords]
      /\ \A h \in Generators : gen[h].seq <= MaxEvents[h]
  BY DEF StreamTypeOK, GenOK, FileOK, FeedOK, FlagsOK
<1>2. gen'[g] = r /\ \A h \in Generators : h # g => gen'[h] = gen[h]
  BY <1>1
<1> QED
  BY <1>1, <1>2

\* The steps of generators, as changes of one record.
Moved(g, up, pc, seq, kept) ==
  gen' = [gen EXCEPT ![g] = [up |-> up, pc |-> pc, seq |-> seq, kept |-> kept]]

\* A record with two of its fields changed: emit's,
LEMMA SeqAndPc ==
  ASSUME NEW r \in GenRecords, NEW pc, NEW seq
  PROVE  [r EXCEPT !.seq = seq, !.pc = pc] = [up |-> r.up, pc |-> pc, seq |-> seq, kept |-> r.kept]
<1> DEFINE t == [r EXCEPT !.seq = seq]
<1>1. t = [up |-> r.up, pc |-> r.pc, seq |-> seq, kept |-> r.kept]
  BY DEF GenRecords
<1> HIDE DEF t
<1>2. [t EXCEPT !.pc = pc] = [up |-> r.up, pc |-> pc, seq |-> seq, kept |-> r.kept]
  BY <1>1
<1> QED
  BY <1>2 DEF t

\* and that of the end of a rewrite.
LEMMA PcAndKept ==
  ASSUME NEW r \in GenRecords, NEW pc, NEW kept
  PROVE  [r EXCEPT !.pc = pc, !.kept = kept] = [up |-> r.up, pc |-> pc, seq |-> r.seq,
           kept |-> kept]
<1> DEFINE s == [r EXCEPT !.pc = pc]
<1>1. s = [up |-> r.up, pc |-> pc, seq |-> r.seq, kept |-> r.kept]
  BY DEF GenRecords
<1> HIDE DEF s
<1>2. [s EXCEPT !.kept = kept] = [up |-> r.up, pc |-> pc, seq |-> r.seq, kept |-> kept]
  BY <1>1
<1> QED
  BY <1>2 DEF s

\* What each step of a generator (event-generator.ts: emit, trim) makes of its record.
LEMMA GeneratorMoves ==
  ASSUME StreamTypeOK, NEW g \in Generators
  PROVE  /\ Starts(g) => Moved(g, TRUE, "idle", gen[g].seq, gen[g].kept)
         /\ Emit(g) => \E place \in {"emit", "trim"} : Moved(g, gen[g].up, place, gen[g].seq + 1,
              gen[g].kept)
         /\ TrimReads(g) => IF Kept(file) = file THEN Moved(g, gen[g].up, "idle", gen[g].seq,
              gen[g].kept)
                            ELSE Moved(g, gen[g].up, "truncate", gen[g].seq, Kept(file))
         /\ Truncate(g) => Moved(g, gen[g].up, "rewrite", gen[g].seq, gen[g].kept)
         /\ Rewrite(g) \/ RewriteFails(g) => Moved(g, gen[g].up, "idle", gen[g].seq, <<>>)
         /\ Kill(g) => Moved(g, FALSE, gen[g].pc, gen[g].seq, gen[g].kept)
<1>1. gen \in [Generators -> GenRecords]
  BY DEF StreamTypeOK, GenOK, FileOK, FeedOK, FlagsOK
<1>2. Starts(g) => Moved(g, TRUE, "idle", gen[g].seq, gen[g].kept)
  BY <1>1 DEF Starts, Moved, GenRecords
<1>3. Emit(g) => \E place \in {"emit", "trim"} : Moved(g, gen[g].up, place, gen[g].seq + 1,
        gen[g].kept)
  <2> SUFFICES ASSUME Emit(g)
               PROVE  \E place \in {"emit", "trim"} : Moved(g, gen[g].up, place, gen[g].seq + 1,
                        gen[g].kept)
    OBVIOUS
  <2>1. PICK place \in {"emit", "trim"} : gen' = [gen EXCEPT ![g].seq = @ + 1, ![g].pc = place]
    BY DEF Emit
  <2>3. gen' = [gen EXCEPT ![g] = [gen[g] EXCEPT !.seq = gen[g].seq + 1, !.pc = place]]
    BY <1>1, <2>1
  <2> DEFINE r == gen[g]
             seq == gen[g].seq + 1
  <2>5. r \in GenRecords
    BY <1>1
  <2>6. gen' = [gen EXCEPT ![g] = [r EXCEPT !.seq = seq, !.pc = place]]
    BY <2>3
  <2> HIDE DEF r, seq
  <2>7. [r EXCEPT !.seq = seq, !.pc = place] = [up |-> r.up, pc |-> place, seq |-> seq,
          kept |-> r.kept]
    BY <2>5, SeqAndPc
  <2>4. gen' = [gen EXCEPT ![g] = [up |-> r.up, pc |-> place, seq |-> seq, kept |-> r.kept]]
    BY <2>6, <2>7
  <2>2. Moved(g, gen[g].up, place, gen[g].seq + 1, gen[g].kept)
    BY <2>4 DEF Moved, r, seq
  <2> QED
    BY <2>2
<1>4. TrimReads(g) => IF Kept(file) = file THEN Moved(g, gen[g].up, "idle", gen[g].seq, gen[g].kept)
                      ELSE Moved(g, gen[g].up, "truncate", gen[g].seq, Kept(file))
  BY <1>1 DEF TrimReads, Moved, GenRecords
<1>5. Truncate(g) => Moved(g, gen[g].up, "rewrite", gen[g].seq, gen[g].kept)
  BY <1>1 DEF Truncate, Moved, GenRecords
<1>6. Rewrite(g) \/ RewriteFails(g) => Moved(g, gen[g].up, "idle", gen[g].seq, <<>>)
  <2>1. Rewrite(g) \/ RewriteFails(g) => gen' = [gen EXCEPT ![g].pc = "idle", ![g].kept = <<>>]
    BY Zenon DEF Rewrite, RewriteFails
  <2>2. [gen EXCEPT ![g].pc = "idle", ![g].kept = <<>>]
          = [gen EXCEPT ![g] = [up |-> gen[g].up, pc |-> "idle", seq |-> gen[g].seq, kept |-> <<>>]]
    <3>1. [gen EXCEPT ![g].pc = "idle", ![g].kept = <<>>]
            = [gen EXCEPT ![g] = [gen[g] EXCEPT !.pc = "idle", !.kept = <<>>]]
      BY <1>1
    <3>2. gen[g] \in GenRecords
      BY <1>1
    <3> DEFINE r == gen[g]
    <3>4. r \in GenRecords
      BY <3>2
    <3> HIDE DEF r
    <3>5. [r EXCEPT !.pc = "idle", !.kept = <<>>]
            = [up |-> r.up, pc |-> "idle", seq |-> r.seq, kept |-> <<>>]
      BY <3>4, PcAndKept
    <3>3. [gen[g] EXCEPT !.pc = "idle", !.kept = <<>>]
            = [up |-> gen[g].up, pc |-> "idle", seq |-> gen[g].seq, kept |-> <<>>]
      BY <3>5 DEF r
    <3> QED
      BY <3>1, <3>3
  <2> QED
    BY <2>1, <2>2, Zenon DEF Moved
<1>7. Kill(g) => Moved(g, FALSE, gen[g].pc, gen[g].seq, gen[g].kept)
  BY <1>1 DEF Kill, Moved, GenRecords
<1> QED
  BY <1>2, <1>3, <1>4, <1>5, <1>6, <1>7

\* A typed change of one generator's record leaves the others as they were, and all typed.
LEMMA MovedFacts ==
  ASSUME StreamTypeOK, NEW g \in Generators, NEW up \in BOOLEAN, NEW pc \in Places,
         NEW seq \in Nat, NEW kept \in Seq(Units), Moved(g, up, pc, seq, kept)
  PROVE  /\ gen'[g].up = up /\ gen'[g].pc = pc /\ gen'[g].seq = seq /\ gen'[g].kept = kept
         /\ \A h \in Generators : h # g => gen'[h] = gen[h]
         /\ seq <= MaxEvents[g] => GenOK'
<1> DEFINE r == [up |-> up, pc |-> pc, seq |-> seq, kept |-> kept]
<1>1. r \in GenRecords /\ r.up = up /\ r.pc = pc /\ r.seq = seq /\ r.kept = kept
  BY DEF GenRecords
<1>2. gen' = [gen EXCEPT ![g] = r] /\ gen \in [Generators -> GenRecords]
      /\ \A h \in Generators : gen[h].seq <= MaxEvents[h]
  BY DEF Moved, StreamTypeOK, GenOK
<1> HIDE DEF r
<1>3. gen'[g] = r /\ gen' \in [Generators -> GenRecords] /\ \A h \in Generators : h # g
        => gen'[h] = gen[h]
  BY <1>1, <1>2
<1>4. ASSUME seq <= MaxEvents[g] PROVE GenOK'
  <2>1. \A h \in Generators : gen'[h].seq <= MaxEvents[h]
    BY <1>1, <1>2, <1>3, <1>4
  <2> QED
    BY <1>3, <2>1 DEF GenOK
<1> QED
  BY <1>1, <1>3, <1>4

\* Of one generator what its type says.
LEMMA GenFacts ==
  ASSUME StreamTypeOK, NEW g \in Generators
  PROVE  /\ gen[g].up \in BOOLEAN /\ gen[g].pc \in Places /\ gen[g].seq \in Nat
         /\ gen[g].kept \in Seq(Units) /\ gen[g].seq <= MaxEvents[g] /\ MaxEvents[g] \in Nat
         /\ (gen[g].seq < MaxEvents[g] => Event(g, gen[g].seq + 1) \in Events)
<1>1. gen[g] \in GenRecords /\ gen[g].seq <= MaxEvents[g] /\ MaxEvents[g] \in Nat
  BY SizesAssumption DEF StreamTypeOK, GenOK
<1>2. gen[g].up \in BOOLEAN /\ gen[g].pc \in Places /\ gen[g].seq \in Nat
        /\ gen[g].kept \in Seq(Units)
  BY <1>1 DEF GenRecords
<1>3. gen[g].seq < MaxEvents[g] => gen[g].seq + 1 \in 1..MaxEvents[g]
  BY <1>1, <1>2
<1> QED
  BY <1>1, <1>2, <1>3, LinesAreLong

\* Every step of a generator, as it leaves the generators.
LEMMA GeneratorsTyped ==
  ASSUME StreamTypeOK, NEW g \in Generators,
         Starts(g) \/ Emit(g) \/ TrimReads(g) \/ Truncate(g) \/ Rewrite(g) \/ RewriteFails(g)
           \/ Kill(g)
  PROVE  GenOK'
<1>1. /\ {"off", "idle", "emit", "trim", "truncate", "rewrite"} \subseteq Places
      /\ "idle" \in Places /\ "truncate" \in Places /\ "rewrite" \in Places
      /\ <<>> \in Seq(Units) /\ file \in Seq(Units) /\ TRUE \in BOOLEAN /\ FALSE \in BOOLEAN
  BY DEF Places, StreamTypeOK, FileOK
<1>2. /\ gen[g].up \in BOOLEAN /\ gen[g].pc \in Places /\ gen[g].seq \in Nat
      /\ gen[g].kept \in Seq(Units) /\ gen[g].seq <= MaxEvents[g] /\ MaxEvents[g] \in Nat
  BY GenFacts
<1>3. CASE Starts(g)
  <2>1. PICK up \in BOOLEAN : Moved(g, up, "idle", gen[g].seq, gen[g].kept)
    BY <1>3, GeneratorMoves, Zenon
  <2> QED
    BY <1>1, <1>2, <2>1, MovedFacts
<1>4. CASE Emit(g)
  <2>1. PICK place \in {"emit", "trim"} : Moved(g, gen[g].up, place, gen[g].seq + 1, gen[g].kept)
    BY <1>4, GeneratorMoves
  <2>2. gen[g].seq < MaxEvents[g]
    BY <1>4 DEF Emit
  <2>3. gen[g].seq + 1 \in Nat /\ gen[g].seq + 1 <= MaxEvents[g] /\ place \in Places
    BY <1>1, <1>2, <2>2
  <2> QED
    BY <1>2, <2>1, <2>3, MovedFacts
<1>5. CASE TrimReads(g)
  <2>1. Kept(file) \in Seq(Units)
    BY <1>1, KeptIsFile
  <2>2. CASE Kept(file) = file
    <3>1. Moved(g, gen[g].up, "idle", gen[g].seq, gen[g].kept)
      BY <1>5, <2>2, GeneratorMoves
    <3> QED
      BY <1>1, <1>2, <3>1, MovedFacts
  <2>3. CASE Kept(file) # file
    <3>1. Moved(g, gen[g].up, "truncate", gen[g].seq, Kept(file))
      BY <1>5, <2>3, GeneratorMoves
    <3> QED
      BY <1>1, <1>2, <2>1, <3>1, MovedFacts
  <2> QED
    BY <2>2, <2>3
<1>6. CASE Truncate(g)
  <2>1. Moved(g, gen[g].up, "rewrite", gen[g].seq, gen[g].kept)
    BY <1>6, GeneratorMoves
  <2> QED
    BY <1>1, <1>2, <2>1, MovedFacts
<1>7. CASE Rewrite(g) \/ RewriteFails(g)
  <2>1. PICK kept \in Seq(Units) : Moved(g, gen[g].up, "idle", gen[g].seq, kept)
    BY <1>1, <1>7, GeneratorMoves, Zenon
  <2> QED
    BY <1>1, <1>2, <2>1, MovedFacts
<1>8. CASE Kill(g)
  <2>1. PICK up \in BOOLEAN : Moved(g, up, gen[g].pc, gen[g].seq, gen[g].kept)
    BY <1>8, GeneratorMoves, Zenon
  <2> QED
    BY <1>1, <1>2, <2>1, MovedFacts
<1> QED
  BY <1>3, <1>4, <1>5, <1>6, <1>7, <1>8

\* Every step of a generator, as it leaves the file, the history and the connection.
LEMMA FilesTyped ==
  ASSUME StreamTypeOK, NEW g \in Generators,
         StartGenerator(g) \/ Emit(g) \/ TrimReads(g) \/ Truncate(g) \/ Rewrite(g)
           \/ RewriteFails(g) \/ Kill(g)
  PROVE  FileOK' /\ FlagsOK' /\ UNCHANGED feed
<1>1. file \in Seq(Units) /\ written \in Seq(Events) /\ gen[g].kept \in Seq(Units)
  BY GenFacts DEF StreamTypeOK, FileOK
<1>0. attempted \in BOOLEAN /\ alone \in BOOLEAN /\ lost \in BOOLEAN
  BY DEF StreamTypeOK, FlagsOK
<1>2. CASE StartGenerator(g)
  <2>1. /\ UNCHANGED <<file, written, lost, attempted, feed>>
        /\ alone' = (alone /\ Running = {})
    BY <1>2 DEF StartGenerator, Starts
  <2> QED
    BY <1>0, <1>1, <2>1 DEF FileOK, FlagsOK
<1>3. CASE Emit(g)
  <2> DEFINE e == Event(g, gen[g].seq + 1)
  <2>1. /\ file' = file \o LineOf(e) /\ written' = Append(written, e) /\ gen[g].seq < MaxEvents[g]
        /\ UNCHANGED <<attempted, feed, alone, lost>>
    BY <1>3, Zenon DEF Emit
  <2>2. e \in Events
    BY <2>1, GenFacts
  <2> HIDE DEF e
  <2>3. LineOf(e) \in Seq(Units)
    BY <2>2, LineFits
  <2> QED
    BY <1>0, <1>1, <2>1, <2>2, <2>3 DEF FileOK, FlagsOK
<1>4. CASE TrimReads(g)
  BY <1>0, <1>1, <1>4 DEF TrimReads, FileOK, FlagsOK
<1>5. CASE Truncate(g)
  BY <1>0, <1>1, <1>5 DEF Truncate, FileOK, FlagsOK
<1>6. CASE Rewrite(g)
  <2>1. /\ file' = gen[g].kept \o SubSeq(file, Len(gen[g].kept) + 1, Len(file))
        /\ UNCHANGED <<attempted, feed, written, alone, lost>>
    BY <1>6, Zenon DEF Rewrite
  <2>2. file' \in Seq(Units)
    BY <1>1, <2>1, OverwrittenIsFile
  <2> QED
    BY <1>0, <1>1, <2>1, <2>2 DEF FileOK, FlagsOK
<1>7. CASE RewriteFails(g)
  BY <1>0, <1>1, <1>7 DEF RewriteFails, FileOK, FlagsOK
<1>8. CASE Kill(g)
  BY <1>0, <1>1, <1>8 DEF Kill, FileOK, FlagsOK
<1> QED
  BY <1>2, <1>3, <1>4, <1>5, <1>6, <1>7, <1>8

\* What the dashboard's steps do to the connection.
LEMMA FeedTyped ==
  ASSUME StreamTypeOK, Opens \/ PollSize \/ PollRead \/ Leave
  PROVE  FeedOK'
<1>0. /\ reader \in {Null} \union [pos : Nat, size : Nat \union {Null}]
      /\ reader = Null => delivered = <<>>
      /\ reader # Null => (reader.size # Null => reader.pos < reader.size)
      /\ delivered \in Seq(Events) /\ spied \in BOOLEAN /\ Len(file) \in Nat
  BY DEF StreamTypeOK, FeedOK, FileOK
<1>1. CASE Opens
  <2>1. /\ reader = Null /\ reader' = [pos |-> Len(file), size |-> Null]
        /\ spied' = (Rewriting # {}) /\ delivered' = delivered
    BY <1>1 DEF Opens
  <2>2. spied' \in BOOLEAN /\ reader'.size = Null /\ reader' \in [pos : Nat,
          size : Nat \union {Null}]
    BY <1>0, <2>1
  <2> QED
    BY <1>0, <2>1, <2>2 DEF FeedOK
<1>2. CASE PollSize
  <2>1. /\ reader # Null /\ reader.size = Null /\ reader.pos # Len(file)
        /\ reader' = IF Len(file) < reader.pos THEN [reader EXCEPT !.pos = Len(file)]
                                              ELSE [reader EXCEPT !.size = Len(file)]
        /\ spied' = (spied \/ Rewriting # {}) /\ delivered' = delivered
    BY <1>2 DEF PollSize
  <2>2. spied' \in BOOLEAN
    BY <2>1
  <2>3. reader \in [pos : Nat, size : Nat \union {Null}] /\ reader.pos \in Nat
    BY <1>0, <2>1
  <2>4. Null \notin [pos : Nat, size : Nat \union {Null}]
    BY SizesAssumption
  <2>5. CASE Len(file) < reader.pos
    <3>1. reader' = [reader EXCEPT !.pos = Len(file)]
      BY <2>1, <2>5
    <3>2. reader' \in [pos : Nat, size : Nat \union {Null}] /\ reader'.size = Null
      BY <1>0, <2>1, <2>3, <3>1
    <3> QED
      BY <1>0, <2>1, <2>2, <2>4, <3>2 DEF FeedOK
  <2>6. CASE ~(Len(file) < reader.pos)
    <3>1. reader' = [reader EXCEPT !.size = Len(file)]
      BY <2>1, <2>6
    <3>2. /\ reader' \in [pos : Nat, size : Nat \union {Null}]
          /\ reader'.size = Len(file) /\ reader'.pos = reader.pos
      BY <1>0, <2>1, <2>3, <3>1
    <3>3. reader'.pos < reader'.size
      BY <1>0, <2>1, <2>3, <2>6, <3>2
    <3> QED
      BY <1>0, <2>1, <2>2, <2>4, <3>2, <3>3 DEF FeedOK
  <2> QED
    BY <2>5, <2>6
<1>3. CASE PollRead
  <2>1. /\ reader # Null /\ reader.size # Null
        /\ delivered' = delivered \o Parsed(Between(reader.pos, reader.size))
        /\ reader' = [pos |-> reader.size, size |-> Null] /\ spied' = spied
    BY <1>3 DEF PollRead
  <2>2. reader.pos \in Nat /\ reader.size \in Nat
    BY <1>0, <2>1
  <2>3. Between(reader.pos, reader.size) \in Seq(Units)
    BY <2>2, BetweenIsWindow
  <2>4. Parsed(Between(reader.pos, reader.size)) \in Seq(Events)
    BY <2>3, ParsedRange
  <2>5. delivered' \in Seq(Events)
    BY <1>0, <2>1, <2>4
  <2>6. reader' \in [pos : Nat, size : Nat \union {Null}] /\ reader'.size = Null
    BY <2>1, <2>2
  <2>7. reader' # Null
    BY <2>6, SizesAssumption
  <2> QED
    BY <1>0, <2>1, <2>5, <2>6, <2>7 DEF FeedOK
<1>4. CASE Leave
  <2>1. reader' = Null /\ delivered' = <<>> /\ spied' = FALSE
    BY <1>4 DEF Leave
  <2>3. <<>> \in Seq(Events) /\ FALSE \in BOOLEAN
    OBVIOUS
  <2>2. delivered' \in Seq(Events) /\ spied' \in BOOLEAN
    BY <2>1, <2>3, Zenon
  <2> QED
    BY <2>1, <2>2 DEF FeedOK
<1> QED
  BY <1>1, <1>2, <1>3, <1>4

\* No step leaves the types.
LEMMA StreamTypeStep ==
  ASSUME StreamTypeOK, [StreamNext]_streamVars
  PROVE  StreamTypeOK'
<1>0. GenOK /\ FileOK /\ FeedOK /\ FlagsOK
  BY DEF StreamTypeOK
<1>1. ASSUME NEW g \in Generators,
             StartGenerator(g) \/ Emit(g) \/ TrimReads(g) \/ Truncate(g) \/ Rewrite(g)
               \/ RewriteFails(g) \/ Kill(g)
      PROVE  StreamTypeOK'
  <2>1. GenOK'
    BY <1>1, GeneratorsTyped DEF StartGenerator
  <2>2. FileOK' /\ FlagsOK' /\ UNCHANGED feed
    BY <1>1, FilesTyped
  <2>3. FeedOK'
    BY <1>0, <2>2 DEF FeedOK, feed
  <2> QED
    BY <2>1, <2>2, <2>3 DEF StreamTypeOK
<1>2. CASE Connect
  <2>1. Opens /\ UNCHANGED <<gen, attempted, alone>> /\ UNCHANGED <<file, written, lost>>
    BY <1>2 DEF Connect, Opens
  <2> QED
    BY <1>0, <2>1, FeedTyped DEF StreamTypeOK, GenOK, FileOK, FlagsOK
<1>3. CASE ConnectAndSpawn
  <2>1. Opens /\ attempted' = TRUE /\ UNCHANGED <<file, written, lost>>
    BY <1>3 DEF ConnectAndSpawn, Opens
  <2>2. FeedOK' /\ FileOK'
    BY <1>0, <2>1, FeedTyped DEF FileOK
  <2>3. CASE \E g \in Generators : Starts(g)
    <3>1. PICK g \in Generators : Starts(g)
      BY <2>3
    <3>2. GenOK'
      BY <3>1, GeneratorsTyped
    <3>3. alone' \in BOOLEAN
      BY <3>1 DEF Starts
    <3> QED
      BY <1>0, <2>1, <2>2, <3>2, <3>3 DEF StreamTypeOK, FlagsOK
  <2>4. CASE UNCHANGED <<gen, alone>>
    BY <1>0, <2>1, <2>2, <2>4 DEF StreamTypeOK, GenOK, FlagsOK
  <2> QED
    BY <1>3, <2>3, <2>4 DEF ConnectAndSpawn
<1>4. CASE PollSize \/ PollRead \/ Leave
  <2>1. UNCHANGED <<gen, attempted, file, written, alone, lost>>
    BY <1>4 DEF PollSize, PollRead, Leave
  <2> QED
    BY <1>0, <1>4, <2>1, FeedTyped DEF StreamTypeOK, GenOK, FileOK, FlagsOK
<1>5. CASE UNCHANGED streamVars
  BY <1>0, <1>5 DEF streamVars, feed, StreamTypeOK, GenOK, FileOK, FeedOK, FlagsOK
<1> QED
  BY <1>1, <1>2, <1>3, <1>4, <1>5 DEF StreamNext

\* The stream's variables keep their types.
THEOREM StreamTypeCorrect == StreamSpec => []StreamTypeOK
<1> QED
  BY StreamTypeInit, StreamTypeStep, PTL DEF StreamSpec

-----------------------------------------------------------------------------
(***************************************************************************)
(* No event is written twice.                                              *)
(***************************************************************************)
\* Every event in the file's history is one its generator's log has, and is there once.
Fresh ==
  /\ \A k \in 1..Len(written) : written[k].seq <= gen[written[k].gen].seq
  /\ \A j, k \in 1..Len(written) : written[j] = written[k] => j = k

\* What a step does to the history.
LEMMA HistoryMoves ==
  ASSUME StreamTypeOK, [StreamNext]_streamVars
  PROVE  /\ \A h \in Generators : gen[h].seq <= gen'[h].seq
         /\ \/ written' = written
            \/ \E g \in Generators : /\ written' = Append(written, Event(g, gen[g].seq + 1))
                                     /\ Event(g, gen[g].seq + 1) \in Events
                                     /\ gen'[g].seq = gen[g].seq + 1
<1>0. \A h \in Generators : gen[h].seq \in Nat
  BY GenFacts
<1>1. ASSUME NEW g \in Generators, NEW up, NEW pc, NEW kept, Moved(g, up, pc, gen[g].seq, kept)
      PROVE  \A h \in Generators : gen[h].seq <= gen'[h].seq
  <2> DEFINE r == [up |-> up, pc |-> pc, seq |-> gen[g].seq, kept |-> kept]
  <2>1. r.seq = gen[g].seq
    OBVIOUS
  <2>2. gen' = [gen EXCEPT ![g] = r] /\ DOMAIN gen = Generators
    BY <1>1 DEF Moved, StreamTypeOK, GenOK
  <2> HIDE DEF r
  <2>3. \A h \in Generators : gen'[h].seq = gen[h].seq
    BY <2>1, <2>2
  <2> QED
    BY <1>0, <2>3
<1>2. ASSUME NEW g \in Generators, Starts(g)
      PROVE  \A h \in Generators : gen[h].seq <= gen'[h].seq
  <2>1. PICK up \in BOOLEAN : Moved(g, up, "idle", gen[g].seq, gen[g].kept)
    BY <1>2, GeneratorMoves, Zenon
  <2> QED
    BY <1>1, <2>1
<1>3. ASSUME NEW g \in Generators, Emit(g)
      PROVE  /\ \A h \in Generators : gen[h].seq <= gen'[h].seq
             /\ written' = Append(written, Event(g, gen[g].seq + 1))
             /\ Event(g, gen[g].seq + 1) \in Events
             /\ gen'[g].seq = gen[g].seq + 1
  <2>1. PICK place \in {"emit", "trim"} : Moved(g, gen[g].up, place, gen[g].seq + 1, gen[g].kept)
    BY <1>3, GeneratorMoves
  <2>2. gen[g].seq < MaxEvents[g] /\ written' = Append(written, Event(g, gen[g].seq + 1))
    BY <1>3 DEF Emit
  <2>3. /\ gen[g].up \in BOOLEAN /\ gen[g].kept \in Seq(Units) /\ gen[g].seq + 1 \in Nat
        /\ Event(g, gen[g].seq + 1) \in Events
    BY <2>2, GenFacts
  <2>4. place \in Places
    BY DEF Places
  <2>5. gen'[g].seq = gen[g].seq + 1 /\ \A h \in Generators : h # g => gen'[h] = gen[h]
    BY <2>1, <2>3, <2>4, MovedFacts
  <2> QED
    BY <1>0, <2>2, <2>3, <2>5
<1>4. ASSUME NEW g \in Generators, TrimReads(g) \/ Truncate(g) \/ Rewrite(g) \/ RewriteFails(g)
               \/ Kill(g)
      PROVE  (\A h \in Generators : gen[h].seq <= gen'[h].seq) /\ written' = written
  <2>1. written' = written
    BY <1>4 DEF TrimReads, Truncate, Rewrite, RewriteFails, Kill
  <2>2. \E up, pc, kept : Moved(g, up, pc, gen[g].seq, kept)
    BY <1>4, GeneratorMoves, Zenon
  <2> QED
    BY <1>1, <2>1, <2>2
<1>5. CASE UNCHANGED <<gen, written>>
  BY <1>0, <1>5
<1>6. ASSUME NEW g \in Generators, StartGenerator(g)
      PROVE  (\A h \in Generators : gen[h].seq <= gen'[h].seq) /\ written' = written
  BY <1>2, <1>6 DEF StartGenerator
<1>7. CASE ConnectAndSpawn
  <2>1. written' = written /\ ((\E g \in Generators : Starts(g)) \/ gen' = gen)
    BY <1>7 DEF ConnectAndSpawn, Opens
  <2> QED
    BY <1>2, <1>5, <2>1
<1>8. Connect \/ PollSize \/ PollRead \/ Leave \/ UNCHANGED streamVars => UNCHANGED <<gen, written>>
  BY DEF Connect, Opens, PollSize, PollRead, Leave, streamVars
<1> QED
  BY <1>3, <1>4, <1>5, <1>6, <1>7, <1>8 DEF StreamNext

\* No step writes an event twice: emit takes the log's next entry.
LEMMA FreshStep ==
  ASSUME StreamTypeOK, Fresh, [StreamNext]_streamVars
  PROVE  Fresh'
<1>1. \A h \in Generators : gen[h].seq <= gen'[h].seq /\ gen[h].seq \in Nat /\ gen'[h].seq \in Nat
  <2>1. StreamTypeOK'
    BY StreamTypeStep
  <2>2. \A h \in Generators : gen'[h].seq \in Nat
    BY <2>1 DEF StreamTypeOK, GenOK, GenRecords
  <2> QED
    BY <2>2, GenFacts, HistoryMoves
<1>2. /\ written \in Seq(Events) /\ Len(written) \in Nat
      /\ \A k \in 1..Len(written) : written[k] \in Events /\ written[k].gen \in Generators
           /\ written[k].seq \in Nat
  <2>1. written \in Seq(Events)
    BY DEF StreamTypeOK, FileOK
  <2> QED
    BY <2>1 DEF Events
<1>3. CASE written' = written
  <2>1. ASSUME NEW k \in 1..Len(written) PROVE written[k].seq <= gen'[written[k].gen].seq
    <3>1. written[k].seq <= gen[written[k].gen].seq
      BY DEF Fresh
    <3> QED
      BY <1>1, <1>2, <3>1
  <2> QED
    BY <1>3, <2>1 DEF Fresh
<1>4. CASE \E g \in Generators : /\ written' = Append(written, Event(g, gen[g].seq + 1))
                                 /\ Event(g, gen[g].seq + 1) \in Events
                                 /\ gen'[g].seq = gen[g].seq + 1
  <2>1. PICK g \in Generators : /\ written' = Append(written, Event(g, gen[g].seq + 1))
                                /\ Event(g, gen[g].seq + 1) \in Events
                                /\ gen'[g].seq = gen[g].seq + 1
    BY <1>4
  <2> DEFINE e == Event(g, gen[g].seq + 1)
             n == Len(written)
  <2>2. e.gen = g /\ e.seq = gen[g].seq + 1 /\ e \in Events
    BY <2>1 DEF Event
  <2>3. written' = Append(written, e) /\ n \in Nat
    BY <1>2, <2>1
  <2> HIDE DEF e
  <2>4. /\ Len(written') = n + 1 /\ written'[n + 1] = e /\ \A k \in 1..n : written'[k] = written[k]
    BY <1>2, <2>2, <2>3
  <2>5. ASSUME NEW k \in 1..n
        PROVE  written[k].seq <= gen'[written[k].gen].seq /\ written[k] # e
    <3>1. written[k].seq <= gen[written[k].gen].seq
      BY DEF Fresh
    <3>2. written[k].seq <= gen'[written[k].gen].seq
      BY <1>1, <1>2, <3>1
    <3>3. ASSUME written[k] = e PROVE FALSE
      <4>1. gen[g].seq + 1 <= gen[g].seq /\ gen[g].seq \in Nat
        BY <1>1, <2>2, <3>1, <3>3
      <4> QED
        BY <4>1
    <3> QED
      BY <3>2, <3>3
  <2>6. ASSUME NEW k \in 1..(n + 1) PROVE written'[k].seq <= gen'[written'[k].gen].seq
    <3>1. CASE k = n + 1
      BY <1>1, <2>1, <2>2, <2>4, <3>1
    <3>2. CASE k # n + 1
      BY <2>3, <2>4, <2>5, <3>2
    <3> QED
      BY <3>1, <3>2
  <2>7. ASSUME NEW j \in 1..(n + 1), NEW k \in 1..(n + 1), written'[j] = written'[k] PROVE j = k
    <3>1. (j = n + 1 \/ j \in 1..n) /\ (k = n + 1 \/ k \in 1..n)
      BY <2>3
    <3>2. CASE j \in 1..n /\ k \in 1..n
      BY <2>4, <2>7, <3>2 DEF Fresh
    <3> QED
      BY <2>4, <2>5, <2>7, <3>1, <3>2
  <2> HIDE DEF n
  <2> QED
    BY <2>4, <2>6, <2>7 DEF Fresh
<1> QED
  BY <1>3, <1>4, HistoryMoves

\* Nothing is written at first.
LEMMA FreshInit == StreamInit => Fresh
<1>1. ASSUME StreamInit PROVE written = <<>> /\ Len(written) = 0
  BY <1>1 DEF StreamInit
<1> QED
  BY <1>1 DEF Fresh

-----------------------------------------------------------------------------
(***************************************************************************)
(* The file is the tail of the history, while one generator runs.          *)
(***************************************************************************)
\* No two generators run.
OneRuns == \A g, h \in Running : g = h

\* No tick is under way.
Quiet == \A g \in Generators : gen[g].pc \in {"off", "idle"}

\* off being where the lines of the history end, the file holds its events behind the first b,
\* unless it is being rewritten, when it is empty,
TailFile(off, b) ==
  IF Rewriting = {} THEN Holds(file, written, off, b, Len(written)) ELSE file = <<>>

\* trim has kept the last Cap,
TailKept(off, b) ==
  \A g \in Running : gen[g].pc \in {"truncate", "rewrite"} =>
    /\ Len(written) - Cap \in b..Len(written)
    /\ Holds(gen[g].kept, written, off, Len(written) - Cap, Len(written))

\* and the file was cut where trim would cut it.
TailLength(b) ==
  /\ b \in 0..Len(written)
  /\ ~lost => b = 0 \/ b + Cap <= Len(written)
  /\ Quiet => Len(written) - b <= Cap

\* All of this.
TailOf(off, b) ==
  Offsets(off, written, Len(written)) /\ TailFile(off, b) /\ TailKept(off, b) /\ TailLength(b)

\* After a step the file may begin later, and where the lines end is known of some more.
Carries(off, b, off2, b2) == Extended(off, off2, Len(written)) /\ off[b] <= off2[b2]

\* Some such places exist after a step.
TailStep(off, b) == \E off2, b2 : TailOf(off2, b2)' /\ Carries(off, b, off2, b2)

\* With one generator running, its step decides who runs and who rewrites.
LEMMA SoloFacts ==
  ASSUME OneRuns, NEW g \in Generators, gen[g].up \/ Running = {},
         \A h \in Generators : h # g => gen'[h] = gen[h]
  PROVE  /\ OneRuns' /\ (\A h \in Running : h = g) /\ \A h \in Running' : h = g
         /\ Rewriting' = {} <=> ~(gen'[g].up /\ gen'[g].pc = "rewrite")
         /\ Rewriting = {} <=> ~(gen[g].up /\ gen[g].pc = "rewrite")
<1>1. \A h \in Running : h = g
  BY DEF OneRuns, Running
<1>2. \A h \in Running' : h = g
  BY <1>1 DEF Running
<1>3. g \in Running' <=> gen'[g].up
  BY DEF Running
<1>4. g \in Running <=> gen[g].up
  BY DEF Running
<1> QED
  BY <1>1, <1>2, <1>3, <1>4 DEF OneRuns, Rewriting

\* What is typed of the history.
LEMMA HistoryFacts ==
  ASSUME StreamTypeOK
  PROVE  /\ Len(written) \in Nat /\ written \in Seq(Events) /\ Cap \in Nat /\ file \in Seq(Units)
         /\ Len(file) \in Nat
<1>1. written \in Seq(Events) /\ file \in Seq(Units) /\ Cap \in Nat
  BY SizesAssumption DEF StreamTypeOK, FileOK
<1> QED
  BY <1>1

\* A file that begins later, with the same history.
LEMMA CarriesOn ==
  ASSUME StreamTypeOK, NEW off, NEW b, Offsets(off, written, Len(written)), b \in 0..Len(written),
         NEW b2 \in b..Len(written)
  PROVE  Carries(off, b, off, b2)
<1>1. Len(written) \in Nat
  BY HistoryFacts
<1>2. b2 \in 0..Len(written) /\ b <= b2
  BY <1>1
<1> QED
  BY <1>2, OffsetFacts DEF Carries, Extended

\* A generator that starts alone finds the file as the last one left it.
LEMMA StartsTail ==
  ASSUME StreamTypeOK, OneRuns, NEW off, NEW b, TailOf(off, b),
         NEW g \in Generators, Starts(g), alone', UNCHANGED <<file, written, lost>>
  PROVE  OneRuns' /\ TailStep(off, b)
<1>1. PICK up \in BOOLEAN : up = TRUE /\ Moved(g, up, "idle", gen[g].seq, gen[g].kept)
  BY GeneratorMoves, Zenon
<1>2. gen[g].pc = "off" /\ Running = {}
  BY DEF Starts
<1>3. gen[g].seq \in Nat /\ gen[g].kept \in Seq(Units) /\ "idle" \in Places
  BY GenFacts DEF Places
<1>4. gen'[g].up = up /\ gen'[g].pc = "idle" /\ \A h \in Generators : h # g => gen'[h] = gen[h]
  <2>1. PICK pc \in Places, seq \in Nat, kept \in Seq(Units) :
          pc = "idle" /\ seq = gen[g].seq /\ kept = gen[g].kept
    BY <1>3
  <2>2. Moved(g, up, pc, seq, kept)
    BY <1>1, <2>1
  <2>3. gen'[g].up = up /\ gen'[g].pc = pc /\ \A h \in Generators : h # g => gen'[h] = gen[h]
    BY <2>2, MovedFacts
  <2> QED
    BY <2>1, <2>3
<1>13. Rewriting = {}
  BY <1>2 DEF Rewriting
<1>14. ~(gen'[g].up /\ gen'[g].pc = "rewrite")
  BY <1>4
<1>5. OneRuns' /\ (\A h \in Running' : h = g) /\ Rewriting' = {} /\ Rewriting = {}
  BY <1>2, <1>4, <1>13, <1>14, SoloFacts
<1>6. Offsets(off, written, Len(written)) /\ TailFile(off, b) /\ TailLength(b)
        /\ b \in 0..Len(written)
  BY DEF TailOf, TailLength
<1>7. TailFile(off, b)'
  BY <1>5, <1>6 DEF TailFile
<1>8. TailKept(off, b)'
  BY <1>4, <1>5 DEF TailKept
<1>9. Quiet' => Quiet
  BY <1>2, <1>4 DEF Quiet
<1>10. TailLength(b)'
  BY <1>6, <1>9 DEF TailLength
<1>11. TailOf(off, b)'
  BY <1>6, <1>7, <1>8, <1>10 DEF TailOf
<1>12. Carries(off, b, off, b)
  <2>1. b \in b..Len(written)
    BY <1>6, HistoryFacts
  <2> QED
    BY <1>6, <2>1, CarriesOn
<1> QED
  BY <1>5, <1>11, <1>12 DEF TailStep

\* emit appends a line at the end of the file.
LEMMA EmitTail ==
  ASSUME StreamTypeOK, OneRuns, NEW off, NEW b, TailOf(off, b), NEW g \in Generators, Emit(g)
  PROVE  OneRuns' /\ TailStep(off, b)
<1> DEFINE e == Event(g, gen[g].seq + 1)
           n == Len(written)
<1>1. /\ gen[g].up /\ gen[g].pc \in {"idle", "emit"} /\ gen[g].seq < MaxEvents[g]
      /\ file' = file \o LineOf(e) /\ written' = Append(written, e) /\ lost' = lost
  BY DEF Emit
<1>2. e \in Events
  BY <1>1, GenFacts
<1>3. PICK place \in {"emit", "trim"} : Moved(g, gen[g].up, place, gen[g].seq + 1, gen[g].kept)
  BY GeneratorMoves
<1>4. /\ gen[g].up \in BOOLEAN /\ gen[g].seq + 1 \in Nat /\ gen[g].kept \in Seq(Units)
      /\ place \in Places
  BY GenFacts DEF Places
<1>5. gen'[g].up = gen[g].up /\ gen'[g].pc = place /\ \A h \in Generators : h # g
        => gen'[h] = gen[h]
  BY <1>3, <1>4, MovedFacts
<1>6. OneRuns' /\ (\A h \in Running' : h = g) /\ Rewriting' = {} /\ Rewriting = {}
  BY <1>1, <1>5, SoloFacts
<1>7. Offsets(off, written, n) /\ Holds(file, written, off, b, n) /\ TailLength(b)
      /\ b \in 0..n
  BY <1>6 DEF TailOf, TailFile, TailLength
<1>8. n \in Nat /\ Cap \in Nat /\ written \in Seq(Events)
  BY HistoryFacts
<1> HIDE DEF e
<1>9. Len(written') = n + 1
  BY <1>1, <1>2, <1>8
<1>10. PICK off2 : Offsets(off2, Append(written, e), n + 1) /\ Extended(off, off2, n)
  BY <1>2, <1>7, AppendOffsets
<1>11. Holds(file \o LineOf(e), Append(written, e), off2, b, n + 1)
  BY <1>2, <1>7, <1>10, AppendHolds
<1>12. Offsets(off2, written', Len(written')) /\ Holds(file', written', off2, b, Len(written'))
  BY <1>1, <1>9, <1>10, <1>11
<1>13. TailFile(off2, b)'
  BY <1>6, <1>12 DEF TailFile
<1>14. TailKept(off2, b)'
  BY <1>5, <1>6 DEF TailKept
<1>15. ~Quiet'
  BY <1>5 DEF Quiet
<1>16. TailLength(b)'
  <2>1. b \in 0..(n + 1) /\ (~lost' => b = 0 \/ b + Cap <= n + 1)
    BY <1>1, <1>7, <1>8 DEF TailLength
  <2> QED
    BY <1>9, <1>15, <2>1 DEF TailLength
<1>17. TailOf(off2, b)'
  BY <1>12, <1>13, <1>14, <1>16 DEF TailOf
<1>18. off[b] <= off2[b]
  BY <1>7, <1>10, OffsetFacts DEF Extended
<1> QED
  BY <1>6, <1>10, <1>17, <1>18 DEF TailStep, Carries

\* trim keeps the last Cap lines, or is done.
LEMMA TrimTail ==
  ASSUME StreamTypeOK, OneRuns, NEW off, NEW b, TailOf(off, b), NEW g \in Generators, TrimReads(g)
  PROVE  OneRuns' /\ TailStep(off, b)
<1> DEFINE n == Len(written)
<1>1. gen[g].up /\ gen[g].pc = "trim" /\ UNCHANGED <<file, written, lost>>
  BY DEF TrimReads
<1>2. PICK pc \in Places, kept \in Seq(Units) :
        /\ Moved(g, gen[g].up, pc, gen[g].seq, kept)
        /\ (Kept(file) = file /\ pc = "idle") \/ (Kept(file) # file /\ pc = "truncate"
             /\ kept = Kept(file))
  <2>1. "idle" \in Places /\ "truncate" \in Places /\ gen[g].kept \in Seq(Units)
          /\ Kept(file) \in Seq(Units)
    BY GenFacts, KeptIsFile DEF Places, StreamTypeOK, FileOK
  <2> QED
    BY <2>1, GeneratorMoves
<1>3. gen[g].up \in BOOLEAN /\ gen[g].seq \in Nat
  BY GenFacts
<1>4. /\ gen'[g].up = gen[g].up /\ gen'[g].pc = pc /\ gen'[g].kept = kept
      /\ \A h \in Generators : h # g => gen'[h] = gen[h]
  BY <1>2, <1>3, MovedFacts
<1>5. OneRuns' /\ (\A h \in Running' : h = g) /\ Rewriting' = {} /\ Rewriting = {}
  BY <1>1, <1>2, <1>4, SoloFacts
<1>6. Offsets(off, written, n) /\ Holds(file, written, off, b, n) /\ TailLength(b) /\ b \in 0..n
  BY <1>5 DEF TailOf, TailFile, TailLength
<1>7. n \in Nat /\ Cap \in Nat
  BY HistoryFacts
<1>8. TailFile(off, b)'
  BY <1>1, <1>5, <1>6 DEF TailFile
<1>9. /\ n - b > Cap => /\ n - Cap \in (b + 1)..n
                        /\ Holds(Kept(file), written, off, n - Cap, n)
                        /\ Kept(file) # file
      /\ n - b <= Cap => Kept(file) = file
  BY <1>6, KeptHolds
<1>10. TailKept(off, b)'
  <2>1. CASE pc = "idle"
    BY <1>4, <1>5, <2>1 DEF TailKept
  <2>2. CASE pc = "truncate"
    <3>1. kept = Kept(file) /\ Kept(file) # file
      BY <1>2, <2>2
    <3>2. n - b > Cap
      BY <1>6, <1>7, <1>9, <3>1
    <3>3. n - Cap \in b..n /\ Holds(kept, written, off, n - Cap, n)
      BY <1>6, <1>7, <1>9, <3>1, <3>2
    <3> QED
      BY <1>1, <1>4, <1>5, <3>3 DEF TailKept
  <2> QED
    BY <1>2, <2>1, <2>2
<1>11. Quiet' => n - b <= Cap
  <2>1. ASSUME Quiet' PROVE n - b <= Cap
    <3>1. pc = "idle"
      BY <1>2, <1>4, <2>1 DEF Quiet
    <3>2. Kept(file) = file
      BY <1>2, <3>1
    <3> QED
      BY <1>6, <1>7, <1>9, <3>2
  <2> QED
    BY <2>1
<1>12. TailLength(b)'
  BY <1>1, <1>6, <1>11 DEF TailLength
<1>13. TailOf(off, b)'
  BY <1>1, <1>6, <1>8, <1>10, <1>12 DEF TailOf
<1>14. Carries(off, b, off, b)
  <2>1. b \in b..Len(written)
    BY <1>6, HistoryFacts
  <2> QED
    BY <1>6, <2>1, CarriesOn
<1> QED
  BY <1>5, <1>13, <1>14 DEF TailStep

\* writeFileSync empties the file, and what was kept is all of its last Cap lines.
LEMMA TruncateTail ==
  ASSUME StreamTypeOK, OneRuns, NEW off, NEW b, TailOf(off, b), NEW g \in Generators, Truncate(g)
  PROVE  OneRuns' /\ TailStep(off, b)
<1> DEFINE n == Len(written)
<1>1. gen[g].up /\ gen[g].pc = "truncate" /\ file' = <<>> /\ UNCHANGED <<written, lost>>
  BY DEF Truncate
<1>2. Moved(g, gen[g].up, "rewrite", gen[g].seq, gen[g].kept)
  BY GeneratorMoves
<1>3. gen[g].up \in BOOLEAN /\ gen[g].seq \in Nat /\ gen[g].kept \in Seq(Units)
        /\ "rewrite" \in Places
  BY GenFacts DEF Places
<1>4. /\ gen'[g].up = gen[g].up /\ gen'[g].pc = "rewrite" /\ gen'[g].kept = gen[g].kept
      /\ \A h \in Generators : h # g => gen'[h] = gen[h]
  BY <1>2, <1>3, MovedFacts
<1>5. OneRuns' /\ (\A h \in Running' : h = g) /\ Rewriting' # {} /\ g \in Running
  BY <1>1, <1>4, SoloFacts DEF Running
<1>6. Offsets(off, written, n) /\ TailKept(off, b) /\ TailLength(b) /\ b \in 0..n
  BY DEF TailOf, TailLength
<1>7. n - Cap \in b..n /\ Holds(gen[g].kept, written, off, n - Cap, n)
  BY <1>1, <1>5, <1>6 DEF TailKept
<1>8. TailFile(off, b)'
  BY <1>1, <1>5 DEF TailFile
<1>9. TailKept(off, b)'
  BY <1>1, <1>4, <1>5, <1>7 DEF TailKept
<1>10. ~Quiet'
  BY <1>4 DEF Quiet
<1>11. TailLength(b)'
  BY <1>1, <1>6, <1>10 DEF TailLength
<1>12. TailOf(off, b)'
  BY <1>1, <1>6, <1>8, <1>9, <1>11 DEF TailOf
<1>13. Carries(off, b, off, b)
  <2>1. b \in b..Len(written)
    BY <1>6, HistoryFacts
  <2> QED
    BY <1>6, <2>1, CarriesOn
<1> QED
  BY <1>5, <1>12, <1>13 DEF TailStep

\* The write puts back what was kept, so that the file begins later.
LEMMA RewriteTail ==
  ASSUME StreamTypeOK, OneRuns, NEW off, NEW b, TailOf(off, b), NEW g \in Generators, Rewrite(g)
  PROVE  OneRuns' /\ TailStep(off, b)
<1> DEFINE n == Len(written)
<1>0. PICK b2 : b2 = n - Cap
  OBVIOUS
<1>1. /\ g \in Rewriting /\ UNCHANGED <<written, lost>>
      /\ file' = gen[g].kept \o SubSeq(file, Len(gen[g].kept) + 1, Len(file))
  BY DEF Rewrite
<1>2. PICK kept \in Seq(Units) : Moved(g, gen[g].up, "idle", gen[g].seq, kept)
  <2>1. <<>> \in Seq(Units)
    OBVIOUS
  <2> QED
    BY <2>1, GeneratorMoves, Zenon
<1>3. gen[g].up \in BOOLEAN /\ gen[g].seq \in Nat /\ gen[g].kept \in Seq(Units) /\ "idle" \in Places
  BY GenFacts DEF Places
<1>4. /\ gen'[g].up = gen[g].up /\ gen'[g].pc = "idle"
      /\ \A h \in Generators : h # g => gen'[h] = gen[h]
  BY <1>2, <1>3, MovedFacts
<1>5. gen[g].up /\ gen[g].pc = "rewrite" /\ g \in Running
  BY <1>1 DEF Rewriting, Running
<1>6. OneRuns' /\ (\A h \in Running' : h = g) /\ Rewriting' = {} /\ Rewriting # {}
  BY <1>1, <1>4, <1>5, SoloFacts
<1>7. Offsets(off, written, n) /\ TailKept(off, b) /\ file = <<>> /\ b \in 0..n
  BY <1>6 DEF TailOf, TailLength, TailFile
<1>8. b2 \in b..n /\ Holds(gen[g].kept, written, off, b2, n)
  BY <1>0, <1>5, <1>7 DEF TailKept
<1>9. file' = gen[g].kept
  BY <1>1, <1>3, <1>7, OverwrittenIsFile, HistoryFacts
<1>10. n \in Nat /\ Cap \in Nat
  BY HistoryFacts
<1>11. b2 \in 0..n /\ b2 + Cap <= n /\ n - b2 <= Cap
  BY <1>0, <1>7, <1>8, <1>10
<1>12. TailFile(off, b2)'
  BY <1>1, <1>6, <1>8, <1>9 DEF TailFile
<1>13. TailKept(off, b2)'
  BY <1>4, <1>6 DEF TailKept
<1>14. TailLength(b2)'
  BY <1>1, <1>11 DEF TailLength
<1>15. TailOf(off, b2)'
  BY <1>1, <1>7, <1>12, <1>13, <1>14 DEF TailOf
<1>16. Carries(off, b, off, b2)
  BY <1>7, <1>8, CarriesOn
<1> QED
  BY <1>6, <1>15, <1>16 DEF TailStep

\* A file that is empty for good: the rewrite of g fails, or g dies in it.
LEMMA LostTail ==
  ASSUME StreamTypeOK, OneRuns, NEW off, NEW b, TailOf(off, b), NEW g \in Rewriting,
         UNCHANGED <<file, written>>, lost', ~(gen'[g].up /\ gen'[g].pc = "rewrite"),
         gen'[g].up => gen'[g].pc = "idle",
         \A h \in Generators : h # g => gen'[h] = gen[h]
  PROVE  OneRuns' /\ TailStep(off, b)
<1> DEFINE n == Len(written)
<1>1. g \in Generators /\ gen[g].up /\ gen[g].pc = "rewrite"
  BY DEF Rewriting, Running
<1>2. OneRuns' /\ (\A h \in Running' : h = g) /\ Rewriting' = {} /\ Rewriting # {}
  BY <1>1, SoloFacts
<1>3. Offsets(off, written, n) /\ file = <<>> /\ b \in 0..n
  BY <1>2 DEF TailOf, TailLength, TailFile
<1>4. n \in Nat /\ Cap \in Nat /\ n \in 0..n /\ n \in b..n
  BY <1>3, HistoryFacts
<1>5. Holds(<<>>, written, off, n, n)
  BY <1>3, EmptyHolds
<1>6. TailFile(off, n)'
  BY <1>2, <1>3, <1>5 DEF TailFile
<1>7. TailKept(off, n)'
  BY <1>2 DEF TailKept, Running
<1>8. TailLength(n)'
  BY <1>4 DEF TailLength
<1>9. TailOf(off, n)'
  BY <1>3, <1>6, <1>7, <1>8 DEF TailOf
<1>10. Carries(off, b, off, n)
  BY <1>3, <1>4, CarriesOn
<1> QED
  BY <1>2, <1>9, <1>10 DEF TailStep

\* A write that fails leaves the file empty, behind all that was written.
LEMMA FailsTail ==
  ASSUME StreamTypeOK, OneRuns, NEW off, NEW b, TailOf(off, b),
         NEW g \in Generators, RewriteFails(g)
  PROVE  OneRuns' /\ TailStep(off, b)
<1>1. g \in Rewriting /\ UNCHANGED <<file, written>> /\ lost'
  BY DEF RewriteFails
<1>2. PICK kept \in Seq(Units) : Moved(g, gen[g].up, "idle", gen[g].seq, kept)
  <2>1. <<>> \in Seq(Units)
    OBVIOUS
  <2> QED
    BY <2>1, GeneratorMoves, Zenon
<1>3. gen[g].up \in BOOLEAN /\ gen[g].seq \in Nat /\ "idle" \in Places
  BY GenFacts DEF Places
<1>4. gen'[g].pc = "idle" /\ \A h \in Generators : h # g => gen'[h] = gen[h]
  BY <1>2, <1>3, MovedFacts
<1> QED
  BY <1>1, <1>4, LostTail

\* A generator that dies leaves the file as it is, empty when it was rewriting it.
LEMMA KillTail ==
  ASSUME StreamTypeOK, OneRuns, NEW off, NEW b, TailOf(off, b), NEW g \in Generators, Kill(g)
  PROVE  OneRuns' /\ TailStep(off, b)
<1>1. gen[g].up /\ UNCHANGED <<file, written>> /\ lost' = (lost \/ g \in Rewriting)
  BY DEF Kill
<1>2. PICK up \in BOOLEAN : up = FALSE /\ Moved(g, up, gen[g].pc, gen[g].seq, gen[g].kept)
  BY GeneratorMoves, Zenon
<1>3. gen[g].pc \in Places /\ gen[g].seq \in Nat /\ gen[g].kept \in Seq(Units)
  BY GenFacts
<1>4. /\ ~gen'[g].up /\ gen'[g].pc = gen[g].pc
      /\ \A h \in Generators : h # g => gen'[h] = gen[h]
  BY <1>2, <1>3, MovedFacts
<1>5. CASE g \in Rewriting
  BY <1>1, <1>4, <1>5, LostTail
<1>6. CASE g \notin Rewriting
  <2> DEFINE n == Len(written)
  <2>1. gen[g].pc # "rewrite"
    BY <1>1, <1>6 DEF Rewriting, Running
  <2>2. OneRuns' /\ (\A h \in Running' : h = g) /\ Rewriting' = {} /\ Rewriting = {}
    BY <1>1, <1>4, <2>1, SoloFacts
  <2>3. Offsets(off, written, n) /\ TailFile(off, b) /\ TailLength(b) /\ b \in 0..n
    BY DEF TailOf, TailLength
  <2>4. TailFile(off, b)'
    BY <1>1, <2>2, <2>3 DEF TailFile
  <2>5. TailKept(off, b)'
    BY <1>4, <2>2 DEF TailKept, Running
  <2>6. Quiet' => Quiet
    BY <1>4 DEF Quiet
  <2>7. lost' = lost
    BY <1>1, <1>6 DEF StreamTypeOK, FlagsOK
  <2>8. TailLength(b)'
    BY <1>1, <2>3, <2>6, <2>7 DEF TailLength
  <2>9. TailOf(off, b)'
    BY <1>1, <2>3, <2>4, <2>5, <2>8 DEF TailOf
  <2>10. Carries(off, b, off, b)
    <3>1. b \in b..Len(written)
      BY <2>3, HistoryFacts
    <3> QED
      BY <2>3, <3>1, CarriesOn
  <2> QED
    BY <2>2, <2>9, <2>10 DEF TailStep
<1> QED
  BY <1>5, <1>6

\* A step that leaves the generators and their file alone.
LEMMA StillTail ==
  ASSUME StreamTypeOK, OneRuns, NEW off, NEW b, TailOf(off, b),
         UNCHANGED <<gen, file, written, lost>>
  PROVE  OneRuns' /\ TailOf(off, b)' /\ TailStep(off, b)
<1>1. OneRuns' /\ Running' = Running /\ Rewriting' = Rewriting /\ (Quiet' <=> Quiet)
  BY DEF OneRuns, Running, Rewriting, Quiet
<1>2. Offsets(off, written, Len(written)) /\ TailFile(off, b) /\ TailKept(off, b) /\ TailLength(b)
  BY DEF TailOf
<1>3. TailFile(off, b)'
  BY <1>1, <1>2 DEF TailFile
<1>4. TailKept(off, b)'
  BY <1>1, <1>2 DEF TailKept
<1>5. TailLength(b)'
  BY <1>1, <1>2 DEF TailLength
<1>6. TailOf(off, b)'
  BY <1>2, <1>3, <1>4, <1>5 DEF TailOf
<1>7. Carries(off, b, off, b)
  <2>1. b \in 0..Len(written)
    BY DEF TailOf, TailLength
  <2>2. b \in b..Len(written)
    BY <2>1, HistoryFacts
  <2> QED
    BY <1>2, <2>1, <2>2, CarriesOn
<1> QED
  BY <1>1, <1>6, <1>7 DEF TailStep

-----------------------------------------------------------------------------
(***************************************************************************)
(* What a connection is sent.                                              *)
(***************************************************************************)
\* The events d are those of w at the places idx, in that order, with lines that end by limit.
Marked(idx, d, w, off, limit) ==
  /\ idx \in [1..Len(d) -> 1..Len(w)]
  /\ \A i, j \in 1..Len(d) : i < j => idx[i] < idx[j]
  /\ \A i \in 1..Len(d) : d[i] = w[idx[i]] /\ off[idx[i]] <= limit

\* The same, with lines that do not begin before start.
Follow(idx, d, w, off, start, limit) ==
  Marked(idx, d, w, off, limit) /\ \A i \in 1..Len(d) : start <= off[idx[i] - 1]

\* Events that lie behind those already sent go on where these end.
LEMMA MarksJoin ==
  ASSUME NEW off, NEW w, NEW n, Offsets(off, w, n), NEW start \in Nat, NEW limit \in Nat,
           start <= limit,
         NEW d \in Seq(Events), NEW idx, Marked(idx, d, w, off, start),
         NEW p \in Seq(Events), NEW ln, Follow(ln, p, w, off, start, limit)
  PROVE  \E both : Marked(both, d \o p, w, off, limit)
<1>1. PICK x \in Nat, y \in Nat : x = Len(d) /\ y = Len(p)
  OBVIOUS
<1>0. n = Len(w) /\ n \in Nat /\ \A k \in 0..n : off[k] \in Nat
  BY OffsetFacts DEF Offsets
<1> DEFINE both == [i \in 1..(x + y) |-> IF i <= x THEN idx[i] ELSE ln[i - x]]
           e == d \o p
<1>2. /\ Len(e) = x + y /\ \A i \in 1..x : e[i] = d[i]
      /\ \A i \in 1..y : e[x + i] = p[i]
  BY <1>1
<1>3. /\ \A i \in 1..x : idx[i] \in 1..n /\ d[i] = w[idx[i]] /\ off[idx[i]] <= start
      /\ \A i, j \in 1..x : i < j => idx[i] < idx[j]
  BY <1>0, <1>1 DEF Marked
<1>4. /\ \A i \in 1..y : ln[i] \in 1..n /\ p[i] = w[ln[i]] /\ off[ln[i]] <= limit
           /\ start <= off[ln[i] - 1]
      /\ \A i, j \in 1..y : i < j => ln[i] < ln[j]
  BY <1>0, <1>1 DEF Follow, Marked
<1>5. ASSUME NEW i \in 1..(x + y)
      PROVE  \/ i \in 1..x /\ both[i] = idx[i]
             \/ i - x \in 1..y /\ x + (i - x) = i /\ both[i] = ln[i - x] /\ ~(i \in 1..x)
  BY <1>1
<1>9. both \in [1..(x + y) -> {both[i] : i \in 1..(x + y)}]
  OBVIOUS
<1> HIDE DEF both, e
<1>6. ASSUME NEW i \in 1..(x + y)
      PROVE  both[i] \in 1..n /\ e[i] = w[both[i]] /\ off[both[i]] <= limit
  <2>1. CASE i \in 1..x /\ both[i] = idx[i]
    <3>1. idx[i] \in 0..n
      BY <1>0, <1>3, <2>1
    <3> QED
      BY <1>0, <1>2, <1>3, <2>1, <3>1
  <2>2. CASE i - x \in 1..y /\ x + (i - x) = i /\ both[i] = ln[i - x]
    <3> DEFINE k == i - x
    <3>1. k \in 1..y /\ both[i] = ln[k] /\ e[i] = e[x + k]
      BY <2>2
    <3> HIDE DEF k
    <3> QED
      BY <1>2, <1>4, <3>1
  <2> QED
    BY <1>5, <2>1, <2>2
<1>7. ASSUME NEW i \in 1..x, NEW j \in 1..y PROVE idx[i] < ln[j]
  <2>1. /\ idx[i] \in 1..n /\ ln[j] \in 1..n /\ off[idx[i]] <= start /\ start <= off[ln[j] - 1]
    BY <1>3, <1>4
  <2>2. idx[i] \in 0..n /\ ln[j] \in 0..n /\ ln[j] - 1 \in 0..n /\ ln[j] - 1 < ln[j]
    BY <1>0, <2>1
  <2>3. off[ln[j] - 1] < off[ln[j]]
    BY <2>2 DEF Offsets
  <2>4. ASSUME ln[j] <= idx[i] PROVE off[ln[j]] <= off[idx[i]]
    BY <2>2, <2>4, OffsetFacts
  <2>5. off[idx[i]] \in Nat /\ off[ln[j]] \in Nat /\ off[ln[j] - 1] \in Nat
    BY <1>0, <2>2
  <2>6. ~(ln[j] <= idx[i])
    <3>1. PICK A \in Nat, B \in Nat, C \in Nat :
            A = off[idx[i]] /\ B = off[ln[j]] /\ C = off[ln[j] - 1]
      BY <2>5
    <3>2. A <= start /\ start <= C /\ C < B
      BY <2>1, <2>3, <3>1
    <3>4. A < B
      BY <3>2
    <3>3. ~(B <= A)
      BY <3>4
    <3> QED
      BY <2>4, <3>1, <3>3
  <2> QED
    BY <1>0, <2>1, <2>6
<1>8. ASSUME NEW i \in 1..(x + y), NEW j \in 1..(x + y), i < j PROVE both[i] < both[j]
  <2>1. CASE i \in 1..x /\ both[i] = idx[i] /\ j \in 1..x /\ both[j] = idx[j]
    BY <1>3, <1>8, <2>1
  <2>2. CASE i \in 1..x /\ both[i] = idx[i] /\ j - x \in 1..y /\ both[j] = ln[j - x]
    <3> DEFINE k == j - x
    <3> HIDE DEF k
    <3>1. k \in 1..y /\ both[j] = ln[k]
      BY <2>2 DEF k
    <3> QED
      BY <1>7, <2>2, <3>1
  <2>3. CASE i - x \in 1..y /\ both[i] = ln[i - x] /\ j - x \in 1..y /\ both[j] = ln[j - x]
    <3>1. i - x < j - x
      BY <1>1, <1>8
    <3> DEFINE k == j - x
               l == i - x
    <3> HIDE DEF k, l
    <3>2. k \in 1..y /\ l \in 1..y /\ l < k /\ both[j] = ln[k] /\ both[i] = ln[l]
      BY <2>3, <3>1 DEF k, l
    <3> QED
      BY <1>4, <3>2
  <2>4. ~(i - x \in 1..y /\ j \in 1..x)
    BY <1>1, <1>8
  <2> QED
    BY <1>5, <2>1, <2>2, <2>3, <2>4
<1>10. both \in [1..Len(e) -> 1..Len(w)]
  BY <1>0, <1>2, <1>6, <1>9
<1>11. Marked(both, e, w, off, limit)
  BY <1>2, <1>6, <1>8, <1>10 DEF Marked
<1> QED
  BY <1>11 DEF e

\* A place in a window on the file, as an offset where the events' lines end.
LEMMA PlacesInFile ==
  ASSUME NEW A \in Nat, NEW B \in Nat, NEW a \in Nat, NEW P \in Nat
  PROVE  /\ (A - B) + 1 = a + P => A + 1 = B + (a + P)
         /\ A + 1 = B + (a + P) /\ P >= 1 => B + a <= A
         /\ \A C, Q \in Nat : A + 1 = B + (a + P) /\ C + 1 = B + (a + Q) /\ P < Q => A < C
  OBVIOUS

\* What is parsed of a window on the file are lines in it, in order.
LEMMA WindowFollows ==
  ASSUME NEW off, NEW w, NEW n, Offsets(off, w, n), NEW b, NEW u, Holds(u, w, off, b, n),
         NEW a \in Nat, NEW c \in Nat, c <= Len(u), Window(u, a, c) \in Seq(Units)
  PROVE  \E ln : Follow(ln, Parsed(Window(u, a, c)), w, off, off[b] + a, off[b] + c)
<1> DEFINE v == Window(u, a, c)
<1>1. PICK places : ParsedAs(v, places)
  BY ParsedPlaces
<1>2. /\ places \in Seq(Nat)
      /\ \A k \in 1..Len(places) : places[k] \in 1..Len(v) /\ places[k] \in Whole(v)
      /\ \A j, k \in 1..Len(places) : j < k => places[j] < places[k]
      /\ Parsed(v) = [k \in 1..Len(places) |-> v[places[k]].event]
  BY <1>1 DEF ParsedAs, Ascends
<1>3. PICK m \in Nat : m = Len(places)
  BY <1>2
<1>4. Len(Parsed(v)) = m /\ \A k \in 1..m : Parsed(v)[k] = v[places[k]].event
  <2> DEFINE q == Parsed(v)
  <2>1. q = [k \in 1..m |-> v[places[k]].event]
    BY <1>2, <1>3
  <2> HIDE DEF q, v
  <2>2. Len(q) = m /\ \A k \in 1..m : q[k] = v[places[k]].event
    BY <1>3, <2>1
  <2> QED
    BY <2>2 DEF q
<1>5. /\ n = Len(w) /\ n \in Nat /\ b \in 0..n /\ off[b] \in Nat /\ (\A k \in 0..n : off[k] \in Nat)
  BY OffsetFacts DEF Offsets, Holds
<1> DEFINE At(k, l) == /\ v[places[k]].event = w[l] /\ (off[l - 1] - off[b]) + 1 = a + places[k]
                       /\ off[l] <= off[b] + c
<1>6. \A k \in 1..m : \E l \in (b + 1)..n : At(k, l)
  <2> SUFFICES ASSUME NEW k \in 1..m PROVE \E l \in (b + 1)..n : At(k, l)
    OBVIOUS
  <2>1. places[k] \in 1..Len(v) /\ WholeAt(v, places[k])
    BY <1>2, <1>3 DEF Whole
  <2>2. LineWithin(v, w, off, b, n, a, c, places[k])
    BY <2>1, WholeIsLine
  <2> QED
    BY <2>2 DEF LineWithin
<1> DEFINE ln == [k \in 1..m |-> CHOOSE l \in (b + 1)..n : At(k, l)]
<1> HIDE DEF v
<1>7. \A k \in 1..m : ln[k] \in (b + 1)..n /\ At(k, ln[k])
  <2> HIDE DEF At
  <2> QED
    BY <1>6
<1>10. ln \in [1..m -> {ln[k] : k \in 1..m}]
  OBVIOUS
<1> HIDE DEF ln
<1>8. ASSUME NEW k \in 1..m
      PROVE  /\ ln[k] \in 1..n /\ ln[k] \in 0..n /\ ln[k] - 1 \in 0..n /\ Parsed(v)[k] = w[ln[k]]
             /\ off[ln[k]] <= off[b] + c
             /\ off[ln[k] - 1] \in Nat /\ off[ln[k] - 1] + 1 = off[b] + (a + places[k])
             /\ places[k] \in Nat /\ places[k] >= 1
  <2>1. ln[k] \in (b + 1)..n /\ At(k, ln[k])
    BY <1>7
  <2>2. ln[k] \in 1..n /\ ln[k] \in 0..n /\ ln[k] - 1 \in 0..n
    <3>1. PICK l : l = ln[k]
      OBVIOUS
    <3>2. l \in (b + 1)..n /\ b \in 0..n /\ n \in Nat
      BY <1>5, <2>1, <3>1
    <3>3. l \in 1..n /\ l \in 0..n /\ l - 1 \in 0..n
      BY <3>2
    <3> QED
      BY <3>1, <3>3
  <2>3. off[ln[k] - 1] \in Nat
    BY <1>5, <2>2
  <2>4. places[k] \in Nat /\ places[k] >= 1
    BY <1>2, <1>3
  <2>5. off[ln[k] - 1] + 1 = off[b] + (a + places[k])
    <3>1. (off[ln[k] - 1] - off[b]) + 1 = a + places[k]
      BY <2>1
    <3>2. PICK A \in Nat, B \in Nat, P \in Nat : A = off[ln[k] - 1] /\ B = off[b] /\ P = places[k]
      BY <1>5, <2>3, <2>4
    <3>3. (A - B) + 1 = a + P
      BY <3>1, <3>2
    <3>4. A + 1 = B + (a + P)
      BY <3>3, PlacesInFile
    <3> QED
      BY <3>2, <3>4
  <2> QED
    BY <1>4, <2>1, <2>2, <2>3, <2>4, <2>5
<1>9. ASSUME NEW j \in 1..m, NEW k \in 1..m, j < k PROVE ln[j] < ln[k]
  <2>1. places[j] < places[k]
    BY <1>2, <1>3, <1>9
  <2>2. off[ln[j] - 1] < off[ln[k] - 1]
    <3>1. /\ off[ln[j] - 1] \in Nat /\ off[ln[j] - 1] + 1 = off[b] + (a + places[j])
               /\ places[j] \in Nat
          /\ off[ln[k] - 1] \in Nat /\ off[ln[k] - 1] + 1 = off[b] + (a + places[k])
               /\ places[k] \in Nat
      BY <1>8
    <3>2. PICK A \in Nat, B \in Nat, C \in Nat, P \in Nat, Q \in Nat :
            A = off[ln[j] - 1] /\ C = off[ln[k] - 1] /\ B = off[b] /\ P = places[j] /\ Q = places[k]
      BY <1>5, <3>1
    <3>3. A + 1 = B + (a + P) /\ C + 1 = B + (a + Q) /\ P < Q
      BY <2>1, <3>1, <3>2
    <3>4. A < C
      BY <3>3, PlacesInFile
    <3> QED
      BY <3>2, <3>4
  <2>3. /\ ln[j] - 1 \in 0..n /\ ln[k] - 1 \in 0..n /\ ln[j] \in 1..n /\ ln[k] \in 1..n
        /\ off[ln[j] - 1] \in Nat /\ off[ln[k] - 1] \in Nat
    BY <1>8
  <2>5. PICK x \in 0..n, y \in 0..n : x = ln[j] - 1 /\ y = ln[k] - 1
    BY <2>3
  <2>6. off[x] < off[y] /\ off[x] \in Nat /\ off[y] \in Nat
    BY <2>2, <2>3, <2>5
  <2>7. ~(y <= x)
    BY <2>6, OffsetFacts
  <2>8. PICK i \in 1..n, l \in 1..n : i = ln[j] /\ l = ln[k]
    BY <2>3
  <2>9. x = i - 1 /\ y = l - 1
    BY <2>5, <2>8
  <2>10. i < l
    BY <1>5, <2>7, <2>9
  <2> QED
    BY <2>8, <2>10
<1>11. ln \in [1..m -> 1..n]
  BY <1>8, <1>10
<1>12. ASSUME NEW k \in 1..m PROVE off[b] + a <= off[ln[k] - 1]
  <2>1. /\ off[ln[k] - 1] \in Nat /\ off[ln[k] - 1] + 1 = off[b] + (a + places[k])
        /\ places[k] \in Nat /\ places[k] >= 1
    BY <1>8
  <2>2. PICK A \in Nat, B \in Nat, P \in Nat : A = off[ln[k] - 1] /\ B = off[b] /\ P = places[k]
    BY <1>5, <2>1
  <2>3. A + 1 = B + (a + P) /\ P >= 1
    BY <2>1, <2>2
  <2>4. B + a <= A
    BY <2>3, PlacesInFile
  <2> QED
    BY <2>2, <2>4
<1>13. Follow(ln, Parsed(v), w, off, off[b] + a, off[b] + c)
  BY <1>4, <1>5, <1>8, <1>9, <1>11, <1>12 DEF Follow, Marked
<1> QED
  BY <1>13 DEF v

\* Nothing is parsed of nothing.
LEMMA NothingParsed ==
  ASSUME NEW u \in Seq(Units), Len(u) = 0
  PROVE  Parsed(u) = <<>>
<1>0. 1..Len(u) = {}
  OBVIOUS
<1>1. \A e : e \notin Range(Parsed(u))
  BY <1>0, ParsedRange, Zenon
<1>2. Parsed(u) \in Seq(Events)
  BY ParsedRange
<1> DEFINE q == Parsed(u)
<1>3. \A k \in DOMAIN q : q[k] \in Range(q)
  BY DEF Range
<1> HIDE DEF q
<1>4. q \in Seq(Events) /\ \A e : e \notin Range(q)
  BY <1>1, <1>2 DEF q
<1>5. q = <<>>
  BY <1>3, <1>4
<1> QED
  BY <1>5 DEF q

-----------------------------------------------------------------------------
(***************************************************************************)
(* The connection beside the generator.                                    *)
(***************************************************************************)
\* What was sent on a connection are lines that end where it reads on, or before.
Sent(off, b) ==
  ~spied /\ reader # Null => \E idx : Marked(idx, delivered, written, off, off[b] + reader.pos)

\* As long as no two generators ran at once.
TailInvariant == alone => OneRuns /\ \E off, b : TailOf(off, b) /\ Sent(off, b)

\* Nothing is in order.
LEMMA NothingMarked ==
  ASSUME NEW d, d = <<>>, NEW w, NEW off, NEW limit
  PROVE  \E idx : Marked(idx, d, w, off, limit)
<1> DEFINE idx == [i \in 1..Len(d) |-> 1]
<1>1. 1..Len(d) = {}
  OBVIOUS
<1>2. idx \in [1..Len(d) -> 1..Len(w)]
  BY <1>1
<1> HIDE DEF idx
<1>3. Marked(idx, d, w, off, limit)
  BY <1>1, <1>2 DEF Marked
<1> QED
  BY <1>3

\* A connection that was sent nothing was sent it in order.
LEMMA SentNothing ==
  ASSUME NEW off, NEW b, delivered' = <<>>
  PROVE  Sent(off, b)'
<1>1. \E idx : Marked(idx, delivered', written', off, off[b] + reader'.pos)
  BY NothingMarked
<1> QED
  BY <1>1 DEF Sent

\* A limit further on.
LEMMA MarkedOn ==
  ASSUME NEW off, NEW w, NEW n, Offsets(off, w, n), NEW d, NEW limit \in Nat, NEW idx, Marked(idx,
           d, w, off, limit),
         NEW limit2 \in Nat, limit <= limit2
  PROVE  Marked(idx, d, w, off, limit2)
<1>1. n = Len(w) /\ n \in Nat /\ (\A k \in 0..n : off[k] \in Nat)
  BY OffsetFacts DEF Offsets
<1>2. ASSUME NEW i \in 1..Len(d) PROVE off[idx[i]] <= limit2
  <2>1. idx[i] \in 1..n /\ off[idx[i]] <= limit
    BY <1>1 DEF Marked
  <2>2. idx[i] \in 0..n
    BY <1>1, <2>1
  <2>3. PICK A \in Nat : A = off[idx[i]]
    BY <1>1, <2>2
  <2> QED
    BY <2>1, <2>3
<1> QED
  BY <1>2 DEF Marked

\* The steps of a generator leave in order what was sent.
LEMMA SentStays ==
  ASSUME StreamTypeOK, StreamTypeOK', NEW off, NEW b, Offsets(off, written, Len(written)),
           b \in 0..Len(written),
         Sent(off, b),
         NEW off2, NEW b2, TailOf(off2, b2)', Carries(off, b, off2, b2), UNCHANGED feed,
         written' = written \/ \E e : written' = Append(written, e)
  PROVE  Sent(off2, b2)'
<1> SUFFICES ASSUME ~spied', reader' # Null
             PROVE  \E idx : Marked(idx, delivered', written', off2, off2[b2] + reader'.pos)
  BY DEF Sent
<1> DEFINE n == Len(written)
           m == Len(written')
<1>1. UNCHANGED <<reader, delivered, spied>>
  BY DEF feed
<1>2. PICK idx : Marked(idx, delivered, written, off, off[b] + reader.pos)
  BY <1>1 DEF Sent
<1>3. Offsets(off2, written', m) /\ b2 \in 0..m
  BY DEF TailOf, TailLength
<1>4. /\ n \in Nat /\ m \in Nat /\ n <= m /\ \A k \in 1..n : written'[k] = written[k]
  BY HistoryFacts
<1>5. reader.pos \in Nat
  BY <1>1 DEF StreamTypeOK, FeedOK
<1>6. off[b] \in Nat /\ off2[b2] \in Nat /\ off[b] <= off2[b2]
        /\ (\A k \in 0..n : off2[k] = off[k] /\ off[k] \in Nat)
  BY <1>3, OffsetFacts DEF Carries, Extended
<1>7. /\ idx \in [1..Len(delivered) -> 1..n]
      /\ \A i, j \in 1..Len(delivered) : i < j => idx[i] < idx[j]
      /\ \A i \in 1..Len(delivered) : delivered[i] = written[idx[i]]
           /\ off[idx[i]] <= off[b] + reader.pos
  BY <1>2 DEF Marked
<1> HIDE DEF n, m
<1>8. PICK P \in Nat, B \in Nat, B2 \in Nat : P = reader.pos /\ B = off[b] /\ B2 = off2[b2]
             /\ B <= B2
  BY <1>5, <1>6
<1>9. ASSUME NEW i \in 1..Len(delivered)
      PROVE  delivered[i] = written'[idx[i]] /\ off2[idx[i]] <= off2[b2] + reader.pos
               /\ idx[i] \in 1..m
  <2>1. idx[i] \in 1..n /\ idx[i] \in 0..n /\ idx[i] \in 1..m
    BY <1>4, <1>7
  <2>2. PICK A \in Nat : A = off[idx[i]] /\ A = off2[idx[i]]
    BY <1>6, <2>1
  <2>3. A <= B + P
    BY <1>7, <1>8, <2>2
  <2>7. A \in Nat /\ P \in Nat /\ B \in Nat /\ B2 \in Nat /\ B <= B2
    BY <1>8
  <2>4. A <= B2 + P
    BY <2>3, <2>7
  <2>5. off2[idx[i]] <= off2[b2] + reader.pos
    BY <1>8, <2>2, <2>4
  <2>6. delivered[i] = written'[idx[i]]
    BY <1>4, <1>7, <2>1
  <2> QED
    BY <2>1, <2>5, <2>6
<1>10. idx \in [1..Len(delivered) -> 1..m]
  BY <1>7, <1>9
<1>11. Marked(idx, delivered, written', off2, off2[b2] + reader.pos)
  BY <1>7, <1>9, <1>10 DEF Marked, m
<1> QED
  BY <1>1, <1>11

\* A poll that finds the file shorter goes to its end, where all that was sent lies behind.
LEMMA PollSizeSent ==
  ASSUME StreamTypeOK, NEW off, NEW b, TailOf(off, b), Sent(off, b), PollSize
  PROVE  Sent(off, b)'
<1> SUFFICES ASSUME ~spied'
             PROVE  \E idx : Marked(idx, delivered', written', off, off[b] + reader'.pos)
  BY DEF Sent
<1> DEFINE n == Len(written)
<1>1. /\ reader # Null /\ reader.size = Null /\ UNCHANGED <<file, delivered, written>>
      /\ reader' = IF Len(file) < reader.pos THEN [reader EXCEPT !.pos = Len(file)]
                                            ELSE [reader EXCEPT !.size = Len(file)]
      /\ spied' = (spied \/ Rewriting # {})
  BY DEF PollSize
<1>2. ~spied /\ Rewriting = {}
  BY <1>1 DEF StreamTypeOK, FeedOK
<1>3. PICK idx : Marked(idx, delivered, written, off, off[b] + reader.pos)
  BY <1>1, <1>2 DEF Sent
<1>4. Offsets(off, written, n) /\ Holds(file, written, off, b, n) /\ b \in 0..n /\ n \in Nat
        /\ Len(file) \in Nat
  BY <1>2, HistoryFacts DEF TailOf, TailFile, TailLength
<1>5. reader \in [pos : Nat, size : Nat \union {Null}] /\ reader.pos \in Nat
  BY <1>1 DEF StreamTypeOK, FeedOK
<1>6. CASE Len(file) < reader.pos
  <2>1. reader'.pos = Len(file)
    BY <1>1, <1>5, <1>6
  <2>2. /\ off[b] \in Nat /\ off[n] \in Nat /\ off[b] <= off[n] /\ Len(file) = off[n] - off[b]
        /\ \A k \in 1..n : k \in 0..n /\ off[k] \in Nat /\ off[k] <= off[n]
    <3>1. \A k \in 1..n : k \in 0..n /\ k <= n
      BY <1>4
    <3>2. b <= n /\ n \in 0..n
      BY <1>4
    <3> QED
      BY <1>4, <3>1, <3>2, OffsetFacts DEF Holds
  <2>3. off[b] + reader'.pos = off[n]
    BY <2>1, <2>2
  <2>4. \A i \in 1..Len(delivered) : idx[i] \in 1..n /\ off[idx[i]] <= off[n]
    <3>1. \A i \in 1..Len(delivered) : idx[i] \in 1..n
      BY <1>3 DEF Marked
    <3> QED
      BY <2>2, <3>1
  <2>5. Marked(idx, delivered, written, off, off[b] + reader'.pos)
    BY <1>3, <2>3, <2>4 DEF Marked
  <2> QED
    BY <1>1, <2>5
<1>7. CASE ~(Len(file) < reader.pos)
  <2>1. reader'.pos = reader.pos
    BY <1>1, <1>5, <1>7
  <2> QED
    BY <1>1, <1>3, <2>1
<1> QED
  BY <1>6, <1>7

\* A poll that reads sends lines between its offsets, and goes on behind them.
LEMMA PollReadSent ==
  ASSUME StreamTypeOK, NEW off, NEW b, TailOf(off, b), Sent(off, b), PollRead
  PROVE  Sent(off, b)'
<1> SUFFICES ASSUME ~spied'
             PROVE  \E idx : Marked(idx, delivered', written', off, off[b] + reader'.pos)
  BY DEF Sent
<1> DEFINE n == Len(written)
           a == reader.pos
           z == reader.size
<1>1. /\ reader # Null /\ z # Null /\ UNCHANGED <<file, written, spied>>
      /\ delivered' = delivered \o Parsed(Between(a, z))
      /\ reader' = [pos |-> z, size |-> Null]
  BY DEF PollRead
<1>2. PICK idx : Marked(idx, delivered, written, off, off[b] + a)
  BY <1>1 DEF Sent
<1>3. a \in Nat /\ z \in Nat /\ a < z /\ delivered \in Seq(Events)
  BY <1>1 DEF StreamTypeOK, FeedOK
<1>4. Offsets(off, written, n) /\ b \in 0..n /\ off[b] \in Nat
  BY OffsetFacts DEF TailOf, TailLength
<1>5. PICK c \in Nat : /\ c <= Len(file) /\ c <= z
                       /\ Between(a, z) = Window(file, a, c) /\ Between(a, z) \in Seq(Units)
  BY <1>3, BetweenIsWindow
<1>6. reader'.pos = z
  BY <1>1
<1> DEFINE p == Parsed(Between(a, z))
<1>7. p \in Seq(Events)
  BY <1>5, ParsedRange
<1>8. /\ off[b] + a \in Nat /\ off[b] + z \in Nat /\ off[b] + c \in Nat
      /\ off[b] + a <= off[b] + z /\ off[b] + c <= off[b] + z
  <2>1. PICK A \in Nat, B \in Nat, Z \in Nat : A = a /\ B = off[b] /\ Z = z /\ A < Z /\ c <= Z
    BY <1>3, <1>4, <1>5
  <2>2. B + A \in Nat /\ B + Z \in Nat /\ B + c \in Nat /\ B + A <= B + Z /\ B + c <= B + Z
    BY <2>1
  <2> QED
    BY <2>1, <2>2
<1>9. CASE Rewriting = {}
  <2>1. Holds(file, written, off, b, n)
    BY <1>9 DEF TailOf, TailFile
  <2>2. PICK ln : Follow(ln, p, written, off, off[b] + a, off[b] + c)
    BY <1>3, <1>4, <1>5, <2>1, WindowFollows
  <2>3. Follow(ln, p, written, off, off[b] + a, off[b] + z)
    <3>1. Marked(ln, p, written, off, off[b] + c)
            /\ \A i \in 1..Len(p) : off[b] + a <= off[ln[i] - 1]
      BY <2>2 DEF Follow
    <3>2. Marked(ln, p, written, off, off[b] + z)
      BY <1>4, <1>8, <3>1, MarkedOn
    <3> QED
      BY <3>1, <3>2 DEF Follow
  <2>4. \E both : Marked(both, delivered \o p, written, off, off[b] + z)
    BY <1>2, <1>3, <1>4, <1>7, <1>8, <2>3, MarksJoin
  <2> QED
    BY <1>1, <1>6, <2>4
<1>10. CASE Rewriting # {}
  <2>1. file = <<>> /\ c = 0
    BY <1>5, <1>10 DEF TailOf, TailFile
  <2>2. Len(Between(a, z)) = 0
    BY <1>3, <1>5, <2>1 DEF Window
  <2>3. p = <<>>
    BY <1>5, <2>2, NothingParsed
  <2>4. delivered' = delivered
    BY <1>1, <1>3, <2>3
  <2>5. Marked(idx, delivered, written, off, off[b] + z)
    BY <1>2, <1>4, <1>8, MarkedOn
  <2> QED
    BY <1>1, <1>6, <2>4, <2>5
<1> QED
  BY <1>9, <1>10

\* An empty file holds the tail of an empty history.
LEMMA TailInit == StreamInit => TailInvariant
<1> SUFFICES ASSUME StreamInit PROVE OneRuns /\ \E off, b : TailOf(off, b) /\ Sent(off, b)
  BY DEF TailInvariant
<1>1. /\ written = <<>> /\ file = <<>> /\ reader = Null /\ Running = {} /\ Rewriting = {}
      /\ Len(written) = 0
  BY DEF StreamInit, Running, Rewriting
<1> DEFINE off == [k \in 0..0 |-> 0]
<1>2. Offsets(off, <<>>, 0)
  <2>1. 0..0 = {0} /\ 1..0 = {} /\ <<>> \in Seq(Events) /\ Len(<<>>) = 0
    OBVIOUS
  <2>2. off \in [0..0 -> Nat]
    OBVIOUS
  <2> HIDE DEF off
  <2>3. (\A k \in 1..0 : off[k] = off[k - 1] + LineSize[<<>>[k].seq]) /\ \A j, k \in 0..0 : j < k
          => off[j] < off[k]
    BY <2>1
  <2> QED
    BY <2>1, <2>2, <2>3 DEF Offsets
<1> HIDE DEF off
<1>3. Holds(<<>>, <<>>, off, 0, 0)
  BY <1>2, EmptyHolds
<1>4. TailFile(off, 0)
  BY <1>1, <1>3 DEF TailFile
<1>5. TailKept(off, 0)
  BY <1>1 DEF TailKept
<1>6. TailLength(0)
  BY <1>1, SizesAssumption DEF TailLength
<1>7. TailOf(off, 0)
  BY <1>1, <1>2, <1>4, <1>5, <1>6 DEF TailOf
<1>8. Sent(off, 0) /\ OneRuns
  BY <1>1 DEF Sent, OneRuns
<1> QED
  BY <1>7, <1>8

\* Generators that have never overlapped had not before.
LEMMA AloneBefore ==
  ASSUME [StreamNext]_streamVars, alone'
  PROVE  alone
<1>1. ASSUME NEW g \in Generators, Starts(g) PROVE alone
  BY <1>1 DEF Starts
<1>2. ASSUME NEW g \in Generators, Emit(g) \/ TrimReads(g) \/ Truncate(g) \/ Rewrite(g)
               \/ RewriteFails(g) \/ Kill(g)
      PROVE  alone
  BY <1>2 DEF Emit, TrimReads, Truncate, Rewrite, RewriteFails, Kill
<1>3. ConnectAndSpawn => alone
  BY <1>1 DEF ConnectAndSpawn
<1>4. Connect \/ PollSize \/ PollRead \/ Leave \/ UNCHANGED streamVars => alone
  BY DEF Connect, PollSize, PollRead, Leave, streamVars
<1> QED
  BY <1>1, <1>2, <1>3, <1>4 DEF StreamNext, StartGenerator

\* Every step of a generator leaves a tail, and the connection alone.
LEMMA GeneratorTail ==
  ASSUME StreamTypeOK, OneRuns, alone', NEW off, NEW b, TailOf(off, b), NEW g \in Generators,
         StartGenerator(g) \/ Emit(g) \/ TrimReads(g) \/ Truncate(g) \/ Rewrite(g)
           \/ RewriteFails(g) \/ Kill(g)
  PROVE  /\ OneRuns' /\ TailStep(off, b) /\ UNCHANGED feed
         /\ written' = written \/ \E e : written' = Append(written, e)
<1>1. CASE StartGenerator(g)
  BY <1>1, StartsTail DEF StartGenerator
<1>2. CASE Emit(g)
  BY <1>2, EmitTail DEF Emit
<1>3. CASE TrimReads(g)
  BY <1>3, TrimTail DEF TrimReads
<1>4. CASE Truncate(g)
  BY <1>4, TruncateTail DEF Truncate
<1>5. CASE Rewrite(g)
  BY <1>5, RewriteTail DEF Rewrite
<1>6. CASE RewriteFails(g)
  BY <1>6, FailsTail DEF RewriteFails
<1>7. CASE Kill(g)
  BY <1>7, KillTail DEF Kill
<1> QED
  BY <1>1, <1>2, <1>3, <1>4, <1>5, <1>6, <1>7

\* No step of the two processes breaks the invariant.
LEMMA TailInvariantStep ==
  ASSUME StreamTypeOK, TailInvariant, [StreamNext]_streamVars
  PROVE  TailInvariant'
<1> SUFFICES ASSUME alone' PROVE OneRuns' /\ \E off, b : TailOf(off, b)' /\ Sent(off, b)'
  BY DEF TailInvariant
<1>0. StreamTypeOK'
  BY StreamTypeStep
<1>1. PICK off, b : TailOf(off, b) /\ Sent(off, b)
  BY AloneBefore DEF TailInvariant
<1>2. OneRuns
  BY AloneBefore DEF TailInvariant
<1>3. Offsets(off, written, Len(written)) /\ b \in 0..Len(written)
  BY <1>1 DEF TailOf, TailLength
<1>4. ASSUME OneRuns', TailStep(off, b), UNCHANGED feed,
             written' = written \/ \E e : written' = Append(written, e)
      PROVE  OneRuns' /\ \E off2, b2 : TailOf(off2, b2)' /\ Sent(off2, b2)'
  <2>1. PICK off2, b2 : TailOf(off2, b2)' /\ Carries(off, b, off2, b2)
    BY <1>4 DEF TailStep
  <2>2. Sent(off2, b2)'
    BY <1>0, <1>1, <1>3, <1>4, <2>1, SentStays
  <2> QED
    BY <1>4, <2>1, <2>2
<1>5. CASE \E g \in Generators :
             StartGenerator(g) \/ Emit(g) \/ TrimReads(g) \/ Truncate(g) \/ Rewrite(g)
               \/ RewriteFails(g) \/ Kill(g)
  BY <1>1, <1>2, <1>4, <1>5, GeneratorTail
<1>6. CASE Opens /\ UNCHANGED <<gen, alone>>
  <2>1. delivered' = <<>> /\ UNCHANGED <<file, written, lost>>
    BY <1>6 DEF Opens, StreamTypeOK, FeedOK
  <2>2. OneRuns' /\ TailOf(off, b)'
    BY <1>1, <1>2, <1>6, <2>1, StillTail
  <2> QED
    BY <2>1, <2>2, SentNothing
<1>7. CASE Opens /\ \E g \in Generators : Starts(g)
  <2>1. delivered' = <<>> /\ UNCHANGED <<file, written, lost>>
    BY <1>7 DEF Opens, StreamTypeOK, FeedOK
  <2>2. OneRuns' /\ TailStep(off, b)
    BY <1>1, <1>2, <1>7, <2>1, StartsTail
  <2>3. PICK off2, b2 : TailOf(off2, b2)'
    BY <2>2 DEF TailStep
  <2> QED
    BY <2>1, <2>2, <2>3, SentNothing
<1>8. CASE PollSize \/ PollRead \/ Leave
  <2>1. UNCHANGED <<gen, file, written, lost>>
    BY <1>8 DEF PollSize, PollRead, Leave
  <2>2. OneRuns' /\ TailOf(off, b)'
    BY <1>1, <1>2, <2>1, StillTail
  <2>3. Sent(off, b)'
    BY <1>1, <1>8, PollSizeSent, PollReadSent, SentNothing DEF Leave
  <2> QED
    BY <2>2, <2>3
<1>9. CASE UNCHANGED streamVars
  <2>1. UNCHANGED <<gen, file, written, lost, feed>>
    BY <1>9 DEF streamVars
  <2>2. OneRuns' /\ TailStep(off, b)
    BY <1>1, <1>2, <2>1, StillTail
  <2> QED
    BY <1>4, <2>1, <2>2
<1>10. Connect => Opens /\ UNCHANGED <<gen, alone>>
  BY DEF Connect
<1>11. ConnectAndSpawn => Opens /\ ((\E g \in Generators : Starts(g)) \/ UNCHANGED <<gen, alone>>)
  BY DEF ConnectAndSpawn
<1> QED
  BY <1>5, <1>6, <1>7, <1>8, <1>9, <1>10, <1>11 DEF StreamNext

\* The inductive invariant of the stream, of which the file's and the connection's follow.
THEOREM TailInvariantHolds == StreamSpec => [](StreamTypeOK /\ Fresh /\ TailInvariant)
<1>1. StreamInit => StreamTypeOK /\ Fresh /\ TailInvariant
  BY StreamTypeInit, FreshInit, TailInit
<1>2. StreamTypeOK /\ Fresh /\ TailInvariant /\ [StreamNext]_streamVars => (StreamTypeOK /\ Fresh
        /\ TailInvariant)'
  BY StreamTypeStep, FreshStep, TailInvariantStep
<1> QED
  BY <1>1, <1>2, PTL DEF StreamSpec

-----------------------------------------------------------------------------
(***************************************************************************)
(* What the invariant says of the file and of the connection.              *)
(***************************************************************************)
\* The events behind the first b are a suffix.
LEMMA RestIsSuffix ==
  ASSUME NEW w \in Seq(Events), NEW b \in 0..Len(w), NEW s, s = [j \in 1..(Len(w) - b) |-> w[b + j]]
  PROVE  /\ Len(s) = Len(w) - b /\ IsSuffix(s, w)
         /\ b = 0 => s = w
<1>1. PICK n \in Nat, m \in Nat : n = Len(w) /\ m = n - b /\ n = b + m
  OBVIOUS
<1>2. s = [j \in 1..m |-> w[b + j]] /\ DOMAIN w = 1..n /\ \A k \in 1..n : w[k] \in Events
  BY <1>1
<1>3. s \in Seq(Events) /\ Len(s) = m /\ \A j \in 1..m : s[j] = w[b + j]
  <2>1. \A j \in 1..m : b + j \in 1..n
    BY <1>1
  <2> QED
    BY <1>2, <2>1
<1> DEFINE x == [i \in 1..m |-> s[(m - i) + 1]]
           y == [i \in 1..n |-> w[(n - i) + 1]]
<1>4. Reverse(s) = x /\ Reverse(w) = y
  BY <1>1, <1>3 DEF Reverse
<1>5. x \in Seq(Events) /\ y \in Seq(Events) /\ Len(x) = m /\ Len(y) = n
  <2>1. \A i \in 1..m : (m - i) + 1 \in 1..m
    OBVIOUS
  <2>2. \A i \in 1..n : (n - i) + 1 \in 1..n
    OBVIOUS
  <2>3. \A i \in 1..m : s[i] \in Events
    BY <1>3
  <2> QED
    BY <1>2, <2>1, <2>2, <2>3
<1>6. ASSUME NEW i \in 1..m PROVE x[i] = y[i]
  <2>1. i \in 1..n /\ (m - i) + 1 \in 1..m /\ b + ((m - i) + 1) = (n - i) + 1
    BY <1>1
  <2> DEFINE j == (m - i) + 1
  <2>2. x[i] = s[j] /\ y[i] = w[b + j] /\ j \in 1..m
    BY <2>1
  <2> HIDE DEF j, x, y
  <2> QED
    BY <1>3, <2>2
<1> HIDE DEF x, y
<1>7. SubSeq(x, 1, m) = SubSeq(y, 1, m) /\ m <= n
  <2>1. m <= n
    BY <1>1
  <2>2. SubSeq(x, 1, m) = [i \in 1..m |-> x[i]] /\ SubSeq(y, 1, m) = [i \in 1..m |-> y[i]]
    BY <1>5, <2>1
  <2> QED
    BY <1>6, <2>1, <2>2
<1>8. IsSuffix(s, w)
  BY <1>4, <1>5, <1>7 DEF IsSuffix, IsPrefix
<1>9. ASSUME b = 0 PROVE s = w
  <2>1. m = n /\ \A j \in 1..n : s[j] = w[j]
    BY <1>1, <1>3, <1>9
  <2> QED
    BY <1>1, <1>3, <2>1
<1> QED
  BY <1>1, <1>3, <1>8, <1>9

\* The invariant says of the file what FileIsTail does.
LEMMA TailIsFile ==
  ASSUME StreamTypeOK, TailInvariant
  PROVE  FileIsTail
<1> SUFFICES ASSUME alone
             PROVE  /\ IsSuffix(Parsed(file), written)
                    /\ ~lost /\ Rewriting = {} => Len(Parsed(file)) >= Cap \/ Parsed(file) = written
                    /\ Quiet => Len(Parsed(file)) <= Cap
  BY DEF FileIsTail, Quiet
<1> DEFINE n == Len(written)
<1>1. PICK off, b : TailOf(off, b)
  BY DEF TailInvariant
<1>2. /\ Offsets(off, written, n) /\ b \in 0..n /\ TailFile(off, b)
      /\ (~lost => b = 0 \/ b + Cap <= n) /\ (Quiet => n - b <= Cap)
  BY <1>1 DEF TailOf, TailLength
<1>3. n \in Nat /\ Cap \in Nat /\ written \in Seq(Events)
  BY HistoryFacts
<1>4. CASE Rewriting = {}
  <2>1. Parsed(file) = [j \in 1..(n - b) |-> written[b + j]]
    BY <1>2, <1>4, ParsedHolds DEF TailFile
  <2>2. Len(Parsed(file)) = n - b /\ IsSuffix(Parsed(file), written) /\ (b = 0
          => Parsed(file) = written)
    BY <1>2, <1>3, <2>1, RestIsSuffix
  <2>3. b + Cap <= n => n - b >= Cap
    BY <1>2, <1>3
  <2> QED
    BY <1>2, <2>2, <2>3
<1>5. CASE Rewriting # {}
  <2>1. file = <<>>
    BY <1>2, <1>5 DEF TailFile
  <2>2. Parsed(file) = <<>>
    BY <2>1, HistoryFacts, NothingParsed
  <2>3. n \in 0..n /\ <<>> = [j \in 1..(n - n) |-> written[n + j]] /\ Len(<<>>) = 0
    BY <1>3
  <2>4. IsSuffix(<<>>, written)
    BY <1>3, <2>3, RestIsSuffix
  <2> QED
    BY <1>3, <1>5, <2>2, <2>3, <2>4
<1> QED
  BY <1>4, <1>5

\* The invariant says of the connection what DeliveredInOrder does.
LEMMA SentIsOrdered ==
  ASSUME StreamTypeOK, Fresh, TailInvariant
  PROVE  DeliveredInOrder
<1> SUFFICES ASSUME alone, ~spied
             PROVE  /\ Range(delivered) \subseteq Range(written)
                    /\ \A i, j \in DOMAIN delivered : i < j =>
                         /\ delivered[i] # delivered[j]
                         /\ \E k, l \in DOMAIN written :
                              k < l /\ delivered[i] = written[k] /\ delivered[j] = written[l]
  BY DEF DeliveredInOrder
<1>1. DOMAIN delivered = 1..Len(delivered) /\ DOMAIN written = 1..Len(written)
  BY DEF StreamTypeOK, FileOK, FeedOK
<1>2. CASE reader = Null
  <2>1. DOMAIN delivered = {}
    BY <1>2 DEF StreamTypeOK, FeedOK
  <2> QED
    BY <2>1 DEF Range
<1>3. CASE reader # Null
  <2>1. PICK off, b : Sent(off, b)
    BY DEF TailInvariant
  <2>2. PICK idx : Marked(idx, delivered, written, off, off[b] + reader.pos)
    BY <1>3, <2>1 DEF Sent
  <2>3. /\ \A i \in 1..Len(delivered) : idx[i] \in 1..Len(written) /\ delivered[i] = written[idx[i]]
        /\ \A i, j \in 1..Len(delivered) : i < j => idx[i] < idx[j]
    BY <2>2 DEF Marked
  <2>4. Range(delivered) \subseteq Range(written)
    BY <1>1, <2>3 DEF Range
  <2>5. ASSUME NEW i \in DOMAIN delivered, NEW j \in DOMAIN delivered, i < j
        PROVE  /\ delivered[i] # delivered[j]
               /\ \E k, l \in DOMAIN written :
                    k < l /\ delivered[i] = written[k] /\ delivered[j] = written[l]
    <3>1. /\ idx[i] \in 1..Len(written) /\ idx[j] \in 1..Len(written) /\ idx[i] < idx[j]
          /\ delivered[i] = written[idx[i]] /\ delivered[j] = written[idx[j]]
      BY <1>1, <2>3, <2>5
    <3>2. idx[i] # idx[j]
      BY <3>1, HistoryFacts
    <3>3. delivered[i] # delivered[j]
      BY <3>1, <3>2 DEF Fresh
    <3> QED
      BY <1>1, <3>1, <3>3
  <2> QED
    BY <2>4, <2>5
<1> QED
  BY <1>2, <1>3

\* Where one generator at a time runs, the file holds the latest events without a gap whatever
\* the number of lines and of rewrites, at least Cap of them unless a rewrite was cut short, and
\* not more once the tick is over (event-generator.ts: emit, trim).
THEOREM FileStaysTail == StreamSpec => []FileIsTail
<1>1. StreamTypeOK /\ Fresh /\ TailInvariant => FileIsTail
  BY TailIsFile
<1> QED
  BY <1>1, TailInvariantHolds, PTL

\* A browser sees no event twice and none after a later one, for any lines and any
\* interleaving of its polls with emit and trim (route.ts: poll).
THEOREM DeliveryStaysInOrder == StreamSpec => []DeliveredInOrder
<1>1. StreamTypeOK /\ Fresh /\ TailInvariant => DeliveredInOrder
  BY SentIsOrdered
<1> QED
  BY <1>1, TailInvariantHolds, PTL

-----------------------------------------------------------------------------
(***************************************************************************)
(* Nothing ahead of a connection is passed over.                           *)
(***************************************************************************)
\* u is what v begins with.
Begins(u, v) == Len(u) <= Len(v) /\ \A i \in 1..Len(u) : v[i] = u[i]

\* A line that is whole stays so when more follows.
LEMMA ParsedGrows ==
  ASSUME NEW u \in Seq(Units), NEW v \in Seq(Units), Begins(u, v)
  PROVE  Range(Parsed(u)) \subseteq Range(Parsed(v))
<1> SUFFICES ASSUME NEW e, e \in Range(Parsed(u)) PROVE e \in Range(Parsed(v))
  OBVIOUS
<1>1. PICK i \in 1..Len(u) : WholeAt(u, i) /\ u[i].event = e
  BY ParsedRange
<1>2. Len(u) \in Nat /\ Len(v) \in Nat /\ Len(u) <= Len(v) /\ i \in 1..Len(v) /\ i \in Nat /\ i >= 1
      /\ \A j \in 1..Len(u) : v[j] = u[j]
  BY DEF Begins
<1>3. v[i] = u[i] /\ u[i].event \in Events
  <2>1. u[i] \in Units
    OBVIOUS
  <2> QED
    BY <1>2, <2>1 DEF Units
<1> DEFINE end == i + LineSize[u[i].event.seq] - 1
           line == LineOf(u[i].event)
<1>4. end <= Len(u) /\ SubSeq(u, i, end) = line
  BY <1>1 DEF WholeAt
<1>5. end \in Nat /\ i <= end
  BY <1>2, <1>3, LinesAreLong
<1>6. WholeAt(v, i) <=> (end <= Len(v) /\ SubSeq(v, i, end) = line)
  BY <1>3 DEF WholeAt
<1> HIDE DEF end, line
<1>7. SubSeq(v, i, end) = SubSeq(u, i, end)
  <2>1. end \in 1..Len(u) /\ end \in 1..Len(v) /\ i \in 1..Len(u) /\ i \in 1..Len(v)
    BY <1>2, <1>4, <1>5
  <2>2. SubSeq(u, i, end) = [j \in 1..(end - i + 1) |-> u[i + j - 1]]
    BY <2>1, <1>5
  <2>3. SubSeq(v, i, end) = [j \in 1..(end - i + 1) |-> v[i + j - 1]]
    BY <2>1, <1>5
  <2>4. ASSUME NEW j \in 1..(end - i + 1) PROVE u[i + j - 1] = v[i + j - 1]
    <3>1. i + j - 1 \in 1..Len(u)
      BY <1>2, <1>5, <2>1
    <3> QED
      BY <1>2, <3>1
  <2> QED
    BY <2>2, <2>3, <2>4
<1>8. WholeAt(v, i)
  BY <1>2, <1>4, <1>5, <1>6, <1>7
<1> QED
  BY <1>1, <1>2, <1>3, <1>8, ParsedRange

\* A window on a file, and on one that goes on, up to the same place or further.
LEMMA WindowGrows ==
  ASSUME NEW u \in Seq(Units), NEW v \in Seq(Units), Begins(u, v),
         NEW a \in Nat, NEW c \in Nat, NEW d \in Nat, c <= Len(u), d <= Len(v), c <= d
  PROVE  Begins(Window(u, a, c), Window(v, a, d))
<1>0. Len(u) \in Nat /\ Len(v) \in Nat /\ Len(u) <= Len(v) /\ \A j \in 1..Len(u) : v[j] = u[j]
  BY DEF Begins
<1> DEFINE x == SubSeq(u, a + 1, c)
           y == SubSeq(v, a + 1, d)
<1>1. CASE c <= a
  <2>1. Len(x) = 0
    BY <1>1
  <2>2. y \in Seq(Units)
    <3>1. a + 1 \in Nat /\ a + 1 >= 1
      OBVIOUS
    <3> QED
      BY <3>1, <1>0
  <2>3. Len(y) \in Nat /\ 1..0 = {}
    BY <2>2
  <2> HIDE DEF x, y
  <2>4. Begins(x, y)
    BY <2>1, <2>3 DEF Begins
  <2> QED
    BY <2>4 DEF Window, x, y
<1>2. CASE c > a
  <2> DEFINE h == a + 1
  <2>1. h \in 1..Len(u) /\ h \in 1..Len(v) /\ c \in 1..Len(u) /\ d \in 1..Len(v) /\ h <= c /\ h <= d
    BY <1>0, <1>2
  <2>2. x = SubSeq(u, h, c) /\ y = SubSeq(v, h, d)
    OBVIOUS
  <2> HIDE DEF x, y, h
  <2>3. x = [j \in 1..(c - h + 1) |-> u[h + j - 1]]
    BY <2>1, <2>2
  <2>4. y = [j \in 1..(d - h + 1) |-> v[h + j - 1]]
    BY <2>1, <2>2
  <2>5. Len(x) = c - h + 1 /\ Len(y) = d - h + 1
    BY <2>1, <2>3, <2>4
  <2>6. ASSUME NEW j \in 1..Len(x) PROVE y[j] = x[j]
    <3>1. j \in 1..(c - h + 1) /\ j \in 1..(d - h + 1)
      BY <1>0, <2>1, <2>5
    <3>2. PICK i \in 1..Len(u) : i = h + j - 1
      BY <1>0, <2>1, <3>1
    <3>3. x[j] = u[i] /\ y[j] = v[i]
      BY <2>3, <2>4, <3>1, <3>2
    <3> QED
      BY <1>0, <3>3
  <2>8. Len(x) <= Len(y)
    BY <2>1, <2>5
  <2>7. Begins(x, y)
    BY <2>6, <2>8 DEF Begins
  <2> QED
    BY <2>7 DEF Window, x, y
<1> QED
  BY <1>1, <1>2

\* What readSync would find between two offsets of a file.
Cut(u, a, c) == SubSeq(u, a + 1, IF c < Len(u) THEN c ELSE Len(u))

\* What lies between two offsets is not less when the file has gone on.
LEMMA CutGrows ==
  ASSUME NEW u \in Seq(Units), NEW v \in Seq(Units), Begins(u, v), NEW a \in Nat, NEW c \in Nat,
           NEW z \in Nat, c <= z
  PROVE  Range(Parsed(Cut(u, a, c))) \subseteq Range(Parsed(Cut(v, a, z)))
<1>0. Len(u) \in Nat /\ Len(v) \in Nat /\ Len(u) <= Len(v)
  BY DEF Begins
<1> DEFINE d == IF c < Len(u) THEN c ELSE Len(u)
           e == IF z < Len(v) THEN z ELSE Len(v)
<1>1. Cut(u, a, c) = Window(u, a, d) /\ Cut(v, a, z) = Window(v, a, e)
  BY DEF Cut, Window
<1>2. d \in Nat /\ e \in Nat /\ d <= e /\ d <= Len(u) /\ e <= Len(v) /\ ~(d > Len(u))
        /\ ~(e > Len(v))
  BY <1>0
<1>3. PICK x \in Nat, y \in Nat : x = d /\ y = e
  BY <1>2
<1> HIDE DEF d, e
<1>4. Window(u, a, x) \in Seq(Units) /\ Window(v, a, y) \in Seq(Units)
  BY <1>2, <1>3, BetweenFacts DEF Window
<1>5. Begins(Window(u, a, x), Window(v, a, y))
  BY <1>2, <1>3, WindowGrows
<1> QED
  BY <1>1, <1>3, <1>4, <1>5, ParsedGrows

\* Nothing lies between an offset and one that is not beyond it.
LEMMA NothingBetween ==
  ASSUME NEW u \in Seq(Units), NEW a \in Nat, NEW c \in Nat, c <= a
  PROVE  Range(Parsed(Cut(u, a, c))) = {}
<1>1. Cut(u, a, c) = <<>>
  <2>1. Len(u) \in Nat
    OBVIOUS
  <2> DEFINE d == IF c < Len(u) THEN c ELSE Len(u)
  <2>2. d \in Nat /\ d < a + 1
    BY <2>1
  <2>3. Cut(u, a, c) = SubSeq(u, a + 1, d)
    BY DEF Cut
  <2> HIDE DEF d
  <2> QED
    BY <2>2, <2>3
<1>2. <<>> \in Seq(Units) /\ Len(<<>>) = 0 /\ DOMAIN <<>> = {}
  OBVIOUS
<1>3. Parsed(<<>>) = <<>>
  BY <1>2, NothingParsed
<1>4. Range(<<>>) = {}
  BY <1>2 DEF Range
<1> QED
  BY <1>1, <1>3, <1>4

\* Where a connection will have read to when its poll is over, and what lies before and beyond.
Mark(r) == IF r.size = Null THEN r.pos ELSE r.size

\* The events of the lines before the mark and of those beyond it.
Beyond(u, a, z) == Range(Parsed(Cut(u, a, z))) \union Range(Parsed(Cut(u, z, Len(u))))

\* What NothingSkipped says of one step.
NothingPassed ==
  Ahead \subseteq Ahead' \union Range(delivered')
    \/ reader' = Null \/ \E g \in Generators : Truncate(g) \/ Rewrite(g)

\* What is ahead of a connection, before and after a step.
LEMMA AheadIs ==
  /\ reader # Null => Ahead = Beyond(file, reader.pos, Mark(reader))
  /\ reader' # Null => Ahead' = Beyond(file', reader'.pos, Mark(reader'))
<1>1. reader # Null => Ahead = Beyond(file, reader.pos, Mark(reader))
  BY DEF Ahead, Beyond, Mark, Between, Cut
<1>2. reader' # Null => Ahead' = Beyond(file', reader'.pos, Mark(reader'))
  BY DEF Ahead, Beyond, Mark, Between, Cut
<1> QED
  BY <1>1, <1>2

\* The mark of a connection is an offset, and not before that of the connection.
LEMMA MarkFacts ==
  ASSUME StreamTypeOK, reader # Null
  PROVE  /\ reader.pos \in Nat /\ Mark(reader) \in Nat /\ reader.pos <= Mark(reader)
         /\ reader.size = Null => Mark(reader) = reader.pos
         /\ reader.size # Null => Mark(reader) = reader.size /\ reader.size \in Nat
         /\ reader \in [pos : Nat, size : Nat \union {Null}]
  BY DEF StreamTypeOK, FeedOK, Mark

\* The connection stands still and the file, if it changes, goes on.
LEMMA AheadGrows ==
  ASSUME StreamTypeOK, StreamTypeOK', UNCHANGED reader, Begins(file, file')
  PROVE  Ahead \subseteq Ahead'
<1>1. CASE reader = Null
  BY <1>1 DEF Ahead
<1>2. CASE reader # Null
  <2>1. PICK a \in Nat, z \in Nat : a = reader.pos /\ z = Mark(reader)
    BY <1>2, MarkFacts
  <2>2. Ahead = Beyond(file, a, z) /\ Ahead' = Beyond(file', a, z)
    BY <1>2, <2>1, AheadIs
  <2>3. PICK u \in Seq(Units), v \in Seq(Units) : u = file /\ v = file'
    BY DEF StreamTypeOK, FileOK
  <2>4. Begins(u, v) /\ Len(u) \in Nat /\ Len(v) \in Nat /\ Len(u) <= Len(v)
    BY <2>3 DEF Begins
  <2>5. /\ Range(Parsed(Cut(u, a, z))) \subseteq Range(Parsed(Cut(v, a, z)))
        /\ Range(Parsed(Cut(u, z, Len(u)))) \subseteq Range(Parsed(Cut(v, z, Len(v))))
    BY <2>4, CutGrows
  <2>6. Beyond(u, a, z) \subseteq Beyond(v, a, z)
    BY <2>5 DEF Beyond
  <2> QED
    BY <2>2, <2>3, <2>6
<1> QED
  BY <1>1, <1>2

\* A poll that takes the size passes over nothing but what is not there any more.
LEMMA PollSizePasses ==
  ASSUME StreamTypeOK, PollSize
  PROVE  Ahead \subseteq Ahead'
<1>1. /\ reader # Null /\ reader.size = Null /\ file' = file
      /\ reader' = IF Len(file) < reader.pos THEN [reader EXCEPT !.pos = Len(file)]
                                            ELSE [reader EXCEPT !.size = Len(file)]
  BY DEF PollSize
<1>2. PICK a \in Nat, u \in Seq(Units) : a = reader.pos /\ u = file
  BY <1>1, MarkFacts, HistoryFacts
<1>3. Len(u) \in Nat
  OBVIOUS
<1>4. Ahead = Beyond(u, a, a)
  BY <1>1, <1>2, AheadIs, MarkFacts
<1>5. Range(Parsed(Cut(u, a, a))) = {}
  BY NothingBetween
<1>6. CASE Len(u) < a
  BY <1>3, <1>4, <1>5, <1>6, NothingBetween DEF Beyond
<1>7. CASE ~(Len(u) < a)
  <2>1. reader' = [reader EXCEPT !.size = Len(u)]
    BY <1>1, <1>2, <1>7
  <2>2. reader \in [pos : Nat, size : Nat \union {Null}]
    BY <1>1, MarkFacts
  <2>3. /\ reader'.pos = a /\ reader'.size = Len(u)
        /\ reader' \in [pos : Nat, size : Nat \union {Null}]
    BY <1>2, <1>3, <2>1, <2>2
  <2>4. reader' # Null
    BY <2>3, SizesAssumption
  <2>5. Ahead' = Beyond(u, a, Mark(reader'))
    BY <1>1, <1>2, <2>3, <2>4, AheadIs
  <2>6. Mark(reader') = Len(u) \/ Mark(reader') = a
    BY <2>3 DEF Mark
  <2> QED
    BY <1>4, <1>5, <2>5, <2>6 DEF Beyond
<1> QED
  BY <1>6, <1>7

\* A poll that reads sends what lies before its mark.
LEMMA PollReadPasses ==
  ASSUME StreamTypeOK, PollRead
  PROVE  Ahead \subseteq Ahead' \union Range(delivered')
<1>1. /\ reader # Null /\ reader.size # Null /\ file' = file
      /\ delivered' = delivered \o Parsed(Between(reader.pos, reader.size))
      /\ reader' = [pos |-> reader.size, size |-> Null]
  BY DEF PollRead
<1>2. PICK a \in Nat, z \in Nat, u \in Seq(Units) : a = reader.pos /\ z = reader.size /\ u = file
  BY <1>1, MarkFacts, HistoryFacts
<1>3. Ahead = Beyond(u, a, z)
  BY <1>1, <1>2, AheadIs, MarkFacts
<1>4. reader'.pos = z /\ reader'.size = Null /\ reader' \in [pos : Nat, size : Nat \union {Null}]
  BY <1>1, <1>2
<1>5. reader' # Null
  BY <1>4, SizesAssumption
<1>6. Ahead' = Beyond(u, z, z)
  BY <1>1, <1>2, <1>4, <1>5, AheadIs DEF Mark
<1> DEFINE p == Parsed(Between(reader.pos, reader.size))
<1>7. p = Parsed(Cut(u, a, z))
  BY <1>2 DEF Between, Cut
<1>8. Between(reader.pos, reader.size) \in Seq(Units)
  BY <1>2, BetweenIsWindow
<1>9. p \in Seq(Events) /\ delivered \in Seq(Events)
  BY <1>8, ParsedRange DEF StreamTypeOK, FeedOK
<1>10. delivered' = delivered \o p
  BY <1>1
<1> HIDE DEF p
<1>11. Range(p) \subseteq Range(delivered')
  <2> SUFFICES ASSUME NEW k \in 1..Len(p) PROVE p[k] \in Range(delivered')
    BY <1>9 DEF Range
  <2>1. PICK x \in Nat : x = Len(delivered)
    BY <1>9
  <2>2. x + k \in 1..Len(delivered') /\ delivered'[x + k] = p[k]
          /\ DOMAIN delivered' = 1..Len(delivered')
    BY <1>9, <1>10, <2>1
  <2> QED
    BY <2>2 DEF Range
<1> QED
  BY <1>3, <1>6, <1>7, <1>11 DEF Beyond

\* No step but a rewrite and the browser's leaving passes over a line.
LEMMA NothingPassedStep ==
  ASSUME StreamTypeOK, StreamTypeOK', [StreamNext]_streamVars
  PROVE  NothingPassed
<1>1. file \in Seq(Units)
  BY HistoryFacts
<1>2. ASSUME UNCHANGED <<file, reader>> PROVE NothingPassed
  <2>1. Begins(file, file')
    BY <1>1, <1>2 DEF Begins
  <2> QED
    BY <1>2, <2>1, AheadGrows DEF NothingPassed
<1>3. ASSUME NEW g \in Generators, Emit(g) PROVE NothingPassed
  <2>1. file' = file \o LineOf(Event(g, gen[g].seq + 1)) /\ reader' = reader
          /\ gen[g].seq < MaxEvents[g]
    BY <1>3 DEF Emit, feed
  <2>2. PICK line \in Seq(Units) : line = LineOf(Event(g, gen[g].seq + 1))
    BY <2>1, GenFacts, LineFits
  <2>3. Begins(file, file')
    BY <1>1, <2>1, <2>2 DEF Begins
  <2> QED
    BY <2>1, <2>3, AheadGrows DEF NothingPassed
<1>4. ASSUME NEW g \in Generators, StartGenerator(g) \/ TrimReads(g) \/ RewriteFails(g) \/ Kill(g)
      PROVE  NothingPassed
  BY <1>2, <1>4 DEF StartGenerator, TrimReads, RewriteFails, Kill, feed
<1>5. Opens => NothingPassed
  BY DEF Opens, NothingPassed, Ahead
<1> QED
  BY <1>2, <1>3, <1>4, <1>5, PollSizePasses, PollReadPasses
  DEF StreamNext, NothingPassed, Connect, ConnectAndSpawn, Leave, streamVars, feed

\* poll passes over no whole line ahead of the connection, however many generators run and
\* whatever their steps between its two; only a rewrite takes lines away (route.ts: poll).
THEOREM NothingIsSkipped == StreamSpec => NothingSkipped
<1>1. StreamTypeOK /\ StreamTypeOK' /\ [StreamNext]_streamVars => [NothingPassed]_streamVars
  BY NothingPassedStep
<1>2. StreamSpec => [][NothingPassed]_streamVars
  BY <1>1, StreamTypeCorrect, PTL DEF StreamSpec
<1> QED
  BY <1>2 DEF NothingSkipped, NothingPassed

================================================================================
