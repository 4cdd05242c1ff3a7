------------------------------- MODULE Verifier -------------------------------
(***************************************************************************)
(* The public verifier, the published records it takes its trust from and  *)
(* the revocations it honours.  It reads both files once, when it starts;  *)
(* the publishing adapter and the revokers go on writing to them.          *)
(*   apps/verifier/server.ts, packages/transparency/src/revocation.ts,     *)
(*   packages/core/src/passport.ts (verifyPassport)                        *)
(*                                                                         *)
(* A passport and an entry state the key id of their signer and carry the  *)
(* key they are verified under, and nothing compares the two: sigValid     *)
(* says that the document verifies under the key it carries, keyId is what *)
(* it states, and trust is a matter of keyId alone.  So whoever signs may  *)
(* state any key id, and of two documents that differ in nothing but the   *)
(* key they carry one stands for both.  How like two pieces of content are *)
(* is one of the inputs.                                                   *)
(***************************************************************************)
EXTENDS Naturals, Sequences, SequencesExt

CONSTANTS
  Passports,    \* [digest, keyId, sigValid, revoked, rights, ai]: presented or published
  Entries,      \* revocation entries: [type, id, keyId, sigValid]
  MaxRecords,   \* bound on the published records
  MaxEntries,   \* bound on the revocation entries
  None

\* What the bytes of a request are to the digest in the passport.
Bytes == {None, "same", "similar", "other"}

\* VerificationState: what an answer may say of a passport.
States ==
  {"SIGNATURE_VALID", "SIGNATURE_INVALID", "SIGNER_TRUSTED", "SIGNER_UNKNOWN",
   "CREDENTIAL_REVOKED", "PROVENANCE_RECOVERED", "ASSET_MODIFIED", "RIGHTS_RECORDED",
   "RIGHTS_DISPUTED", "AI_INVOLVEMENT_DECLARED", "VERIFICATION_INCOMPLETE"}

\* What createVerifier reads of the two files.
Loaded == [store : Seq(Passports), entries : Seq(Entries)]

ASSUME InputsAssumption ==
  /\ \A p \in Passports : p.sigValid \in BOOLEAN /\ p.revoked \in BOOLEAN
                          /\ p.rights \in {"none", "recorded", "disputed"}
  /\ \A e \in Entries : e.sigValid \in BOOLEAN /\ e.type \in {"passport", "identity"}
  /\ None \notin {"same", "similar", "other"} /\ \A states \in SUBSET States : states # None
  /\ MaxRecords \in Nat /\ MaxEntries \in Nat

VARIABLES
  published,    \* the published file: the passports of its records, in order
  revocations,  \* the revocation file, in order
  verifier,     \* None, or what the running process read: [store, entries]
  answer        \* the last answer given on each passport: None or its states

vars == <<published, revocations, verifier, answer>>

Init ==
  /\ published = <<>>
  /\ revocations = <<>>
  /\ verifier = None
  /\ answer = [p \in Passports |-> None]

\* PublishStore.add by the publishing process: one record for a digest.
Publish(p) ==
  /\ p.digest \notin {published[i].digest : i \in DOMAIN published}
  /\ Len(published) < MaxRecords
  /\ published' = Append(published, p)
  /\ UNCHANGED <<revocations, verifier, answer>>

\* An entry is added to the revocation file; nothing checks it here.
Revoke(e) ==
  /\ Len(revocations) < MaxEntries
  /\ revocations' = Append(revocations, e)
  /\ UNCHANGED <<published, verifier, answer>>

\* createVerifier
Start ==
  /\ verifier = None
  /\ verifier' = [store |-> published, entries |-> revocations]
  /\ UNCHANGED <<published, revocations, answer>>

Stop ==
  /\ verifier # None
  /\ verifier' = None
  /\ UNCHANGED <<published, revocations, answer>>

\* Seeded fault: the key id of the record read last replaces the others.
TrustFromLast(store) == IF store = <<>> THEN {} ELSE {Last(store).keyId}

\* trustFromPublished: the key ids stated.  The store keeps a key with each, which
\* nothing asks for (trust.ts:19-25).
TrustFromPublished(store) == {store[i].keyId : i \in DOMAIN store}

\* Seeded fault: a valid signature is enough for an entry to be honoured.
FromEntriesSigned(entries, trust) ==
  {<<e.type, e.id>> : e \in {x \in ToSet(entries) : x.sigValid}}

\* RevocationRegistry.fromEntries: the targets of the entries it accepts, which verify
\* under the key they carry and state a trusted key id.
FromEntries(entries, trust) ==
  {<<e.type, e.id>> : e \in {x \in ToSet(entries) : x.sigValid /\ x.keyId \in trust}}

\* verifyPassport: the signature by the key carried, trust by the key id stated.
VerifyPassport(p, bytes, trust, registry) ==
  {IF p.sigValid THEN "SIGNATURE_VALID" ELSE "SIGNATURE_INVALID",
   IF p.keyId \in trust THEN "SIGNER_TRUSTED" ELSE "SIGNER_UNKNOWN"}
  \union {s \in {"CREDENTIAL_REVOKED"} : p.revoked \/ <<"passport", p.digest>> \in registry}
  \union {s \in {"PROVENANCE_RECOVERED"} : bytes \in {"same", "similar"}}
  \union {s \in {"ASSET_MODIFIED"} : bytes = "other"}
  \union {s \in {"RIGHTS_RECORDED"} : p.rights # "none"}
  \union {s \in {"RIGHTS_DISPUTED"} : p.rights = "disputed"}
  \union {s \in {"AI_INVOLVEMENT_DECLARED"} : p.ai # "unknown"}
  \union {s \in {"VERIFICATION_INCOMPLETE"} : p.keyId \notin trust \/ bytes = None}

\* Seeded fault: the key id of the passport presented is trusted with the others.
VerifyTrustingPresented(p, bytes) ==
  /\ verifier # None
  /\ LET trust == TrustFromPublished(verifier.store) \union {p.keyId} IN
       answer' = [answer EXCEPT ![p] =
         VerifyPassport(p, bytes, trust, FromEntries(verifier.entries, trust))]
  /\ UNCHANGED <<published, revocations, verifier>>

\* POST /api/verify: trust and registry are built anew from what was read.
Verify(p, bytes) ==
  /\ verifier # None
  /\ LET trust == TrustFromPublished(verifier.store) IN
       answer' = [answer EXCEPT ![p] =
         VerifyPassport(p, bytes, trust, FromEntries(verifier.entries, trust))]
  /\ UNCHANGED <<published, revocations, verifier>>

Next ==
  \/ \E p \in Passports : Publish(p)
  \/ \E e \in Entries : Revoke(e)
  \/ Start
  \/ Stop
  \/ \E p \in Passports, bytes \in Bytes : Verify(p, bytes)

Spec == Init /\ [][Next]_vars

(***************************************************************************)
(* Properties                                                              *)
(***************************************************************************)

PublishedIds == {published[i].keyId : i \in DOMAIN published}

TypeOK ==
  /\ published \in Seq(Passports)
  /\ revocations \in Seq(Entries)
  /\ verifier \in Loaded \union {None}
  /\ verifier # None => /\ IsPrefix(verifier.store, published)
                        /\ IsPrefix(verifier.entries, revocations)
  /\ answer \in [Passports -> (SUBSET States) \union {None}]

\* What a client was told of a passport's signer or of its revocation is not taken
\* back by a later answer, though the verifier restarts, more is published and more
\* entries are written in between (docs/CLAIMS.md:36).
NeverTakenBack ==
  [][\A p \in Passports :
       answer[p] # None =>
         answer[p] \intersect {"SIGNER_TRUSTED", "CREDENTIAL_REVOKED"} \subseteq answer'[p]]_vars

\* The verifier calls a signer trusted only if the key id the passport states is that of
\* a record published here (server.ts:10-13; trust.ts:4-5 "only marks a signer as
\* SIGNER_TRUSTED when its key id is present here"), and unless the passport itself says
\* so it reports one as revoked only on an entry in the file, of the right type, that
\* verifies and states such a key id (revocation.ts:50-52).  It does not say that the
\* key of that id signed.
OnlyPublishedIdsCount ==
  \A p \in Passports :
    answer[p] # None =>
      /\ "SIGNER_TRUSTED" \in answer[p] => p.keyId \in PublishedIds
      /\ "CREDENTIAL_REVOKED" \in answer[p] /\ ~p.revoked =>
           \E i \in DOMAIN revocations :
             /\ revocations[i].type = "passport" /\ revocations[i].id = p.digest
             /\ revocations[i].sigValid /\ revocations[i].keyId \in PublishedIds

\* After a restart nothing that was written before it is overlooked: an answer of a
\* process that read both files whole reports a passport as revoked if and only if
\* it says so itself or some entry does that verifies and states the key id of a
\* published record, in whatever order entry and publication were written
\* (docs/CLAIMS.md:36).
RestartCatchesUp ==
  [][\A p \in Passports :
       answer'[p] # answer[p] /\ verifier.store = published /\ verifier.entries = revocations =>
         ("CREDENTIAL_REVOKED" \in answer'[p] <=>
            \/ p.revoked
            \/ \E i \in DOMAIN revocations :
                 /\ revocations[i].type = "passport" /\ revocations[i].id = p.digest
                 /\ revocations[i].sigValid /\ revocations[i].keyId \in PublishedIds)]_vars

=============================================================================
