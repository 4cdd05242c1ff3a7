------------------------------ MODULE Enrolment ------------------------------
(***************************************************************************)
(* The consent gate for biometric references: consent recorded, references *)
(* enrolled while it is in force, consent withdrawn and the references     *)
(* shredded, while consents expire.  Signed documents can reach the        *)
(* registry late and more than once.                                       *)
(*   packages/enrolment/src/{registry,consent}.ts                          *)
(*                                                                         *)
(* Documents that do not verify under the key they carry are refused       *)
(* without effect and left out; keyId is the key id a document states.  A  *)
(* reference is its envelope: present or destroyed.                        *)
(***************************************************************************)
EXTENDS Naturals

CONSTANTS
  Subjects,     \* subject ids
  Modalities,   \* biometric modalities
  KeyIds,       \* key ids that subjects and guardians state
  Consents,     \* the signed consents
  Withdrawals,  \* the signed withdrawals
  MaxEnrolments,\* bound on the enrolments
  MaxTime,      \* bound on the clock
  Undefined

\* signConsent takes no consent that names no modality.
EnrolmentConsent ==
  [subject : Subjects, modalities : SUBSET Modalities \ {{}}, at : Nat,
   expiresAt : Nat \union {Undefined}, keyId : KeyIds]

ConsentWithdrawal ==
  [subject : Subjects, modalities : SUBSET Modalities, at : Nat, keyId : KeyIds]

ASSUME DocumentsAssumption ==
  /\ Consents \subseteq EnrolmentConsent
  /\ Withdrawals \subseteq ConsentWithdrawal
  /\ Undefined \notin Consents
ASSUME EnrolmentBounds == MaxEnrolments \in Nat /\ MaxTime \in Nat

VARIABLES
  now,         \* the clock; a document is in circulation from its own time on
  consents,    \* #consents: subject -> Undefined or [consent, withdrawn, withdrawnAt]
  enrolments,  \* #enrolments: id -> [subject, modality, reference, status]
  bySubject,   \* #bySubject: subject -> ids
  lastId,     \* #counter
  settled      \* history: ids whose modality was withdrawn after they were enrolled

enrolmentVars == <<now, consents, enrolments, bySubject, lastId, settled>>

EnrolmentIds == 1..lastId

EnrolmentInit ==
  /\ now = 0
  /\ consents = [s \in Subjects |-> Undefined]
  /\ enrolments = [i \in {} |-> Undefined]
  /\ bySubject = [s \in Subjects |-> {}]
  /\ lastId = 0
  /\ settled = {}

Tick ==
  /\ now < MaxTime
  /\ now' = now + 1
  /\ UNCHANGED <<consents, enrolments, bySubject, lastId, settled>>

\* consentCoversModality
ConsentCoversModality(c, m) ==
  m \in c.modalities /\ (c.expiresAt # Undefined => c.expiresAt > now)

\* #consentActive
ConsentActive(s, m) ==
  /\ consents[s] # Undefined
  /\ m \notin consents[s].withdrawn
  /\ ConsentCoversModality(consents[s].consent, m)

\* recordConsent: whatever was recorded for the subject is replaced.
RecordConsent(c) ==
  /\ c.at <= now
  /\ consents' = [consents EXCEPT ![c.subject] = 
                    [consent |-> c, withdrawn |-> {}, withdrawnAt |-> Undefined]]
  /\ UNCHANGED <<now, enrolments, bySubject, lastId, settled>>

\* Seeded fault: the subject's index holds the last enrolment only.
EnrolForgetful(s, m) ==
  /\ ConsentActive(s, m)
  /\ lastId < MaxEnrolments
  /\ lastId' = lastId + 1
  /\ enrolments' = [i \in 1..lastId + 1 |->
       IF i <= lastId THEN enrolments[i]
       ELSE [subject |-> s, modality |-> m, reference |-> TRUE, status |-> "active"]]
  /\ bySubject' = [bySubject EXCEPT ![s] = {lastId + 1}]
  /\ UNCHANGED <<now, consents, settled>>

\* enrol
Enrol(s, m) ==
  /\ ConsentActive(s, m)
  /\ lastId < MaxEnrolments
  /\ lastId' = lastId + 1
  /\ enrolments' = [i \in 1..lastId + 1 |->
       IF i <= lastId THEN enrolments[i]
       ELSE [subject |-> s, modality |-> m, reference |-> TRUE, status |-> "active"]]
  /\ bySubject' = [bySubject EXCEPT ![s] = @ \union {lastId + 1}]
  /\ UNCHANGED <<now, consents, settled>>

\* Seeded fault: the status says withdrawn, the ciphertext stays.
Hidden(e) == [e EXCEPT !.status = "withdrawn"]

\* The envelope, with its wrapped data key, is destroyed.
Shred(e) == [e EXCEPT !.reference = FALSE, !.status = "withdrawn"]

\* The withdrawal is noted on the consent recorded.
Marked(e, w) ==
  [e EXCEPT !.withdrawn = e.withdrawn \union w.modalities, !.withdrawnAt = w.at]

\* withdraw: of a document that states the key id of the consent recorded now.
Withdraw(w) ==
  /\ w.at <= now
  /\ consents[w.subject] # Undefined
  /\ w.keyId = consents[w.subject].consent.keyId
  /\ consents' = [consents EXCEPT ![w.subject] = Marked(@, w)]
  /\ enrolments' = [i \in EnrolmentIds |->
       IF i \in bySubject[w.subject] /\ enrolments[i].status = "active"
            /\ enrolments[i].modality \in w.modalities
       THEN Shred(enrolments[i]) ELSE enrolments[i]]
  /\ settled' = settled \union
       {i \in EnrolmentIds : enrolments[i].subject = w.subject /\ enrolments[i].modality \in w.modalities}
  /\ UNCHANGED <<now, bySubject, lastId>>

EnrolmentNext ==
  \/ Tick
  \/ \E c \in Consents : RecordConsent(c)
  \/ \E s \in Subjects, m \in Modalities : Enrol(s, m)
  \/ \E w \in Withdrawals : Withdraw(w)

EnrolmentSpec == EnrolmentInit /\ [][EnrolmentNext]_enrolmentVars

\* referenceFor and activeReferences hand out the reference.
Available(i) ==
  /\ enrolments[i].status = "active" /\ enrolments[i].reference
  /\ ConsentActive(enrolments[i].subject, enrolments[i].modality)

(***************************************************************************)
(* Properties                                                              *)
(***************************************************************************)

Enrolled == [subject : Subjects, modality : Modalities, reference : BOOLEAN,
             status : {"active", "withdrawn"}]

EnrolmentTypeOK ==
  /\ now \in 0..MaxTime
  /\ consents \in [Subjects -> [consent : Consents, withdrawn : SUBSET Modalities,
                                withdrawnAt : Nat \union {Undefined}] \union {Undefined}]
  /\ lastId \in 0..MaxEnrolments
  /\ enrolments \in [EnrolmentIds -> Enrolled]
  /\ bySubject \in [Subjects -> SUBSET EnrolmentIds]
  /\ settled \subseteq EnrolmentIds

\* A reference enrolled before an accepted withdrawal of its modality is destroyed
\* for good: neither a new consent nor one that arrives again brings it back
\* (registry.ts:100-121, 143-146).
GoneOnceWithdrawn ==
  \A i \in settled : ~enrolments[i].reference /\ ~Available(i)

\* Every reference that still exists can be reached by a withdrawal: the subject's
\* index holds it and its status is active, for withdraw skips all others.
ExistingCanBeShredded ==
  \A i \in EnrolmentIds :
    enrolments[i].reference =>
      i \in bySubject[enrolments[i].subject] /\ enrolments[i].status = "active"

=============================================================================
