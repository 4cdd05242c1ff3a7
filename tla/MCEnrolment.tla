----------------------------- MODULE MCEnrolment -----------------------------
(* Small instance of Enrolment for TLC: one subject consents to both         *)
(* modalities, then to one with a term, then anew; another subject consents  *)
(* once; withdrawals of one modality or of both.                             *)
EXTENDS Enrolment

CONSTANTS alice, bob, keyA, keyB

MCSubjects == {alice, bob}
MCKeyIds == {keyA, keyB}
MCModalities == {"face", "voice"}

MCConsent(s, ms, at, expires, key) ==
  [subject |-> s, modalities |-> ms, at |-> at, expiresAt |-> expires, keyId |-> key]
MCWithdrawal(s, ms, at, key) == [subject |-> s, modalities |-> ms, at |-> at, keyId |-> key]

MCConsents ==
  {MCConsent(alice, {"face", "voice"}, 0, Undefined, keyA),
   MCConsent(alice, {"face"}, 0, 2, keyA),
   MCConsent(alice, {"voice"}, 1, Undefined, keyB),
   MCConsent(bob, {"face"}, 0, Undefined, keyB)}

MCWithdrawals ==
  {MCWithdrawal(alice, {"face"}, 0, keyA),
   MCWithdrawal(alice, {"face", "voice"}, 1, keyA),
   MCWithdrawal(alice, {"voice"}, 1, keyB),
   MCWithdrawal(bob, {"face"}, 1, keyB)}

=============================================================================
