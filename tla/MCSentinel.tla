----------------------------- MODULE MCSentinel -----------------------------
(* Small instance of Sentinel for TLC: two reports of one reporter and two of  *)
(* another on one topic, one of these under the first one's key id, an id used *)
(* again for another topic, a report that does not verify and one whose key id *)
(* is trusted late.                                                            *)
EXTENDS Sentinel

CONSTANTS alice, bob, judge

MCKeyIds == {alice, bob, judge}
MCTargets == {"t"}
MCReporterIds == {"alice", "bob"}
MCReporterKeyIds == {alice}

MCReport(id, category, reporter, keyId, valid) ==
  [kind |-> "report", reportId |-> id, target |-> "t", category |-> category,
   reporter |-> reporter, keyId |-> keyId, sigValid |-> valid]

MCReports ==
  {MCReport("r1", "scam_fraud", "alice", alice, TRUE), MCReport("r2", "scam_fraud", "alice", alice, TRUE),
   MCReport("r3", "scam_fraud", "bob", bob, TRUE), MCReport("r1", "deepfake", "bob", bob, TRUE),
   MCReport("r2", "scam_fraud", "bob", bob, FALSE), MCReport("r3", "scam_fraud", "bob", alice, TRUE)}

MCAppeals ==
  {[kind |-> "appeal", reportId |-> id, keyId |-> bob, sigValid |-> v] :
     id \in {"r1", "r3"}, v \in BOOLEAN}

MCAdjudications ==
  {[kind |-> "adjudication", reportId |-> id, decision |-> d, keyId |-> judge, sigValid |-> TRUE] :
     id \in {"r1", "r3"}, d \in {"upheld", "overturned"}}

=============================================================================
