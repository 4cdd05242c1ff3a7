------------------------------- MODULE Sentinel -------------------------------
(***************************************************************************)
(* The abuse-signal exchange: reports by trusted reporters, appeals by     *)
(* anyone, adjudications by trusted adjudicators, in any order, and the    *)
(* signal they add up to.  Both trust stores are shared with their owners, *)
(* who may trust more keys at any time.                                    *)
(*   packages/sentinel/src/{exchange,report,types}.ts                      *)
(*                                                                         *)
(* A statement states the key id of its signer and carries the key it is   *)
(* verified under, and nothing compares the two: sigValid says that it     *)
(* verifies under the key it carries, keyId is what it states, and trust   *)
(* is a matter of keyId alone.  Nor is the reporter a report names tied to *)
(* its key.  Confidences and evidence are left out.                        *)
(***************************************************************************)
EXTENDS Naturals, Sequences, FiniteSets

CONSTANTS
  Reports, Appeals, Adjudications,   \* the statements there are
  Targets, ReporterIds,
  KeyIds,
  ReporterKeyIds, \* the reporters' key ids trusted at the start
  Quorum,
  MaxLog,         \* bound on the statements accepted
  None

Ids == {x.reportId : x \in Reports \union Appeals \union Adjudications}
Topics == {<<r.target, r.category>> : r \in Reports}

\* The statements, with the parts the exchange reads.
AbuseCategory ==
  {"ban_evasion", "scam_fraud", "impersonation", "deepfake", "coordinated_harassment"}
AbuseReport ==
  [kind : {"report"}, reportId : Ids, target : Targets, category : AbuseCategory,
   reporter : ReporterIds, keyId : KeyIds, sigValid : BOOLEAN]
AbuseAppeal == [kind : {"appeal"}, reportId : Ids, keyId : KeyIds, sigValid : BOOLEAN]
Adjudication ==
  [kind : {"adjudication"}, reportId : Ids, keyId : KeyIds, sigValid : BOOLEAN,
   decision : {"upheld", "overturned", "insufficient_evidence"}]

\* Disposition, of a signal.
Dispositions ==
  {"single_source", "corroborated", "contested", "insufficient_evidence", "overturned"}

ASSUME StatementsAssumption ==
  /\ Reports \subseteq AbuseReport /\ Appeals \subseteq AbuseAppeal
  /\ Adjudications \subseteq Adjudication
  /\ None \notin Reports \union Adjudications \union [report : Reports, active : BOOLEAN]
  /\ None \notin Dispositions
  /\ ReporterKeyIds \subseteq KeyIds /\ Quorum \in Nat /\ MaxLog \in Nat

VARIABLES
  reporterTrust,     \* #reporterTrust
  adjudicatorTrust,  \* #adjudicatorTrust
  log,               \* #log: the statements accepted, in order
  reports,           \* #reports: id -> the report and whether it is active; with it #byTarget
  appeals,           \* #appeals: id -> the appeals accepted
  adjudications      \* #adjudications: id -> the last one accepted

vars == <<reporterTrust, adjudicatorTrust, log, reports, appeals, adjudications>>

Init ==
  /\ reporterTrust = ReporterKeyIds
  /\ adjudicatorTrust = {}
  /\ log = <<>>
  /\ reports = [id \in Ids |-> None]
  /\ appeals = [id \in Ids |-> {}]
  /\ adjudications = [id \in Ids |-> None]

TrustReporter(keyId) ==
  /\ reporterTrust' = reporterTrust \union {keyId}
  /\ UNCHANGED <<adjudicatorTrust, log, reports, appeals, adjudications>>

TrustAdjudicator(keyId) ==
  /\ adjudicatorTrust' = adjudicatorTrust \union {keyId}
  /\ UNCHANGED <<reporterTrust, log, reports, appeals, adjudications>>

Logged(x) == Len(log) < MaxLog /\ log' = Append(log, x)

\* verifyReport, verifyAppeal (no key id need be trusted) and verifyAdjudication: each
\* asks the trust store for the key id stated.
VerifyReport(r) == r.sigValid /\ r.keyId \in reporterTrust
VerifyAppeal(a) == a.sigValid
VerifyAdjudication(j) == j.sigValid /\ j.keyId \in adjudicatorTrust

\* submit, when it accepts.
Submit(r) ==
  /\ reports[r.reportId] = None
  /\ VerifyReport(r)
  /\ Logged(r)
  /\ reports' = [reports EXCEPT ![r.reportId] = [report |-> r, active |-> TRUE]]
  /\ UNCHANGED <<reporterTrust, adjudicatorTrust, appeals, adjudications>>

\* appeal, when it accepts.
Appeal(a) ==
  /\ reports[a.reportId] # None
  /\ VerifyAppeal(a)
  /\ Logged(a)
  /\ appeals' = [appeals EXCEPT ![a.reportId] = @ \union {a}]
  /\ UNCHANGED <<reporterTrust, adjudicatorTrust, reports, adjudications>>

\* Seeded fault: upholding a report brings it back.
AdjudicateBothWays(j) ==
  /\ reports[j.reportId] # None
  /\ VerifyAdjudication(j)
  /\ Logged(j)
  /\ adjudications' = [adjudications EXCEPT ![j.reportId] = j]
  /\ reports' = [reports EXCEPT ![j.reportId].active = (j.decision # "overturned")]
  /\ UNCHANGED <<reporterTrust, adjudicatorTrust, appeals>>

\* adjudicate, when it accepts; the last one counts, but what was overturned once
\* stays inactive.
Adjudicate(j) ==
  /\ reports[j.reportId] # None
  /\ VerifyAdjudication(j)
  /\ Logged(j)
  /\ adjudications' = [adjudications EXCEPT ![j.reportId] = j]
  /\ reports' = [reports EXCEPT ![j.reportId].active = (@ /\ j.decision # "overturned")]
  /\ UNCHANGED <<reporterTrust, adjudicatorTrust, appeals>>

Next ==
  \/ \E keyId \in KeyIds : TrustReporter(keyId) \/ TrustAdjudicator(keyId)
  \/ \E r \in Reports : Submit(r)
  \/ \E a \in Appeals : Appeal(a)
  \/ \E j \in Adjudications : Adjudicate(j)

Spec == Init /\ [][Next]_vars

(***************************************************************************)
(* signals: what is said of a target in one category.                      *)
(***************************************************************************)

On(topic) ==
  {id \in Ids : reports[id] # None
                /\ <<reports[id].report.target, reports[id].report.category>> = topic}

ActiveOn(topic) == {id \in On(topic) : reports[id].active}

\* Seeded fault: reports are counted, not reporters.
ReportersCounted(topic) == ActiveOn(topic)

\* The reporters named, whichever key signed for them.
Reporters(topic) == {reports[id].report.reporter : id \in ActiveOn(topic)}

PendingAppeal(topic) ==
  \E id \in ActiveOn(topic) : appeals[id] # {} /\ adjudications[id] = None

Decided(topic, decision) ==
  \E id \in On(topic) : adjudications[id] # None /\ adjudications[id].decision = decision

\* Seeded fault: a quorum outweighs an appeal.
DispositionQuorumFirst(topic) ==
  CASE ActiveOn(topic) = {} ->
         IF Decided(topic, "overturned") THEN "overturned" ELSE "insufficient_evidence"
    [] Cardinality(Reporters(topic)) >= Quorum -> "corroborated"
    [] PendingAppeal(topic) -> "contested"
    [] OTHER -> "single_source"

Disposition(topic) ==
  IF On(topic) = {} THEN None
  ELSE IF ActiveOn(topic) = {}
  THEN IF Decided(topic, "overturned") THEN "overturned" ELSE "insufficient_evidence"
  ELSE IF PendingAppeal(topic) THEN "contested"
  ELSE IF Cardinality(Reporters(topic)) >= Quorum THEN "corroborated"
  ELSE "single_source"

(***************************************************************************)
(* Properties                                                              *)
(***************************************************************************)

TypeOK ==
  /\ reporterTrust \subseteq KeyIds
  /\ adjudicatorTrust \subseteq KeyIds
  /\ log \in Seq(Reports \union Appeals \union Adjudications)
  /\ reports \in [Ids -> [report : Reports, active : BOOLEAN] \union {None}]
  /\ appeals \in [Ids -> SUBSET Appeals]
  /\ adjudications \in [Ids -> Adjudications \union {None}]
  /\ \A id \in Ids :
       IF reports[id] = None THEN appeals[id] = {} /\ adjudications[id] = None
       ELSE reports[id].report.reportId = id

LoggedAs(kind, id) ==
  {log[i] : i \in {n \in DOMAIN log : log[n].kind = kind /\ log[n].reportId = id}}

OverturnedInLog(id) == \E j \in LoggedAs("adjudication", id) : j.decision = "overturned"

\* Whoever is told that a category is corroborated can find in the public log a
\* quorum of different reporters named in reports on it that state the key id of a
\* trusted reporter, none of which was ever overturned or has an appeal on which
\* nothing was decided (exchange.ts:107-127).  Different reporters named need not be
\* different signers (exchange.ts:108).
CorroborationIsLogged ==
  \A topic \in Topics :
    Disposition(topic) = "corroborated" =>
      \E found \in SUBSET UNION {LoggedAs("report", id) : id \in Ids} :
        /\ Cardinality({r.reporter : r \in found}) >= Quorum
        /\ \A r \in found :
             /\ <<r.target, r.category>> = topic /\ r.keyId \in reporterTrust
             /\ ~OverturnedInLog(r.reportId)
             /\ LoggedAs("appeal", r.reportId) # {} => LoggedAs("adjudication", r.reportId) # {}

\* What was overturned once never counts again, however it is adjudicated or
\* reported afterwards (exchange.ts:8-9).
OverturnedIsOut ==
  \A id \in Ids : OverturnedInLog(id) => reports[id] # None /\ ~reports[id].active

\* A category stops being contested only when a decision that states the key id of a
\* trusted adjudicator is taken on a report in it: neither more reports nor more
\* appeals end that (docs/CLAIMS.md:44).
ContestedUntilAdjudicated ==
  [][\A topic \in Topics :
       Disposition(topic) = "contested" /\ Disposition(topic)' # "contested" =>
         \E id \in On(topic) : adjudications'[id] # adjudications[id]
                               /\ adjudications'[id].keyId \in adjudicatorTrust]_vars

=============================================================================
