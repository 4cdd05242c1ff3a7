--------------------------- MODULE Sentinel_proofs ---------------------------
(***************************************************************************)
(* Machine-checked properties of what finds abuse and of what is made of   *)
(* it.                                                                     *)
(*                                                                         *)
(* The abuse-signal exchange, for any statements, keys, quorum and length  *)
(* of the log: it answers from its maps, the public checks its log.        *)
(* Neither property about the log is inductive: Covered says how the maps  *)
(* and the log belong together.                                            *)
(*                                                                         *)
(* The detectors and the linkage graph, for any names, contents,           *)
(* similarities, thresholds and accounts: what a detector finds is the     *)
(* greatest of what the entries of its index offer, so that an index that  *)
(* only grows never takes evidence back. The table of edit distances       *)
(* counts the single changes that lead from one name to another: a change  *)
(* moves an entry by one at most, and some change brings any two names     *)
(* closer. A cluster, searched for as many rounds as there are accounts,   *)
(* is what the links reach, because AdjacencyOK ties the lists it is       *)
(* searched by to the links.                                               *)
(***************************************************************************)
EXTENDS Sentinel, Detection, FiniteSetTheorems, TLAPS

Statements == Reports \union Appeals \union Adjudications

InLog(x) == \E i \in DOMAIN log : log[i] = x

\* A report counted is in the log and states a key id trusted as a reporter's; a
\* statement in the log is in the maps, and an adjudication in the maps is in the log.
Covered ==
  \A id \in Ids :
    /\ reports[id] # None => InLog(reports[id].report) /\ reports[id].report.keyId \in reporterTrust
    /\ adjudications[id] # None => InLog(adjudications[id]) /\ adjudications[id].reportId = id
    /\ \A a \in Appeals : InLog(a) /\ a.reportId = id => appeals[id] # {}
    /\ \A j \in Adjudications :
         InLog(j) /\ j.reportId = id /\ j.decision = "overturned" =>
           reports[id] # None /\ ~reports[id].active

Ind == TypeOK /\ Covered

-----------------------------------------------------------------------------
\* What the statements are.
LEMMA StatementFacts ==
  /\ \A r \in Reports : r.kind = "report" /\ r.reportId \in Ids
  /\ \A a \in Appeals : a.kind = "appeal" /\ a.reportId \in Ids
  /\ \A j \in Adjudications : j.kind = "adjudication" /\ j.reportId \in Ids
  /\ None \notin Reports \union Adjudications \union [report : Reports, active : BOOLEAN]
BY StatementsAssumption DEF AbuseReport, AbuseAppeal, Adjudication

\* LoggedAs selects from the log by kind and id.
LEMMA LoggedAsFacts ==
  ASSUME NEW kind, NEW id, NEW x
  PROVE  x \in LoggedAs(kind, id) <=> InLog(x) /\ x.kind = kind /\ x.reportId = id
BY DEF LoggedAs, InLog

\* An accepted statement joins the log and nothing leaves it.
LEMMA LogGrows ==
  ASSUME TypeOK, NEW x \in Statements, Logged(x)
  PROVE  /\ log' \in Seq(Statements)
         /\ \A y : InLog(y)' <=> InLog(y) \/ y = x
<1>1. log \in Seq(Statements) /\ log' = Append(log, x)
  BY DEF Logged, TypeOK, Statements
<1>2. /\ log' \in Seq(Statements) /\ Len(log') = Len(log) + 1 /\ Len(log) \in Nat
      /\ log'[Len(log) + 1] = x
      /\ \A i \in 1..Len(log) : log'[i] = log[i]
  BY <1>1
<1>3. DOMAIN log = 1..Len(log) /\ DOMAIN log' = 1..(Len(log) + 1)
  BY <1>1, <1>2
<1>4. DOMAIN log' = DOMAIN log \union {Len(log) + 1}
  BY <1>2, <1>3
<1> QED
  BY <1>2, <1>3, <1>4 DEF InLog

\* A record among the reports, before and after it is changed.
LEMMA ReportRecord ==
  ASSUME TypeOK, NEW id \in Ids, reports[id] # None
  PROVE  /\ reports[id] \in [report : Reports, active : BOOLEAN]
         /\ reports[id].report \in Reports /\ reports[id].report.reportId = id
BY DEF TypeOK

\* The invariant holds at the start.
LEMMA InitInd == Init => Ind
<1> SUFFICES ASSUME Init PROVE Ind
  OBVIOUS
<1>1. TypeOK
  BY StatementsAssumption DEF Init, TypeOK
<1>2. \A x : ~InLog(x)
  BY DEF Init, InLog
<1>3. Covered
  BY <1>2 DEF Init, Covered
<1> QED
  BY <1>1, <1>3 DEF Ind

\* It survives another trusted key,
LEMMA TrustInd ==
  ASSUME Ind, UNCHANGED <<log, reports, appeals, adjudications>>,
         reporterTrust \subseteq reporterTrust', reporterTrust' \subseteq KeyIds,
         adjudicatorTrust' \subseteq KeyIds
  PROVE  Ind'
<1>1. TypeOK'
  BY DEF Ind, TypeOK
<1>2. \A x : InLog(x)' <=> InLog(x)
  BY DEF InLog
<1>3. Covered'
  BY <1>2 DEF Ind, Covered
<1> QED
  BY <1>1, <1>3 DEF Ind

\* a report,
LEMMA SubmitInd ==
  ASSUME Ind, NEW r \in Reports, Submit(r)
  PROVE  Ind'
<1>1. TypeOK
  BY DEF Ind
<1>2. PICK id \in Ids : id = r.reportId
  BY StatementFacts
<1>3. /\ reports[id] = None /\ r.keyId \in reporterTrust /\ Logged(r)
      /\ reports' = [reports EXCEPT ![id] = [report |-> r, active |-> TRUE]]
      /\ UNCHANGED <<reporterTrust, adjudicatorTrust, appeals, adjudications>>
  BY <1>2 DEF Submit, VerifyReport
<1>4. log' \in Seq(Statements) /\ \A y : InLog(y)' <=> InLog(y) \/ y = r
  BY <1>1, <1>3, LogGrows DEF Statements
<1>5. /\ reports'[id] = [report |-> r, active |-> TRUE]
      /\ \A other \in Ids \ {id} : reports'[other] = reports[other]
      /\ reports' \in [Ids -> [report : Reports, active : BOOLEAN] \union {None}]
  BY <1>1, <1>3 DEF TypeOK
<1>6. appeals[id] = {} /\ adjudications[id] = None
  BY <1>1, <1>3 DEF TypeOK
<1>7. TypeOK'
  <2>1. ASSUME NEW i \in Ids
        PROVE  IF reports'[i] = None THEN appeals'[i] = {} /\ adjudications'[i] = None
               ELSE reports'[i].report.reportId = i
    <3>1. CASE i = id
      BY <3>1, <1>2, <1>3, <1>5, <1>6
    <3>2. CASE i # id
      BY <3>2, <1>1, <1>3, <1>5 DEF TypeOK
    <3> QED
      BY <3>1, <3>2
  <2> QED
    BY <2>1, <1>1, <1>3, <1>4, <1>5 DEF TypeOK, Statements
<1>8. \A a \in Appeals : InLog(a)' <=> InLog(a)
  BY <1>4, StatementFacts
<1>9. \A j \in Adjudications : InLog(j)' <=> InLog(j)
  BY <1>4, StatementFacts
<1>10. ASSUME NEW i \in Ids
       PROVE  /\ reports'[i] # None =>
                   InLog(reports[i].report)' /\ reports'[i].report.keyId \in reporterTrust'
              /\ adjudications'[i] # None =>
                   InLog(adjudications[i])' /\ adjudications'[i].reportId = i
              /\ \A a \in Appeals : InLog(a)' /\ a.reportId = i => appeals'[i] # {}
              /\ \A j \in Adjudications :
                   InLog(j)' /\ j.reportId = i /\ j.decision = "overturned" =>
                     reports'[i] # None /\ ~reports'[i].active
  <2>1. CASE i = id
    <3>1. reports'[i].report = r /\ InLog(r)'
      BY <2>1, <1>4, <1>5
    <3>2. InLog(reports[i].report)'
      BY <3>1 DEF InLog
    <3>3. \A a \in Appeals : ~(InLog(a) /\ a.reportId = id)
      BY <1>6 DEF Ind, Covered
    <3>4. \A j \in Adjudications : ~(InLog(j) /\ j.reportId = id /\ j.decision = "overturned")
      BY <1>3 DEF Ind, Covered
    <3> QED
      BY <2>1, <3>1, <3>2, <3>3, <3>4, <1>3, <1>6, <1>8, <1>9
  <2>2. CASE i # id
    <3>1. reports'[i] = reports[i] /\ adjudications'[i] = adjudications[i] /\ appeals'[i] = appeals[i]
      BY <2>2, <1>3, <1>5
    <3>2. reports[i] # None => InLog(reports[i].report)'
      <4>1. reports[i] # None => \E x : x = reports[i].report /\ InLog(x)'
        BY <1>4 DEF Ind, Covered
      <4> QED
        BY <4>1, <3>1 DEF InLog
    <3>3. adjudications[i] # None => InLog(adjudications[i])'
      <4>1. adjudications[i] # None => \E x : x = adjudications[i] /\ InLog(x)'
        BY <1>4 DEF Ind, Covered
      <4> QED
        BY <4>1, <3>1 DEF InLog
    <3> QED
      BY <3>1, <3>2, <3>3, <1>3, <1>8, <1>9 DEF Ind, Covered
  <2> QED
    BY <2>1, <2>2
<1>11. Covered'
  BY <1>10 DEF Covered
<1> QED
  BY <1>7, <1>11 DEF Ind

\* an appeal,
LEMMA AppealInd ==
  ASSUME Ind, NEW b \in Appeals, Appeal(b)
  PROVE  Ind'
<1>1. TypeOK
  BY DEF Ind
<1>2. PICK id \in Ids : id = b.reportId
  BY StatementFacts
<1>3. /\ reports[id] # None /\ Logged(b)
      /\ appeals' = [appeals EXCEPT ![id] = @ \union {b}]
      /\ UNCHANGED <<reporterTrust, adjudicatorTrust, reports, adjudications>>
  BY <1>2 DEF Appeal
<1>4. log' \in Seq(Statements) /\ \A y : InLog(y)' <=> InLog(y) \/ y = b
  BY <1>1, <1>3, LogGrows DEF Statements
<1>5. /\ appeals'[id] = appeals[id] \union {b}
      /\ \A other \in Ids \ {id} : appeals'[other] = appeals[other]
      /\ appeals' \in [Ids -> SUBSET Appeals]
  BY <1>1, <1>3 DEF TypeOK
<1>6. TypeOK'
  <2>1. \A i \in Ids \ {id} : reports[i] = None => appeals'[i] = {}
    BY <1>1, <1>5 DEF TypeOK
  <2> QED
    BY <2>1, <1>1, <1>3, <1>4, <1>5 DEF TypeOK, Statements
<1>7. \A j \in Adjudications : InLog(j)' <=> InLog(j)
  BY <1>4, StatementFacts
<1>8. ASSUME NEW i \in Ids
      PROVE  /\ reports[i] # None => InLog(reports[i].report)'
             /\ adjudications[i] # None => InLog(adjudications[i])'
  <2>1. /\ reports[i] # None => \E x : x = reports[i].report /\ InLog(x)'
        /\ adjudications[i] # None => \E x : x = adjudications[i] /\ InLog(x)'
    BY <1>4 DEF Ind, Covered
  <2> QED
    BY <2>1, <1>3 DEF InLog
<1>9. ASSUME NEW i \in Ids, NEW a \in Appeals, InLog(a)', a.reportId = i
      PROVE  appeals'[i] # {}
  <2>1. CASE a = b
    BY <2>1, <1>2, <1>5, <1>9
  <2>2. CASE a # b
    <3>1. appeals[i] # {}
      BY <2>2, <1>4, <1>9 DEF Ind, Covered
    <3> QED
      BY <3>1, <1>5
  <2> QED
    BY <2>1, <2>2
<1>10. Covered'
  BY <1>3, <1>7, <1>8, <1>9 DEF Ind, Covered
<1> QED
  BY <1>6, <1>10 DEF Ind

\* an adjudication,
LEMMA AdjudicateInd ==
  ASSUME Ind, NEW k \in Adjudications, Adjudicate(k)
  PROVE  Ind'
<1>1. TypeOK
  BY DEF Ind
<1>2. PICK id \in Ids : id = k.reportId
  BY StatementFacts
<1>3. /\ reports[id] # None /\ Logged(k)
      /\ adjudications' = [adjudications EXCEPT ![id] = k]
      /\ reports' = [reports EXCEPT ![id].active = (@ /\ k.decision # "overturned")]
      /\ UNCHANGED <<reporterTrust, adjudicatorTrust, appeals>>
  BY <1>2 DEF Adjudicate
<1>4. log' \in Seq(Statements) /\ \A y : InLog(y)' <=> InLog(y) \/ y = k
  BY <1>1, <1>3, LogGrows DEF Statements
<1>5. /\ reports[id] \in [report : Reports, active : BOOLEAN] /\ reports[id].report.reportId = id
  BY <1>1, <1>3, ReportRecord
<1>6. /\ reports'[id] = [reports[id] EXCEPT !.active = (@ /\ k.decision # "overturned")]
      /\ \A other \in Ids \ {id} : reports'[other] = reports[other]
      /\ DOMAIN reports' = Ids
  BY <1>1, <1>3 DEF TypeOK
<1>7. /\ reports'[id] \in [report : Reports, active : BOOLEAN]
      /\ reports'[id].report = reports[id].report
      /\ reports'[id].active = (reports[id].active /\ k.decision # "overturned")
  BY <1>5, <1>6
<1>8. /\ adjudications'[id] = k
      /\ \A other \in Ids \ {id} : adjudications'[other] = adjudications[other]
      /\ adjudications' \in [Ids -> Adjudications \union {None}]
  BY <1>1, <1>3 DEF TypeOK
<1>9. reports'[id] # None
  BY <1>7, StatementFacts
<1>10. TypeOK'
  <2>1. reports' \in [Ids -> [report : Reports, active : BOOLEAN] \union {None}]
    <3>1. \A i \in Ids : reports'[i] \in [report : Reports, active : BOOLEAN] \union {None}
      BY <1>1, <1>6, <1>7 DEF TypeOK
    <3>2. reports' = [i \in Ids |-> reports'[i]]
      BY <1>3, <1>1 DEF TypeOK
    <3> QED
      BY <3>1, <3>2
  <2>2. ASSUME NEW i \in Ids
        PROVE  IF reports'[i] = None THEN appeals'[i] = {} /\ adjudications'[i] = None
               ELSE reports'[i].report.reportId = i
    <3>1. CASE i = id
      BY <3>1, <1>5, <1>7, <1>9
    <3>2. CASE i # id
      BY <3>2, <1>1, <1>3, <1>6, <1>8 DEF TypeOK
    <3> QED
      BY <3>1, <3>2
  <2> QED
    BY <2>1, <2>2, <1>1, <1>3, <1>4, <1>8 DEF TypeOK, Statements
<1>11. \A a \in Appeals : InLog(a)' <=> InLog(a)
  BY <1>4, StatementFacts
<1>12. ASSUME NEW i \in Ids
       PROVE  /\ reports'[i] # None =>
                   InLog(reports[i].report)' /\ reports'[i].report.keyId \in reporterTrust
              /\ adjudications'[i] # None =>
                   InLog(adjudications[i])' /\ adjudications'[i].reportId = i
  <2>1. CASE i = id
    <3>1. \E x : x = reports'[id].report /\ InLog(x)' /\ x.keyId \in reporterTrust
      BY <1>3, <1>4, <1>7 DEF Ind, Covered
    <3>2. \E x : x = adjudications'[id] /\ InLog(x)' /\ x.reportId = id
      BY <1>2, <1>4, <1>8
    <3> QED
      BY <2>1, <3>1, <3>2 DEF InLog
  <2>2. CASE i # id
    <3>1. /\ reports'[i] # None => \E x : x = reports'[i].report /\ InLog(x)'
                                          /\ x.keyId \in reporterTrust
          /\ adjudications'[i] # None => \E x : x = adjudications'[i] /\ InLog(x)'
                                                /\ x.reportId = i
      BY <2>2, <1>4, <1>6, <1>8 DEF Ind, Covered
    <3> QED
      BY <3>1 DEF InLog
  <2> QED
    BY <2>1, <2>2
<1>13. ASSUME NEW i \in Ids, NEW j \in Adjudications, InLog(j)', j.reportId = i,
              j.decision = "overturned"
       PROVE  reports'[i] # None /\ ~reports'[i].active
  <2>1. CASE j = k
    BY <2>1, <1>2, <1>7, <1>9, <1>13
  <2>2. CASE j # k
    <3>1. reports[i] # None /\ ~reports[i].active
      BY <2>2, <1>4, <1>13 DEF Ind, Covered
    <3> QED
      BY <3>1, <1>6, <1>7, <1>9
  <2> QED
    BY <2>1, <2>2
<1>14. Covered'
  BY <1>3, <1>11, <1>12, <1>13 DEF Ind, Covered
<1> QED
  BY <1>10, <1>14 DEF Ind

\* and so every step.
LEMMA NextInd == Ind /\ [Next]_vars => Ind'
<1> SUFFICES ASSUME Ind, [Next]_vars PROVE Ind'
  OBVIOUS
<1>0. reporterTrust \subseteq KeyIds /\ adjudicatorTrust \subseteq KeyIds
  BY DEF Ind, TypeOK
<1>1. ASSUME NEW keyId \in KeyIds, TrustReporter(keyId) \/ TrustAdjudicator(keyId) PROVE Ind'
  BY <1>0, <1>1, TrustInd DEF TrustReporter, TrustAdjudicator
<1>2. ASSUME NEW r \in Reports, Submit(r) PROVE Ind'
  BY <1>2, SubmitInd
<1>3. ASSUME NEW a \in Appeals, Appeal(a) PROVE Ind'
  BY <1>3, AppealInd
<1>4. ASSUME NEW j \in Adjudications, Adjudicate(j) PROVE Ind'
  BY <1>4, AdjudicateInd
<1>5. CASE UNCHANGED vars
  BY <1>0, <1>5, TrustInd DEF vars
<1> QED
  BY <1>1, <1>2, <1>3, <1>4, <1>5 DEF Next

\* It is one.
LEMMA Inductive == Spec => []Ind
BY InitInd, NextInd, PTL DEF Spec

-----------------------------------------------------------------------------
\* The exchange is well-typed in every state (exchange.ts).
THEOREM TypeCorrect == Spec => []TypeOK
<1>1. Ind => TypeOK
  BY DEF Ind
<1> QED
  BY <1>1, Inductive, PTL

\* What the log says was overturned once is never active again
\* (exchange.ts:8-9).
THEOREM OverturnedStaysOut == Spec => []OverturnedIsOut
<1>1. Ind => OverturnedIsOut
  <2> SUFFICES ASSUME Ind, NEW id \in Ids, NEW j, j \in LoggedAs("adjudication", id),
                      j.decision = "overturned"
               PROVE  reports[id] # None /\ ~reports[id].active
    BY DEF OverturnedIsOut, OverturnedInLog
  <2>1. InLog(j) /\ j.kind = "adjudication" /\ j.reportId = id
    BY LoggedAsFacts
  <2>2. j \in Statements
    BY <2>1 DEF Ind, TypeOK, InLog, Statements
  <2>3. j \in Adjudications
    BY <2>1, <2>2, StatementFacts DEF Statements
  <2> QED
    BY <2>1, <2>3 DEF Ind, Covered
<1> QED
  BY <1>1, Inductive, PTL

\* A corroborated category can be checked against the public log: the reports that
\* count are there, they state key ids of trusted reporters and name a quorum of
\* reporters, and nothing there speaks against them (exchange.ts:107-127).
THEOREM CorroborationCanBeChecked == Spec => []CorroborationIsLogged
<1>1. Ind /\ OverturnedIsOut => CorroborationIsLogged
  <2> SUFFICES ASSUME Ind, OverturnedIsOut, NEW topic \in Topics,
                      Disposition(topic) = "corroborated"
               PROVE  \E found \in SUBSET UNION {LoggedAs("report", id) : id \in Ids} :
                        /\ Cardinality({r.reporter : r \in found}) >= Quorum
                        /\ \A r \in found :
                             /\ <<r.target, r.category>> = topic /\ r.keyId \in reporterTrust
                             /\ ~OverturnedInLog(r.reportId)
                             /\ LoggedAs("appeal", r.reportId) # {} =>
                                  LoggedAs("adjudication", r.reportId) # {}
    BY DEF CorroborationIsLogged
  <2> DEFINE found == {reports[id].report : id \in ActiveOn(topic)}
  <2>1. ~PendingAppeal(topic) /\ Cardinality(Reporters(topic)) >= Quorum
    <3>1. None # "corroborated"
      BY StatementsAssumption DEF Dispositions
    <3> QED
      BY <3>1 DEF Disposition
  <2>2. {r.reporter : r \in found} = Reporters(topic)
    BY DEF Reporters
  <2>3. ASSUME NEW id \in ActiveOn(topic), NEW r, r = reports[id].report
        PROVE  /\ r \in LoggedAs("report", id)
               /\ <<r.target, r.category>> = topic /\ r.keyId \in reporterTrust
               /\ r.reportId = id /\ ~OverturnedInLog(id)
               /\ LoggedAs("appeal", id) # {} => LoggedAs("adjudication", id) # {}
    <3>1. /\ id \in Ids /\ reports[id] # None /\ reports[id].active
          /\ <<r.target, r.category>> = topic
      BY <2>3 DEF ActiveOn, On
    <3>2. r \in Reports /\ r.reportId = id /\ r.kind = "report"
      BY <2>3, <3>1, ReportRecord, StatementFacts DEF Ind
    <3>3. InLog(r) /\ r.keyId \in reporterTrust
      BY <2>3, <3>1 DEF Ind, Covered
    <3>4. r \in LoggedAs("report", id)
      BY <3>2, <3>3, LoggedAsFacts
    <3>5. ~OverturnedInLog(id)
      BY <3>1 DEF OverturnedIsOut
    <3>6. ASSUME NEW a \in LoggedAs("appeal", id)
          PROVE  LoggedAs("adjudication", id) # {}
      <4>1. InLog(a) /\ a.kind = "appeal" /\ a.reportId = id
        BY <3>6, LoggedAsFacts
      <4>2. a \in Statements
        BY <4>1 DEF Ind, TypeOK, InLog, Statements
      <4>3. appeals[id] # {}
        BY <4>1, <4>2, <3>1, StatementFacts DEF Ind, Covered, Statements
      <4>4. adjudications[id] # None
        BY <4>3, <2>1, <2>3 DEF PendingAppeal
      <4>5. PICK j : j = adjudications[id]
        OBVIOUS
      <4>6. j \in Adjudications /\ InLog(j) /\ j.reportId = id
        BY <4>4, <4>5, <3>1 DEF Ind, TypeOK, Covered
      <4> QED
        BY <4>6, LoggedAsFacts, StatementFacts
    <3> QED
      BY <3>1, <3>2, <3>3, <3>4, <3>5, <3>6
  <2>4. found \subseteq UNION {LoggedAs("report", id) : id \in Ids}
    BY <2>3 DEF ActiveOn, On
  <2>5. Cardinality({r.reporter : r \in found}) >= Quorum
    BY <2>1, <2>2
  <2>6. \A r \in found :
          /\ <<r.target, r.category>> = topic /\ r.keyId \in reporterTrust
          /\ ~OverturnedInLog(r.reportId)
          /\ LoggedAs("appeal", r.reportId) # {} => LoggedAs("adjudication", r.reportId) # {}
    BY <2>3
  <2> HIDE DEF found
  <2> QED
    BY <2>4, <2>5, <2>6
<1> QED
  BY <1>1, Inductive, OverturnedStaysOut, PTL

\* While a report has an appeal on which nothing was decided its category is
\* contested, and no step takes that away but a decision on a report of the category
\* that states a trusted adjudicator's key id (docs/CLAIMS.md:44).
LEMMA StillContested ==
  ASSUME Ind, [Next]_vars, NEW topic \in Topics, Disposition(topic) = "contested",
         Disposition(topic)' # "contested"
  PROVE  \E id \in On(topic) : adjudications'[id] # adjudications[id]
                               /\ adjudications'[id].keyId \in adjudicatorTrust
<1>1. PendingAppeal(topic)
  <2>1. None # "contested"
    BY StatementsAssumption DEF Dispositions
  <2> QED
    BY <2>1 DEF Disposition
<1>2. PICK id \in ActiveOn(topic) : appeals[id] # {} /\ adjudications[id] = None
  BY <1>1 DEF PendingAppeal
<1>3. /\ id \in Ids /\ reports[id] # None /\ reports[id].active
      /\ <<reports[id].report.target, reports[id].report.category>> = topic
  BY DEF ActiveOn, On
<1>4. TypeOK
  BY DEF Ind
<1>5. ASSUME reports'[id] = reports[id], appeals'[id] # {}, adjudications'[id] = None
      PROVE  FALSE
  <2>1. id \in On(topic)'
    BY <1>3, <1>5 DEF On
  <2>2. id \in ActiveOn(topic)'
    BY <2>1, <1>3, <1>5 DEF ActiveOn
  <2>3. PendingAppeal(topic)'
    BY <2>2, <1>5 DEF PendingAppeal
  <2>4. Disposition(topic)' = "contested"
    BY <2>1, <2>2, <2>3 DEF Disposition
  <2> QED
    BY <2>4
<1>6. CASE \E keyId \in KeyIds : TrustReporter(keyId) \/ TrustAdjudicator(keyId)
  BY <1>2, <1>5, <1>6 DEF TrustReporter, TrustAdjudicator
<1>7. ASSUME NEW r \in Reports, Submit(r) PROVE FALSE
  <2>1. r.reportId # id
    BY <1>3, <1>7 DEF Submit
  <2>2. reports'[id] = reports[id]
    BY <2>1, <1>3, <1>4, <1>7 DEF Submit, TypeOK
  <2> QED
    BY <2>2, <1>2, <1>5, <1>7 DEF Submit
<1>8. ASSUME NEW a \in Appeals, Appeal(a) PROVE FALSE
  <2>1. appeals' = [appeals EXCEPT ![a.reportId] = @ \union {a}]
    BY <1>8 DEF Appeal
  <2>2. appeals'[id] # {}
    BY <2>1, <1>2, <1>3, <1>4 DEF TypeOK
  <2> QED
    BY <2>2, <1>2, <1>5, <1>8 DEF Appeal
<1>9. ASSUME NEW j \in Adjudications, Adjudicate(j)
      PROVE  /\ id \in On(topic) /\ adjudications'[id] # adjudications[id]
             /\ adjudications'[id].keyId \in adjudicatorTrust
  <2>1. CASE j.reportId = id
    <3>1. adjudications'[id] = j /\ j.keyId \in adjudicatorTrust
      BY <2>1, <1>3, <1>4, <1>9 DEF Adjudicate, VerifyAdjudication, TypeOK
    <3>2. j # None
      BY StatementFacts
    <3> QED
      BY <3>1, <3>2, <1>2 DEF ActiveOn
  <2>2. CASE j.reportId # id
    <3>1. reports'[id] = reports[id]
      BY <2>2, <1>3, <1>4, <1>9 DEF Adjudicate, TypeOK
    <3>2. adjudications'[id] = None
      BY <2>2, <1>2, <1>3, <1>4, <1>9 DEF Adjudicate, TypeOK
    <3> QED
      BY <3>1, <3>2, <1>2, <1>5, <1>9 DEF Adjudicate
  <2> QED
    BY <2>1, <2>2
<1>10. CASE UNCHANGED vars
  BY <1>2, <1>5, <1>10 DEF vars
<1> QED
  BY <1>6, <1>7, <1>8, <1>9, <1>10 DEF Next

\* A dispute ends only by a decision on it under a trusted adjudicator's key id
\* (docs/CLAIMS.md:44).
THEOREM OnlyDecisionsEndDisputes == Spec => ContestedUntilAdjudicated
<1>1. Ind /\ [Next]_vars =>
        [\A topic \in Topics :
           Disposition(topic) = "contested" /\ Disposition(topic)' # "contested" =>
             \E id \in On(topic) : adjudications'[id] # adjudications[id]
                                   /\ adjudications'[id].keyId \in adjudicatorTrust]_vars
  BY StillContested
<1> QED
  BY <1>1, Inductive, PTL DEF Spec, ContestedUntilAdjudicated

-----------------------------------------------------------------------------
(***************************************************************************)
(* The best of some offers.                                                *)
(***************************************************************************)
\* The bodies of the recursive definitions.
BestCall(offers, best, i) == IF i = 0 THEN Null ELSE Consider(best[i - 1], offers[i])
FlatCall(seqs, flatten, i) == IF i = 1 THEN seqs[i] ELSE flatten[i - 1] \o seqs[i]

BestRecursion == INSTANCE Recursion WITH Def <- BestCall
FlatRecursion == INSTANCE Recursion WITH Def <- FlatCall

\* The running best is what BestOf returns the end of.
LEMMA BestEquation ==
  ASSUME NEW offers, Len(offers) \in Nat
  PROVE  \E best : /\ best = [i \in 0..Len(offers) |-> BestCall(offers, best, i)]
                   /\ BestOf(offers) = best[Len(offers)]
<1> DEFINE S == 0..Len(offers)
<1>1. ASSUME NEW g, NEW h, NEW n \in S, \A m \in S : m < n => g[m] = h[m]
      PROVE  BestCall(offers, g, n) = BestCall(offers, h, n)
  <2>1. CASE n = 0
    BY <2>1 DEF BestCall
  <2>2. CASE n # 0
    <3>1. g[n - 1] = h[n - 1]
      BY <1>1, <2>2
    <3> QED
      BY <2>2, <3>1 DEF BestCall
  <2> QED
    BY <2>1, <2>2
<1>2. BestRecursion!Causal(offers, S)
  BY <1>1 DEF BestRecursion!Causal
<1>3. S \in SUBSET Nat
  OBVIOUS
<1>4. \E f : f = [n \in S |-> BestCall(offers, f, n)]
  BY <1>2, <1>3, BestRecursion!RecursionHasSolution
<1> DEFINE best == CHOOSE f : f = [n \in S |-> BestCall(offers, f, n)]
<1>5. BestOf(offers) = best[Len(offers)]
  BY Zenon DEF BestOf, BestCall
<1>6. best = [n \in S |-> BestCall(offers, best, n)]
  BY <1>4, Zenon
<1> QED
  BY <1>5, <1>6

\* The best of some offers is one of them, and none of them scores more.
LEMMA BestIsMax ==
  ASSUME NEW offers \in Seq(Offered)
  PROVE  /\ offers = <<>> => BestOf(offers) = Null
         /\ offers # <<>> => /\ BestOf(offers) \in Range(offers)
                             /\ \A o \in Range(offers) : o.score <= BestOf(offers).score
<1>1. PICK k \in Nat : k = Len(offers)
  OBVIOUS
<1>2. PICK best : best = [i \in 0..k |-> BestCall(offers, best, i)] /\ BestOf(offers) = best[k]
  BY <1>1, BestEquation
<1>3. /\ \A i \in 1..k : offers[i] # Null /\ offers[i].score \in Int
      /\ Range(offers) = {offers[i] : i \in 1..k}
      /\ (offers = <<>>) <=> (k = 0)
  <2>1. \A i \in 1..k : offers[i] \in Offered
    BY <1>1
  <2>2. /\ \A o \in Offered : o # Null
        /\ \A o \in Offered : o.score \in Int
    <3>1. \A o \in Offered : o # Null
      BY NullAssumption
    <3>2. ASSUME NEW o \in Offered PROVE o.score \in Int
      <4>1. o.score \in Thousandths
        BY DEF Offered
      <4>2. \A n \in Thousandths : n \in Int
        BY DEF Thousandths
      <4> QED
        BY <4>1, <4>2, Zenon
    <3> QED
      BY <3>1, <3>2
  <2>3. Range(offers) = {offers[i] : i \in 1..k}
    BY <1>1 DEF Range
  <2>4. (offers = <<>>) <=> (k = 0)
    BY <1>1
  <2> QED
    BY <2>1, <2>2, <2>3, <2>4
<1> DEFINE Top(i) == \E j \in 1..i : /\ best[i] = offers[j]
                                     /\ \A n \in 1..i : offers[n].score <= offers[j].score
           T == {i \in Nat : i \in 1..k /\ ~Top(i)}
<1>4. best[0] = Null
  BY <1>2 DEF BestCall
<1>5. T = {}
  <2> SUFFICES ASSUME T # {} PROVE FALSE
    OBVIOUS
  <2>1. PICK i \in T : \A n \in T : i <= n
    BY BestRecursion!LeastNatural, T \in SUBSET Nat
  <2>2. best[i] = Consider(best[i - 1], offers[i])
    BY <1>2, <2>1 DEF BestCall
  <2>3. CASE i = 1
    <3>1. best[i] = offers[1]
      BY <1>4, <2>2, <2>3 DEF Consider
    <3> QED
      BY <1>3, <2>1, <2>3, <3>1
  <2>4. CASE i # 1
    <3>1. i - 1 \in 1..k /\ i - 1 \notin T
      BY <2>1, <2>4
    <3>2. PICK j \in 1..(i - 1) : /\ best[i - 1] = offers[j]
                                  /\ \A n \in 1..(i - 1) : offers[n].score <= offers[j].score
      BY <3>1
    <3>3. best[i - 1] # Null /\ offers[i].score \in Int /\ offers[j].score \in Int /\ i \in 1..k
          /\ \A n \in 1..(i - 1) : offers[n].score \in Int
      BY <1>3, <2>1, <3>2
    <3>4. CASE offers[i].score > offers[j].score
      <4>1. best[i] = offers[i]
        BY <2>2, <3>2, <3>3, <3>4 DEF Consider
      <4>2. ASSUME NEW n \in 1..i PROVE offers[n].score <= offers[i].score
        <5>1. CASE n = i
          BY <3>3, <5>1
        <5>2. CASE n # i
          <6>1. n \in 1..(i - 1)
            BY <5>2, <3>3
          <6>2. offers[n].score <= offers[j].score /\ offers[n].score \in Int
            BY <3>2, <3>3, <6>1
          <6> QED
            BY <3>3, <3>4, <6>2
        <5> QED
          BY <5>1, <5>2
      <4>3. i \in 1..i /\ i \in 1..k
        BY <3>3
      <4>4. Top(i)
        BY <4>1, <4>2, <4>3, Zenon
      <4> QED
        BY <2>1, <4>4
    <3>5. CASE ~(offers[i].score > offers[j].score)
      <4>1. best[i] = offers[j]
        BY <2>2, <3>2, <3>3, <3>5 DEF Consider
      <4>2. ASSUME NEW n \in 1..i PROVE offers[n].score <= offers[j].score
        <5>1. CASE n = i
          BY <3>3, <3>5, <5>1
        <5>2. CASE n # i
          <6>1. n \in 1..(i - 1)
            BY <5>2, <3>3
          <6> QED
            BY <3>2, <6>1
        <5> QED
          BY <5>1, <5>2
      <4>3. j \in 1..i
        BY <3>2, <3>3
      <4>4. Top(i)
        BY <4>1, <4>2, <4>3, Zenon
      <4> QED
        BY <2>1, <4>4
    <3> QED
      BY <3>4, <3>5
  <2> QED
    BY <2>3, <2>4
<1>6. CASE k = 0
  BY <1>2, <1>3, <1>4, <1>6
<1>7. CASE k # 0
  <2>1. Top(k)
    BY <1>5, <1>7
  <2> QED
    BY <1>2, <1>3, <1>7, <2>1
<1> QED
  BY <1>6, <1>7

\* What is in a concatenation.
LEMMA ConcatFacts ==
  ASSUME NEW T, NEW s \in Seq(T), NEW t \in Seq(T)
  PROVE  s \o t \in Seq(T) /\ Range(s \o t) = Range(s) \union Range(t)
<1>1. /\ s \o t \in Seq(T) /\ Len(s \o t) = Len(s) + Len(t) /\ Len(s) \in Nat /\ Len(t) \in Nat
      /\ DOMAIN s = 1..Len(s) /\ DOMAIN t = 1..Len(t) /\ DOMAIN (s \o t) = 1..(Len(s) + Len(t))
  OBVIOUS
<1>2. \A i \in 1..Len(s) : (s \o t)[i] = s[i]
  OBVIOUS
<1>3. \A i \in 1..Len(t) : (s \o t)[Len(s) + i] = t[i]
  OBVIOUS
<1>4. ASSUME NEW x \in Range(s \o t) PROVE x \in Range(s) \union Range(t)
  <2>1. PICK i \in 1..(Len(s) + Len(t)) : x = (s \o t)[i]
    BY <1>1, <1>4 DEF Range
  <2>2. CASE i <= Len(s)
    BY <1>1, <1>2, <2>1, <2>2 DEF Range
  <2>3. CASE i > Len(s)
    <3>1. i - Len(s) \in 1..Len(t) /\ i = Len(s) + (i - Len(s))
      BY <1>1, <2>1, <2>3
    <3> QED
      BY <1>1, <1>3, <2>1, <3>1 DEF Range
  <2> QED
    BY <1>1, <2>1, <2>2, <2>3
<1>5. ASSUME NEW x \in Range(s) PROVE x \in Range(s \o t)
  <2>1. PICK i \in 1..Len(s) : x = s[i]
    BY <1>1, <1>5 DEF Range
  <2>2. i \in 1..(Len(s) + Len(t))
    BY <1>1, <2>1
  <2> QED
    BY <1>1, <1>2, <2>1, <2>2 DEF Range
<1>6. ASSUME NEW x \in Range(t) PROVE x \in Range(s \o t)
  <2>1. PICK i \in 1..Len(t) : x = t[i]
    BY <1>1, <1>6 DEF Range
  <2>2. Len(s) + i \in 1..(Len(s) + Len(t))
    BY <1>1, <2>1
  <2> QED
    BY <1>1, <1>3, <2>1, <2>2 DEF Range
<1> QED
  BY <1>1, <1>4, <1>5, <1>6

\* Flattening keeps what is in the sequences, and nothing else.
LEMMA FlattenFacts ==
  ASSUME NEW T, NEW seqs \in Seq(Seq(T))
  PROVE  /\ FlattenSeq(seqs) \in Seq(T)
         /\ Range(FlattenSeq(seqs)) = UNION {Range(seqs[i]) : i \in DOMAIN seqs}
<1>1. PICK k \in Nat : k = Len(seqs)
  OBVIOUS
<1>2. CASE k = 0
  <2>1. Len(seqs) = 0 /\ DOMAIN seqs = {}
    <3>1. DOMAIN seqs = 1..k
      BY <1>1
    <3>2. 1..k = {}
      BY <1>2
    <3> QED
      BY <1>1, <1>2, <3>1, <3>2
  <2>4. seqs = <<>>
    BY <2>1
  <2>2. FlattenSeq(seqs) = seqs
    BY <2>1, Zenon DEF FlattenSeq
  <2>3. Range(seqs) = {}
    BY <2>1 DEF Range
  <2>5. UNION {Range(seqs[i]) : i \in DOMAIN seqs} = {}
    BY <2>1
  <2>6. FlattenSeq(seqs) \in Seq(T)
    BY <2>2, <2>4
  <2> QED
    BY <2>2, <2>3, <2>5, <2>6
<1>3. CASE k # 0
  <2> DEFINE S == 1..k
  <2>1. ASSUME NEW g, NEW h, NEW n \in S, \A m \in S : m < n => g[m] = h[m]
        PROVE  FlatCall(seqs, g, n) = FlatCall(seqs, h, n)
    <3>1. CASE n = 1
      BY <3>1 DEF FlatCall
    <3>2. CASE n # 1
      <4>1. g[n - 1] = h[n - 1]
        BY <2>1, <3>2
      <4> QED
        BY <3>2, <4>1 DEF FlatCall
    <3> QED
      BY <3>1, <3>2
  <2>2. FlatRecursion!Causal(seqs, S)
    BY <2>1 DEF FlatRecursion!Causal
  <2>3. \E f : f = [n \in S |-> FlatCall(seqs, f, n)]
    BY <2>2, FlatRecursion!RecursionHasSolution, S \in SUBSET Nat
  <2> DEFINE flat == CHOOSE f : f = [n \in S |-> FlatCall(seqs, f, n)]
  <2>4. FlattenSeq(seqs) = flat[k]
    <3>1. Len(seqs) # 0
      BY <1>1, <1>3
    <3> QED
      BY <1>1, <3>1, Zenon DEF FlattenSeq, FlatCall
  <2>5. flat = [n \in S |-> FlatCall(seqs, flat, n)]
    BY <2>3, Zenon
  <2> HIDE DEF flat
  <2>6. /\ flat[1] = seqs[1]
        /\ \A n \in 2..k : flat[n] = flat[n - 1] \o seqs[n]
    <3>1. \A n \in S : flat[n] = FlatCall(seqs, flat, n)
      BY <2>5
    <3>2. 1 \in S /\ \A n \in 2..k : n \in S /\ n # 1
      BY <1>3
    <3> QED
      BY <3>1, <3>2 DEF FlatCall
  <2>7. DOMAIN seqs = 1..k /\ \A i \in 1..k : seqs[i] \in Seq(T)
    BY <1>1
  <2> DEFINE Good(n) == /\ flat[n] \in Seq(T)
                        /\ Range(flat[n]) = UNION {Range(seqs[i]) : i \in 1..n}
             Bad == {n \in Nat : n \in 1..k /\ ~Good(n)}
  <2>8. Bad = {}
    <3> SUFFICES ASSUME Bad # {} PROVE FALSE
      OBVIOUS
    <3>1. PICK n \in Bad : \A m \in Bad : n <= m
      BY BestRecursion!LeastNatural, Bad \in SUBSET Nat
    <3>2. CASE n = 1
      BY <2>6, <2>7, <3>1, <3>2
    <3>3. CASE n # 1
      <4>1. n \in 1..k /\ n - 1 \in 1..k /\ n \in 2..k /\ ~(n <= n - 1)
        BY <3>3
      <4>0. n - 1 \notin Bad
        BY <3>1, <4>1
      <4>2. Good(n - 1)
        BY <4>0, <4>1
      <4>3. flat[n - 1] \in Seq(T) /\ seqs[n] \in Seq(T) /\ flat[n] = flat[n - 1] \o seqs[n]
        BY <2>6, <2>7, <4>1, <4>2
      <4>4. flat[n] \in Seq(T) /\ Range(flat[n]) = Range(flat[n - 1]) \union Range(seqs[n])
        BY <4>3, ConcatFacts
      <4>5. 1..n = (1..(n - 1)) \union {n}
        BY <4>1
      <4>6. Range(flat[n]) = UNION {Range(seqs[i]) : i \in 1..n}
        BY <4>2, <4>4, <4>5
      <4> QED
        BY <3>1, <4>4, <4>6
    <3> QED
      BY <3>2, <3>3
  <2>9. Good(k)
    <3>1. k \in 1..k
      BY <1>3
    <3>2. k \notin Bad
      BY <2>8
    <3> QED
      BY <3>1, <3>2
  <2> QED
    BY <2>4, <2>7, <2>9
<1> QED
  BY <1>2, <1>3

-----------------------------------------------------------------------------
(***************************************************************************)
(* Names.                                                                  *)
(***************************************************************************)
RowCall(x, curr, j) ==
  IF j = 0 THEN x.prev[0] + 1
  ELSE Min({x.prev[j] + 1, curr[j - 1] + 1, x.prev[j - 1] + (IF x.ch = x.b[j] THEN 0 ELSE 1)})
RowsCall(x, rows, i) ==
  IF i = 0 THEN [j \in 0..Len(x.b) |-> j] ELSE Row(rows[i - 1], x.a[i], x.b)
RnCall(s, folded, i) ==
  IF i = 0 THEN <<>>
  ELSE IF IsRn(s, i - 1) THEN folded[i - 1]
  ELSE Append(folded[i - 1], IF IsRn(s, i) THEN "m" ELSE s[i])

RowRecursion == INSTANCE Recursion WITH Def <- RowCall
RowsRecursion == INSTANCE Recursion WITH Def <- RowsCall
RnRecursion == INSTANCE Recursion WITH Def <- RnCall

\* The least of three numbers.
LEMMA LeastOfThree ==
  ASSUME NEW x \in Int, NEW y \in Int, NEW z \in Int
  PROVE  /\ Min({x, y, z}) \in {x, y, z}
         /\ Min({x, y, z}) <= x /\ Min({x, y, z}) <= y /\ Min({x, y, z}) <= z
<1>1. \E m \in {x, y, z} : \A n \in {x, y, z} : m <= n
  <2>1. CASE x <= y /\ x <= z
    BY <2>1
  <2>2. CASE y <= x /\ y <= z
    BY <2>2
  <2>3. CASE z <= x /\ z <= y
    BY <2>3
  <2> QED
    BY <2>1, <2>2, <2>3
<1> DEFINE m == CHOOSE m \in {x, y, z} : \A n \in {x, y, z} : m <= n
<1>2. m \in {x, y, z} /\ \A n \in {x, y, z} : m <= n
  BY <1>1, Zenon
<1>3. Min({x, y, z}) = m
  BY Zenon DEF Min
<1> HIDE DEF m
<1> QED
  BY <1>2, <1>3

\* It is a natural number, if they are.
LEMMA LeastOfNaturals ==
  ASSUME NEW x \in Nat, NEW y \in Nat, NEW z \in Nat
  PROVE  Min({x, y, z}) \in Nat
<1>1. Min({x, y, z}) \in {x, y, z}
  BY LeastOfThree
<1> QED
  BY <1>1

\* The lesser of two.
LEMMA LeastOfTwo ==
  ASSUME NEW x \in Int, NEW y \in Int
  PROVE  Min({x, y}) \in {x, y} /\ Min({x, y}) <= x /\ Min({x, y}) <= y
<1>1. {x, y} = {x, y, y}
  OBVIOUS
<1> QED
  BY <1>1, LeastOfThree

\* The greater of two.
LEMMA MaxOfTwo ==
  ASSUME NEW x \in Nat, NEW y \in Nat
  PROVE  Max({x, y}) \in Nat /\ Max({x, y}) >= x /\ Max({x, y}) >= y
<1>1. \E m \in {x, y} : \A n \in {x, y} : m >= n
  OBVIOUS
<1> DEFINE m == CHOOSE m \in {x, y} : \A n \in {x, y} : m >= n
<1>2. m \in {x, y} /\ \A n \in {x, y} : m >= n
  BY <1>1, Zenon
<1>3. Max({x, y}) = m
  BY Zenon DEF Max
<1> HIDE DEF m
<1> QED
  BY <1>2, <1>3

\* A row of distances, computed from the one before it.
IsRow(row, prev, ch, b, n) ==
  /\ row \in [0..n -> Nat]
  /\ row[0] = prev[0] + 1
  /\ \A j \in 1..n :
       row[j] = Min({prev[j] + 1, row[j - 1] + 1, prev[j - 1] + (IF ch = b[j] THEN 0 ELSE 1)})

\* Row satisfies the equation that defines it, and has a distance for every prefix.
LEMMA RowFacts ==
  ASSUME NEW b, NEW n \in Nat, n = Len(b), NEW prev \in [0..n -> Nat], NEW ch
  PROVE  IsRow(Row(prev, ch, b), prev, ch, b, n)
<1> DEFINE S == 0..n
           x == [prev |-> prev, ch |-> ch, b |-> b]
<1>1. ASSUME NEW g, NEW h, NEW k \in S, \A m \in S : m < k => g[m] = h[m]
      PROVE  RowCall(x, g, k) = RowCall(x, h, k)
  <2>1. CASE k = 0
    BY <2>1 DEF RowCall
  <2>2. CASE k # 0
    <3>1. g[k - 1] = h[k - 1]
      BY <1>1, <2>2
    <3> QED
      BY <2>2, <3>1 DEF RowCall
  <2> QED
    BY <2>1, <2>2
<1>2. RowRecursion!Causal(x, S)
  BY <1>1 DEF RowRecursion!Causal
<1>3. \E f : f = [k \in S |-> RowCall(x, f, k)]
  BY <1>2, RowRecursion!RecursionHasSolution, S \in SUBSET Nat
<1> DEFINE row == CHOOSE f : f = [k \in S |-> RowCall(x, f, k)]
<1>4. row = [k \in S |-> RowCall(x, row, k)]
  BY <1>3, Zenon
<1>5. Row(prev, ch, b) = row
  <2>1. /\ x.prev = prev /\ x.ch = ch /\ x.b = b
    OBVIOUS
  <2>2. Row(prev, ch, b) =
          CHOOSE f : f = [k \in 0..Len(b) |->
            IF k = 0 THEN prev[0] + 1
            ELSE Min({prev[k] + 1, f[k - 1] + 1, prev[k - 1] + (IF ch = b[k] THEN 0 ELSE 1)})]
    BY Zenon DEF Row
  <2>3. row =
          CHOOSE f : f = [k \in 0..n |->
            IF k = 0 THEN prev[0] + 1
            ELSE Min({prev[k] + 1, f[k - 1] + 1, prev[k - 1] + (IF ch = b[k] THEN 0 ELSE 1)})]
    BY DEF RowCall
  <2> QED
    BY <2>2, <2>3, n = Len(b), Zenon
<1> HIDE DEF row
<1>6. row[0] = prev[0] + 1
  BY <1>4 DEF RowCall
<1>7. \A j \in 1..n : row[j] =
        Min({prev[j] + 1, row[j - 1] + 1, prev[j - 1] + (IF ch = b[j] THEN 0 ELSE 1)})
  <2> TAKE j \in 1..n
  <2>1. j \in S /\ j # 0
    OBVIOUS
  <2> QED
    BY <1>4, <2>1 DEF RowCall
<1> DEFINE Bad == {k \in Nat : k \in 0..n /\ row[k] \notin Nat}
<1>8. Bad = {}
  <2> SUFFICES ASSUME Bad # {} PROVE FALSE
    OBVIOUS
  <2>1. PICK k \in Bad : \A m \in Bad : k <= m
    BY RowRecursion!LeastNatural, Bad \in SUBSET Nat
  <2>2. CASE k = 0
    BY <1>6, <2>1, <2>2
  <2>3. CASE k # 0
    <3>0. k \in 1..n
      BY <2>1, <2>3
    <3>1. k - 1 \in 0..n /\ ~(k <= k - 1)
      BY <3>0
    <3>2. row[k - 1] \in Nat /\ prev[k] \in Nat /\ prev[k - 1] \in Nat
      BY <2>1, <3>0, <3>1
    <3> DEFINE cost == IF ch = b[k] THEN 0 ELSE 1
    <3>3. cost \in Nat
      OBVIOUS
    <3> HIDE DEF cost
    <3>4. Min({prev[k] + 1, row[k - 1] + 1, prev[k - 1] + cost}) \in Nat
      <4>1. prev[k] + 1 \in Nat /\ row[k - 1] + 1 \in Nat /\ prev[k - 1] + cost \in Nat
        BY <3>2, <3>3
      <4> QED
        BY <4>1, LeastOfNaturals, Zenon
    <3>5. row[k] = Min({prev[k] + 1, row[k - 1] + 1, prev[k - 1] + cost})
      BY <1>7, <3>0, Zenon DEF cost
    <3> QED
      BY <2>1, <3>4, <3>5
  <2> QED
    BY <2>2, <2>3
<1>9. row \in [0..n -> Nat]
  <2>1. \A k \in 0..n : row[k] \in Nat
    BY <1>8
  <2>2. row = [k \in 0..n |-> row[k]]
    BY <1>4
  <2> QED
    BY <2>1, <2>2
<1>10. IsRow(row, prev, ch, b, n)
  BY <1>6, <1>7, <1>9 DEF IsRow
<1> QED
  BY <1>5, <1>10

\* The table of distances that editDistance fills, row by row.
Fills(rows, a, b) ==
  /\ rows \in [0..Len(a) -> [0..Len(b) -> Nat]]
  /\ rows[0] = [j \in 0..Len(b) |-> j]
  /\ \A i \in 1..Len(a) : rows[i] = Row(rows[i - 1], a[i], b)

\* The rows that editDistance computes, one from the other.
LEMMA EditDistanceFacts ==
  ASSUME NEW a, NEW b, Len(a) \in Nat, Len(b) \in Nat
  PROVE  \E rows : Fills(rows, a, b) /\ EditDistance(a, b) = rows[Len(a)][Len(b)]
<1> DEFINE S == 0..Len(a)
           x == [a |-> a, b |-> b]
<1>1. ASSUME NEW g, NEW h, NEW k \in S, \A l \in S : l < k => g[l] = h[l]
      PROVE  RowsCall(x, g, k) = RowsCall(x, h, k)
  <2>1. CASE k = 0
    BY <2>1 DEF RowsCall
  <2>2. CASE k # 0
    <3>1. g[k - 1] = h[k - 1]
      BY <1>1, <2>2
    <3> QED
      BY <2>2, <3>1 DEF RowsCall
  <2> QED
    BY <2>1, <2>2
<1>2. RowsRecursion!Causal(x, S)
  BY <1>1 DEF RowsRecursion!Causal
<1>3. \E f : f = [k \in S |-> RowsCall(x, f, k)]
  BY <1>2, RowsRecursion!RecursionHasSolution, S \in SUBSET Nat
<1> DEFINE rows == CHOOSE f : f = [k \in S |-> RowsCall(x, f, k)]
<1>4. rows = [k \in S |-> RowsCall(x, rows, k)]
  BY <1>3, Zenon
<1>5. EditDistance(a, b) = rows[Len(a)][Len(b)]
  <2>1. EditDistance(a, b) =
          (CHOOSE f : f = [k \in 0..Len(a) |->
            IF k = 0 THEN [j \in 0..Len(b) |-> j] ELSE Row(f[k - 1], a[k], b)])[Len(a)][Len(b)]
    BY Zenon DEF EditDistance
  <2>2. rows =
          CHOOSE f : f = [k \in 0..Len(a) |->
            IF k = 0 THEN [j \in 0..Len(b) |-> j] ELSE Row(f[k - 1], a[k], b)]
    BY DEF RowsCall
  <2> QED
    BY <2>1, <2>2, Zenon
<1> HIDE DEF rows
<1>6. rows[0] = [j \in 0..Len(b) |-> j]
  BY <1>4 DEF RowsCall
<1>7. \A i \in 1..Len(a) : rows[i] = Row(rows[i - 1], a[i], b)
  <2> TAKE i \in 1..Len(a)
  <2>1. i \in S /\ i # 0
    OBVIOUS
  <2> QED
    BY <1>4, <2>1 DEF RowsCall
<1> DEFINE Bad == {k \in Nat : k \in 0..Len(a) /\ rows[k] \notin [0..Len(b) -> Nat]}
<1>8. Bad = {}
  <2> SUFFICES ASSUME Bad # {} PROVE FALSE
    OBVIOUS
  <2>1. PICK k \in Bad : \A l \in Bad : k <= l
    BY RowRecursion!LeastNatural, Bad \in SUBSET Nat
  <2>2. CASE k = 0
    BY <1>6, <2>1, <2>2
  <2>3. CASE k # 0
    <3>1. k \in 1..Len(a)
      BY <2>1, <2>3
    <3>2. k - 1 \in 0..Len(a) /\ ~(k <= k - 1)
      BY <3>1
    <3>3. rows[k - 1] \in [0..Len(b) -> Nat]
      BY <2>1, <3>2
    <3>4. Row(rows[k - 1], a[k], b) \in [0..Len(b) -> Nat]
      BY <3>3, RowFacts DEF IsRow
    <3> QED
      BY <1>7, <2>1, <3>1, <3>4
  <2> QED
    BY <2>2, <2>3
<1>9. rows \in [0..Len(a) -> [0..Len(b) -> Nat]]
  <2>1. \A k \in 0..Len(a) : rows[k] \in [0..Len(b) -> Nat]
    BY <1>8
  <2>2. rows = [k \in 0..Len(a) |-> rows[k]]
    BY <1>4
  <2> QED
    BY <2>1, <2>2
<1>10. Fills(rows, a, b)
  BY <1>6, <1>7, <1>9 DEF Fills
<1> QED
  BY <1>5, <1>10

\* A distance is a natural number.
LEMMA EditDistanceIsNatural ==
  ASSUME NEW a, NEW b, Len(a) \in Nat, Len(b) \in Nat
  PROVE  EditDistance(a, b) \in Nat
<1>1. PICK rows : Fills(rows, a, b) /\ EditDistance(a, b) = rows[Len(a)][Len(b)]
  BY EditDistanceFacts
<1>2. Len(a) \in 0..Len(a) /\ Len(b) \in 0..Len(b)
  OBVIOUS
<1> QED
  BY <1>1, <1>2 DEF Fills

\* A name with its "rn" folded is one.
LEMMA RnFoldedIsName ==
  ASSUME NEW s \in Seq(Chars)
  PROVE  RnFolded(s) \in Seq(Chars)
<1>1. PICK n \in Nat : n = Len(s)
  OBVIOUS
<1> DEFINE S == 0..n
<1>2. ASSUME NEW g, NEW h, NEW k \in S, \A l \in S : l < k => g[l] = h[l]
      PROVE  RnCall(s, g, k) = RnCall(s, h, k)
  <2>1. CASE k = 0
    BY <2>1 DEF RnCall
  <2>2. CASE k # 0
    <3>1. g[k - 1] = h[k - 1]
      BY <1>2, <2>2
    <3> QED
      BY <2>2, <3>1 DEF RnCall
  <2> QED
    BY <2>1, <2>2
<1>3. RnRecursion!Causal(s, S)
  BY <1>2 DEF RnRecursion!Causal
<1>4. \E f : f = [k \in S |-> RnCall(s, f, k)]
  BY <1>3, RnRecursion!RecursionHasSolution, S \in SUBSET Nat
<1> DEFINE folded == CHOOSE f : f = [k \in S |-> RnCall(s, f, k)]
<1>5. folded = [k \in S |-> RnCall(s, folded, k)]
  BY <1>4, Zenon
<1>6. RnFolded(s) = folded[n]
  BY <1>1, Zenon DEF RnFolded, RnCall
<1> HIDE DEF folded
<1> DEFINE Bad == {k \in Nat : k \in 0..n /\ folded[k] \notin Seq(Chars)}
<1>7. Bad = {}
  <2> SUFFICES ASSUME Bad # {} PROVE FALSE
    OBVIOUS
  <2>1. PICK k \in Bad : \A l \in Bad : k <= l
    BY RowRecursion!LeastNatural, Bad \in SUBSET Nat
  <2>2. folded[k] = RnCall(s, folded, k)
    BY <1>5, <2>1
  <2>3. CASE k = 0
    <3>1. folded[k] = <<>>
      BY <2>2, <2>3 DEF RnCall
    <3>2. <<>> \in Seq(Chars)
      OBVIOUS
    <3> QED
      BY <2>1, <3>1, <3>2
  <2>4. CASE k # 0
    <3>1. k \in 1..n
      BY <2>1, <2>4
    <3>2. k - 1 \in 0..n /\ ~(k <= k - 1)
      BY <3>1
    <3>3. folded[k - 1] \in Seq(Chars)
      BY <2>1, <3>2
    <3>4. s[k] \in Chars /\ "m" \in Chars
      BY <1>1, <3>1, TablesAssumption
    <3> DEFINE ch == IF IsRn(s, k) THEN "m" ELSE s[k]
    <3>5. ch \in Chars
      BY <3>4
    <3>6. folded[k] = folded[k - 1] \/ folded[k] = Append(folded[k - 1], ch)
      BY <2>2, <2>4 DEF RnCall
    <3> HIDE DEF ch
    <3>7. Append(folded[k - 1], ch) \in Seq(Chars)
      BY <3>3, <3>5
    <3> QED
      BY <2>1, <3>3, <3>6, <3>7
  <2> QED
    BY <2>3, <2>4
<1>8. n \in 0..n /\ n \notin Bad
  BY <1>7
<1> QED
  BY <1>6, <1>8

\* The skeleton of a name is one.
LEMMA SkeletonIsName ==
  ASSUME NEW s \in Seq(Chars)
  PROVE  Skeleton(s) \in Seq(Chars)
<1> DEFINE lowered == [i \in DOMAIN s |-> Folded(LowerOf[s[i]])]
<1>1. \A i \in 1..Len(s) : Folded(LowerOf[s[i]]) \in Chars
  BY TablesAssumption DEF Folded
<1>2. DOMAIN s = 1..Len(s) /\ Len(s) \in Nat
  OBVIOUS
<1>3. lowered \in Seq(Chars)
  BY <1>1, <1>2
<1> HIDE DEF lowered
<1>4. RnFolded(lowered) \in Seq(Chars)
  BY <1>3, RnFoldedIsName
<1> QED
  BY <1>4 DEF Skeleton, lowered

\* What detectHandle makes of two names: nothing, or a score within bounds.
LEMMA LookalikeFacts ==
  ASSUME NEW c \in Seq(Chars), NEW p \in Seq(Chars)
  PROVE  Lookalike(c, p) \in Seq([score : Thousandths, how : Methods])
<1> DEFINE x == Skeleton(c)
           y == Skeleton(p)
           sim == StringSimilarity(x, y)
           T == [score : Thousandths, how : Methods]
<1>1. x \in Seq(Chars) /\ y \in Seq(Chars)
  BY SkeletonIsName
<1>2. sim \in Int
  <2>1. Len(x) \in Nat /\ Len(y) \in Nat
    BY <1>1
  <2>2. EditDistance(x, y) \in Nat
    <3> HIDE DEF x, y
    <3> QED
      BY <2>1, EditDistanceIsNatural
  <2> DEFINE longer == Max({Len(x), Len(y)})
  <2>3. longer \in Nat
    BY <2>1, MaxOfTwo
  <2> HIDE DEF x, y, longer
  <2>4. longer # 0 => 1000 - (1000 * EditDistance(x, y)) \div longer \in Int
    BY <2>2, <2>3
  <2> QED
    BY <2>4 DEF StringSimilarity, longer
<1> HIDE DEF x, y, sim
<1>3. <<>> \in Seq(T) /\ <<[score |-> 900, how |-> "homoglyph"]>> \in Seq(T)
  BY DEF Methods, Thousandths
<1>4. sim >= 800 => <<[score |-> Min({850, sim}), how |-> "typosquat"]>> \in Seq(T)
  <2> SUFFICES ASSUME sim >= 800 PROVE [score |-> Min({850, sim}), how |-> "typosquat"] \in T
    OBVIOUS
  <2>1. Min({850, sim}) \in Thousandths
    <3>1. PICK top \in Int : top = 850
      OBVIOUS
    <3>5. Min({top, sim}) \in {top, sim} /\ Min({top, sim}) <= top
      BY <1>2, LeastOfTwo, Zenon
    <3>2. Min({850, sim}) \in {850, sim} /\ Min({850, sim}) <= 850
      BY <3>1, <3>5
    <3> DEFINE least == Min({850, sim})
    <3> HIDE DEF least
    <3>3. least \in {850, sim} /\ least <= 850
      BY <3>2 DEF least
    <3>4. least \in Thousandths
      BY <1>2, <3>3 DEF Thousandths
    <3> QED
      BY <3>4 DEF least
  <2> QED
    BY <2>1 DEF Methods
<1>5. Lookalike(c, p) =
        IF Lower(c) = Lower(p) THEN <<>>
        ELSE IF x = y THEN <<[score |-> 900, how |-> "homoglyph"]>>
        ELSE IF EditDistance(x, y) <= 2 /\ sim >= 800
        THEN <<[score |-> Min({850, sim}), how |-> "typosquat"]>>
        ELSE <<>>
  BY DEF Lookalike, OfferIf, x, y, sim
<1> DEFINE A == <<[score |-> 900, how |-> "homoglyph"]>>
           B == <<[score |-> Min({850, sim}), how |-> "typosquat"]>>
<1>6. /\ A \in Seq(T)
      /\ sim >= 800 => B \in Seq(T)
  BY <1>3, <1>4
<1> HIDE DEF A, B, T
<1>7. Lookalike(c, p) \in Seq(T)
  BY <1>3, <1>5, <1>6 DEF A, B
<1> QED
  BY <1>7 DEF T

-----------------------------------------------------------------------------
(***************************************************************************)
(* Edit distance, and the changes of single characters.                    *)
(***************************************************************************)
\* A cell is the least that the three before it allow, of a table whose row is for the
\* character x and its column for y.
IsCell(x, y, cell, up, left, diagonal) ==
  /\ cell \in Nat /\ up \in Nat /\ left \in Nat /\ diagonal \in Nat
  /\ cell <= up + 1 /\ cell <= left + 1 /\ cell <= diagonal + 1
  /\ x = y => cell <= diagonal
  /\ \/ cell = up + 1 \/ cell = left + 1
     \/ cell = diagonal + 1 /\ x # y
     \/ cell = diagonal /\ x = y

\* The table of the distances of the prefixes of a, up to n, to those of b, up to m.
IsTable(t, a, n, b, m) ==
  /\ \A i \in 0..n : \A j \in 0..m : t[i][j] \in Nat
  /\ \A j \in 0..m : t[0][j] = j
  /\ \A i \in 0..n : t[i][0] = i
  /\ \A i \in 1..n : \A j \in 1..m :
       IsCell(a[i], b[j], t[i][j], t[i - 1][j], t[i][j - 1], t[i - 1][j - 1])

\* It is the table that editDistance fills.
LEMMA TableFilled ==
  ASSUME NEW a, NEW b, Len(a) \in Nat, Len(b) \in Nat
  PROVE  \E t : IsTable(t, a, Len(a), b, Len(b)) /\ EditDistance(a, b) = t[Len(a)][Len(b)]
<1>1. PICK n \in Nat, m \in Nat : n = Len(a) /\ m = Len(b)
  OBVIOUS
<1>2. PICK t : Fills(t, a, b) /\ EditDistance(a, b) = t[n][m]
  BY <1>1, EditDistanceFacts
<1>3. /\ t \in [0..n -> [0..m -> Nat]]
      /\ t[0] = [j \in 0..m |-> j]
      /\ \A i \in 1..n : t[i] = Row(t[i - 1], a[i], b)
  BY <1>1, <1>2 DEF Fills
<1>4. ASSUME NEW i \in 1..n
      PROVE  /\ t[i][0] = t[i - 1][0] + 1
             /\ \A j \in 1..m :
                  t[i][j] = Min({t[i - 1][j] + 1, t[i][j - 1] + 1,
                                 t[i - 1][j - 1] + (IF a[i] = b[j] THEN 0 ELSE 1)})
  <2>1. t[i - 1] \in [0..m -> Nat] /\ t[i] = Row(t[i - 1], a[i], b)
    BY <1>3
  <2> DEFINE prev == t[i - 1]
             ch == a[i]
  <2>2. prev \in [0..m -> Nat]
    BY <2>1
  <2> HIDE DEF prev, ch
  <2>3. IsRow(Row(prev, ch, b), prev, ch, b, m)
    BY <1>1, <2>2, RowFacts
  <2>4. IsRow(t[i], t[i - 1], a[i], b, m)
    BY <2>1, <2>3 DEF prev, ch
  <2> QED
    BY <2>4, Zenon DEF IsRow
<1>5. \A i \in 0..n : \A j \in 0..m : t[i][j] \in Nat
  BY <1>3
<1>6. \A j \in 0..m : t[0][j] = j
  BY <1>3
<1>7. \A i \in 0..n : t[i][0] = i
  <2> DEFINE Bad == {i \in Nat : i \in 0..n /\ t[i][0] # i}
  <2>1. ASSUME Bad # {} PROVE FALSE
    <3>1. PICK i \in Bad : \A k \in Bad : i <= k
      BY <2>1, BestRecursion!LeastNatural, Bad \in SUBSET Nat
    <3>2. i # 0
      BY <1>6, <3>1
    <3>3. i - 1 \in 0..n /\ i - 1 \notin Bad /\ i \in 1..n
      BY <3>1, <3>2
    <3>4. t[i - 1][0] = i - 1
      BY <3>3
    <3>6. t[i][0] = t[i - 1][0] + 1
      BY <1>4, <3>3, Zenon
    <3>5. t[i][0] = i
      BY <3>3, <3>4, <3>6
    <3> QED
      BY <3>1, <3>5
  <2> QED
    BY <2>1
<1>8. ASSUME NEW i \in 1..n, NEW j \in 1..m
      PROVE  IsCell(a[i], b[j], t[i][j], t[i - 1][j], t[i][j - 1], t[i - 1][j - 1])
  <2> DEFINE up == t[i - 1][j]
             left == t[i][j - 1]
             diagonal == t[i - 1][j - 1]
             cost == IF a[i] = b[j] THEN 0 ELSE 1
  <2>1. up \in Int /\ left \in Int /\ diagonal \in Int /\ cost \in Int
    <3>1. i \in 0..n /\ i - 1 \in 0..n /\ j \in 0..m /\ j - 1 \in 0..m
      OBVIOUS
    <3> QED
      BY <1>5, <3>1
  <2>2. t[i][j] = Min({up + 1, left + 1, diagonal + cost})
    BY <1>4, Zenon
  <2> HIDE DEF up, left, diagonal, cost
  <2>3. up + 1 \in Int /\ left + 1 \in Int /\ diagonal + cost \in Int
    BY <2>1
  <2>4. /\ t[i][j] \in {up + 1, left + 1, diagonal + cost}
        /\ t[i][j] <= up + 1 /\ t[i][j] <= left + 1 /\ t[i][j] <= diagonal + cost
    <3> DEFINE x == up + 1
               y == left + 1
               z == diagonal + cost
    <3>1. x \in Int /\ y \in Int /\ z \in Int /\ t[i][j] = Min({x, y, z})
      BY <2>2, <2>3
    <3> HIDE DEF x, y, z
    <3>2. /\ Min({x, y, z}) \in {x, y, z}
          /\ Min({x, y, z}) <= x /\ Min({x, y, z}) <= y /\ Min({x, y, z}) <= z
      BY <3>1, LeastOfThree, Zenon
    <3>3. t[i][j] \in {x, y, z} /\ t[i][j] <= x /\ t[i][j] <= y /\ t[i][j] <= z
      BY <3>1, <3>2, Zenon
    <3> QED
      BY <3>3 DEF x, y, z
  <2>5. cost = IF a[i] = b[j] THEN 0 ELSE 1
    BY DEF cost
  <2> DEFINE cell == t[i][j]
  <2>6. cell \in {up + 1, left + 1, diagonal + cost} /\ cell <= up + 1 /\ cell <= left + 1
        /\ cell <= diagonal + cost
    BY <2>4
  <2> HIDE DEF cell
  <2>7. cell \in Nat /\ up \in Nat /\ left \in Nat /\ diagonal \in Nat
    <3>1. i \in 0..n /\ i - 1 \in 0..n /\ j \in 0..m /\ j - 1 \in 0..m
      OBVIOUS
    <3> QED
      BY <1>5, <3>1 DEF cell, up, left, diagonal
  <2>8. IsCell(a[i], b[j], cell, up, left, diagonal)
    BY <2>5, <2>6, <2>7 DEF IsCell
  <2> QED
    BY <2>8 DEF up, left, diagonal, cell
<1>9. IsTable(t, a, n, b, m)
  BY <1>5, <1>6, <1>7, <1>8 DEF IsTable
<1> QED
  BY <1>1, <1>2, <1>9

\* Where two pairs of names agree, so do their tables.
SamePrefix(a, c, p) == \A i \in 1..p : a[i] = c[i]
SameCells(t, u, p, q) == \A i \in 0..p : \A j \in 0..q : t[i][j] = u[i][j]

\* The tables of names that agree up to some place agree up to there.
LEMMA TablesAgree ==
  ASSUME NEW a, NEW n \in Nat, NEW b, NEW m \in Nat, NEW t, IsTable(t, a, n, b, m),
         NEW c, NEW k \in Nat, NEW d, NEW l \in Nat, NEW u, IsTable(u, c, k, d, l),
         NEW p \in 0..n, p <= k, NEW q \in 0..m, q <= l, SamePrefix(a, c, p), SamePrefix(b, d, q)
  PROVE  SameCells(t, u, p, q)
<1> DEFINE Bad == {s \in Nat : \E i \in 0..p : \E j \in 0..q : s = i + j /\ t[i][j] # u[i][j]}
<1>1. ASSUME Bad # {} PROVE FALSE
  <2>1. PICK s \in Bad : \A r \in Bad : s <= r
    BY <1>1, BestRecursion!LeastNatural, Bad \in SUBSET Nat
  <2>2. PICK i \in 0..p, j \in 0..q : s = i + j /\ t[i][j] # u[i][j]
    BY <2>1
  <2>3. i # 0 /\ j # 0
    BY <2>2 DEF IsTable
  <2>4. i \in 1..p /\ j \in 1..q /\ i \in 1..n /\ i \in 1..k /\ j \in 1..m /\ j \in 1..l
    BY <2>2, <2>3
  <2>5. \A x \in 0..p : \A y \in 0..q : x + y < s => t[x][y] = u[x][y]
    <3> SUFFICES ASSUME NEW x \in 0..p, NEW y \in 0..q, x + y < s, t[x][y] # u[x][y] PROVE FALSE
      OBVIOUS
    <3>1. x + y \in Bad
      OBVIOUS
    <3>2. s <= x + y
      BY <2>1, <3>1
    <3>3. s \in Nat /\ x + y \in Nat
      BY <2>1, <3>1
    <3> QED
      BY <3>2, <3>3
  <2>6. t[i - 1][j] = u[i - 1][j] /\ t[i][j - 1] = u[i][j - 1] /\ t[i - 1][j - 1] = u[i - 1][j - 1]
    BY <2>2, <2>4, <2>5
  <2>7. a[i] = c[i] /\ b[j] = d[j]
    BY <2>4 DEF SamePrefix
  <2>8. IsCell(a[i], b[j], t[i][j], t[i - 1][j], t[i][j - 1], t[i - 1][j - 1])
    BY <2>4 DEF IsTable
  <2>9. IsCell(a[i], b[j], u[i][j], t[i - 1][j], t[i][j - 1], t[i - 1][j - 1])
    BY <2>4, <2>6, <2>7 DEF IsTable
  <2> QED
    BY <2>2, <2>8, <2>9 DEF IsCell
<1>2. SUFFICES ASSUME NEW i \in 0..p, NEW j \in 0..q, t[i][j] # u[i][j] PROVE FALSE
  BY DEF SameCells
<1>3. i + j \in Bad
  BY <1>2
<1> QED
  BY <1>1, <1>3

\* Two columns that differ by one at most.
ColumnsClose(t, j, u, k, n) ==
  \A i \in 0..n : t[i][j] <= u[i][k] + 1 /\ u[i][k] <= t[i][j] + 1

\* The distance to a name and to the name without its last character.
LEMMA AdjacentColumns ==
  ASSUME NEW a, NEW n \in Nat, NEW b, NEW m \in Nat, NEW t, IsTable(t, a, n, b, m), NEW j \in 1..m
  PROVE  ColumnsClose(t, j, t, j - 1, n)
<1> DEFINE Bad == {i \in Nat : i \in 0..n /\ ~(t[i][j] <= t[i][j - 1] + 1 /\ t[i][j - 1] <= t[i][j] + 1)}
<1>1. ASSUME Bad # {} PROVE FALSE
  <2>1. PICK i \in Bad : \A k \in Bad : i <= k
    BY <1>1, BestRecursion!LeastNatural, Bad \in SUBSET Nat
  <2>2. i \in 0..n /\ ~(t[i][j] <= t[i][j - 1] + 1 /\ t[i][j - 1] <= t[i][j] + 1)
    BY <2>1
  <2>3. i # 0
    <3>1. t[0][j] = j /\ t[0][j - 1] = j - 1
      BY DEF IsTable
    <3> QED
      BY <2>2, <3>1
  <2>4. i \in 1..n
    BY <2>2, <2>3
  <2>5. t[i - 1][j] <= t[i - 1][j - 1] + 1 /\ t[i - 1][j - 1] <= t[i - 1][j] + 1
    <3>1. i - 1 \in Nat /\ i - 1 \in 0..n /\ ~(i <= i - 1)
      BY <2>4
    <3>2. i - 1 \notin Bad
      BY <2>1, <3>1
    <3> QED
      BY <3>1, <3>2
  <2>6. t[i][j - 1] <= t[i - 1][j - 1] + 1
    <3>1. CASE j = 1
      <4>1. t[i][0] = i /\ t[i - 1][0] = i - 1
        BY <2>4 DEF IsTable
      <4> QED
        BY <2>4, <3>1, <4>1
    <3>2. CASE j # 1
      <4>1. j - 1 \in 1..m
        BY <3>2
      <4>2. IsCell(a[i], b[j - 1], t[i][j - 1], t[i - 1][j - 1], t[i][(j - 1) - 1], t[i - 1][(j - 1) - 1])
        BY <2>4, <4>1 DEF IsTable
      <4> QED
        BY <4>2 DEF IsCell
    <3> QED
      BY <3>1, <3>2
  <2>7. IsCell(a[i], b[j], t[i][j], t[i - 1][j], t[i][j - 1], t[i - 1][j - 1])
    BY <2>4 DEF IsTable
  <2> QED
    BY <2>2, <2>5, <2>6, <2>7 DEF IsCell
<1>2. SUFFICES ASSUME NEW i \in 0..n, ~(t[i][j] <= t[i][j - 1] + 1 /\ t[i][j - 1] <= t[i][j] + 1)
               PROVE  FALSE
  BY DEF ColumnsClose
<1>3. i \in Bad
  BY <1>2
<1> QED
  BY <1>1, <1>3

\* Columns stay close by one character more that two names have in common.
LEMMA NextColumns ==
  ASSUME NEW a, NEW n \in Nat, NEW b, NEW m \in Nat, NEW t, IsTable(t, a, n, b, m),
         NEW d, NEW l \in Nat, NEW u, IsTable(u, a, n, d, l),
         NEW j \in 1..m, NEW k \in 1..l, ColumnsClose(t, j - 1, u, k - 1, n),
         b[j] = d[k] \/ \A i \in 0..n : t[i][j - 1] = u[i][k - 1]
  PROVE  ColumnsClose(t, j, u, k, n)
<1> DEFINE Bad == {i \in Nat : i \in 0..n /\ ~(t[i][j] <= u[i][k] + 1 /\ u[i][k] <= t[i][j] + 1)}
<1>1. ASSUME Bad # {} PROVE FALSE
  <2>1. PICK i \in Bad : \A x \in Bad : i <= x
    BY <1>1, BestRecursion!LeastNatural, Bad \in SUBSET Nat
  <2>2. i \in 0..n /\ ~(t[i][j] <= u[i][k] + 1 /\ u[i][k] <= t[i][j] + 1)
    BY <2>1
  <2>3. i # 0
    <3>4. j \in 0..m /\ j - 1 \in 0..m /\ k \in 0..l /\ k - 1 \in 0..l
      OBVIOUS
    <3>5. t[0][j] = j /\ t[0][j - 1] = j - 1
      BY <3>4 DEF IsTable
    <3>6. u[0][k] = k /\ u[0][k - 1] = k - 1
      BY <3>4 DEF IsTable
    <3>1. t[0][j] = j /\ t[0][j - 1] = j - 1 /\ u[0][k] = k /\ u[0][k - 1] = k - 1
      BY <3>5, <3>6
    <3>2. t[0][j - 1] <= u[0][k - 1] + 1 /\ u[0][k - 1] <= t[0][j - 1] + 1
      BY DEF ColumnsClose
    <3> QED
      BY <2>2, <3>1, <3>2
  <2>4. i \in 1..n
    BY <2>2, <2>3
  <2>5. t[i - 1][j] <= u[i - 1][k] + 1 /\ u[i - 1][k] <= t[i - 1][j] + 1
    <3>1. i - 1 \in Nat /\ i - 1 \in 0..n /\ ~(i <= i - 1)
      BY <2>4
    <3>2. i - 1 \notin Bad
      BY <2>1, <3>1
    <3> QED
      BY <3>1, <3>2
  <2>6. /\ t[i][j - 1] <= u[i][k - 1] + 1 /\ u[i][k - 1] <= t[i][j - 1] + 1
        /\ t[i - 1][j - 1] <= u[i - 1][k - 1] + 1 /\ u[i - 1][k - 1] <= t[i - 1][j - 1] + 1
    BY <2>4 DEF ColumnsClose
  <2>7. /\ IsCell(a[i], b[j], t[i][j], t[i - 1][j], t[i][j - 1], t[i - 1][j - 1])
        /\ IsCell(a[i], d[k], u[i][k], u[i - 1][k], u[i][k - 1], u[i - 1][k - 1])
    BY <2>4 DEF IsTable
  <2>8. (a[i] = b[j] <=> a[i] = d[k]) \/ t[i - 1][j - 1] = u[i - 1][k - 1]
    BY <2>4
  <2> QED
    BY <2>2, <2>5, <2>6, <2>7, <2>8 DEF IsCell
<1>2. SUFFICES ASSUME NEW i \in 0..n, ~(t[i][j] <= u[i][k] + 1 /\ u[i][k] <= t[i][j] + 1)
               PROVE  FALSE
  BY DEF ColumnsClose
<1>3. i \in Bad
  BY <1>2
<1> QED
  BY <1>1, <1>3

\* What two names have in common behind two places.
SameSuffix(b, j, d, k, length) == \A r \in 1..length : b[j + r] = d[k + r]

\* Columns that are close stay so along what the names have in common to the end.
LEMMA ColumnsToEnd ==
  ASSUME NEW a, NEW n \in Nat, NEW b, NEW m \in Nat, NEW t, IsTable(t, a, n, b, m),
         NEW d, NEW l \in Nat, NEW u, IsTable(u, a, n, d, l),
         NEW j \in 0..m, NEW k \in 0..l, m - j = l - k, SameSuffix(b, j, d, k, m - j),
         ColumnsClose(t, j, u, k, n)
  PROVE  ColumnsClose(t, m, u, l, n)
<1> DEFINE Bad == {r \in Nat : r \in 0..(m - j) /\ ~ColumnsClose(t, j + r, u, k + r, n)}
<1>1. ASSUME Bad # {} PROVE FALSE
  <2>1. PICK r \in Bad : \A x \in Bad : r <= x
    BY <1>1, BestRecursion!LeastNatural, Bad \in SUBSET Nat
  <2>2. r # 0
    <3>1. j + 0 = j /\ k + 0 = k
      OBVIOUS
    <3> QED
      BY <2>1, <3>1
  <2>3. r \in 1..(m - j) /\ r - 1 \in 0..(m - j) /\ r - 1 \in Nat /\ ~(r <= r - 1)
    BY <2>1, <2>2
  <2>4. ColumnsClose(t, j + (r - 1), u, k + (r - 1), n)
    BY <2>1, <2>3
  <2>5. j + r \in 1..m /\ k + r \in 1..l /\ j + (r - 1) = (j + r) - 1 /\ k + (r - 1) = (k + r) - 1
    BY <2>3
  <2>6. b[j + r] = d[k + r]
    BY <2>3 DEF SameSuffix
  <2>7. ColumnsClose(t, (j + r) - 1, u, (k + r) - 1, n)
    BY <2>4, <2>5
  <2>8. ColumnsClose(t, j + r, u, k + r, n)
    BY <2>5, <2>6, <2>7, NextColumns
  <2> QED
    BY <2>1, <2>8
<1>2. m - j \in Nat /\ m - j \in 0..(m - j) /\ j + (m - j) = m /\ k + (m - j) = l
  OBVIOUS
<1>3. m - j \notin Bad
  BY <1>1
<1>4. ColumnsClose(t, j + (m - j), u, k + (m - j), n)
  BY <1>2, <1>3
<1> QED
  BY <1>2, <1>4

\* Names that a change of one character leads from one to the other: one is the other
\* without its p-th, or they differ in the p-th.
Shorter(d, b, p) ==
  /\ p \in 1..Len(b) /\ Len(d) = Len(b) - 1
  /\ \A j \in 1..(p - 1) : d[j] = b[j]
  /\ \A j \in p..Len(d) : d[j] = b[j + 1]
DiffersAt(d, b, p) ==
  /\ p \in 1..Len(b) /\ Len(d) = Len(b)
  /\ \A j \in 1..Len(b) : j # p => d[j] = b[j]
Changed(b, d) ==
  \E p \in Nat : Shorter(d, b, p) \/ Shorter(b, d, p) \/ DiffersAt(d, b, p)

\* A change moves a name by one at most, seen from any other.
LEMMA ShorterIsClose ==
  ASSUME NEW a, NEW b, NEW d, Len(a) \in Nat, Len(b) \in Nat, Len(d) \in Nat, NEW p \in Nat, Shorter(d, b, p)
  PROVE  EditDistance(a, b) <= EditDistance(a, d) + 1 /\ EditDistance(a, d) <= EditDistance(a, b) + 1
<1>1. PICK n \in Nat, m \in Nat, l \in Nat : n = Len(a) /\ m = Len(b) /\ l = Len(d)
  OBVIOUS
<1>2. PICK t : IsTable(t, a, n, b, m) /\ EditDistance(a, b) = t[n][m]
  BY <1>1, TableFilled
<1>3. PICK u : IsTable(u, a, n, d, l) /\ EditDistance(a, d) = u[n][l]
  BY <1>1, TableFilled
<1>4. /\ p \in 1..m /\ l = m - 1 /\ p - 1 \in Nat /\ p - 1 \in 0..l /\ p \in 0..m
      /\ \A j \in 1..(p - 1) : b[j] = d[j]
      /\ \A j \in p..l : d[j] = b[j + 1]
  BY <1>1 DEF Shorter
<1>5. SameCells(t, u, n, p - 1)
  <2>1. SamePrefix(a, a, n) /\ SamePrefix(b, d, p - 1)
    BY <1>4 DEF SamePrefix
  <2>2. n \in 0..n /\ p - 1 \in 0..m /\ n <= n /\ p - 1 <= l
    BY <1>4
  <2> QED
    BY <1>2, <1>3, <2>1, <2>2, TablesAgree
<1>6. ColumnsClose(t, p, t, p - 1, n)
  BY <1>2, <1>4, AdjacentColumns
<1>7. ColumnsClose(t, p, u, p - 1, n)
  <2>1. \A i \in 0..n : t[i][p - 1] = u[i][p - 1]
    BY <1>4, <1>5 DEF SameCells
  <2> QED
    BY <1>6, <2>1 DEF ColumnsClose
<1>8. SameSuffix(b, p, d, p - 1, m - p)
  <2>1. p \in 1..m /\ l = m - 1
    BY <1>4
  <2>2. \A j \in p..l : d[j] = b[j + 1]
    BY <1>4
  <2> SUFFICES ASSUME NEW r \in 1..(m - p) PROVE b[p + r] = d[(p - 1) + r]
    BY DEF SameSuffix
  <2>3. (p - 1) + r \in p..l /\ ((p - 1) + r) + 1 = p + r
    BY <2>1
  <2> QED
    BY <2>2, <2>3
<1>9. m - p = l - (p - 1)
  BY <1>4
<1>10. ColumnsClose(t, m, u, l, n)
  <2>1. p \in 0..m /\ p - 1 \in 0..l
    BY <1>4
  <2>2. IsTable(t, a, n, b, m) /\ IsTable(u, a, n, d, l)
    BY <1>2, <1>3
  <2> DEFINE q == p - 1
  <2>3. q \in 0..l /\ m - p = l - q /\ SameSuffix(b, p, d, q, m - p) /\ ColumnsClose(t, p, u, q, n)
    BY <2>1, <1>7, <1>8, <1>9
  <2> HIDE DEF q
  <2> QED
    BY <2>1, <2>2, <2>3, ColumnsToEnd
<1> QED
  BY <1>2, <1>3, <1>10 DEF ColumnsClose

\* Nor does a replaced character move it further.
LEMMA DifferingIsClose ==
  ASSUME NEW a, NEW b, NEW d, Len(a) \in Nat, Len(b) \in Nat, Len(d) \in Nat, NEW p \in Nat, DiffersAt(d, b, p)
  PROVE  EditDistance(a, b) <= EditDistance(a, d) + 1 /\ EditDistance(a, d) <= EditDistance(a, b) + 1
<1>1. PICK n \in Nat, m \in Nat : n = Len(a) /\ m = Len(b) /\ m = Len(d)
  BY DEF DiffersAt
<1>2. PICK t : IsTable(t, a, n, b, m) /\ EditDistance(a, b) = t[n][m]
  BY <1>1, TableFilled
<1>3. PICK u : IsTable(u, a, n, d, m) /\ EditDistance(a, d) = u[n][m]
  BY <1>1, TableFilled
<1>4. /\ p \in 1..m /\ p - 1 \in Nat /\ p - 1 \in 0..m /\ p \in 0..m
      /\ \A j \in 1..m : j # p => b[j] = d[j]
  BY <1>1 DEF DiffersAt
<1>5. SameCells(t, u, n, p - 1)
  <2>1. SamePrefix(a, a, n) /\ SamePrefix(b, d, p - 1)
    BY <1>4 DEF SamePrefix
  <2>2. n \in 0..n /\ p - 1 \in 0..m /\ n <= n /\ p - 1 <= m
    BY <1>4
  <2> QED
    BY <1>2, <1>3, <2>1, <2>2, TablesAgree
<1>6. /\ \A i \in 0..n : t[i][p - 1] = u[i][p - 1]
      /\ ColumnsClose(t, p - 1, u, p - 1, n)
  <2>1. \A i \in 0..n : t[i][p - 1] = u[i][p - 1] /\ t[i][p - 1] \in Nat
    BY <1>2, <1>4, <1>5 DEF IsTable, SameCells
  <2>2. \A i \in 0..n : t[i][p - 1] <= u[i][p - 1] + 1 /\ u[i][p - 1] <= t[i][p - 1] + 1
    <3> SUFFICES ASSUME NEW i \in 0..n
                 PROVE  t[i][p - 1] <= u[i][p - 1] + 1 /\ u[i][p - 1] <= t[i][p - 1] + 1
      OBVIOUS
    <3>1. PICK x \in Nat : x = t[i][p - 1] /\ x = u[i][p - 1]
      BY <2>1
    <3> QED
      BY <3>1
  <2> QED
    BY <2>1, <2>2 DEF ColumnsClose
<1>7. ColumnsClose(t, p, u, p, n)
  BY <1>2, <1>3, <1>4, <1>6, NextColumns
<1>8. SameSuffix(b, p, d, p, m - p) /\ m - p = m - p
  <2> SUFFICES ASSUME NEW r \in 1..(m - p) PROVE b[p + r] = d[p + r]
    BY DEF SameSuffix
  <2>1. p \in 1..m
    BY <1>4
  <2>2. p + r \in 1..m /\ p + r # p
    BY <2>1
  <2> QED
    BY <1>4, <2>2
<1>9. ColumnsClose(t, m, u, m, n)
  BY <1>2, <1>3, <1>4, <1>7, <1>8, ColumnsToEnd
<1> QED
  BY <1>2, <1>3, <1>9 DEF ColumnsClose

\* Whatever the change is, the distance grows by one at most.
LEMMA ChangeIsClose ==
  ASSUME NEW a, NEW b, NEW d, Len(a) \in Nat, Len(b) \in Nat, Len(d) \in Nat, Changed(b, d)
  PROVE  EditDistance(a, d) <= EditDistance(a, b) + 1
<1>1. PICK p \in Nat : Shorter(d, b, p) \/ Shorter(b, d, p) \/ DiffersAt(d, b, p)
  BY DEF Changed
<1>2. CASE Shorter(d, b, p)
  BY <1>2, ShorterIsClose
<1>3. CASE Shorter(b, d, p)
  BY <1>3, ShorterIsClose
<1>4. CASE DiffersAt(d, b, p)
  BY <1>4, DifferingIsClose
<1> QED
  BY <1>1, <1>2, <1>3, <1>4

\* What two names end in alike costs nothing.
LEMMA Diagonal ==
  ASSUME NEW a, NEW n \in Nat, NEW b, NEW m \in Nat, NEW t, IsTable(t, a, n, b, m),
         NEW k \in 0..n, NEW j \in 0..m, n - k = m - j, SameSuffix(a, k, b, j, n - k)
  PROVE  t[n][m] <= t[k][j]
<1> DEFINE Bad == {r \in Nat : r \in 0..(n - k) /\ ~(t[k + r][j + r] <= t[k][j])}
<1>1. ASSUME Bad # {} PROVE FALSE
  <2>1. PICK r \in Bad : \A x \in Bad : r <= x
    BY <1>1, BestRecursion!LeastNatural, Bad \in SUBSET Nat
  <2>2. r # 0
    <3>1. k + 0 = k /\ j + 0 = j /\ t[k][j] \in Nat
      BY DEF IsTable
    <3> QED
      BY <2>1, <3>1
  <2>3. r \in 1..(n - k) /\ r - 1 \in 0..(n - k) /\ r - 1 \in Nat /\ ~(r <= r - 1)
    BY <2>1, <2>2
  <2>4. t[k + (r - 1)][j + (r - 1)] <= t[k][j]
    BY <2>1, <2>3
  <2>5. k + r \in 1..n /\ j + r \in 1..m /\ k + (r - 1) = (k + r) - 1 /\ j + (r - 1) = (j + r) - 1
    BY <2>3
  <2>6. a[k + r] = b[j + r]
    BY <2>3 DEF SameSuffix
  <2> DEFINE e == k + r
             f == j + r
  <2>7. e \in 1..n /\ f \in 1..m /\ a[e] = b[f] /\ t[e - 1][f - 1] <= t[k][j] /\ ~(t[e][f] <= t[k][j])
    BY <2>1, <2>4, <2>5, <2>6
  <2> HIDE DEF e, f
  <2>8. IsCell(a[e], b[f], t[e][f], t[e - 1][f], t[e][f - 1], t[e - 1][f - 1])
    BY <2>7 DEF IsTable
  <2>9. t[k][j] \in Nat
    BY DEF IsTable
  <2> QED
    BY <2>7, <2>8, <2>9 DEF IsCell
<1>2. n - k \in Nat /\ n - k \in 0..(n - k) /\ k + (n - k) = n /\ j + (n - k) = m
  OBVIOUS
<1>3. n - k \notin Bad
  BY <1>1
<1>4. t[k + (n - k)][j + (n - k)] <= t[k][j]
  BY <1>2, <1>3
<1> QED
  BY <1>2, <1>4

\* A name has no distance from itself.
LEMMA SameIsNoDistance ==
  ASSUME NEW a, Len(a) \in Nat
  PROVE  EditDistance(a, a) = 0
<1>1. PICK n \in Nat : n = Len(a)
  OBVIOUS
<1>2. PICK t : IsTable(t, a, n, a, n) /\ EditDistance(a, a) = t[n][n]
  BY <1>1, TableFilled
<1>3. 0 \in 0..n /\ n \in 0..n /\ n - 0 = n - 0 /\ SameSuffix(a, 0, a, 0, n - 0)
  BY DEF SameSuffix
<1>4. t[n][n] <= t[0][0]
  BY <1>2, <1>3, Diagonal
<1>5. t[0][0] = 0 /\ t[n][n] \in Nat
  BY <1>2, <1>3 DEF IsTable
<1> QED
  BY <1>2, <1>4, <1>5

\* A name that begins as b does and ends as a does is as far from a as the beginnings are.
LEMMA SplicedDistance ==
  ASSUME NEW a, NEW n \in Nat, n = Len(a), NEW b, NEW m \in Nat, NEW t, IsTable(t, a, n, b, m),
         NEW z, NEW l \in Nat, l = Len(z), NEW q \in 0..m, q <= l, SamePrefix(b, z, q),
         NEW k \in 0..n, NEW j \in 0..l, n - k = l - j, SameSuffix(a, k, z, j, n - k),
         \/ k >= 1 /\ j = q + 1 /\ a[k] = z[j]
         \/ j = q
  PROVE  EditDistance(a, z) <= IF j = q THEN t[k][q] ELSE t[k - 1][q]
<1>1. PICK u : IsTable(u, a, n, z, l) /\ EditDistance(a, z) = u[n][l]
  BY TableFilled
<1>2. u[n][l] <= u[k][j]
  BY <1>1, Diagonal
<1>3. SameCells(t, u, n, q)
  <2>1. SamePrefix(a, a, n) /\ n \in 0..n /\ n <= n
    BY DEF SamePrefix
  <2> QED
    BY <1>1, <2>1, TablesAgree
<1>4. CASE j = q
  BY <1>1, <1>2, <1>3, <1>4 DEF SameCells
<1>5. CASE k >= 1 /\ j = q + 1 /\ a[k] = z[j]
  <2>1. k \in 1..n /\ j \in 1..l /\ k - 1 \in 0..n /\ j - 1 = q /\ q \in 0..q /\ j # q
    BY <1>5
  <2>2. IsCell(a[k], z[j], u[k][j], u[k - 1][j], u[k][j - 1], u[k - 1][j - 1])
    BY <1>1, <2>1 DEF IsTable
  <2>3. u[k][j] <= u[k - 1][j - 1]
    BY <1>5, <2>2 DEF IsCell
  <2>4. u[k - 1][j - 1] = t[k - 1][q]
    BY <1>3, <2>1 DEF SameCells
  <2>5. u[k][j] \in Nat /\ u[k - 1][j - 1] \in Nat /\ u[n][l] \in Nat
    <3>1. k \in 0..n /\ j \in 0..l /\ k - 1 \in 0..n /\ j - 1 \in 0..l /\ n \in 0..n /\ l \in 0..l
      BY <2>1
    <3> QED
      BY <1>1, <3>1 DEF IsTable
  <2>6. u[n][l] <= t[k - 1][q]
    BY <1>2, <2>3, <2>4, <2>5
  <2> QED
    BY <1>1, <2>1, <2>6
<1> QED
  BY <1>4, <1>5

\* The last edit of those that lead from b to a: up to the r last characters, which agree,
\* the cheapest way to a ends in the insertion of a character, in a removal or in a replacement.
LastEdit(t, a, n, b, m, r) ==
  \/ r < n /\ t[n][m] >= t[(n - r) - 1][m - r] + 1
  \/ r < m /\ t[n][m] >= t[n - r][(m - r) - 1] + 1
  \/ r < n /\ r < m /\ t[n][m] >= t[(n - r) - 1][(m - r) - 1] + 1

\* Unless two names agree to the last character there is such a last edit.
LEMMA LastEditExists ==
  ASSUME NEW a, NEW n \in Nat, NEW b, NEW m \in Nat, NEW t, IsTable(t, a, n, b, m)
  PROVE  \E r \in 0..n : /\ r <= m /\ SameSuffix(a, n - r, b, m - r, r)
                         /\ (r = n /\ r = m) \/ LastEdit(t, a, n, b, m, r)
<1> DEFINE Good == {k \in Nat : \E r \in 0..n : /\ k = n - r /\ r <= m /\ SameSuffix(a, n - r, b, m - r, r)
                                               /\ t[n - r][m - r] <= t[n][m]}
<1>1. n \in Good
  <2>1. 0 \in 0..n /\ n = n - 0 /\ 0 <= m /\ m = m - 0 /\ t[n][m] \in Nat
    BY DEF IsTable
  <2>2. SameSuffix(a, n - 0, b, m - 0, 0) /\ t[n - 0][m - 0] <= t[n][m]
    BY <2>1 DEF SameSuffix
  <2> QED
    BY <2>1, <2>2
<1>2. PICK k \in Good : \A x \in Good : k <= x
  BY <1>1, BestRecursion!LeastNatural, Good \in SUBSET Nat
<1>3. PICK r \in 0..n : /\ k = n - r /\ r <= m /\ SameSuffix(a, n - r, b, m - r, r)
                        /\ t[n - r][m - r] <= t[n][m]
  BY <1>2
<1> DEFINE j == m - r
<1>4. j \in 0..m /\ k \in 0..n /\ t[k][j] \in Nat /\ t[n][m] \in Nat /\ t[k][j] <= t[n][m]
  <2>1. j \in 0..m /\ k \in 0..n /\ n \in 0..n /\ m \in 0..m
    BY <1>3
  <2> QED
    BY <1>3, <2>1 DEF IsTable
<1>5. CASE k = 0 /\ j = 0
  BY <1>3, <1>5
<1>6. CASE k = 0 /\ j # 0
  <2>1. j - 1 \in 0..m /\ r < m
    BY <1>3, <1>4, <1>6
  <2>2. t[0][j] = j /\ t[0][j - 1] = j - 1
    BY <1>4, <2>1 DEF IsTable
  <2>3. t[n][m] >= t[n - r][(m - r) - 1] + 1
    BY <1>3, <1>4, <1>6, <2>1, <2>2
  <2> QED
    BY <1>3, <2>1, <2>3 DEF LastEdit
<1>7. CASE k # 0 /\ j = 0
  <2>1. k - 1 \in 0..n /\ r < n
    BY <1>3, <1>4, <1>7
  <2>2. t[k][0] = k /\ t[k - 1][0] = k - 1
    BY <1>4, <2>1 DEF IsTable
  <2>3. t[n][m] >= t[(n - r) - 1][m - r] + 1
    BY <1>3, <1>4, <1>7, <2>1, <2>2
  <2> QED
    BY <1>3, <2>1, <2>3 DEF LastEdit
<1>8. CASE k # 0 /\ j # 0
  <2>1. k \in 1..n /\ j \in 1..m /\ r < n /\ r < m
    BY <1>3, <1>4, <1>8
  <2>2. IsCell(a[k], b[j], t[k][j], t[k - 1][j], t[k][j - 1], t[k - 1][j - 1])
    BY <2>1 DEF IsTable
  <2>3. ~(t[k][j] = t[k - 1][j - 1] /\ a[k] = b[j])
    <3> SUFFICES ASSUME t[k][j] = t[k - 1][j - 1], a[k] = b[j] PROVE FALSE
      OBVIOUS
    <3> DEFINE s == r + 1
    <3>1. s \in 0..n /\ s <= m /\ k - 1 = n - s /\ j - 1 = m - s /\ k - 1 \in Nat /\ ~(k <= k - 1)
      BY <1>3, <2>1
    <3>2. t[n - s][m - s] <= t[n][m]
      BY <1>4, <3>1
    <3>3. SameSuffix(a, n - s, b, m - s, s)
      <4> SUFFICES ASSUME NEW i \in 1..s PROVE a[(n - s) + i] = b[(m - s) + i]
        BY DEF SameSuffix
      <4>1. CASE i = 1
        <5>1. (n - s) + i = k /\ (m - s) + i = j
          BY <1>3, <4>1
        <5> QED
          BY <5>1
      <4>2. CASE i # 1
        <5>1. i - 1 \in 1..r /\ (n - s) + i = (n - r) + (i - 1) /\ (m - s) + i = (m - r) + (i - 1)
          BY <1>3, <4>2
        <5>2. a[(n - r) + (i - 1)] = b[(m - r) + (i - 1)]
          BY <1>3, <5>1 DEF SameSuffix
        <5> QED
          BY <5>1, <5>2
      <4> QED
        BY <4>1, <4>2
    <3> HIDE DEF s, j
    <3>4. k - 1 \in Good
      BY <3>1, <3>2, <3>3
    <3> QED
      BY <1>2, <3>1, <3>4
  <2>4. t[k][j] = t[k - 1][j] + 1 \/ t[k][j] = t[k][j - 1] + 1 \/ t[k][j] = t[k - 1][j - 1] + 1
    BY <2>2, <2>3 DEF IsCell
  <2>5. t[k - 1][j] \in Nat /\ t[k][j - 1] \in Nat /\ t[k - 1][j - 1] \in Nat
    BY <2>2 DEF IsCell
  <2>6. t[n][m] >= t[k - 1][j] + 1 \/ t[n][m] >= t[k][j - 1] + 1 \/ t[n][m] >= t[k - 1][j - 1] + 1
    BY <1>4, <2>4, <2>5
  <2>7. LastEdit(t, a, n, b, m, r)
    BY <1>3, <2>1, <2>6 DEF LastEdit
  <2> QED
    BY <1>3, <2>7
<1> QED
  BY <1>5, <1>6, <1>7, <1>8

\* The three changes that an edit stands for.
LEMMA InsertionCloser ==
  ASSUME NEW a \in Seq(Chars), NEW n \in Nat, n = Len(a), NEW b \in Seq(Chars), NEW m \in Nat, m = Len(b),
         NEW t, IsTable(t, a, n, b, m), NEW r \in Nat, r < n, r <= m, SameSuffix(a, n - r, b, m - r, r)
  PROVE  \E z \in Seq(Chars) : Changed(b, z) /\ EditDistance(a, z) <= t[(n - r) - 1][m - r]
<1>0. m - r \in Nat /\ n - r \in Nat /\ m + 1 \in Nat
  OBVIOUS
<1>1. PICK q \in Nat, k \in Nat, l \in Nat : q = m - r /\ k = n - r /\ l = m + 1
  BY <1>0, Zenon
<1> DEFINE z == [x \in 1..l |-> IF x <= q THEN b[x] ELSE IF x = q + 1 THEN a[k] ELSE b[x - 1]]
<1>2. k \in 1..n /\ a[k] \in Chars
  BY <1>1
<1>3. ASSUME NEW x \in 1..l PROVE z[x] \in Chars
  <2>1. CASE x <= q
    <3>1. x \in 1..m
      BY <1>1, <2>1
    <3> QED
      BY <2>1, <3>1
  <2>2. CASE x = q + 1
    BY <1>2, <2>2
  <2>3. CASE x > q + 1
    <3>1. x - 1 \in 1..m /\ ~(x <= q) /\ x # q + 1
      BY <1>1, <2>3
    <3> QED
      BY <3>1
  <2> QED
    BY <1>1, <2>1, <2>2, <2>3
<1>4. z \in Seq(Chars) /\ Len(z) = l
  BY <1>3
<1>5. \A x \in 1..q : z[x] = b[x]
  BY <1>1
<1>6. z[q + 1] = a[k]
  BY <1>1
<1>7. \A i \in 1..r : z[(q + 1) + i] = b[q + i]
  <2> SUFFICES ASSUME NEW i \in 1..r PROVE z[(q + 1) + i] = b[q + i]
    OBVIOUS
  <2>1. (q + 1) + i \in 1..l /\ ~((q + 1) + i <= q) /\ (q + 1) + i # q + 1 /\ ((q + 1) + i) - 1 = q + i
    BY <1>1
  <2> QED
    BY <2>1
<1> HIDE DEF z
<1>8. Shorter(b, z, q + 1)
  <2>1. q + 1 \in 1..Len(z) /\ Len(b) = Len(z) - 1 /\ (q + 1) - 1 = q
    BY <1>1, <1>4
  <2>2. \A j \in 1..q : b[j] = z[j]
    BY <1>5
  <2>3. ASSUME NEW j \in (q + 1)..Len(b) PROVE b[j] = z[j + 1]
    <3>1. j - q \in 1..r /\ (q + 1) + (j - q) = j + 1 /\ q + (j - q) = j
      BY <1>1, <2>3
    <3> QED
      BY <1>7, <3>1
  <2> QED
    BY <2>1, <2>2, <2>3 DEF Shorter
<1>9. Changed(b, z)
  <2>1. q + 1 \in Nat
    BY <1>1
  <2> QED
    BY <1>8, <2>1 DEF Changed
<1>10. SameSuffix(a, k, z, q + 1, n - k) /\ n - k = l - (q + 1)
  <2>1. n - k = r /\ l - (q + 1) = r
    BY <1>1
  <2>2. \A i \in 1..r : a[k + i] = b[q + i]
    BY <1>1 DEF SameSuffix
  <2>3. \A i \in 1..r : a[k + i] = z[(q + 1) + i]
    BY <1>7, <2>2
  <2> QED
    BY <2>1, <2>3 DEF SameSuffix
<1>11. EditDistance(a, z) <= t[k - 1][q]
  <2> DEFINE j == q + 1
  <2>1. q \in 0..m /\ q <= l /\ k \in 0..n /\ j \in 0..l /\ j # q /\ k >= 1
    BY <1>1, <1>2
  <2>2. SamePrefix(b, z, q)
    BY <1>5 DEF SamePrefix
  <2>3. n - k = l - j /\ SameSuffix(a, k, z, j, n - k) /\ a[k] = z[j] /\ j = q + 1
    BY <1>6, <1>10
  <2> HIDE DEF j
  <2>4. EditDistance(a, z) <= IF j = q THEN t[k][q] ELSE t[k - 1][q]
    BY <1>4, <2>1, <2>2, <2>3, SplicedDistance
  <2> QED
    BY <2>1, <2>4
<1> QED
  BY <1>1, <1>4, <1>9, <1>11

\* It is a removal: without that character b is one closer to a.
LEMMA RemovalCloser ==
  ASSUME NEW a \in Seq(Chars), NEW n \in Nat, n = Len(a), NEW b \in Seq(Chars), NEW m \in Nat, m = Len(b),
         NEW t, IsTable(t, a, n, b, m), NEW r \in Nat, r <= n, r < m, SameSuffix(a, n - r, b, m - r, r)
  PROVE  \E z \in Seq(Chars) : Changed(b, z) /\ EditDistance(a, z) <= t[n - r][(m - r) - 1]
<1>0. (m - r) - 1 \in Nat /\ n - r \in Nat /\ m - 1 \in Nat
  OBVIOUS
<1>1. PICK q \in Nat, k \in Nat, l \in Nat : q = (m - r) - 1 /\ k = n - r /\ l = m - 1
  BY <1>0, Zenon
<1> DEFINE z == [x \in 1..l |-> IF x <= q THEN b[x] ELSE b[x + 1]]
<1>3. ASSUME NEW x \in 1..l PROVE z[x] \in Chars
  <2>1. x \in 1..m /\ x + 1 \in 1..m
    BY <1>1
  <2> QED
    BY <2>1
<1>4. z \in Seq(Chars) /\ Len(z) = l
  BY <1>3
<1>5. \A x \in 1..q : z[x] = b[x]
  BY <1>1
<1>7. \A i \in 1..r : z[q + i] = b[(q + 1) + i]
  <2> SUFFICES ASSUME NEW i \in 1..r PROVE z[q + i] = b[(q + 1) + i]
    OBVIOUS
  <2>1. q + i \in 1..l /\ ~(q + i <= q) /\ (q + i) + 1 = (q + 1) + i
    BY <1>1
  <2> QED
    BY <2>1
<1> HIDE DEF z
<1>8. Shorter(z, b, q + 1)
  <2>1. q + 1 \in 1..Len(b) /\ Len(z) = Len(b) - 1 /\ (q + 1) - 1 = q
    BY <1>1, <1>4
  <2>3. ASSUME NEW j \in (q + 1)..Len(z) PROVE z[j] = b[j + 1]
    <3>1. j - q \in 1..r /\ (q + 1) + (j - q) = j + 1 /\ q + (j - q) = j
      BY <1>1, <1>4, <2>3
    <3> QED
      BY <1>7, <3>1
  <2> QED
    BY <1>5, <2>1, <2>3 DEF Shorter
<1>9. Changed(b, z)
  <2>1. q + 1 \in Nat
    BY <1>1
  <2> QED
    BY <1>8, <2>1 DEF Changed
<1>10. SameSuffix(a, k, z, q, n - k) /\ n - k = l - q
  <2>1. n - k = r /\ l - q = r /\ m - r = q + 1
    BY <1>1
  <2>2. \A i \in 1..r : a[k + i] = b[(q + 1) + i]
    BY <1>1, <2>1 DEF SameSuffix
  <2>3. \A i \in 1..r : a[k + i] = z[q + i]
    BY <1>7, <2>2
  <2> QED
    BY <2>1, <2>3 DEF SameSuffix
<1>11. EditDistance(a, z) <= t[k][q]
  <2>1. q \in 0..m /\ q <= l /\ k \in 0..n /\ q \in 0..l
    BY <1>1
  <2>2. SamePrefix(b, z, q)
    BY <1>5 DEF SamePrefix
  <2>4. EditDistance(a, z) <= IF q = q THEN t[k][q] ELSE t[k - 1][q]
    BY <1>4, <1>10, <2>1, <2>2, SplicedDistance
  <2> QED
    BY <2>4
<1> QED
  BY <1>1, <1>4, <1>9, <1>11

\* It is a replacement: with that character replaced b is one closer to a.
LEMMA ReplacementCloser ==
  ASSUME NEW a \in Seq(Chars), NEW n \in Nat, n = Len(a), NEW b \in Seq(Chars), NEW m \in Nat, m = Len(b),
         NEW t, IsTable(t, a, n, b, m), NEW r \in Nat, r < n, r < m, SameSuffix(a, n - r, b, m - r, r)
  PROVE  \E z \in Seq(Chars) : Changed(b, z) /\ EditDistance(a, z) <= t[(n - r) - 1][(m - r) - 1]
<1>0. (m - r) - 1 \in Nat /\ n - r \in Nat
  OBVIOUS
<1>1. PICK q \in Nat, k \in Nat : q = (m - r) - 1 /\ k = n - r
  BY <1>0, Zenon
<1> DEFINE z == [x \in 1..m |-> IF x = q + 1 THEN a[k] ELSE b[x]]
<1>2. k \in 1..n /\ a[k] \in Chars /\ q + 1 \in 1..m
  BY <1>1
<1>3. ASSUME NEW x \in 1..m PROVE z[x] \in Chars
  BY <1>2
<1>4. z \in Seq(Chars) /\ Len(z) = m
  BY <1>3
<1>5. \A x \in 1..m : x # q + 1 => z[x] = b[x]
  OBVIOUS
<1>6. z[q + 1] = a[k]
  BY <1>2
<1> HIDE DEF z
<1>9. Changed(b, z)
  <2>1. DiffersAt(z, b, q + 1)
    BY <1>2, <1>4, <1>5 DEF DiffersAt
  <2>2. q + 1 \in Nat
    BY <1>1
  <2> QED
    BY <2>1, <2>2 DEF Changed
<1>10. SameSuffix(a, k, z, q + 1, n - k) /\ n - k = m - (q + 1)
  <2>1. n - k = r /\ m - (q + 1) = r /\ m - r = q + 1
    BY <1>1
  <2>2. \A i \in 1..r : a[k + i] = b[(q + 1) + i]
    BY <1>1, <2>1 DEF SameSuffix
  <2>3. \A i \in 1..r : b[(q + 1) + i] = z[(q + 1) + i]
    <3> SUFFICES ASSUME NEW i \in 1..r PROVE b[(q + 1) + i] = z[(q + 1) + i]
      OBVIOUS
    <3>1. (q + 1) + i \in 1..m /\ (q + 1) + i # q + 1
      BY <1>1
    <3> QED
      BY <1>5, <3>1
  <2> QED
    BY <2>1, <2>2, <2>3 DEF SameSuffix
<1>11. EditDistance(a, z) <= t[k - 1][q]
  <2> DEFINE j == q + 1
  <2>1. q \in 0..m /\ q <= m /\ k \in 0..n /\ j \in 0..m /\ j # q /\ k >= 1
    BY <1>1, <1>2
  <2>2. SamePrefix(b, z, q)
    <3>1. \A x \in 1..q : x \in 1..m /\ x # q + 1
      BY <1>1
    <3> QED
      BY <1>5, <3>1 DEF SamePrefix
  <2>3. n - k = m - j /\ SameSuffix(a, k, z, j, n - k) /\ a[k] = z[j] /\ j = q + 1
    BY <1>6, <1>10
  <2> HIDE DEF j
  <2>4. EditDistance(a, z) <= IF j = q THEN t[k][q] ELSE t[k - 1][q]
    BY <1>4, <2>1, <2>2, <2>3, SplicedDistance
  <2> QED
    BY <2>1, <2>4
<1> QED
  BY <1>1, <1>4, <1>9, <1>11

\* From any name but a itself some change leads closer to a.
LEMMA SomeChangeCloser ==
  ASSUME NEW a \in Seq(Chars), NEW b \in Seq(Chars), a # b
  PROVE  \E z \in Seq(Chars) : Changed(b, z) /\ EditDistance(a, z) + 1 <= EditDistance(a, b)
<1>1. PICK n \in Nat, m \in Nat : n = Len(a) /\ m = Len(b)
  OBVIOUS
<1>2. PICK t : IsTable(t, a, n, b, m) /\ EditDistance(a, b) = t[n][m]
  BY <1>1, TableFilled
<1>3. PICK r \in 0..n : /\ r <= m /\ SameSuffix(a, n - r, b, m - r, r)
                        /\ (r = n /\ r = m) \/ LastEdit(t, a, n, b, m, r)
  BY <1>2, LastEditExists
<1>4. ~(r = n /\ r = m)
  <2> SUFFICES ASSUME r = n, r = m PROVE FALSE
    OBVIOUS
  <2>1. \A i \in 1..n : a[0 + i] = b[0 + i]
    BY <1>3 DEF SameSuffix
  <2>2. \A i \in 1..n : a[i] = b[i]
    BY <2>1
  <2>3. Len(a) = Len(b) /\ \A i \in 1..Len(a) : a[i] = b[i]
    BY <1>1, <2>2
  <2> QED
    BY <2>3
<1>5. LastEdit(t, a, n, b, m, r) /\ r \in Nat
  BY <1>3, <1>4
<1>6. \A z \in Seq(Chars) : EditDistance(a, z) \in Nat
  BY EditDistanceIsNatural
<1>7. t[n][m] \in Nat
  BY <1>2 DEF IsTable
<1>8. EditDistance(a, b) = t[n][m]
  BY <1>2, Zenon
<1>9. CASE r < n /\ t[n][m] >= t[(n - r) - 1][m - r] + 1
  <2>1. PICK z \in Seq(Chars) : Changed(b, z) /\ EditDistance(a, z) <= t[(n - r) - 1][m - r]
    BY <1>1, <1>2, <1>3, <1>5, <1>9, InsertionCloser
  <2>2. t[(n - r) - 1][m - r] \in Nat
    <3>1. (n - r) - 1 \in 0..n /\ m - r \in 0..m
      BY <1>3, <1>9
    <3> QED
      BY <1>2, <3>1 DEF IsTable
  <2>3. PICK x \in Nat, y \in Nat, w \in Nat : /\ x = EditDistance(a, z) /\ y = t[(n - r) - 1][m - r]
                                                /\ w = t[n][m] /\ x <= y /\ w >= y + 1
    BY <1>6, <1>7, <1>9, <2>1, <2>2
  <2>4. x <= y
    BY <2>3, Zenon
  <2>5. w >= y + 1
    BY <2>3, Zenon
  <2>6. x + 1 <= w
    BY <2>4, <2>5
  <2>7. w = EditDistance(a, b)
    BY <1>8, <2>3, Zenon
  <2>8. EditDistance(a, z) + 1 <= EditDistance(a, b)
    BY <2>3, <2>6, <2>7, Zenon
  <2> QED
    BY <2>1, <2>8, Zenon
<1>10. CASE r < m /\ t[n][m] >= t[n - r][(m - r) - 1] + 1
  <2>0. r <= n
    BY <1>3
  <2>1. PICK z \in Seq(Chars) : Changed(b, z) /\ EditDistance(a, z) <= t[n - r][(m - r) - 1]
    BY <1>1, <1>2, <1>3, <1>5, <1>10, <2>0, RemovalCloser
  <2>2. t[n - r][(m - r) - 1] \in Nat
    <3>1. n - r \in 0..n /\ (m - r) - 1 \in 0..m
      BY <1>3, <1>10
    <3> QED
      BY <1>2, <3>1 DEF IsTable
  <2>3. PICK x \in Nat, y \in Nat, w \in Nat : /\ x = EditDistance(a, z) /\ y = t[n - r][(m - r) - 1]
                                                /\ w = t[n][m] /\ x <= y /\ w >= y + 1
    BY <1>6, <1>7, <1>10, <2>1, <2>2
  <2>4. x <= y
    BY <2>3, Zenon
  <2>5. w >= y + 1
    BY <2>3, Zenon
  <2>6. x + 1 <= w
    BY <2>4, <2>5
  <2>7. w = EditDistance(a, b)
    BY <1>8, <2>3, Zenon
  <2>8. EditDistance(a, z) + 1 <= EditDistance(a, b)
    BY <2>3, <2>6, <2>7, Zenon
  <2> QED
    BY <2>1, <2>8, Zenon
<1>11. CASE r < n /\ r < m /\ t[n][m] >= t[(n - r) - 1][(m - r) - 1] + 1
  <2>1. PICK z \in Seq(Chars) : Changed(b, z) /\ EditDistance(a, z) <= t[(n - r) - 1][(m - r) - 1]
    BY <1>1, <1>2, <1>3, <1>5, <1>11, ReplacementCloser
  <2>2. t[(n - r) - 1][(m - r) - 1] \in Nat
    <3>1. (n - r) - 1 \in 0..n /\ (m - r) - 1 \in 0..m
      BY <1>3, <1>11
    <3> QED
      BY <1>2, <3>1 DEF IsTable
  <2>3. PICK x \in Nat, y \in Nat, w \in Nat : /\ x = EditDistance(a, z) /\ y = t[(n - r) - 1][(m - r) - 1]
                                                /\ w = t[n][m] /\ x <= y /\ w >= y + 1
    BY <1>6, <1>7, <1>11, <2>1, <2>2
  <2>4. x <= y
    BY <2>3, Zenon
  <2>5. w >= y + 1
    BY <2>3, Zenon
  <2>6. x + 1 <= w
    BY <2>4, <2>5
  <2>7. w = EditDistance(a, b)
    BY <1>8, <2>3, Zenon
  <2>8. EditDistance(a, z) + 1 <= EditDistance(a, b)
    BY <2>3, <2>6, <2>7, Zenon
  <2> QED
    BY <2>1, <2>8, Zenon
<1> QED
  BY <1>5, <1>9, <1>10, <1>11 DEF LastEdit

\* What is where in a concatenation.
IsJoin(z, T, u, v, p, q) ==
  /\ z \in Seq(T) /\ Len(z) = p + q
  /\ \A j \in 1..p : z[j] = u[j]
  /\ \A j \in 1..q : z[p + j] = v[j]

\* Concatenation puts the second sequence behind the first.
LEMMA JoinFacts ==
  ASSUME NEW T, NEW u \in Seq(T), NEW v \in Seq(T), NEW p \in Nat, NEW q \in Nat, p = Len(u), q = Len(v)
  PROVE  IsJoin(u \o v, T, u, v, p, q)
<1>1. u \o v \in Seq(T) /\ Len(u \o v) = p + q
  OBVIOUS
<1>2. \A j \in 1..p : (u \o v)[j] = u[j]
  OBVIOUS
<1>3. \A j \in 1..q : (u \o v)[Len(u) + j] = v[j]
  OBVIOUS
<1> QED
  BY <1>1, <1>2, <1>3 DEF IsJoin

\* The changes of one character, as the code's table knows them and as operations on sequences.
LEMMA RemovalIsChange ==
  ASSUME NEW s \in Seq(Chars), NEW d \in Seq(Chars), NEW p \in 1..Len(s)
  PROVE  Shorter(d, s, p) <=> d = RemoveAt(s, p)
<1>1. PICK n \in Nat : n = Len(s) /\ p \in 1..n /\ DOMAIN s = 1..n
  OBVIOUS
<1> DEFINE u == SubSeq(s, 1, p - 1)
           v == SubSeq(s, p + 1, n)
           z == u \o v
<1>2. u \in Seq(Chars) /\ Len(u) = p - 1 /\ \A j \in 1..(p - 1) : u[j] = s[j]
  BY <1>1
<1>3. v \in Seq(Chars) /\ Len(v) = n - p /\ \A j \in 1..(n - p) : v[j] = s[p + j]
  BY <1>1
<1>0. p - 1 \in Nat /\ n - p \in Nat /\ n = Len(s)
  BY <1>1
<1>10. RemoveAt(s, p) = z
  BY <1>0 DEF RemoveAt
<1> HIDE DEF u, v
<1>4. IsJoin(z, Chars, u, v, p - 1, n - p)
  BY <1>0, <1>2, <1>3, JoinFacts
<1> HIDE DEF z
<1>11. z \in Seq(Chars) /\ Len(z) = n - 1
  BY <1>1, <1>4 DEF IsJoin
<1>5. \A j \in 1..(p - 1) : z[j] = s[j]
  BY <1>2, <1>4 DEF IsJoin
<1>6. \A j \in p..(n - 1) : z[j] = s[j + 1]
  <2> SUFFICES ASSUME NEW j \in p..(n - 1) PROVE z[j] = s[j + 1]
    OBVIOUS
  <2>1. PICK i \in 1..(n - p) : i = j - (p - 1)
    BY <1>1
  <2>2. (p - 1) + i = j /\ p + i = j + 1
    BY <1>1, <2>1
  <2>3. z[(p - 1) + i] = v[i] /\ v[i] = s[p + i]
    BY <1>3, <1>4 DEF IsJoin
  <2> QED
    BY <2>2, <2>3
<1>8. ASSUME Shorter(d, s, p) PROVE d = z
  <2>1. Len(d) = n - 1 /\ (\A j \in 1..(p - 1) : d[j] = s[j]) /\ \A j \in p..(n - 1) : d[j] = s[j + 1]
    BY <1>1, <1>8 DEF Shorter
  <2>2. \A j \in 1..(n - 1) : d[j] = z[j]
    <3> SUFFICES ASSUME NEW j \in 1..(n - 1) PROVE d[j] = z[j]
      OBVIOUS
    <3>1. j \in 1..(p - 1) \/ j \in p..(n - 1)
      BY <1>1
    <3> QED
      BY <1>5, <1>6, <2>1, <3>1
  <2> QED
    BY <1>11, <2>1, <2>2
<1>9. ASSUME d = z PROVE Shorter(d, s, p)
  BY <1>1, <1>11, <1>5, <1>6, <1>9 DEF Shorter
<1> QED
  BY <1>10, <1>8, <1>9

\* InsertAt gives the one name that is longer by ch at p.
LEMMA InsertionIsChange ==
  ASSUME NEW s \in Seq(Chars), NEW d \in Seq(Chars), NEW p \in 1..(Len(s) + 1), NEW ch \in Chars
  PROVE  d = InsertAt(s, p, ch) <=> Shorter(s, d, p) /\ d[p] = ch
<1>1. PICK n \in Nat : n = Len(s) /\ p \in 1..(n + 1) /\ DOMAIN s = 1..n
  OBVIOUS
<1> DEFINE u == SubSeq(s, 1, p - 1)
           w == <<ch>>
           v == SubSeq(s, p, n)
           x == u \o w
           z == x \o v
<1>2. u \in Seq(Chars) /\ Len(u) = p - 1 /\ \A j \in 1..(p - 1) : u[j] = s[j]
  BY <1>1
<1>3. v \in Seq(Chars) /\ Len(v) = (n - p) + 1 /\ \A j \in 1..((n - p) + 1) : v[j] = s[(p + j) - 1]
  BY <1>1
<1>4. w \in Seq(Chars) /\ Len(w) = 1 /\ w[1] = ch
  OBVIOUS
<1>0. p - 1 \in Nat /\ (n - p) + 1 \in Nat /\ n = Len(s) /\ p \in Nat /\ (p - 1) + 1 = p
  BY <1>1
<1>9. InsertAt(s, p, ch) = z
  BY <1>0 DEF InsertAt
<1> HIDE DEF u, v, w
<1>12. IsJoin(x, Chars, u, w, p - 1, 1)
  BY <1>2, <1>4, <1>0, JoinFacts
<1> HIDE DEF x
<1>5. x \in Seq(Chars) /\ Len(x) = p /\ x[p] = ch /\ \A j \in 1..(p - 1) : x[j] = s[j]
  <2>1. x[(p - 1) + 1] = w[1]
    BY <1>12 DEF IsJoin
  <2> QED
    BY <1>0, <1>2, <1>4, <1>12, <2>1 DEF IsJoin
<1>13. IsJoin(z, Chars, x, v, p, (n - p) + 1)
  BY <1>3, <1>5, <1>0, JoinFacts
<1> HIDE DEF z
<1>6. z \in Seq(Chars) /\ Len(z) = n + 1
  BY <1>0, <1>1, <1>13 DEF IsJoin
<1>7. (\A j \in 1..(p - 1) : z[j] = s[j]) /\ z[p] = ch
  <2>1. \A j \in 1..p : z[j] = x[j]
    BY <1>13 DEF IsJoin
  <2> QED
    BY <1>1, <1>5, <2>1
<1>8. \A j \in p..n : z[j + 1] = s[j]
  <2> SUFFICES ASSUME NEW j \in p..n PROVE z[j + 1] = s[j]
    OBVIOUS
  <2>1. PICK i \in 1..((n - p) + 1) : i = (j + 1) - p
    BY <1>1
  <2>2. p + i = j + 1 /\ (p + i) - 1 = j
    BY <1>1, <2>1
  <2>3. z[p + i] = v[i] /\ v[i] = s[(p + i) - 1]
    BY <1>3, <1>13 DEF IsJoin
  <2> QED
    BY <2>2, <2>3
<1>10. ASSUME Shorter(s, d, p), d[p] = ch PROVE d = z
  <2>1. Len(d) = n + 1 /\ (\A j \in 1..(p - 1) : s[j] = d[j]) /\ \A j \in p..n : s[j] = d[j + 1]
    BY <1>1, <1>10 DEF Shorter
  <2>2. \A j \in 1..(n + 1) : d[j] = z[j]
    <3> SUFFICES ASSUME NEW j \in 1..(n + 1) PROVE d[j] = z[j]
      OBVIOUS
    <3>1. CASE j \in 1..(p - 1)
      BY <1>7, <2>1, <3>1
    <3>2. CASE j = p
      BY <1>7, <1>10, <3>2
    <3>3. CASE j \in (p + 1)..(n + 1)
      <4>1. j - 1 \in p..n /\ (j - 1) + 1 = j
        BY <1>1, <3>3
      <4>2. s[j - 1] = d[(j - 1) + 1] /\ z[(j - 1) + 1] = s[j - 1]
        BY <1>8, <2>1, <4>1
      <4> QED
        BY <4>1, <4>2
    <3>4. j \in 1..(p - 1) \/ j = p \/ j \in (p + 1)..(n + 1)
      BY <1>1
    <3> QED
      BY <3>1, <3>2, <3>3, <3>4
  <2>3. Len(d) = n + 1 /\ Len(z) = n + 1
    BY <1>6, <2>1
  <2> QED
    BY <1>6, <2>2, <2>3
<1>11. ASSUME d = z PROVE Shorter(s, d, p) /\ d[p] = ch
  BY <1>1, <1>6, <1>7, <1>8, <1>11 DEF Shorter
<1> QED
  BY <1>9, <1>10, <1>11

\* EXCEPT gives the one name that has ch at p instead.
LEMMA ReplacementIsChange ==
  ASSUME NEW s \in Seq(Chars), NEW d \in Seq(Chars), NEW p \in 1..Len(s), NEW ch \in Chars
  PROVE  d = [s EXCEPT ![p] = ch] <=> DiffersAt(d, s, p) /\ d[p] = ch
<1>1. PICK n \in Nat : n = Len(s) /\ p \in 1..n /\ DOMAIN s = 1..n
  OBVIOUS
<1> DEFINE z == [s EXCEPT ![p] = ch]
<1>2. z \in Seq(Chars) /\ Len(z) = n /\ z[p] = ch /\ \A j \in 1..n : j # p => z[j] = s[j]
  BY <1>1
<1> HIDE DEF z
<1>3. ASSUME DiffersAt(d, s, p), d[p] = ch PROVE d = z
  <2>1. Len(d) = n /\ \A j \in 1..n : j # p => d[j] = s[j]
    BY <1>1, <1>3 DEF DiffersAt
  <2>2. \A j \in 1..n : d[j] = z[j]
    BY <1>2, <1>3, <2>1
  <2> QED
    BY <1>2, <2>1, <2>2
<1>4. ASSUME d = z PROVE DiffersAt(d, s, p) /\ d[p] = ch
  BY <1>1, <1>2, <1>4 DEF DiffersAt
<1> QED
  BY <1>3, <1>4 DEF z

\* The set of them, which Near compares.
ChangesOf(s) ==
  {RemoveAt(s, i) : i \in DOMAIN s}
  \union {[s EXCEPT ![i] = ch] : i \in DOMAIN s, ch \in Chars}
  \union {InsertAt(s, i, ch) : i \in 1..(Len(s) + 1), ch \in Chars}

\* A change of a name is a name.
LEMMA ChangesAreNames ==
  ASSUME NEW s \in Seq(Chars)
  PROVE  ChangesOf(s) \subseteq Seq(Chars)
<1>1. DOMAIN s = 1..Len(s) /\ Len(s) \in Nat
  OBVIOUS
<1>2. \A i \in 1..Len(s) : RemoveAt(s, i) \in Seq(Chars)
  <2> SUFFICES ASSUME NEW i \in 1..Len(s) PROVE RemoveAt(s, i) \in Seq(Chars)
    OBVIOUS
  <2>1. SubSeq(s, 1, i - 1) \in Seq(Chars) /\ SubSeq(s, i + 1, Len(s)) \in Seq(Chars)
    BY <1>1
  <2> QED
    BY <2>1 DEF RemoveAt
<1>3. \A i \in 1..Len(s), ch \in Chars : [s EXCEPT ![i] = ch] \in Seq(Chars)
  BY <1>1
<1>4. \A i \in 1..(Len(s) + 1), ch \in Chars : InsertAt(s, i, ch) \in Seq(Chars)
  <2> SUFFICES ASSUME NEW i \in 1..(Len(s) + 1), NEW ch \in Chars PROVE InsertAt(s, i, ch) \in Seq(Chars)
    OBVIOUS
  <2>1. SubSeq(s, 1, i - 1) \in Seq(Chars) /\ SubSeq(s, i, Len(s)) \in Seq(Chars) /\ <<ch>> \in Seq(Chars)
    BY <1>1
  <2> QED
    BY <2>1 DEF InsertAt
<1>5. SUFFICES ASSUME NEW d \in ChangesOf(s) PROVE d \in Seq(Chars)
  OBVIOUS
<1>6. \/ \E i \in 1..Len(s) : d = RemoveAt(s, i)
      \/ \E i \in 1..Len(s), ch \in Chars : d = [s EXCEPT ![i] = ch]
      \/ \E i \in 1..(Len(s) + 1), ch \in Chars : d = InsertAt(s, i, ch)
  BY <1>1 DEF ChangesOf
<1> QED
  BY <1>2, <1>3, <1>4, <1>6

\* It is what one change leads to.
LEMMA ChangesAreChanges ==
  ASSUME NEW s \in Seq(Chars), NEW d \in Seq(Chars)
  PROVE  d \in ChangesOf(s) <=> Changed(s, d)
<1>1. DOMAIN s = 1..Len(s) /\ Len(s) \in Nat /\ Len(d) \in Nat
  OBVIOUS
<1>2. ASSUME d \in ChangesOf(s) PROVE Changed(s, d)
  <2>1. \/ \E i \in 1..Len(s) : d = RemoveAt(s, i)
        \/ \E i \in 1..Len(s), ch \in Chars : d = [s EXCEPT ![i] = ch]
        \/ \E i \in 1..(Len(s) + 1), ch \in Chars : d = InsertAt(s, i, ch)
    BY <1>1, <1>2 DEF ChangesOf
  <2>2. CASE \E i \in 1..Len(s) : d = RemoveAt(s, i)
    <3>1. PICK i \in 1..Len(s) : d = RemoveAt(s, i)
      BY <2>2
    <3>2. Shorter(d, s, i) /\ i \in Nat
      BY <3>1, RemovalIsChange
    <3> QED
      BY <3>2 DEF Changed
  <2>3. CASE \E i \in 1..Len(s), ch \in Chars : d = [s EXCEPT ![i] = ch]
    <3>1. PICK i \in 1..Len(s), ch \in Chars : d = [s EXCEPT ![i] = ch]
      BY <2>3
    <3>3. DiffersAt(d, s, i)
      BY <3>1, ReplacementIsChange
    <3>2. DiffersAt(d, s, i) /\ i \in Nat
      BY <1>1, <3>3
    <3> QED
      BY <3>2 DEF Changed
  <2>4. CASE \E i \in 1..(Len(s) + 1), ch \in Chars : d = InsertAt(s, i, ch)
    <3>1. PICK i \in 1..(Len(s) + 1), ch \in Chars : d = InsertAt(s, i, ch)
      BY <2>4
    <3>2. Shorter(s, d, i) /\ i \in Nat
      BY <3>1, InsertionIsChange
    <3> QED
      BY <3>2 DEF Changed
  <2> QED
    BY <2>1, <2>2, <2>3, <2>4
<1>3. ASSUME Changed(s, d) PROVE d \in ChangesOf(s)
  <2>1. PICK p \in Nat : Shorter(d, s, p) \/ Shorter(s, d, p) \/ DiffersAt(d, s, p)
    BY <1>3 DEF Changed
  <2>2. CASE Shorter(d, s, p)
    <3>1. p \in 1..Len(s)
      BY <2>2 DEF Shorter
    <3>2. d = RemoveAt(s, p)
      BY <2>2, <3>1, RemovalIsChange
    <3> QED
      BY <1>1, <3>1, <3>2 DEF ChangesOf
  <2>3. CASE Shorter(s, d, p)
    <3>1. p \in 1..Len(d) /\ Len(s) = Len(d) - 1
      BY <2>3 DEF Shorter
    <3>2. p \in 1..(Len(s) + 1) /\ d[p] \in Chars
      BY <1>1, <3>1
    <3>3. d = InsertAt(s, p, d[p])
      BY <2>3, <3>2, InsertionIsChange
    <3> QED
      BY <3>2, <3>3 DEF ChangesOf
  <2>4. CASE DiffersAt(d, s, p)
    <3>1. p \in 1..Len(s) /\ Len(d) = Len(s)
      BY <2>4 DEF DiffersAt
    <3>2. d[p] \in Chars
      BY <1>1, <3>1
    <3>3. d = [s EXCEPT ![p] = d[p]]
      BY <2>4, <3>1, <3>2, ReplacementIsChange
    <3> QED
      BY <1>1, <3>1, <3>2, <3>3 DEF ChangesOf
  <2> QED
    BY <2>1, <2>2, <2>3, <2>4
<1> QED
  BY <1>2, <1>3

\* What a change leads to leads back by one.
LEMMA ChangeIsSymmetric ==
  ASSUME NEW s, NEW d, Changed(s, d)
  PROVE  Changed(d, s)
<1>1. PICK p \in Nat : Shorter(d, s, p) \/ Shorter(s, d, p) \/ DiffersAt(d, s, p)
  BY DEF Changed
<1>2. DiffersAt(d, s, p) => DiffersAt(s, d, p)
  BY DEF DiffersAt
<1> QED
  BY <1>1, <1>2 DEF Changed

\* Near counts the changes between two names up to two.
LEMMA NearMeans ==
  ASSUME NEW x \in Seq(Chars), NEW y \in Seq(Chars)
  PROVE  Near(x, y) = IF Changed(x, y) THEN 1
                      ELSE IF \E z \in Seq(Chars) : Changed(x, z) /\ Changed(y, z) THEN 2 ELSE 3
<1>1. Near(x, y) = IF y \in ChangesOf(x) THEN 1 ELSE IF ChangesOf(x) \intersect ChangesOf(y) # {} THEN 2 ELSE 3
  BY DEF Near, ChangesOf
<1>2. y \in ChangesOf(x) <=> Changed(x, y)
  BY ChangesAreChanges
<1>3. ChangesOf(x) \intersect ChangesOf(y) # {} <=> \E z \in Seq(Chars) : Changed(x, z) /\ Changed(y, z)
  BY ChangesAreChanges, ChangesAreNames
<1> QED
  BY <1>1, <1>2, <1>3

\* Of two different names the edit distance is the number of changes that lead from one to the
\* other, as long as these are two at most.
THEOREM DistanceIsNear ==
  ASSUME NEW x \in Seq(Chars), NEW y \in Seq(Chars), x # y
  PROVE  \/ EditDistance(x, y) = Near(x, y)
         \/ EditDistance(x, y) > 2 /\ Near(x, y) > 2
<1>1. \A a, b \in Seq(Chars) : EditDistance(a, b) \in Nat
  BY EditDistanceIsNatural
<1>2. \A a, b, d \in Seq(Chars) : Changed(b, d) => EditDistance(a, d) <= EditDistance(a, b) + 1
  BY ChangeIsClose
<1>3. \A a \in Seq(Chars) : EditDistance(a, a) = 0
  BY SameIsNoDistance
<1>4. \A a, b \in Seq(Chars) : a # b => \E z \in Seq(Chars) : Changed(b, z) /\ EditDistance(a, z) + 1 <= EditDistance(a, b)
  BY SomeChangeCloser
<1>5. PICK z \in Seq(Chars) : Changed(y, z) /\ EditDistance(x, z) + 1 <= EditDistance(x, y)
  BY <1>4
<1>6. EditDistance(x, y) >= 1
  BY <1>1, <1>5
<1>7. CASE Changed(x, y)
  <2>1. EditDistance(x, y) = 1
    BY <1>1, <1>2, <1>3, <1>6, <1>7
  <2> QED
    BY <1>7, <2>1, NearMeans
<1>8. CASE ~Changed(x, y)
  <2>1. ~Changed(y, x)
    BY <1>8, ChangeIsSymmetric
  <2>2. x # z
    BY <1>5, <2>1
  <2>3. PICK w \in Seq(Chars) : Changed(z, w) /\ EditDistance(x, w) + 1 <= EditDistance(x, z)
    BY <1>4, <2>2
  <2>0. EditDistance(x, y) \in Nat /\ EditDistance(x, z) \in Nat /\ EditDistance(x, w) \in Nat
    BY <1>1
  <2>4. EditDistance(x, y) >= 2
    BY <1>5, <2>0, <2>3
  <2>5. ASSUME EditDistance(x, y) = 2 PROVE Changed(x, z) /\ Changed(y, z)
    <3>1. EditDistance(x, w) = 0
      BY <1>5, <2>0, <2>3, <2>5
    <3>2. x = w
      <4>1. \A v \in Seq(Chars) : EditDistance(x, v) \in Nat
        BY <1>1
      <4> QED
        BY <1>4, <3>1, <4>1
    <3> QED
      BY <1>5, <2>3, <3>2, ChangeIsSymmetric
  <2>6. ASSUME NEW v \in Seq(Chars), Changed(x, v), Changed(y, v) PROVE EditDistance(x, y) <= 2
    <3>1. EditDistance(x, v) <= EditDistance(x, x) + 1
      BY <1>2, <2>6
    <3>2. EditDistance(x, y) <= EditDistance(x, v) + 1
      BY <1>2, <2>6, ChangeIsSymmetric
    <3>3. EditDistance(x, y) \in Nat /\ EditDistance(x, v) \in Nat /\ EditDistance(x, x) = 0
      BY <1>1, <1>3
    <3> QED
      BY <3>1, <3>2, <3>3
  <2>7. EditDistance(x, y) \in Nat
    BY <1>1
  <2>8. CASE \E v \in Seq(Chars) : Changed(x, v) /\ Changed(y, v)
    <3>1. Near(x, y) = 2
      BY <1>8, <2>8, NearMeans
    <3>2. EditDistance(x, y) <= 2
      BY <2>6, <2>8
    <3> QED
      BY <2>4, <2>7, <3>1, <3>2
  <2>9. CASE ~\E v \in Seq(Chars) : Changed(x, v) /\ Changed(y, v)
    <3>1. Near(x, y) = 3
      BY <1>8, <2>9, NearMeans
    <3>2. EditDistance(x, y) # 2
      BY <2>5, <2>9
    <3> QED
      BY <2>4, <2>7, <3>1, <3>2
  <2> QED
    BY <2>8, <2>9
<1> QED
  BY <1>7, <1>8

-----------------------------------------------------------------------------
(***************************************************************************)
(* Offers.                                                                 *)
(***************************************************************************)
\* An offer with fields in their types is one.
LEMMA OfferFacts ==
  ASSUME NEW matched \in Assets \union Accounts, NEW owner \in Accounts, NEW score \in Thousandths,
         NEW how \in Methods
  PROVE  Offer(matched, owner, score, how) \in Offered
BY DEF Offer, Offered

\* What is offered on a condition is an offer, or nothing is.
LEMMA OfferIfFacts ==
  ASSUME NEW condition, NEW offer, condition => offer \in Offered
  PROVE  OfferIf(condition, offer) \in Seq(Offered)
<1>1. OfferIf(condition, offer) = <<>> \/ (condition /\ OfferIf(condition, offer) = <<offer>>)
  BY Zenon DEF OfferIf
<1>2. <<>> \in Seq(Offered)
  OBVIOUS
<1>3. offer \in Offered => <<offer>> \in Seq(Offered)
  OBVIOUS
<1> QED
  BY <1>1, <1>2, <1>3, Zenon

\* The fields of an entry of the reuse index.
LEMMA EntryFacts ==
  ASSUME NEW e \in Entries
  PROVE  /\ e.asset \in Assets \union Accounts /\ e.owner \in Accounts
         /\ e.digest \in Contents /\ e.cdc \in Contents
         /\ e.look # Null => e.look \in Images
BY DEF Entries

\* A similarity is a score, of whatever it is taken.
LEMMA ScoreFacts ==
  /\ \A x \in Contents, y \in Contents : CdcSim[x][y] \in Thousandths /\ ClipSim[x][y] \in Thousandths
  /\ \A x \in Images, y \in Images : LookSim[x][y] \in Thousandths
<1>1. \A x \in Contents, y \in Contents : CdcSim[x][y] \in Thousandths
  BY CdcAssumption
<1>2. \A x \in Contents, y \in Contents : ClipSim[x][y] \in Thousandths
  BY ClipAssumption
<1>3. \A x \in Images, y \in Images : LookSim[x][y] \in Thousandths
  BY LookAssumption
<1> QED
  BY <1>1, <1>2, <1>3

\* What a registered asset offers are offers.
LEMMA ReuseOffersFacts ==
  ASSUME NEW c \in Candidates, NEW e \in Entries
  PROVE  ReuseOffers(c, e) \in Seq(Offered)
<1> DEFINE exact == Offer(e.asset, e.owner, 1000, "exact_digest")
           cs == CdcSim[c.content][e.cdc]
           looks == c.content \in Images /\ e.look # Null
           ps == IF looks THEN LookSim[c.content][e.look] ELSE 0
<1>1. c.content \in Contents
  BY CandidatesAssumption
<1>2. cs \in Thousandths /\ ps \in Thousandths /\ looks \in BOOLEAN
  <2>0. e.cdc \in Contents /\ (e.look # Null => e.look \in Images)
    BY EntryFacts
  <2>1. cs \in Thousandths
    BY <1>1, <2>0, ScoreFacts, Zenon
  <2>2. looks => LookSim[c.content][e.look] \in Thousandths
    BY <2>0, ScoreFacts, Zenon
  <2>3. 0 \in Thousandths
    BY DEF Thousandths
  <2>4. ps = 0 \/ (looks /\ ps = LookSim[c.content][e.look])
    BY Zenon
  <2>5. looks \in BOOLEAN
    BY Zenon
  <2> QED
    BY <2>1, <2>2, <2>3, <2>4, <2>5, Zenon
<1> HIDE DEF cs, looks, ps
<1>3. /\ {"exact_digest", "cdc", "perceptual"} \subseteq Methods
      /\ 1000 \in Thousandths
  BY DEF Methods, Thousandths
<1>4. /\ exact \in Offered
      /\ Offer(e.asset, e.owner, cs, "cdc") \in Offered
      /\ Offer(e.asset, e.owner, ps, "perceptual") \in Offered
  <2>1. e.asset \in Assets \union Accounts /\ e.owner \in Accounts
    BY EntryFacts
  <2>2. /\ "exact_digest" \in Methods /\ "cdc" \in Methods /\ "perceptual" \in Methods
    BY <1>3
  <2>3. exact \in Offered
    BY <1>3, <2>1, <2>2, OfferFacts
  <2>4. Offer(e.asset, e.owner, cs, "cdc") \in Offered
    BY <1>2, <2>1, <2>2, OfferFacts, Zenon
  <2>5. Offer(e.asset, e.owner, ps, "perceptual") \in Offered
    BY <1>2, <2>1, <2>2, OfferFacts, Zenon
  <2> QED
    BY <2>3, <2>4, <2>5
<1> HIDE DEF exact
<1> DEFINE A == OfferIf(cs >= Threshold["cdc"], Offer(e.asset, e.owner, cs, "cdc"))
           B == OfferIf(looks /\ ps >= Threshold["perceptual"],
                        Offer(e.asset, e.owner, ps, "perceptual"))
<1>5. A \in Seq(Offered) /\ B \in Seq(Offered)
  BY <1>4, OfferIfFacts, Zenon
<1>6. A \o B \in Seq(Offered)
  BY <1>5, ConcatFacts
<1>7. ReuseOffers(c, e) =
        IF e.owner = c.publisher THEN <<>>
        ELSE IF e.digest = c.content THEN <<exact>>
        ELSE A \o B
  BY DEF ReuseOffers, cs, looks, ps, exact
<1>8. <<>> \in Seq(Offered) /\ <<exact>> \in Seq(Offered)
  BY <1>4
<1> DEFINE T == Seq(Offered)
<1>9. A \o B \in T /\ <<>> \in T /\ <<exact>> \in T
  BY <1>6, <1>8
<1> HIDE DEF T, A, B
<1>10. ReuseOffers(c, e) \in T
  BY <1>7, <1>9
<1> QED
  BY <1>10 DEF T

\* What a registered clip offers are offers.
LEMMA ClipOffersFacts ==
  ASSUME NEW c \in Candidates, c.category \in {"audio", "video"}, NEW e \in ClipEntries
  PROVE  ClipOffers(c, e) \in Seq(Offered)
<1> DEFINE s == ClipSim[c.content][e.clip]
<1>1. c.content \in Contents /\ c.category \in Methods
  BY CandidatesAssumption DEF Methods
<1>2. e.clip \in Contents /\ e.asset \in Assets \union Accounts /\ e.owner \in Accounts
  BY DEF ClipEntries
<1>3. s \in Thousandths
  BY <1>1, <1>2, ScoreFacts, Zenon
<1> HIDE DEF s
<1>4. Offer(e.asset, e.owner, s, c.category) \in Offered
  BY <1>1, <1>2, <1>3, OfferFacts
<1>6. ClipOffers(c, e) = OfferIf(e.owner # c.publisher /\ s >= Threshold[c.category],
                                 Offer(e.asset, e.owner, s, c.category))
  BY Zenon DEF ClipOffers, s
<1> QED
  BY <1>4, <1>6, OfferIfFacts, Zenon

\* What the names of a protected identity offer are offers.
LEMMA HandleOffersFacts ==
  ASSUME NEW c \in Candidates, NEW pid \in Protected
  PROVE  HandleOffers(c, pid) \in Seq(Offered)
<1> DEFINE Found(i, j) == LookalikesOf[c.names[j]][pid.names[i]]
           Made(i, j) == [k \in DOMAIN Found(i, j) |->
                           Offer(pid.id, pid.id, Found(i, j)[k].score, Found(i, j)[k].how)]
           Of(i) == FlattenSeq([j \in DOMAIN c.names |-> Made(i, j)])
<1>1. c.names \in Seq(Names) /\ pid.names \in Seq(Names) /\ pid.id \in Accounts
  BY CandidatesAssumption, RegistrationsAssumption
<1>2. ASSUME NEW i \in 1..Len(pid.names), NEW j \in 1..Len(c.names)
      PROVE  Made(i, j) \in Seq(Offered)
  <2>1. c.names[j] \in Names /\ pid.names[i] \in Names
    BY <1>1, <1>2
  <2>2. Found(i, j) = Lookalike(c.names[j], pid.names[i])
    BY <2>1 DEF LookalikesOf
  <2> DEFINE f == Found(i, j)
             T == [score : Thousandths, how : Methods]
  <2>3. c.names[j] \in Seq(Chars) /\ pid.names[i] \in Seq(Chars)
    BY <2>1, ContentsAssumption
  <2>4. f \in Seq(T)
    BY <2>2, <2>3, LookalikeFacts, Zenon
  <2> HIDE DEF f, T
  <2>5. ASSUME NEW k \in 1..Len(f) PROVE Offer(pid.id, pid.id, f[k].score, f[k].how) \in Offered
    <3>1. f[k] \in T
      BY <2>4
    <3>2. f[k].score \in Thousandths /\ f[k].how \in Methods
      BY <3>1 DEF T
    <3> QED
      BY <1>1, <3>2, OfferFacts
  <2>6. DOMAIN f = 1..Len(f) /\ Len(f) \in Nat
    BY <2>4
  <2>7. [k \in DOMAIN f |-> Offer(pid.id, pid.id, f[k].score, f[k].how)] \in Seq(Offered)
    BY <2>5, <2>6
  <2> QED
    BY <2>7 DEF f
<1> HIDE DEF Made
<1>3. ASSUME NEW i \in 1..Len(pid.names) PROVE Of(i) \in Seq(Offered)
  <2>1. DOMAIN c.names = 1..Len(c.names) /\ Len(c.names) \in Nat
    BY <1>1
  <2>2. [j \in DOMAIN c.names |-> Made(i, j)] \in Seq(Seq(Offered))
    BY <1>2, <2>1
  <2> QED
    BY <2>2, FlattenFacts
<1> HIDE DEF Of
<1>4. DOMAIN pid.names = 1..Len(pid.names) /\ Len(pid.names) \in Nat
  BY <1>1
<1>5. [i \in DOMAIN pid.names |-> Of(i)] \in Seq(Seq(Offered))
  BY <1>3, <1>4
<1>6. FlattenSeq([i \in DOMAIN pid.names |-> Of(i)]) \in Seq(Offered)
  BY <1>5, FlattenFacts
<1> QED
  BY <1>6, Zenon DEF HandleOffers, Of, Made

\* What the image of a protected identity offers are offers.
LEMMA LikenessOffersFacts ==
  ASSUME NEW c \in Candidates, c.category = "likeness", NEW pid \in Protected
  PROVE  LikenessOffers(c, pid) \in Seq(Offered)
<1> DEFINE applies == pid.image # Null /\ pid.id # c.subject
           score == IF applies THEN LookSim[c.content][pid.image] ELSE 0
<1>1. c.content \in Images /\ pid.id \in Accounts /\ (applies => pid.image \in Images)
  BY CandidatesAssumption, RegistrationsAssumption
<1>2. score \in Thousandths /\ applies \in BOOLEAN
  <2>1. applies => LookSim[c.content][pid.image] \in Thousandths
    BY <1>1, ScoreFacts, Zenon
  <2>2. score = 0 \/ (applies /\ score = LookSim[c.content][pid.image])
    BY Zenon
  <2>3. 0 \in Thousandths
    BY DEF Thousandths
  <2>4. applies \in BOOLEAN
    BY Zenon
  <2> QED
    BY <2>1, <2>2, <2>3, <2>4, Zenon
<1> HIDE DEF applies, score
<1>3. "dhash" \in Methods
  BY DEF Methods
<1>4. Offer(pid.id, pid.id, score, "dhash") \in Offered
  BY <1>1, <1>2, <1>3, OfferFacts
<1>6. LikenessOffers(c, pid) = OfferIf(applies /\ score >= Threshold["likeness"],
                                       Offer(pid.id, pid.id, score, "dhash"))
  BY Zenon DEF LikenessOffers, applies, score
<1> QED
  BY <1>4, <1>6, OfferIfFacts, Zenon

\* What the index of a category holds.
LEMMA EntriesForFacts ==
  ASSUME DetectionTypeOK, NEW c \in Candidates
  PROVE  /\ c.category = "reuse" => EntriesFor(c) \in Seq(Entries)
         /\ c.category \in {"audio", "video"} => EntriesFor(c) \in Seq(ClipEntries)
         /\ c.category \in {"handle", "likeness"} => EntriesFor(c) \in Seq(Protected)
         /\ c.category \in {"reuse", "audio", "video", "handle", "likeness"}
<1>1. c.category = "reuse" => EntriesFor(c) \in Seq(Entries)
  BY DEF DetectionTypeOK, EntriesFor
<1>2. c.category \in {"audio", "video"} => EntriesFor(c) \in Seq(ClipEntries)
  BY DEF DetectionTypeOK, EntriesFor
<1>3. c.category \in {"handle", "likeness"} => EntriesFor(c) \in Seq(Protected)
  BY DEF DetectionTypeOK, EntriesFor
<1>4. c.category \in {"reuse", "audio", "video", "handle", "likeness"}
  BY CandidatesAssumption
<1> QED
  BY <1>1, <1>2, <1>3, <1>4

\* Whatever entry a candidate is held against, what comes of it are offers.
LEMMA OffersOfFacts ==
  ASSUME DetectionTypeOK, NEW c \in Candidates, NEW i \in DOMAIN EntriesFor(c)
  PROVE  OffersOf(c, EntriesFor(c)[i]) \in Seq(Offered)
<1> DEFINE e == EntriesFor(c)[i]
<1>1. CASE c.category = "reuse"
  <2>1. EntriesFor(c) \in Seq(Entries)
    BY <1>1, EntriesForFacts
  <2>2. e \in Entries
    BY <2>1
  <2>3. OffersOf(c, e) = ReuseOffers(c, e)
    BY <1>1 DEF OffersOf
  <2> QED
    BY <2>2, <2>3, ReuseOffersFacts
<1>2. CASE c.category \in {"audio", "video"}
  <2>1. EntriesFor(c) \in Seq(ClipEntries)
    BY <1>2, EntriesForFacts
  <2>2. e \in ClipEntries
    BY <2>1
  <2>3. OffersOf(c, e) = ClipOffers(c, e)
    BY <1>2 DEF OffersOf
  <2> QED
    BY <1>2, <2>2, <2>3, ClipOffersFacts
<1>3. CASE c.category \in {"handle", "likeness"}
  <2>1. EntriesFor(c) \in Seq(Protected)
    BY <1>3, EntriesForFacts
  <2>2. e \in Protected
    BY <2>1
  <2>3. CASE c.category = "handle"
    <3>1. OffersOf(c, e) = HandleOffers(c, e)
      BY <2>3 DEF OffersOf
    <3> QED
      BY <2>2, <3>1, HandleOffersFacts
  <2>4. CASE c.category = "likeness"
    <3>1. OffersOf(c, e) = LikenessOffers(c, e)
      BY <2>4 DEF OffersOf
    <3> QED
      BY <2>2, <2>4, <3>1, LikenessOffersFacts
  <2> QED
    BY <1>3, <2>3, <2>4
<1>4. c.category \in {"reuse", "audio", "video", "handle", "likeness"}
  BY EntriesForFacts
<1> QED
  BY <1>1, <1>2, <1>3, <1>4

\* What is offered for a candidate is what its entries offer.
LEMMA OffersForFacts ==
  ASSUME DetectionTypeOK, NEW c \in Candidates
  PROVE  /\ OffersFor(c) \in Seq(Offered)
         /\ Range(OffersFor(c)) =
              UNION {Range(OffersOf(c, EntriesFor(c)[i])) : i \in DOMAIN EntriesFor(c)}
<1> DEFINE entries == EntriesFor(c)
           made == [i \in DOMAIN entries |-> OffersOf(c, entries[i])]
<1>1. DOMAIN entries = 1..Len(entries) /\ Len(entries) \in Nat
  <2>1. entries \in Seq(Entries) \/ entries \in Seq(ClipEntries) \/ entries \in Seq(Protected)
    BY EntriesForFacts
  <2> HIDE DEF entries
  <2> QED
    BY <2>1
<1>2. \A i \in DOMAIN entries : OffersOf(c, entries[i]) \in Seq(Offered)
  BY OffersOfFacts
<1>3. made \in Seq(Seq(Offered))
  <2> HIDE DEF entries
  <2> QED
    BY <1>1, <1>2
<1>4. /\ FlattenSeq(made) \in Seq(Offered)
      /\ Range(FlattenSeq(made)) = UNION {Range(made[i]) : i \in DOMAIN made}
  <2> HIDE DEF made
  <2> QED
    BY <1>3, FlattenFacts
<1>5. FlattenSeq(made) = OffersFor(c)
  BY DEF OffersFor
<1>6. DOMAIN made = DOMAIN entries /\ \A i \in DOMAIN entries : made[i] = OffersOf(c, entries[i])
  OBVIOUS
<1>7. {Range(made[i]) : i \in DOMAIN made} = {Range(OffersOf(c, entries[i])) : i \in DOMAIN entries}
  <2> HIDE DEF made, entries
  <2> QED
    BY <1>6
<1> QED
  BY <1>4, <1>5, <1>7

\* A detection is the best of what is offered, and negative when nothing is.
LEMMA DetectFacts ==
  ASSUME DetectionTypeOK, NEW c \in Candidates
  PROVE  /\ IsPositive(Detect(c)) <=> Range(OffersFor(c)) # {}
         /\ IsPositive(Detect(c)) =>
              \E o \in Range(OffersFor(c)) :
                /\ Detect(c).confidence = o.score /\ Detect(c).matched = o.matched
                /\ Detect(c).owner = o.owner
                /\ \A other \in Range(OffersFor(c)) : other.score <= o.score
<1> DEFINE offers == OffersFor(c)
           best == BestOf(offers)
<1>1. offers \in Seq(Offered)
  BY OffersForFacts
<1>2. /\ offers = <<>> => best = Null
      /\ offers # <<>> => best \in Range(offers) /\ \A o \in Range(offers) : o.score <= best.score
  <2> HIDE DEF offers
  <2> QED
    BY <1>1, BestIsMax
<1>3. offers = <<>> <=> Range(offers) = {}
  <2>1. DOMAIN offers = 1..Len(offers) /\ Len(offers) \in Nat
    BY <1>1
  <2>2. offers = <<>> => Range(offers) = {}
    BY DEF Range
  <2>3. offers # <<>> => offers[1] \in Range(offers)
    <3> SUFFICES ASSUME offers # <<>> PROVE offers[1] \in Range(offers)
      OBVIOUS
    <3>1. 1 \in DOMAIN offers
      BY <1>1
    <3> QED
      BY <3>1 DEF Range
  <2> QED
    BY <2>2, <2>3
<1>4. \A o \in Range(offers) : o # Null
  <2>1. \A i \in DOMAIN offers : offers[i] \in Offered
    BY <1>1
  <2> QED
    BY <2>1, NullAssumption DEF Range
<1>5. Detect(c) = Detection(c, best)
  BY DEF Detect
<1> HIDE DEF offers, best
<1>6. CASE offers = <<>>
  <2>1. Detect(c).disposition = "no_match"
    BY <1>2, <1>5, <1>6 DEF Detection
  <2>2. ~IsPositive(Detect(c))
    BY <2>1 DEF IsPositive
  <2> QED
    BY <1>3, <1>6, <2>2 DEF offers
<1>7. CASE offers # <<>>
  <2>1. best # Null
    BY <1>2, <1>4, <1>7
  <2>2. Detect(c) = [disposition |-> IF IsMatch(c.category, best) THEN "match" ELSE "near_match",
                     confidence |-> best.score, matched |-> best.matched, owner |-> best.owner]
    BY <1>5, <2>1 DEF Detection
  <2>3. Detect(c).disposition \in {"match", "near_match"}
    BY <2>2
  <2>4. /\ Detect(c).confidence = best.score /\ Detect(c).matched = best.matched
        /\ Detect(c).owner = best.owner
    BY <2>2
  <2>5. IsPositive(Detect(c))
    BY <2>3 DEF IsPositive
  <2> QED
    BY <1>2, <1>3, <1>7, <2>4, <2>5 DEF offers
<1> QED
  BY <1>6, <1>7

-----------------------------------------------------------------------------
(***************************************************************************)
(* Types.                                                                  *)
(***************************************************************************)
\* The types hold at the start.
LEMMA DetectionTypeInitially ==
  DetectionInit => DetectionTypeOK
<1> SUFFICES ASSUME DetectionInit PROVE DetectionTypeOK
  OBVIOUS
<1> USE DEF DetectionInit
<1>1. reuse \in Seq(Entries) /\ ids \in Seq(Protected) /\ edges \in Seq(SignedStatements("link", Accounts))
  OBVIOUS
<1>2. clips \in [{"audio", "video"} -> Seq(ClipEntries)]
  OBVIOUS
<1>3. signed = {} /\ linkers = {}
  OBVIOUS
<1>4. adj \in [Accounts -> SUBSET [other : Accounts, confidence : Thousandths]]
  OBVIOUS
<1> QED
  BY <1>1, <1>2, <1>3, <1>4 DEF DetectionTypeOK

\* Registrations keep the types.
LEMMA RegistrationsKeepType ==
  ASSUME DetectionTypeOK,
         \/ \E p \in Passports, owner \in Accounts : AddPassport(p, owner)
         \/ \E r \in Raws : AddRaw(r)
         \/ \E r \in Clips : AddClip(r)
         \/ \E p \in Protected : Protect(p)
  PROVE  DetectionTypeOK'
<1>1. ASSUME NEW p \in Passports, NEW owner \in Accounts, AddPassport(p, owner)
      PROVE  DetectionTypeOK'
  <2> DEFINE e == [asset |-> p.asset, owner |-> owner, digest |-> p.content,
                   cdc |-> IF p.cdc THEN p.content ELSE Empty,
                   look |-> IF p.look THEN p.content ELSE Null]
  <2>1. e \in Entries
    BY RegistrationsAssumption, ContentsAssumption DEF Entries, Assets
  <2>2. reuse' = Append(reuse, e)
    BY <1>1 DEF AddPassport
  <2>3. reuse' \in Seq(Entries)
    <3> HIDE DEF e
    <3> QED
      BY <2>1, <2>2 DEF DetectionTypeOK
  <2> QED
    BY <1>1, <2>3 DEF AddPassport, DetectionTypeOK, graph
<1>2. ASSUME NEW r \in Raws, AddRaw(r)
      PROVE  DetectionTypeOK'
  <2>1. RawEntry(r) \in Entries
    BY RegistrationsAssumption DEF RawEntry, Entries, Assets
  <2>2. reuse' \in Seq(Entries)
    BY <1>2, <2>1 DEF AddRaw, DetectionTypeOK
  <2> QED
    BY <1>2, <2>2 DEF AddRaw, DetectionTypeOK, graph
<1>3. ASSUME NEW r \in Clips, AddClip(r)
      PROVE  DetectionTypeOK'
  <2> DEFINE e == [asset |-> r.asset, owner |-> r.owner, clip |-> r.clip]
  <2>1. e \in ClipEntries /\ r.category \in {"audio", "video"}
    BY RegistrationsAssumption DEF ClipEntries, Assets
  <2>2. clips' = [clips EXCEPT ![r.category] = Append(clips[r.category], e)]
    BY <1>3 DEF AddClip
  <2> HIDE DEF e
  <2>3. Append(clips[r.category], e) \in Seq(ClipEntries)
    BY <2>1 DEF DetectionTypeOK
  <2>4. clips' \in [{"audio", "video"} -> Seq(ClipEntries)]
    BY <2>2, <2>3 DEF DetectionTypeOK
  <2> QED
    BY <1>3, <2>4 DEF AddClip, DetectionTypeOK, graph
<1>4. ASSUME NEW p \in Protected, Protect(p)
      PROVE  DetectionTypeOK'
  <2>1. ids' \in Seq(Protected)
    BY <1>4 DEF Protect, DetectionTypeOK
  <2> QED
    BY <1>4, <2>1 DEF Protect, DetectionTypeOK, graph
<1> QED
  BY <1>1, <1>2, <1>3, <1>4

\* What a detection names is an asset or an account, and the owner an account.
LEMMA PositiveFacts ==
  ASSUME DetectionTypeOK, NEW c \in Candidates, IsPositive(Detect(c))
  PROVE  Detect(c).matched \in Assets \union Accounts /\ Detect(c).owner \in Accounts
<1>1. PICK o \in Range(OffersFor(c)) : Detect(c).matched = o.matched /\ Detect(c).owner = o.owner
  BY DetectFacts
<1>2. OffersFor(c) \in Seq(Offered)
  BY OffersForFacts
<1>3. o \in Offered
  BY <1>1, <1>2 DEF Range
<1> QED
  BY <1>1, <1>3 DEF Offered

\* A statement that is signed is in circulation, and no index or link is touched.
LEMMA SigningFacts ==
  ASSUME DetectionTypeOK, NEW s, Sign(s),
         s \in SignedStatements("report", Assets \union Accounts) \union SignedStatements("link", Accounts)
  PROVE  DetectionTypeOK'
BY DEF Sign, DetectionTypeOK, index, graph

\* So do reports and links that are signed, whatever they rest on.
LEMMA SigningKeepsType ==
  ASSUME DetectionTypeOK,
         \/ \E c \in Candidates, keyId \in SigningKeyIds : DetectionToReport(c, keyId) \/ DetectionToLinkage(c, keyId)
         \/ \E l \in OtherLinks, keyId \in SigningKeyIds : SignLinkage(l, keyId)
  PROVE  DetectionTypeOK'
<1>1. ASSUME NEW c \in Candidates, NEW keyId \in SigningKeyIds, DetectionToReport(c, keyId)
      PROVE  DetectionTypeOK'
  <2> DEFINE d == Detect(c)
             s == [type |-> "report", a |-> c.subject, b |-> d.matched, confidence |-> d.confidence,
                   keyId |-> keyId, about |-> c]
  <2>1. IsPositive(d) /\ Sign(s)
    BY <1>1 DEF DetectionToReport
  <2>2. d.matched \in Assets \union Accounts /\ c.subject \in Accounts
    BY <2>1, PositiveFacts, CandidatesAssumption
  <2>3. d.confidence \in Thousandths
    BY <2>1 DEF Sign
  <2>4. s \in SignedStatements("report", Assets \union Accounts)
    <3> HIDE DEF d
    <3> QED
      BY <2>2, <2>3 DEF SignedStatements
  <2> QED
    BY <2>1, <2>4, SigningFacts
<1>2. ASSUME NEW c \in Candidates, NEW keyId \in SigningKeyIds, DetectionToLinkage(c, keyId)
      PROVE  DetectionTypeOK'
  <2> DEFINE d == Detect(c)
             s == Link(c.subject, d.owner, d.confidence, keyId, c)
  <2>1. IsPositive(d) /\ Sign(s)
    BY <1>2 DEF DetectionToLinkage
  <2>2. d.owner \in Accounts /\ c.subject \in Accounts
    BY <2>1, PositiveFacts, CandidatesAssumption
  <2>3. d.confidence \in Thousandths
    BY <2>1 DEF Sign, Link
  <2>4. s \in SignedStatements("link", Accounts)
    <3> HIDE DEF d
    <3> QED
      BY <2>2, <2>3 DEF SignedStatements, Link
  <2> QED
    BY <2>1, <2>4, SigningFacts
<1>3. ASSUME NEW l \in OtherLinks, NEW keyId \in SigningKeyIds, SignLinkage(l, keyId)
      PROVE  DetectionTypeOK'
  <2> DEFINE s == Link(l.a, l.b, l.confidence, keyId, Null)
  <2>1. Sign(s)
    BY <1>3 DEF SignLinkage
  <2>2. l.confidence \in Thousandths
    BY <2>1 DEF Sign, Link
  <2>3. s \in SignedStatements("link", Accounts)
    BY <2>2, LinksAssumption DEF SignedStatements, Link
  <2> QED
    BY <2>1, <2>3, SigningFacts
<1> QED
  BY <1>1, <1>2, <1>3

\* So does another trusted key id.
LEMMA LinkerKeepsType ==
  ASSUME DetectionTypeOK, NEW keyId \in SigningKeyIds, TrustLinker(keyId)
  PROVE  DetectionTypeOK'
BY DEF TrustLinker, DetectionTypeOK, index, graph

\* A link has its ends among the accounts.
LEMMA LinkFacts ==
  ASSUME DetectionTypeOK, NEW l \in signed, l.type = "link"
  PROVE  /\ l \in SignedStatements("link", Accounts)
         /\ l.a \in Accounts /\ l.b \in Accounts /\ l.confidence \in Thousandths
<1>1. l \in SignedStatements("report", Assets \union Accounts) \union SignedStatements("link", Accounts)
  BY DEF DetectionTypeOK
<1>2. l \in SignedStatements("link", Accounts)
  BY <1>1 DEF SignedStatements
<1> QED
  BY <1>2 DEF SignedStatements

\* So does a link that is added to the graph.
LEMMA LinkKeepsType ==
  ASSUME DetectionTypeOK, NEW l \in signed, AddLink(l)
  PROVE  DetectionTypeOK'
<1> DEFINE P == [other : Accounts, confidence : Thousandths]
<1>1. l \in SignedStatements("link", Accounts) /\ l.a \in Accounts /\ l.b \in Accounts /\ l.confidence \in Thousandths
  BY LinkFacts DEF AddLink
<1>2. edges' \in Seq(SignedStatements("link", Accounts))
  BY <1>1 DEF AddLink, DetectionTypeOK
<1>3. [other |-> l.b, confidence |-> l.confidence] \in P /\ [other |-> l.a, confidence |-> l.confidence] \in P
  BY <1>1
<1>4. adj \in [Accounts -> SUBSET P]
  BY DEF DetectionTypeOK
<1>5. adj' = Entered(l)
  BY DEF AddLink
<1> HIDE DEF P
<1>6. adj' \in [Accounts -> SUBSET P]
  BY <1>3, <1>4, <1>5 DEF Entered
<1> QED
  BY <1>2, <1>6 DEF P, AddLink, DetectionTypeOK, index

\* Every step keeps the types.
LEMMA DetectionTypeKept ==
  ASSUME DetectionTypeOK, [DetectionNext]_detectionVars
  PROVE  DetectionTypeOK'
<1>1. CASE UNCHANGED detectionVars
  BY <1>1 DEF detectionVars, DetectionTypeOK
<1>2. CASE DetectionNext
  BY <1>2, RegistrationsKeepType, SigningKeepsType, LinkerKeepsType, LinkKeepsType DEF DetectionNext
<1> QED
  BY <1>1, <1>2

\* The registries, the statements signed and the graph hold what they are meant to, whatever
\* is registered, examined, signed and linked (packages/detectors/src, packages/sentinel/src/linkage.ts).
THEOREM DetectionTypeCorrect == DetectionSpec => []DetectionTypeOK
BY DetectionTypeInitially, DetectionTypeKept, PTL DEF DetectionSpec

-----------------------------------------------------------------------------
(***************************************************************************)
(* Detections are the best of all scores.                                  *)
(***************************************************************************)
LEMMA OfferIfRange ==
  ASSUME NEW condition, NEW offer
  PROVE  \A o : o \in Range(OfferIf(condition, offer)) <=> condition /\ o = offer
<1>1. CASE condition
  <2>1. OfferIf(condition, offer) = <<offer>>
    BY <1>1, Zenon DEF OfferIf
  <2>2. Range(<<offer>>) = {offer}
    BY DEF Range
  <2> QED
    BY <1>1, <2>1, <2>2
<1>2. CASE ~condition
  <2>1. OfferIf(condition, offer) = <<>>
    BY <1>2, Zenon DEF OfferIf
  <2>2. Range(<<>>) = {}
    BY DEF Range
  <2> QED
    BY <1>2, <2>1, <2>2
<1> QED
  BY <1>1, <1>2

\* What an entry of the reuse index offers.
IsReuseOffer(c, e, o) ==
  /\ e.owner # c.publisher
  /\ \/ e.digest = c.content /\ o = Offer(e.asset, e.owner, 1000, "exact_digest")
     \/ /\ e.digest # c.content /\ CdcSim[c.content][e.cdc] >= Threshold["cdc"]
        /\ o = Offer(e.asset, e.owner, CdcSim[c.content][e.cdc], "cdc")
     \/ /\ e.digest # c.content /\ c.content \in Images /\ e.look # Null
        /\ LookSim[c.content][e.look] >= Threshold["perceptual"]
        /\ o = Offer(e.asset, e.owner, LookSim[c.content][e.look], "perceptual")

\* These are its offers, and there are no others.
LEMMA ReuseOffersRange ==
  ASSUME NEW c \in Candidates, NEW e \in Entries, NEW o
  PROVE  o \in Range(ReuseOffers(c, e)) <=> IsReuseOffer(c, e, o)
<1> DEFINE exact == Offer(e.asset, e.owner, 1000, "exact_digest")
           cs == CdcSim[c.content][e.cdc]
           looks == c.content \in Images /\ e.look # Null
           ps == IF looks THEN LookSim[c.content][e.look] ELSE 0
           byCdc == Offer(e.asset, e.owner, cs, "cdc")
           byLook == Offer(e.asset, e.owner, ps, "perceptual")
           enough == cs >= Threshold["cdc"]
           alike == looks /\ ps >= Threshold["perceptual"]
           A == OfferIf(enough, byCdc)
           B == OfferIf(alike, byLook)
<1>1. ReuseOffers(c, e) =
        IF e.owner = c.publisher THEN <<>>
        ELSE IF e.digest = c.content THEN <<exact>>
        ELSE A \o B
  BY DEF ReuseOffers
<1>2. A \in Seq({byCdc}) /\ B \in Seq({byLook})
  <2>1. ASSUME NEW condition, NEW offer PROVE OfferIf(condition, offer) \in Seq({offer})
    <3>1. OfferIf(condition, offer) = <<>> \/ OfferIf(condition, offer) = <<offer>>
      BY Zenon DEF OfferIf
    <3>2. <<>> \in Seq({offer}) /\ <<offer>> \in Seq({offer})
      OBVIOUS
    <3> QED
      BY <3>1, <3>2, Zenon
  <2> HIDE DEF enough, alike, byCdc, byLook
  <2> QED
    BY <2>1
<1>3. \A x : x \in Range(A) <=> enough /\ x = byCdc
  <2> HIDE DEF enough, byCdc
  <2> QED
    BY OfferIfRange
<1>4. \A x : x \in Range(B) <=> alike /\ x = byLook
  <2> HIDE DEF alike, byLook
  <2> QED
    BY OfferIfRange
<1>5. IsReuseOffer(c, e, o) <=>
        /\ e.owner # c.publisher
        /\ \/ e.digest = c.content /\ o = exact
           \/ e.digest # c.content /\ enough /\ o = byCdc
           \/ e.digest # c.content /\ alike /\ o = byLook
  <2>1. looks => ps = LookSim[c.content][e.look]
    BY Zenon
  <2>2. looks => (alike <=> LookSim[c.content][e.look] >= Threshold["perceptual"])
    BY <2>1
  <2>3. looks => byLook = Offer(e.asset, e.owner, LookSim[c.content][e.look], "perceptual")
    BY <2>1
  <2>4. alike => looks
    BY Zenon
  <2> QED
    BY <2>2, <2>3, <2>4, Zenon DEF IsReuseOffer
<1> HIDE DEF A, B, enough, alike, byCdc, byLook, exact
<1>6. Range(A \o B) = Range(A) \union Range(B)
  <2>1. A \in Seq({byCdc, byLook}) /\ B \in Seq({byCdc, byLook})
    BY <1>2
  <2> QED
    BY <2>1, ConcatFacts
<1>7. Range(<<exact>>) = {exact} /\ Range(<<>>) = {}
  BY DEF Range
<1> DEFINE C == A \o B
<1>8. \A x : x \in Range(C) <=> (enough /\ x = byCdc) \/ (alike /\ x = byLook)
  BY <1>3, <1>4, <1>6
<1>9. ReuseOffers(c, e) = IF e.owner = c.publisher THEN <<>> ELSE IF e.digest = c.content THEN <<exact>> ELSE C
  BY <1>1
<1> HIDE DEF C
<1> QED
  BY <1>5, <1>7, <1>8, <1>9, Zenon

\* How the scores of offers relate to a set of scores: none is outside of it, and each of its
\* members is reached.
Covers(offers, S) ==
  /\ \A o \in Range(offers) : o.score \in S
  /\ \A s \in S : \E o \in Range(offers) : s <= o.score

\* The scores of reuse are reached by the offers, an exact copy standing for what it is also similar to.
LEMMA ReuseCovers ==
  ASSUME DetectionTypeOK, NEW c \in Candidates, c.category = "reuse"
  PROVE  /\ Covers(OffersFor(c), ReuseScores(c)) /\ ReuseScores(c) \subseteq Thousandths
         /\ \A o \in Range(OffersFor(c)) : o.owner # c.publisher
<1>1. reuse \in Seq(Entries) /\ EntriesFor(c) = reuse
  BY DEF DetectionTypeOK, EntriesFor
<1>2. \A i \in DOMAIN reuse : reuse[i] \in Entries
  BY <1>1
<1>3. \A i : OffersOf(c, reuse[i]) = ReuseOffers(c, reuse[i])
  BY DEF OffersOf
<1>4. \A o : o \in Range(OffersFor(c)) <=> \E i \in DOMAIN reuse : IsReuseOffer(c, reuse[i], o)
  <2>1. \A o : o \in Range(OffersFor(c)) <=> \E i \in DOMAIN reuse : o \in Range(ReuseOffers(c, reuse[i]))
    BY <1>1, <1>3, OffersForFacts
  <2> QED
    BY <1>2, <2>1, ReuseOffersRange
<1>5. \A s : s \in ReuseScores(c) <=>
        \E i \in DOMAIN reuse :
          /\ reuse[i].owner # c.publisher
          /\ \/ s = 1000 /\ reuse[i].digest = c.content
             \/ s = CdcSim[c.content][reuse[i].cdc] /\ s >= Threshold["cdc"]
             \/ /\ c.content \in Images /\ reuse[i].look # Null
                /\ s = LookSim[c.content][reuse[i].look] /\ s >= Threshold["perceptual"]
  BY DEF ReuseScores, AtLeast, Range
<1>6. \A i \in DOMAIN reuse :
        /\ CdcSim[c.content][reuse[i].cdc] \in Thousandths
        /\ c.content \in Images /\ reuse[i].look # Null => LookSim[c.content][reuse[i].look] \in Thousandths
  <2> SUFFICES ASSUME NEW i \in DOMAIN reuse
               PROVE  /\ CdcSim[c.content][reuse[i].cdc] \in Thousandths
                      /\ c.content \in Images /\ reuse[i].look # Null
                           => LookSim[c.content][reuse[i].look] \in Thousandths
    OBVIOUS
  <2>1. reuse[i] \in Entries /\ c.content \in Contents
    BY <1>2, CandidatesAssumption
  <2>2. reuse[i].cdc \in Contents /\ (reuse[i].look # Null => reuse[i].look \in Images)
    BY <2>1, EntryFacts
  <2> QED
    BY <2>1, <2>2, ScoreFacts, Zenon
<1>7. ReuseScores(c) \subseteq Thousandths
  <2>1. 1000 \in Thousandths
    BY DEF Thousandths
  <2> QED
    BY <1>5, <1>6, <2>1
<1>8. ASSUME NEW o \in Range(OffersFor(c)) PROVE o.score \in ReuseScores(c)
  <2>1. PICK i \in DOMAIN reuse : IsReuseOffer(c, reuse[i], o)
    BY <1>4
  <2> QED
    BY <1>5, <2>1 DEF IsReuseOffer, Offer
<1>9. ASSUME NEW s \in ReuseScores(c) PROVE \E o \in Range(OffersFor(c)) : s <= o.score
  <2>1. PICK i \in DOMAIN reuse :
          /\ reuse[i].owner # c.publisher
          /\ \/ s = 1000 /\ reuse[i].digest = c.content
             \/ s = CdcSim[c.content][reuse[i].cdc] /\ s >= Threshold["cdc"]
             \/ /\ c.content \in Images /\ reuse[i].look # Null
                /\ s = LookSim[c.content][reuse[i].look] /\ s >= Threshold["perceptual"]
    BY <1>5
  <2>2. s \in Int /\ s <= 1000
    BY <1>7 DEF Thousandths
  <2> DEFINE e == reuse[i]
  <2>3. CASE e.digest = c.content
    <3> DEFINE o == Offer(e.asset, e.owner, 1000, "exact_digest")
    <3>1. IsReuseOffer(c, e, o)
      BY <2>1, <2>3 DEF IsReuseOffer
    <3>2. o.score = 1000
      BY DEF Offer
    <3> QED
      BY <1>4, <2>2, <3>1, <3>2
  <2>4. CASE e.digest # c.content /\ s = CdcSim[c.content][e.cdc] /\ s >= Threshold["cdc"]
    <3> DEFINE o == Offer(e.asset, e.owner, s, "cdc")
    <3>1. IsReuseOffer(c, e, o)
      BY <2>1, <2>4 DEF IsReuseOffer
    <3>2. o.score = s
      BY DEF Offer
    <3> QED
      BY <1>4, <2>2, <3>1, <3>2
  <2>5. CASE /\ e.digest # c.content /\ c.content \in Images /\ e.look # Null
             /\ s = LookSim[c.content][e.look] /\ s >= Threshold["perceptual"]
    <3> DEFINE o == Offer(e.asset, e.owner, s, "perceptual")
    <3>1. IsReuseOffer(c, e, o)
      BY <2>1, <2>5 DEF IsReuseOffer
    <3>2. o.score = s
      BY DEF Offer
    <3> QED
      BY <1>4, <2>2, <3>1, <3>2
  <2> QED
    BY <2>1, <2>3, <2>4, <2>5
<1>10. \A o \in Range(OffersFor(c)) : o.owner # c.publisher
  BY <1>4 DEF IsReuseOffer, Offer
<1> QED
  BY <1>7, <1>8, <1>9, <1>10 DEF Covers

\* The scores of clips are reached by the offers.
LEMMA ClipCovers ==
  ASSUME DetectionTypeOK, NEW c \in Candidates, c.category \in {"audio", "video"}
  PROVE  /\ Covers(OffersFor(c), ClipScores(c)) /\ ClipScores(c) \subseteq Thousandths
         /\ \A o \in Range(OffersFor(c)) : o.owner # c.publisher
<1> DEFINE entries == clips[c.category]
           t == Threshold[c.category]
<1>1. entries \in Seq(ClipEntries) /\ EntriesFor(c) = entries
  BY DEF DetectionTypeOK, EntriesFor
<1>2. \A e : OffersOf(c, e) = ClipOffers(c, e)
  BY DEF OffersOf
<1>3. ClipScores(c) = AtLeast(t, {ClipSim[c.content][e.clip] : e \in {f \in Range(entries) : f.owner # c.publisher}})
  BY DEF ClipScores
<1>4. c.content \in Contents
  BY CandidatesAssumption
<1> HIDE DEF entries, t
<1>5. \A i \in DOMAIN entries : ClipSim[c.content][entries[i].clip] \in Thousandths
  <2>1. ASSUME NEW i \in DOMAIN entries PROVE entries[i].clip \in Contents
    <3>1. entries[i] \in ClipEntries
      BY <1>1
    <3> QED
      BY <3>1 DEF ClipEntries
  <2> QED
    BY <1>4, <2>1, ScoreFacts, Zenon
<1>6. ASSUME NEW e, NEW o
      PROVE  o \in Range(ClipOffers(c, e)) <=>
               /\ e.owner # c.publisher /\ ClipSim[c.content][e.clip] >= t
               /\ o = Offer(e.asset, e.owner, ClipSim[c.content][e.clip], c.category)
  <2>1. ClipOffers(c, e) = OfferIf(e.owner # c.publisher /\ ClipSim[c.content][e.clip] >= t,
                                   Offer(e.asset, e.owner, ClipSim[c.content][e.clip], c.category))
    BY Zenon DEF ClipOffers, t
  <2> QED
    BY <2>1, OfferIfRange, Zenon
<1>7. \A o : o \in Range(OffersFor(c)) <=> \E i \in DOMAIN entries : o \in Range(ClipOffers(c, entries[i]))
  BY <1>1, <1>2, OffersForFacts
<1>8. \A s : s \in ClipScores(c) <=>
        \E i \in DOMAIN entries :
          entries[i].owner # c.publisher /\ s = ClipSim[c.content][entries[i].clip] /\ s >= t
  BY <1>3 DEF AtLeast, Range
<1>9. ASSUME NEW o \in Range(OffersFor(c)) PROVE o.score \in ClipScores(c)
  <2>1. PICK i \in DOMAIN entries : o \in Range(ClipOffers(c, entries[i]))
    BY <1>7
  <2>2. /\ entries[i].owner # c.publisher /\ ClipSim[c.content][entries[i].clip] >= t
        /\ o = Offer(entries[i].asset, entries[i].owner, ClipSim[c.content][entries[i].clip], c.category)
    BY <1>6, <2>1
  <2>3. o.score = ClipSim[c.content][entries[i].clip]
    BY <2>2 DEF Offer
  <2> QED
    BY <1>8, <2>2, <2>3
<1>10. ASSUME NEW s \in ClipScores(c) PROVE \E o \in Range(OffersFor(c)) : s <= o.score
  <2>1. PICK i \in DOMAIN entries :
          entries[i].owner # c.publisher /\ s = ClipSim[c.content][entries[i].clip] /\ s >= t
    BY <1>8
  <2> DEFINE o == Offer(entries[i].asset, entries[i].owner, s, c.category)
  <2>2. o \in Range(ClipOffers(c, entries[i]))
    BY <1>6, <2>1
  <2>3. o.score = s
    BY DEF Offer
  <2>5. s \in Thousandths
    BY <1>5, <2>1, Zenon
  <2>4. s \in Int
    BY <2>5 DEF Thousandths
  <2> QED
    BY <1>7, <2>2, <2>3, <2>4
<1>11. ClipScores(c) \subseteq Thousandths
  BY <1>5, <1>8
<1>12. ASSUME NEW o \in Range(OffersFor(c)) PROVE o.owner # c.publisher
  <2>1. PICK i \in DOMAIN entries : o \in Range(ClipOffers(c, entries[i]))
    BY <1>7
  <2> QED
    BY <1>6, <2>1 DEF Offer
<1> QED
  BY <1>9, <1>10, <1>11, <1>12 DEF Covers

\* The scores of likenesses are reached by the offers.
LEMMA LikenessCovers ==
  ASSUME DetectionTypeOK, NEW c \in Candidates, c.category = "likeness"
  PROVE  /\ Covers(OffersFor(c), LikenessScores(c)) /\ LikenessScores(c) \subseteq Thousandths
         /\ \A o \in Range(OffersFor(c)) : o.owner # c.subject
<1> DEFINE t == Threshold["likeness"]
           Applies(p) == p.image # Null /\ p.id # c.subject
<1>1. ids \in Seq(Protected) /\ EntriesFor(c) = ids
  BY DEF DetectionTypeOK, EntriesFor
<1>2. \A e : OffersOf(c, e) = LikenessOffers(c, e)
  BY DEF OffersOf
<1>3. LikenessScores(c) = AtLeast(t, {LookSim[c.content][p.image] : p \in {q \in Range(ids) : Applies(q)}})
  BY DEF LikenessScores
<1>4. c.content \in Images
  BY CandidatesAssumption
<1>5. \A i \in DOMAIN ids : Applies(ids[i]) => LookSim[c.content][ids[i].image] \in Thousandths
  <2>1. \A i \in DOMAIN ids : Applies(ids[i]) => ids[i].image \in Images
    BY <1>1, RegistrationsAssumption
  <2> QED
    BY <1>4, <2>1, ScoreFacts, Zenon
<1>6. ASSUME NEW p, NEW o
      PROVE  o \in Range(LikenessOffers(c, p)) <=>
               /\ Applies(p) /\ LookSim[c.content][p.image] >= t
               /\ o = Offer(p.id, p.id, LookSim[c.content][p.image], "dhash")
  <2> DEFINE score == IF Applies(p) THEN LookSim[c.content][p.image] ELSE 0
  <2>1. LikenessOffers(c, p) = OfferIf(Applies(p) /\ score >= t, Offer(p.id, p.id, score, "dhash"))
    BY Zenon DEF LikenessOffers
  <2>2. o \in Range(LikenessOffers(c, p)) <=> Applies(p) /\ score >= t /\ o = Offer(p.id, p.id, score, "dhash")
    BY <2>1, OfferIfRange, Zenon
  <2>3. Applies(p) => score = LookSim[c.content][p.image]
    BY Zenon
  <2> HIDE DEF Applies, score, t
  <2> QED
    BY <2>2, <2>3
<1> HIDE DEF Applies, t
<1>7. \A o : o \in Range(OffersFor(c)) <=> \E i \in DOMAIN ids : o \in Range(LikenessOffers(c, ids[i]))
  BY <1>1, <1>2, OffersForFacts
<1>8. \A s : s \in LikenessScores(c) <=>
        \E i \in DOMAIN ids : Applies(ids[i]) /\ s = LookSim[c.content][ids[i].image] /\ s >= t
  BY <1>3 DEF AtLeast, Range
<1>9. ASSUME NEW o \in Range(OffersFor(c)) PROVE o.score \in LikenessScores(c)
  <2>1. PICK i \in DOMAIN ids : o \in Range(LikenessOffers(c, ids[i]))
    BY <1>7
  <2>2. /\ Applies(ids[i]) /\ LookSim[c.content][ids[i].image] >= t
        /\ o = Offer(ids[i].id, ids[i].id, LookSim[c.content][ids[i].image], "dhash")
    BY <1>6, <2>1
  <2>3. o.score = LookSim[c.content][ids[i].image]
    BY <2>2 DEF Offer
  <2> QED
    BY <1>8, <2>2, <2>3
<1>10. ASSUME NEW s \in LikenessScores(c) PROVE \E o \in Range(OffersFor(c)) : s <= o.score
  <2>1. PICK i \in DOMAIN ids : Applies(ids[i]) /\ s = LookSim[c.content][ids[i].image] /\ s >= t
    BY <1>8
  <2> DEFINE o == Offer(ids[i].id, ids[i].id, s, "dhash")
  <2>2. o \in Range(LikenessOffers(c, ids[i]))
    BY <1>6, <2>1
  <2>3. o.score = s
    BY DEF Offer
  <2>5. s \in Thousandths
    BY <1>5, <2>1, Zenon
  <2>4. s \in Int
    BY <2>5 DEF Thousandths
  <2> QED
    BY <1>7, <2>2, <2>3, <2>4
<1>11. LikenessScores(c) \subseteq Thousandths
  BY <1>5, <1>8
<1>12. ASSUME NEW o \in Range(OffersFor(c)) PROVE o.owner # c.subject
  <2>1. PICK i \in DOMAIN ids : o \in Range(LikenessOffers(c, ids[i]))
    BY <1>7
  <2> QED
    BY <1>6, <2>1 DEF Applies, Offer
<1> QED
  BY <1>9, <1>10, <1>11, <1>12 DEF Covers

\* What Lookalike finds of two names is one match with their score, if that is positive, and
\* nothing otherwise.
OneMatch(found, score) ==
  \/ found = <<>> /\ score = 0
  \/ \E how : found = <<[score |-> score, how |-> how]>> /\ score \in Nat /\ score >= 1

\* A share of a length is a number.
LEMMA SimilarityOfDistance ==
  ASSUME NEW distance \in Nat, NEW longer \in Nat \ {0}
  PROVE  (1000 * distance) \div longer \in Int
OBVIOUS

\* It is, because edit distance and changes agree as far as two.
LEMMA LookalikeScore ==
  ASSUME NEW c \in Seq(Chars), NEW p \in Seq(Chars)
  PROVE  OneMatch(Lookalike(c, p), NameScore(c, p))
<1> DEFINE x == Skeleton(c)
           y == Skeleton(p)
           distance == EditDistance(x, y)
           near == Near(x, y)
           longer == Max({Len(x), Len(y)})
           sim == StringSimilarity(x, y)
           share == (1000 * near) \div longer
<1>1. x \in Seq(Chars) /\ y \in Seq(Chars)
  BY SkeletonIsName
<1>2. Lookalike(c, p) =
        IF Lower(c) = Lower(p) THEN <<>>
        ELSE IF x = y THEN <<[score |-> 900, how |-> "homoglyph"]>>
        ELSE IF distance <= 2 /\ sim >= 800
        THEN <<[score |-> Min({850, sim}), how |-> "typosquat"]>>
        ELSE <<>>
  BY DEF Lookalike, OfferIf
<1>3. NameScore(c, p) =
        IF Lower(c) = Lower(p) THEN 0
        ELSE IF x = y THEN 900
        ELSE IF near <= 2 /\ share <= 200 THEN Min({850, 1000 - share}) ELSE 0
  BY DEF NameScore
<1> DEFINE L == Lookalike(c, p)
           S == NameScore(c, p)
<1>4. L = Lookalike(c, p) /\ S = NameScore(c, p)
  OBVIOUS
<1>5. sim = IF longer = 0 THEN 1000 ELSE 1000 - (1000 * distance) \div longer
  BY DEF StringSimilarity
<1> HIDE DEF L, S, sim, x, y
<1>6. CASE Lower(c) = Lower(p)
  <2>1. L = <<>> /\ S = 0
    BY <1>2, <1>3, <1>4, <1>6
  <2> QED
    BY <1>4, <2>1 DEF OneMatch
<1>7. CASE Lower(c) # Lower(p) /\ x = y
  <2>1. L = <<[score |-> 900, how |-> "homoglyph"]>> /\ S = 900
    BY <1>2, <1>3, <1>4, <1>7
  <2>2. L = <<[score |-> S, how |-> "homoglyph"]>> /\ S \in Nat /\ S >= 1
    BY <2>1
  <2> QED
    BY <1>4, <2>2 DEF OneMatch
<1>8. CASE Lower(c) # Lower(p) /\ x # y
  <2>1. distance = near \/ (distance > 2 /\ near > 2)
    BY <1>1, <1>8, DistanceIsNear
  <2>2. distance \in Nat
    <3>1. Len(x) \in Nat /\ Len(y) \in Nat
      BY <1>1
    <3> QED
      BY <3>1, EditDistanceIsNatural
  <2>3. near \in Nat
    BY <1>1, NearMeans
  <2>4. longer \in Nat \ {0}
    <3>1. Len(x) \in Nat /\ Len(y) \in Nat
      BY <1>1
    <3>2. longer \in Nat /\ longer >= Len(x) /\ longer >= Len(y)
      BY <3>1, MaxOfTwo
    <3>3. Len(x) # 0 \/ Len(y) # 0
      <4> SUFFICES ASSUME Len(x) = 0, Len(y) = 0 PROVE FALSE
        BY <3>1
      <4>1. x = <<>> /\ y = <<>>
        BY <1>1
      <4> QED
        BY <1>8, <4>1
    <3> HIDE DEF longer
    <3> QED
      BY <3>1, <3>2, <3>3
  <2>5. share \in Int
    <3> HIDE DEF near, longer
    <3> QED
      BY <2>3, <2>4, SimilarityOfDistance
  <2>6. distance = near => sim = 1000 - share
    <3> HIDE DEF near, longer, distance
    <3> QED
      BY <1>5, <2>4
  <2>7. /\ L = IF distance <= 2 /\ sim >= 800 THEN <<[score |-> Min({850, sim}), how |-> "typosquat"]>> ELSE <<>>
        /\ S = IF near <= 2 /\ share <= 200 THEN Min({850, 1000 - share}) ELSE 0
    BY <1>2, <1>3, <1>4, <1>8
  <2> HIDE DEF distance, near, longer, share
  <2>8. CASE distance > 2 /\ near > 2
    <3>1. L = <<>> /\ S = 0
      BY <2>2, <2>3, <2>7, <2>8
    <3> QED
      BY <1>4, <3>1 DEF OneMatch
  <2>9. CASE distance = near
    <3>4. sim \in Int
      BY <2>5, <2>6, <2>9
    <3>1. sim \in Int /\ (sim >= 800 <=> share <= 200) /\ sim = 1000 - share
      BY <2>5, <2>6, <2>9
    <3>2. CASE near <= 2 /\ share <= 200
      <4>1. L = <<[score |-> Min({850, sim}), how |-> "typosquat"]>> /\ S = Min({850, sim})
        BY <2>7, <2>9, <3>1, <3>2
      <4>2. PICK top \in Int : top = 850
        OBVIOUS
      <4>3. Min({top, sim}) \in {top, sim}
        BY <3>4, LeastOfTwo, Zenon
      <4>4. S \in {850, sim}
        BY <4>1, <4>2, <4>3
      <4>5. S \in Nat /\ S >= 1
        BY <3>1, <3>2, <4>4
      <4>6. L = <<[score |-> S, how |-> "typosquat"]>>
        BY <4>1
      <4> QED
        BY <1>4, <4>5, <4>6 DEF OneMatch
    <3>3. CASE ~(near <= 2 /\ share <= 200)
      <4>1. L = <<>> /\ S = 0
        BY <2>7, <2>9, <3>1, <3>3
      <4> QED
        BY <1>4, <4>1 DEF OneMatch
    <3> QED
      BY <3>2, <3>3
  <2> QED
    BY <2>1, <2>8, <2>9
<1> QED
  BY <1>6, <1>7, <1>8

\* What a protected identity offers for the names of a candidate.
IsHandleOffer(c, pid, o) ==
  \E i \in DOMAIN pid.names, j \in DOMAIN c.names :
    LET found == LookalikesOf[c.names[j]][pid.names[i]]
    IN  \E k \in DOMAIN found : o = Offer(pid.id, pid.id, found[k].score, found[k].how)

\* These are its offers, and there are no others.
LEMMA HandleOffersRange ==
  ASSUME NEW c \in Candidates, NEW pid \in Protected, NEW o
  PROVE  o \in Range(HandleOffers(c, pid)) <=> IsHandleOffer(c, pid, o)
<1> DEFINE Found(i, j) == LookalikesOf[c.names[j]][pid.names[i]]
           Made(i, j) == [k \in DOMAIN Found(i, j) |->
                           Offer(pid.id, pid.id, Found(i, j)[k].score, Found(i, j)[k].how)]
           made(i) == [j \in DOMAIN c.names |-> Made(i, j)]
           Of(i) == FlattenSeq(made(i))
           all == [i \in DOMAIN pid.names |-> Of(i)]
<1>1. c.names \in Seq(Names) /\ pid.names \in Seq(Names) /\ pid.id \in Accounts
  BY CandidatesAssumption, RegistrationsAssumption
<1>2. ASSUME NEW i \in DOMAIN pid.names, NEW j \in DOMAIN c.names
      PROVE  Made(i, j) \in Seq(Offered)
  <2>1. c.names[j] \in Names /\ pid.names[i] \in Names
    BY <1>1
  <2>2. Found(i, j) = Lookalike(c.names[j], pid.names[i])
    BY <2>1 DEF LookalikesOf
  <2> DEFINE f == Found(i, j)
             T == [score : Thousandths, how : Methods]
  <2>3. c.names[j] \in Seq(Chars) /\ pid.names[i] \in Seq(Chars)
    BY <2>1, ContentsAssumption
  <2>4. f \in Seq(T)
    BY <2>2, <2>3, LookalikeFacts, Zenon
  <2> HIDE DEF f, T
  <2>5. ASSUME NEW k \in 1..Len(f) PROVE Offer(pid.id, pid.id, f[k].score, f[k].how) \in Offered
    <3>1. f[k] \in T
      BY <2>4
    <3>2. f[k].score \in Thousandths /\ f[k].how \in Methods
      BY <3>1 DEF T
    <3> QED
      BY <1>1, <3>2, OfferFacts
  <2>6. DOMAIN f = 1..Len(f) /\ Len(f) \in Nat
    BY <2>4
  <2>7. [k \in DOMAIN f |-> Offer(pid.id, pid.id, f[k].score, f[k].how)] \in Seq(Offered)
    BY <2>5, <2>6
  <2> QED
    BY <2>7 DEF f
<1>3. ASSUME NEW i \in DOMAIN pid.names, NEW j \in DOMAIN c.names
      PROVE  o \in Range(Made(i, j)) <=>
               \E k \in DOMAIN Found(i, j) : o = Offer(pid.id, pid.id, Found(i, j)[k].score, Found(i, j)[k].how)
  <2> DEFINE f == Found(i, j)
             F(k) == Offer(pid.id, pid.id, f[k].score, f[k].how)
  <2> HIDE DEF f, F
  <2>1. o \in Range([k \in DOMAIN f |-> F(k)]) <=> \E k \in DOMAIN f : o = F(k)
    BY DEF Range
  <2> QED
    BY <2>1, Zenon DEF f, F
<1> HIDE DEF Made
<1>4. ASSUME NEW i \in DOMAIN pid.names
      PROVE  Of(i) \in Seq(Offered) /\ (o \in Range(Of(i)) <=> \E j \in DOMAIN c.names : o \in Range(Made(i, j)))
  <2>1. DOMAIN c.names = 1..Len(c.names) /\ Len(c.names) \in Nat
    BY <1>1
  <2>2. made(i) \in Seq(Seq(Offered)) /\ DOMAIN made(i) = DOMAIN c.names
    BY <1>2, <2>1
  <2>3. \A j \in DOMAIN c.names : made(i)[j] = Made(i, j)
    OBVIOUS
  <2> HIDE DEF made
  <2>4. Of(i) \in Seq(Offered) /\ Range(Of(i)) = UNION {Range(made(i)[j]) : j \in DOMAIN made(i)}
    BY <2>2, FlattenFacts
  <2> QED
    BY <2>2, <2>3, <2>4
<1> HIDE DEF Of
<1>5. o \in Range(FlattenSeq(all)) <=> \E i \in DOMAIN pid.names : o \in Range(Of(i))
  <2>1. DOMAIN pid.names = 1..Len(pid.names) /\ Len(pid.names) \in Nat
    BY <1>1
  <2>2. all \in Seq(Seq(Offered)) /\ DOMAIN all = DOMAIN pid.names
    BY <1>4, <2>1
  <2>3. \A i \in DOMAIN pid.names : all[i] = Of(i)
    OBVIOUS
  <2> HIDE DEF all
  <2>4. Range(FlattenSeq(all)) = UNION {Range(all[i]) : i \in DOMAIN all}
    BY <2>2, FlattenFacts
  <2> QED
    BY <2>2, <2>3, <2>4
<1>6. FlattenSeq(all) = HandleOffers(c, pid)
  BY Zenon DEF HandleOffers, all, Of, made, Made
<1>7. o \in Range(HandleOffers(c, pid)) <=>
        \E i \in DOMAIN pid.names : \E j \in DOMAIN c.names :
          \E k \in DOMAIN Found(i, j) : o = Offer(pid.id, pid.id, Found(i, j)[k].score, Found(i, j)[k].how)
  <2> HIDE DEF all, Found
  <2> QED
    BY <1>3, <1>4, <1>5, <1>6, Zenon
<1> QED
  BY <1>7, Zenon DEF IsHandleOffer

\* The scores of names are reached by the offers.
LEMMA HandleCovers ==
  ASSUME DetectionTypeOK, NEW c \in Candidates, c.category = "handle"
  PROVE  Covers(OffersFor(c), HandleScores(c)) /\ HandleScores(c) \subseteq Nat
<1>1. ids \in Seq(Protected) /\ EntriesFor(c) = ids
  BY DEF DetectionTypeOK, EntriesFor
<1>2. \A e : OffersOf(c, e) = HandleOffers(c, e)
  BY DEF OffersOf
<1>3. \A o : o \in Range(OffersFor(c)) <=> \E i \in DOMAIN ids : IsHandleOffer(c, ids[i], o)
  <2>1. \A o : o \in Range(OffersFor(c)) <=> \E i \in DOMAIN ids : o \in Range(HandleOffers(c, ids[i]))
    BY <1>1, <1>2, OffersForFacts
  <2>2. \A i \in DOMAIN ids : ids[i] \in Protected
    BY <1>1
  <2> QED
    BY <2>1, <2>2, HandleOffersRange
<1>4. \A s : s \in HandleScores(c) <=>
        \E i \in DOMAIN ids : \E n \in DOMAIN ids[i].names : \E j \in DOMAIN c.names :
          s = NameScores[c.names[j]][ids[i].names[n]] /\ s >= 1
  <2>1. \A n : n \in Range(c.names) <=> \E j \in DOMAIN c.names : n = c.names[j]
    BY DEF Range
  <2>2. \A p : p \in UNION {Range(pid.names) : pid \in Range(ids)} <=>
               \E i \in DOMAIN ids : \E n \in DOMAIN ids[i].names : p = ids[i].names[n]
    BY DEF Range
  <2>3. \A s : s \in HandleScores(c) <=>
          \E n \in Range(c.names) : \E p \in UNION {Range(pid.names) : pid \in Range(ids)} :
            s = NameScores[n][p] /\ s >= 1
    BY DEF HandleScores, AtLeast
  <2> QED
    <3> DEFINE F(n, p, s) == s = NameScores[n][p] /\ s >= 1
    <3>1. \A s : s \in HandleScores(c) <=>
            \E n \in Range(c.names) : \E p \in UNION {Range(pid.names) : pid \in Range(ids)} : F(n, p, s)
      BY <2>3
    <3> HIDE DEF F
    <3>2. ASSUME NEW s PROVE s \in HandleScores(c) <=>
            \E i \in DOMAIN ids : \E n \in DOMAIN ids[i].names : \E j \in DOMAIN c.names :
              F(c.names[j], ids[i].names[n], s)
      <4>1. ASSUME s \in HandleScores(c)
            PROVE  \E i \in DOMAIN ids : \E n \in DOMAIN ids[i].names : \E j \in DOMAIN c.names :
                     F(c.names[j], ids[i].names[n], s)
        <5>1. PICK n \in Range(c.names), p \in UNION {Range(pid.names) : pid \in Range(ids)} : F(n, p, s)
          BY <3>1, <4>1, Zenon
        <5>2. PICK j \in DOMAIN c.names : n = c.names[j]
          BY <2>1
        <5>3. PICK i \in DOMAIN ids : \E q \in DOMAIN ids[i].names : p = ids[i].names[q]
          BY <2>2
        <5>4. PICK q \in DOMAIN ids[i].names : p = ids[i].names[q]
          BY <5>3
        <5> QED
          BY <5>1, <5>2, <5>4
      <4>2. ASSUME NEW i \in DOMAIN ids, NEW n \in DOMAIN ids[i].names, NEW j \in DOMAIN c.names,
                   F(c.names[j], ids[i].names[n], s)
            PROVE  s \in HandleScores(c)
        <5>1. c.names[j] \in Range(c.names)
          BY <2>1
        <5>2. ids[i].names[n] \in UNION {Range(pid.names) : pid \in Range(ids)}
          BY <2>2
        <5> QED
          BY <3>1, <4>2, <5>1, <5>2, Zenon
      <4> QED
        BY <4>1, <4>2
    <3> QED
      BY <3>2 DEF F
<1>5. ASSUME NEW i \in DOMAIN ids, NEW n \in DOMAIN ids[i].names, NEW j \in DOMAIN c.names
      PROVE  OneMatch(LookalikesOf[c.names[j]][ids[i].names[n]], NameScores[c.names[j]][ids[i].names[n]])
  <2>1. c.names \in Seq(Names) /\ ids[i].names \in Seq(Names)
    <3>1. ids[i] \in Protected
      BY <1>1
    <3> QED
      BY <3>1, CandidatesAssumption, RegistrationsAssumption
  <2>2. c.names[j] \in Names /\ ids[i].names[n] \in Names
    BY <2>1
  <2> DEFINE a == c.names[j]
             b == ids[i].names[n]
  <2>3. a \in Names /\ b \in Names
    BY <2>2
  <2> HIDE DEF a, b
  <2>4. a \in Seq(Chars) /\ b \in Seq(Chars)
    BY <2>3, ContentsAssumption
  <2>5. LookalikesOf[a][b] = Lookalike(a, b) /\ NameScores[a][b] = NameScore(a, b)
    BY <2>3 DEF LookalikesOf, NameScores
  <2>6. OneMatch(LookalikesOf[a][b], NameScores[a][b])
    BY <2>4, <2>5, LookalikeScore
  <2> QED
    BY <2>6 DEF a, b
<1>6. ASSUME NEW o \in Range(OffersFor(c)) PROVE o.score \in HandleScores(c)
  <2>1. PICK i \in DOMAIN ids : IsHandleOffer(c, ids[i], o)
    BY <1>3
  <2>2. PICK n \in DOMAIN ids[i].names, j \in DOMAIN c.names :
          \E k \in DOMAIN LookalikesOf[c.names[j]][ids[i].names[n]] :
            o = Offer(ids[i].id, ids[i].id, LookalikesOf[c.names[j]][ids[i].names[n]][k].score,
                      LookalikesOf[c.names[j]][ids[i].names[n]][k].how)
    BY <2>1, Zenon DEF IsHandleOffer
  <2> DEFINE found == LookalikesOf[c.names[j]][ids[i].names[n]]
             score == NameScores[c.names[j]][ids[i].names[n]]
  <2>3. PICK k \in DOMAIN found : o = Offer(ids[i].id, ids[i].id, found[k].score, found[k].how)
    BY <2>2
  <2>4. OneMatch(found, score)
    BY <1>5
  <2>5. score \in HandleScores(c) <=> score >= 1
    BY <1>4
  <2> HIDE DEF found, score
  <2>6. PICK how : found = <<[score |-> score, how |-> how]>> /\ score >= 1
    BY <2>3, <2>4 DEF OneMatch
  <2>7. found[k].score = score
    BY <2>3, <2>6
  <2>8. o.score = score
    BY <2>3, <2>7 DEF Offer
  <2> QED
    BY <2>5, <2>6, <2>8
<1>7. ASSUME NEW s \in HandleScores(c) PROVE s \in Nat /\ \E o \in Range(OffersFor(c)) : s <= o.score
  <2>1. PICK i \in DOMAIN ids : \E n \in DOMAIN ids[i].names : \E j \in DOMAIN c.names :
          s = NameScores[c.names[j]][ids[i].names[n]] /\ s >= 1
    BY <1>4
  <2>2. PICK n \in DOMAIN ids[i].names, j \in DOMAIN c.names :
          s = NameScores[c.names[j]][ids[i].names[n]] /\ s >= 1
    BY <2>1
  <2> DEFINE found == LookalikesOf[c.names[j]][ids[i].names[n]]
  <2>3. OneMatch(found, s)
    BY <1>5, <2>2
  <2>9. \A k \in DOMAIN found : IsHandleOffer(c, ids[i], Offer(ids[i].id, ids[i].id, found[k].score, found[k].how))
    BY Zenon DEF IsHandleOffer
  <2> HIDE DEF found
  <2>4. PICK how : found = <<[score |-> s, how |-> how]>> /\ s \in Nat
    <3>1. s # 0
      BY <2>2
    <3> QED
      BY <2>3, <3>1, Zenon DEF OneMatch
  <2>5. 1 \in DOMAIN found /\ found[1].score = s
    BY <2>4
  <2> DEFINE o == Offer(ids[i].id, ids[i].id, found[1].score, found[1].how)
  <2>6. o \in Range(OffersFor(c))
    BY <1>3, <2>5, <2>9
  <2>7. o.score = s
    BY <2>5 DEF Offer
  <2> QED
    BY <2>4, <2>6, <2>7
<1> QED
  BY <1>6, <1>7 DEF Covers

\* Max is the member that none exceeds.
LEMMA GreatestFacts ==
  ASSUME NEW S, S \subseteq Int, NEW m \in S, \A s \in S : s <= m
  PROVE  Max(S) = m
<1>1. \A s \in S : m >= s
  BY m \in Int
<1>2. Max(S) \in S /\ \A s \in S : Max(S) >= s
  BY <1>1, Zenon DEF Max
<1>3. Max(S) <= m /\ Max(S) >= m
  BY <1>2
<1>4. Max(S) \in Int /\ m \in Int
  BY <1>2
<1> HIDE DEF Max
<1> QED
  BY <1>3, <1>4

\* Without an offer there is no confidence.
LEMMA NothingDetected ==
  ASSUME DetectionTypeOK, NEW c \in Candidates, Range(OffersFor(c)) = {}
  PROVE  Detect(c).confidence = 0
<1> DEFINE offers == OffersFor(c)
<1>1. offers \in Seq(Offered)
  BY OffersForFacts
<1> HIDE DEF offers
<1>2. offers = <<>>
  <2>1. ASSUME offers # <<>> PROVE FALSE
    <3>1. 1 \in DOMAIN offers
      BY <1>1, <2>1
    <3>2. offers[1] \in Range(offers)
      BY <3>1 DEF Range
    <3> QED
      BY <3>2 DEF offers
  <2> QED
    BY <2>1
<1>3. BestOf(offers) = Null
  BY <1>1, <1>2, BestIsMax
<1> QED
  BY <1>3 DEF Detect, Detection, offers

\* A detection has the greatest of the scores that its offers cover, and is positive when there is one.
LEMMA BestIsGreatest ==
  ASSUME DetectionTypeOK, NEW c \in Candidates, NEW S, S \subseteq Nat, Covers(OffersFor(c), S)
  PROVE  Detect(c).confidence = Max(S \union {0}) /\ (IsPositive(Detect(c)) <=> S # {})
<1>1. CASE ~IsPositive(Detect(c))
  <2>1. Range(OffersFor(c)) = {}
    BY <1>1, DetectFacts
  <2>2. S = {}
    BY <2>1 DEF Covers
  <2>3. Detect(c).confidence = 0
    BY <2>1, NothingDetected
  <2>4. Max(S \union {0}) = 0
    <3> DEFINE T == S \union {0}
    <3>1. T \subseteq Int /\ 0 \in T /\ \A s \in T : s <= 0
      BY <2>2
    <3> HIDE DEF T
    <3>2. Max(T) = 0
      BY <3>1, GreatestFacts
    <3> QED
      BY <3>2 DEF T
  <2> QED
    BY <1>1, <2>2, <2>3, <2>4
<1>2. CASE IsPositive(Detect(c))
  <2>1. PICK o \in Range(OffersFor(c)) :
          /\ Detect(c).confidence = o.score
          /\ \A other \in Range(OffersFor(c)) : other.score <= o.score
    BY <1>2, DetectFacts
  <2>2. o.score \in S /\ \A s \in S : \E other \in Range(OffersFor(c)) : s <= other.score
    BY <2>1 DEF Covers
  <2>3. \A other \in Range(OffersFor(c)) : other.score \in S
    BY DEF Covers
  <2>4. \A s \in S : s <= o.score
    <3> SUFFICES ASSUME NEW s \in S PROVE s <= o.score
      OBVIOUS
    <3>1. PICK other \in Range(OffersFor(c)) : s <= other.score
      BY <2>2
    <3>2. other.score <= o.score /\ other.score \in Nat /\ o.score \in Nat /\ s \in Nat
      BY <2>1, <2>2, <2>3
    <3> QED
      BY <3>1, <3>2
  <2>5. Max(S \union {0}) = o.score
    <3> DEFINE T == S \union {0}
               m == o.score
    <3>3. m \in S /\ \A s \in S : s <= m
      BY <2>2, <2>4
    <3> HIDE DEF m
    <3>1. T \subseteq Int /\ m \in T /\ \A s \in T : s <= m
      BY <3>3
    <3> HIDE DEF T
    <3>2. Max(T) = m
      BY <3>1, GreatestFacts
    <3> QED
      BY <3>2 DEF m, T
  <2> QED
    BY <1>2, <2>1, <2>2, <2>5
<1> QED
  BY <1>1, <1>2

\* Whoever owns none of the offers is not named as owner.
LEMMA OwnersFacts ==
  ASSUME DetectionTypeOK, NEW c \in Candidates, NEW self,
         \A o \in Range(OffersFor(c)) : o.owner # self
  PROVE  IsPositive(Detect(c)) => Detect(c).owner # self
BY DetectFacts

\* The property, of one candidate in one state.
LEMMA BestForCandidate ==
  ASSUME DetectionTypeOK, NEW c \in Candidates
  PROVE  /\ Detect(c).confidence = Max(Scores(c) \union {0})
         /\ IsPositive(Detect(c)) <=> Scores(c) # {}
         /\ c.category \in {"reuse", "audio", "video"} /\ IsPositive(Detect(c)) => Detect(c).owner # c.publisher
         /\ c.category = "likeness" /\ IsPositive(Detect(c)) => Detect(c).owner # c.subject
<1>0. Thousandths \subseteq Nat
  BY DEF Thousandths
<1>1. CASE c.category = "reuse"
  <2>1. Scores(c) = ReuseScores(c)
    BY <1>1 DEF Scores
  <2>2. /\ Covers(OffersFor(c), Scores(c)) /\ Scores(c) \subseteq Nat
        /\ \A o \in Range(OffersFor(c)) : o.owner # c.publisher
    BY <1>0, <1>1, <2>1, ReuseCovers
  <2>3. IsPositive(Detect(c)) => Detect(c).owner # c.publisher
    BY <2>2, OwnersFacts
  <2> QED
    BY <1>1, <2>2, <2>3, BestIsGreatest
<1>2. CASE c.category \in {"audio", "video"}
  <2>1. Scores(c) = ClipScores(c)
    BY <1>2 DEF Scores
  <2>2. /\ Covers(OffersFor(c), Scores(c)) /\ Scores(c) \subseteq Nat
        /\ \A o \in Range(OffersFor(c)) : o.owner # c.publisher
    BY <1>0, <1>2, <2>1, ClipCovers
  <2>3. IsPositive(Detect(c)) => Detect(c).owner # c.publisher
    BY <2>2, OwnersFacts
  <2> QED
    BY <1>2, <2>2, <2>3, BestIsGreatest
<1>3. CASE c.category = "handle"
  <2>1. Scores(c) = HandleScores(c)
    BY <1>3 DEF Scores
  <2>2. Covers(OffersFor(c), Scores(c)) /\ Scores(c) \subseteq Nat
    BY <1>3, <2>1, HandleCovers
  <2> QED
    BY <1>3, <2>2, BestIsGreatest
<1>4. CASE c.category = "likeness"
  <2>1. Scores(c) = LikenessScores(c)
    BY <1>4 DEF Scores
  <2>2. /\ Covers(OffersFor(c), Scores(c)) /\ Scores(c) \subseteq Nat
        /\ \A o \in Range(OffersFor(c)) : o.owner # c.subject
    BY <1>0, <1>4, <2>1, LikenessCovers
  <2>3. IsPositive(Detect(c)) => Detect(c).owner # c.subject
    BY <2>2, OwnersFacts
  <2> QED
    BY <1>4, <2>2, <2>3, BestIsGreatest
<1> QED
  BY <1>1, <1>2, <1>3, <1>4, EntriesForFacts

\* A detection has the confidence of the best match among what others registered, in whatever
\* order they did. Of content and likenesses it names no owner to himself; the handle detector
\* does not ask who published (reuse.ts, av.ts, impersonation.ts).
THEOREM DetectionsAreBest == DetectionSpec => []DetectionIsBest
<1>1. DetectionTypeOK => DetectionIsBest
  <2> SUFFICES ASSUME DetectionTypeOK, NEW c \in Candidates
               PROVE  /\ Detect(c).confidence = Max(Scores(c) \union {0})
                      /\ IsPositive(Detect(c)) <=> Scores(c) # {}
                      /\ c.category \in {"reuse", "audio", "video"} /\ IsPositive(Detect(c))
                           => Detect(c).owner # c.publisher
                      /\ c.category = "likeness" /\ IsPositive(Detect(c)) => Detect(c).owner # c.subject
    BY Zenon DEF DetectionIsBest
  <2> QED
    BY BestForCandidate, Zenon
<1> QED
  BY <1>1, DetectionTypeCorrect, PTL

-----------------------------------------------------------------------------
(***************************************************************************)
(* Evidence.                                                               *)
(***************************************************************************)
\* An index only grows: what was in it stays, where it was.
LEMMA IndexGrows ==
  ASSUME DetectionTypeOK, [DetectionNext]_detectionVars, NEW c \in Candidates
  PROVE  /\ DOMAIN EntriesFor(c) \subseteq DOMAIN EntriesFor(c)'
         /\ \A i \in DOMAIN EntriesFor(c) : EntriesFor(c)'[i] = EntriesFor(c)[i]
<1> DEFINE Grows(s, t) == DOMAIN s \subseteq DOMAIN t /\ \A i \in DOMAIN s : t[i] = s[i]
<1>1. ASSUME NEW T, NEW s \in Seq(T), NEW e PROVE Grows(s, Append(s, e))
  OBVIOUS
<1>2. \A s : Grows(s, s)
  OBVIOUS
<1>3. /\ reuse \in Seq(Entries) /\ ids \in Seq(Protected)
      /\ clips \in [{"audio", "video"} -> Seq(ClipEntries)]
  BY DEF DetectionTypeOK
<1> HIDE DEF Grows
<1>4. Grows(reuse, reuse') /\ Grows(ids, ids') /\ Grows(clips["audio"], clips'["audio"])
      /\ Grows(clips["video"], clips'["video"])
  <2>1. CASE UNCHANGED index
    <3>1. reuse' = reuse /\ clips' = clips /\ ids' = ids
      BY <2>1 DEF index
    <3> QED
      BY <1>2, <3>1
  <2>2. CASE \E e : reuse' = Append(reuse, e) /\ UNCHANGED <<clips, ids>>
    BY <1>1, <1>2, <1>3, <2>2
  <2>3. CASE \E r \in Clips : AddClip(r)
    <3>1. PICK r \in Clips : AddClip(r)
      BY <2>3
    <3>2. r.category \in {"audio", "video"}
      BY RegistrationsAssumption
    <3>3. PICK e : clips' = [clips EXCEPT ![r.category] = Append(clips[r.category], e)]
      BY <3>1 DEF AddClip
    <3>4. \A category \in {"audio", "video"} : clips[category] \in Seq(ClipEntries)
      BY <1>3
    <3>5. \A category \in {"audio", "video"} :
            \/ clips'[category] = clips[category]
            \/ clips'[category] = Append(clips[category], e)
      BY <1>3, <3>2, <3>3
    <3>6. \A category \in {"audio", "video"} : Grows(clips[category], clips'[category])
      BY <1>1, <1>2, <3>4, <3>5
    <3>7. reuse' = reuse /\ ids' = ids
      BY <3>1 DEF AddClip
    <3> QED
      BY <1>2, <3>6, <3>7
  <2>4. CASE \E e : ids' = Append(ids, e) /\ UNCHANGED <<reuse, clips>>
    BY <1>1, <1>2, <1>3, <2>4
  <2>5. \/ UNCHANGED index
        \/ \E e : reuse' = Append(reuse, e) /\ UNCHANGED <<clips, ids>>
        \/ \E r \in Clips : AddClip(r)
        \/ \E e : ids' = Append(ids, e) /\ UNCHANGED <<reuse, clips>>
    <3>1. CASE UNCHANGED detectionVars
      BY <3>1 DEF detectionVars, index
    <3>2. ASSUME NEW p \in Passports, NEW owner \in Accounts, AddPassport(p, owner)
          PROVE  \E e : reuse' = Append(reuse, e) /\ UNCHANGED <<clips, ids>>
      BY <3>2 DEF AddPassport
    <3>3. ASSUME NEW r \in Raws, AddRaw(r)
          PROVE  \E e : reuse' = Append(reuse, e) /\ UNCHANGED <<clips, ids>>
      BY <3>3 DEF AddRaw
    <3>4. ASSUME NEW p \in Protected, Protect(p)
          PROVE  \E e : ids' = Append(ids, e) /\ UNCHANGED <<reuse, clips>>
      BY <3>4 DEF Protect
    <3>5. ASSUME NEW s, Sign(s) PROVE UNCHANGED index
      BY <3>5 DEF Sign
    <3>6. ASSUME NEW l \in signed, AddLink(l) PROVE UNCHANGED index
      BY <3>6 DEF AddLink
    <3>7. ASSUME NEW keyId \in SigningKeyIds, TrustLinker(keyId) PROVE UNCHANGED index
      BY <3>7 DEF TrustLinker
    <3>8. ASSUME NEW c1 \in Candidates, NEW keyId \in SigningKeyIds,
                 DetectionToReport(c1, keyId) \/ DetectionToLinkage(c1, keyId)
          PROVE  UNCHANGED index
      BY <3>5, <3>8 DEF DetectionToReport, DetectionToLinkage
    <3>9. ASSUME NEW l \in OtherLinks, NEW keyId \in SigningKeyIds, SignLinkage(l, keyId) PROVE UNCHANGED index
      BY <3>5, <3>9 DEF SignLinkage
    <3> QED
      BY <3>1, <3>2, <3>3, <3>4, <3>6, <3>7, <3>8, <3>9 DEF DetectionNext
  <2> QED
    BY <2>1, <2>2, <2>3, <2>4, <2>5
<1>5. Grows(EntriesFor(c), EntriesFor(c)')
  BY <1>4 DEF EntriesFor
<1> QED
  BY <1>5 DEF Grows

\* What a detection is, of a state and of the one after it alike.
DetectionMeans ==
  \A c \in Candidates :
    /\ OffersFor(c) \in Seq(Offered)
    /\ Range(OffersFor(c)) =
         UNION {Range(OffersOf(c, EntriesFor(c)[i])) : i \in DOMAIN EntriesFor(c)}
    /\ IsPositive(Detect(c)) <=> Range(OffersFor(c)) # {}
    /\ IsPositive(Detect(c)) =>
         \E o \in Range(OffersFor(c)) :
           /\ Detect(c).confidence = o.score
           /\ \A other \in Range(OffersFor(c)) : other.score <= o.score

\* It follows from the types.
LEMMA DetectionMeaning == DetectionTypeOK => DetectionMeans
<1> SUFFICES ASSUME DetectionTypeOK, NEW c \in Candidates
             PROVE  /\ OffersFor(c) \in Seq(Offered)
                    /\ Range(OffersFor(c)) =
                         UNION {Range(OffersOf(c, EntriesFor(c)[i])) : i \in DOMAIN EntriesFor(c)}
                    /\ IsPositive(Detect(c)) <=> Range(OffersFor(c)) # {}
                    /\ IsPositive(Detect(c)) =>
                         \E o \in Range(OffersFor(c)) :
                           /\ Detect(c).confidence = o.score
                           /\ \A other \in Range(OffersFor(c)) : other.score <= o.score
  BY DEF DetectionMeans
<1> QED
  BY OffersForFacts, DetectFacts

\* What was offered for a candidate is offered for it ever after, so that its detection
\* stays positive and does not lose confidence.
LEMMA DetectionsGrow ==
  ASSUME DetectionTypeOK, [DetectionNext]_detectionVars, NEW c \in Candidates, IsPositive(Detect(c))
  PROVE  /\ IsPositive(Detect(c))'
         /\ Detect(c).confidence \in Int /\ Detect(c)'.confidence \in Int
         /\ Detect(c)'.confidence >= Detect(c).confidence
<1>1. DetectionMeans /\ DetectionMeans'
  <2>1. DetectionTypeOK'
    BY DetectionTypeKept
  <2> QED
    BY <2>1, DetectionMeaning, PTL
<1>2. /\ DOMAIN EntriesFor(c) \subseteq DOMAIN EntriesFor(c)'
      /\ \A i \in DOMAIN EntriesFor(c) : EntriesFor(c)'[i] = EntriesFor(c)[i]
  BY IndexGrows
<1>3. Range(OffersFor(c)) \subseteq Range(OffersFor(c)')
  <2>1. Range(OffersFor(c)) = UNION {Range(OffersOf(c, EntriesFor(c)[i])) : i \in DOMAIN EntriesFor(c)}
    BY <1>1 DEF DetectionMeans
  <2>2. Range(OffersFor(c)') = UNION {Range(OffersOf(c, EntriesFor(c)'[i])) : i \in DOMAIN EntriesFor(c)'}
    BY <1>1 DEF DetectionMeans
  <2> QED
    BY <1>2, <2>1, <2>2
<1>4. PICK o \in Range(OffersFor(c)) : Detect(c).confidence = o.score
  BY <1>1 DEF DetectionMeans
<1>5. IsPositive(Detect(c)')
  <2>1. Range(OffersFor(c)') # {}
    BY <1>3, <1>4
  <2> QED
    BY <1>1, <2>1 DEF DetectionMeans
<1>6. PICK p \in Range(OffersFor(c)') :
        Detect(c)'.confidence = p.score /\ \A other \in Range(OffersFor(c)') : other.score <= p.score
  BY <1>1, <1>5 DEF DetectionMeans
<1>7. o.score <= p.score
  BY <1>3, <1>4, <1>6
<1>8. o \in Offered /\ p \in Offered
  <2>1. OffersFor(c) \in Seq(Offered) /\ OffersFor(c)' \in Seq(Offered)
    BY <1>1 DEF DetectionMeans
  <2> QED
    BY <1>4, <1>6, <2>1 DEF Range
<1>9. o.score \in Int /\ p.score \in Int
  <2>1. o.score \in Thousandths /\ p.score \in Thousandths
    BY <1>8 DEF Offered
  <2>2. \A n \in Thousandths : n \in Int
    BY DEF Thousandths
  <2> QED
    BY <2>1, <2>2, Zenon
<1>10. Detect(c)'.confidence >= Detect(c).confidence
  BY <1>4, <1>6, <1>7, <1>9
<1> QED
  BY <1>4, <1>5, <1>6, <1>9, <1>10

\* What a detection gave rise to when it was signed.
LEMMA SignedOfDetection ==
  ASSUME DetectionNext, NEW s \in signed' \ signed, s.about # Null
  PROVE  /\ s.about \in Candidates /\ IsPositive(Detect(s.about))
         /\ s.confidence = Detect(s.about).confidence
<1>1. ASSUME NEW t, Sign(t) PROVE s = t
  BY <1>1 DEF Sign
<1>2. ASSUME NEW c \in Candidates, NEW keyId \in SigningKeyIds, DetectionToReport(c, keyId)
      PROVE  /\ s.about = c /\ IsPositive(Detect(c)) /\ s.confidence = Detect(c).confidence
  <2> DEFINE t == [type |-> "report", a |-> c.subject, b |-> Detect(c).matched,
                   confidence |-> Detect(c).confidence, keyId |-> keyId, about |-> c]
  <2>1. IsPositive(Detect(c)) /\ Sign(t)
    BY <1>2 DEF DetectionToReport
  <2>2. s = t
    BY <1>1, <2>1
  <2> QED
    BY <2>1, <2>2
<1>3. ASSUME NEW c \in Candidates, NEW keyId \in SigningKeyIds, DetectionToLinkage(c, keyId)
      PROVE  /\ s.about = c /\ IsPositive(Detect(c)) /\ s.confidence = Detect(c).confidence
  <2> DEFINE t == Link(c.subject, Detect(c).owner, Detect(c).confidence, keyId, c)
  <2>1. IsPositive(Detect(c)) /\ Sign(t)
    BY <1>3 DEF DetectionToLinkage
  <2>2. s = t
    BY <1>1, <2>1
  <2> QED
    BY <2>1, <2>2 DEF Link
<1>4. ASSUME NEW l \in OtherLinks, NEW keyId \in SigningKeyIds, SignLinkage(l, keyId) PROVE FALSE
  <2>1. s = Link(l.a, l.b, l.confidence, keyId, Null)
    BY <1>1, <1>4 DEF SignLinkage
  <2> QED
    BY <2>1 DEF Link
<1>5. ~UNCHANGED signed
  OBVIOUS
<1>6. \/ \E c \in Candidates, keyId \in SigningKeyIds : DetectionToReport(c, keyId) \/ DetectionToLinkage(c, keyId)
      \/ \E l \in OtherLinks, keyId \in SigningKeyIds : SignLinkage(l, keyId)
  BY <1>5 DEF DetectionNext, AddPassport, AddRaw, AddClip, Protect, TrustLinker, AddLink
<1> QED
  BY <1>2, <1>3, <1>4, <1>6

\* Evidence stays good: what was signed on the strength of a detection, whoever examines
\* the candidate again finds, with no less confidence, whatever has been registered since.
THEOREM EvidenceHolds == DetectionSpec => []EvidenceStaysGood
<1>1. DetectionInit => EvidenceStaysGood
  BY DEF DetectionInit, EvidenceStaysGood
<1>2. DetectionTypeOK /\ EvidenceStaysGood /\ [DetectionNext]_detectionVars => EvidenceStaysGood'
  <2> SUFFICES ASSUME DetectionTypeOK, EvidenceStaysGood, [DetectionNext]_detectionVars,
                      NEW s \in signed', s.about # Null
               PROVE  IsPositive(Detect(s.about)') /\ Detect(s.about)'.confidence >= s.confidence
    BY DEF EvidenceStaysGood
  <2>1. /\ s.about \in Candidates /\ IsPositive(Detect(s.about))
        /\ Detect(s.about).confidence >= s.confidence /\ s.confidence \in Int
    <3>1. CASE s \in signed
      <4>1. IsPositive(Detect(s.about)) /\ Detect(s.about).confidence >= s.confidence
        BY <3>1 DEF EvidenceStaysGood
      <4>2. s \in SignedStatements("report", Assets \union Accounts) \union SignedStatements("link", Accounts)
        BY <3>1 DEF DetectionTypeOK
      <4>3. s.about \in Candidates \union {Null} /\ s.confidence \in Thousandths
        BY <4>2 DEF SignedStatements
      <4> QED
        BY <4>1, <4>3 DEF Thousandths
    <3>2. CASE s \notin signed
      <4>1. DetectionNext
        BY <3>2 DEF detectionVars
      <4>2. /\ s.about \in Candidates /\ IsPositive(Detect(s.about))
            /\ s.confidence = Detect(s.about).confidence
        BY <3>2, <4>1, SignedOfDetection
      <4>3. Detect(s.about).confidence \in Int
        BY <4>2, DetectionsGrow
      <4> QED
        BY <4>2, <4>3
    <3> QED
      BY <3>1, <3>2
  <2>2. /\ IsPositive(Detect(s.about)')
        /\ Detect(s.about).confidence \in Int /\ Detect(s.about)'.confidence \in Int
        /\ Detect(s.about)'.confidence >= Detect(s.about).confidence
    BY <2>1, DetectionsGrow
  <2> QED
    BY <2>1, <2>2
<1> QED
  BY <1>1, <1>2, DetectionTypeCorrect, PTL DEF DetectionSpec

-----------------------------------------------------------------------------
(***************************************************************************)
(* The linkage graph.                                                      *)
(***************************************************************************)
Neighbour(account, confidence) == [other |-> account, confidence |-> confidence]

\* What the adjacency of the graph says is what its links do: each link is entered at
\* both of its ends, and nothing else is.
AdjacencyOK ==
  /\ \A l \in Range(edges) :
       /\ Neighbour(l.b, l.confidence) \in adj[l.a]
       /\ Neighbour(l.a, l.confidence) \in adj[l.b]
  /\ \A x \in Accounts : \A e \in adj[x] :
       \E l \in Range(edges) :
         l.confidence = e.confidence /\ ((l.a = x /\ l.b = e.other) \/ (l.b = x /\ l.a = e.other))

\* Appending adds one element.
LEMMA AppendFacts ==
  ASSUME NEW T, NEW s \in Seq(T), NEW e \in T
  PROVE  Range(Append(s, e)) = Range(s) \union {e}
<1>1. /\ Len(Append(s, e)) = Len(s) + 1 /\ Len(s) \in Nat
      /\ DOMAIN Append(s, e) = 1..(Len(s) + 1) /\ DOMAIN s = 1..Len(s)
  OBVIOUS
<1>2. /\ \A i \in 1..Len(s) : Append(s, e)[i] = s[i]
      /\ Append(s, e)[Len(s) + 1] = e
  OBVIOUS
<1>3. 1..(Len(s) + 1) = 1..Len(s) \union {Len(s) + 1}
  BY <1>1
<1> QED
  BY <1>1, <1>2, <1>3 DEF Range

\* Every step keeps the two ends of the links together.
LEMMA AdjacencyKept ==
  ASSUME DetectionTypeOK, AdjacencyOK, [DetectionNext]_detectionVars
  PROVE  AdjacencyOK'
<1>1. CASE UNCHANGED graph
  <2>1. edges' = edges /\ adj' = adj
    BY <1>1 DEF graph
  <2> QED
    BY <2>1 DEF AdjacencyOK
<1>2. ASSUME NEW l \in signed, AddLink(l)
      PROVE  AdjacencyOK'
  <2> DEFINE P == [other : Accounts, confidence : Thousandths]
             ab == Neighbour(l.b, l.confidence)
             ba == Neighbour(l.a, l.confidence)
  <2>1. l.a \in Accounts /\ l.b \in Accounts /\ l \in SignedStatements("link", Accounts)
    BY <1>2, LinkFacts DEF AddLink
  <2>2. edges \in Seq(SignedStatements("link", Accounts)) /\ adj \in [Accounts -> SUBSET P]
    BY DEF DetectionTypeOK
  <2>3. Range(edges') = Range(edges) \union {l}
    BY <1>2, <2>1, <2>2, AppendFacts DEF AddLink
  <2>4. \A x \in Accounts :
          /\ adj[x] \subseteq adj'[x]
          /\ x = l.a => ab \in adj'[x]
          /\ x = l.b => ba \in adj'[x]
          /\ \A e \in adj'[x] : e \in adj[x] \/ (x = l.a /\ e = ab) \/ (x = l.b /\ e = ba)
    BY <1>2 DEF AddLink, Entered, Neighbour
  <2>5. \A k \in Range(edges) : k.a \in Accounts /\ k.b \in Accounts
    <3>1. \A k \in Range(edges) : k \in SignedStatements("link", Accounts)
      BY <2>2 DEF Range
    <3> QED
      BY <3>1 DEF SignedStatements
  <2>6. ASSUME NEW k \in Range(edges')
        PROVE  Neighbour(k.b, k.confidence) \in adj'[k.a] /\ Neighbour(k.a, k.confidence) \in adj'[k.b]
    <3>1. CASE k = l
      BY <2>1, <2>4, <3>1
    <3>2. CASE k # l
      <4>1. k \in Range(edges)
        BY <2>3, <3>2
      <4> QED
        BY <2>4, <2>5, <4>1 DEF AdjacencyOK
    <3> QED
      BY <3>1, <3>2
  <2>7. ASSUME NEW x \in Accounts, NEW e \in adj'[x]
        PROVE  \E k \in Range(edges') :
                 k.confidence = e.confidence /\ ((k.a = x /\ k.b = e.other) \/ (k.b = x /\ k.a = e.other))
    <3>1. CASE e \in adj[x]
      BY <2>3, <3>1 DEF AdjacencyOK
    <3>2. CASE x = l.a /\ e = ab
      BY <2>3, <3>2 DEF Neighbour
    <3>3. CASE x = l.b /\ e = ba
      BY <2>3, <3>3 DEF Neighbour
    <3> QED
      BY <2>4, <3>1, <3>2, <3>3
  <2> QED
    BY <2>6, <2>7 DEF AdjacencyOK
<1>3. \/ UNCHANGED graph \/ \E l \in signed : AddLink(l)
  <2>1. ASSUME NEW s, Sign(s) PROVE UNCHANGED graph
    BY <2>1 DEF Sign
  <2>2. ASSUME NEW c \in Candidates, NEW keyId \in SigningKeyIds,
               DetectionToReport(c, keyId) \/ DetectionToLinkage(c, keyId)
        PROVE  UNCHANGED graph
    BY <2>1, <2>2 DEF DetectionToReport, DetectionToLinkage
  <2>3. ASSUME NEW l \in OtherLinks, NEW keyId \in SigningKeyIds, SignLinkage(l, keyId) PROVE UNCHANGED graph
    BY <2>1, <2>3 DEF SignLinkage
  <2>4. CASE UNCHANGED detectionVars
    BY <2>4 DEF detectionVars, graph
  <2> QED
    BY <2>2, <2>3, <2>4 DEF DetectionNext, AddPassport, AddRaw, AddClip, Protect, TrustLinker
<1> QED
  BY <1>1, <1>2, <1>3

\* The adjacency lists say what the links do, in every state.
LEMMA AdjacencyInvariant == DetectionSpec => []AdjacencyOK
<1>1. DetectionInit => AdjacencyOK
  BY DEF DetectionInit, AdjacencyOK, Range
<1> QED
  BY <1>1, AdjacencyKept, DetectionTypeCorrect, PTL DEF DetectionSpec

\* The body of the recursion of Cluster.
Reached(links, seen, level) ==
  seen \union UNION {{e.other : e \in {f \in links[x] : f.confidence >= level}} : x \in seen}
SeenCall(p, seen, n) == IF n = 0 THEN {p.id} ELSE Reached(p.links, seen[n - 1], p.level)

SeenRecursion == INSTANCE Recursion WITH Def <- SeenCall

\* The sets that Cluster goes through, for an account.
Spreads(seen, id, level) ==
  /\ DOMAIN seen = 0..Cardinality(Accounts)
  /\ seen[0] = {id}
  /\ \A n \in 1..Cardinality(Accounts) : seen[n] = Step(seen[n - 1], level)

\* Cluster returns the last of them.
LEMMA ClusterEquation ==
  ASSUME NEW id, NEW level
  PROVE  \E seen : Spreads(seen, id, level) /\ Cluster(id, level) = seen[Cardinality(Accounts)]
<1>0. PICK size \in Nat : size = Cardinality(Accounts)
  BY AccountsAssumption, FS_CardinalityType
<1> DEFINE S == 0..size
           p == [id |-> id, level |-> level, links |-> adj]
<1>1. ASSUME NEW g, NEW h, NEW k \in S, \A m \in S : m < k => g[m] = h[m]
      PROVE  SeenCall(p, g, k) = SeenCall(p, h, k)
  <2>1. CASE k = 0
    BY <2>1 DEF SeenCall
  <2>2. CASE k # 0
    <3>1. g[k - 1] = h[k - 1]
      BY <1>1, <2>2
    <3> QED
      BY <2>2, <3>1 DEF SeenCall
  <2> QED
    BY <2>1, <2>2
<1>2. SeenRecursion!Causal(p, S)
  BY <1>1 DEF SeenRecursion!Causal
<1>3. \E f : f = [k \in S |-> SeenCall(p, f, k)]
  BY <1>2, SeenRecursion!RecursionHasSolution, S \in SUBSET Nat
<1> DEFINE seen == CHOOSE f : f = [k \in S |-> SeenCall(p, f, k)]
<1>4. seen = [k \in S |-> SeenCall(p, seen, k)]
  BY <1>3, Zenon
<1>5. \A s : Reached(adj, s, level) = Step(s, level)
  BY DEF Reached, Step
<1>7. Cluster(id, level) = seen[size]
  <2>1. seen =
          CHOOSE f : f = [k \in 0..size |-> IF k = 0 THEN {id} ELSE Reached(adj, f[k - 1], level)]
    BY DEF SeenCall
  <2>2. Cluster(id, level) =
          (CHOOSE f : f = [k \in 0..size |->
             IF k = 0 THEN {id} ELSE Reached(adj, f[k - 1], level)])[size]
    BY <1>0, Zenon DEF Cluster, Step, Reached
  <2> QED
    BY <2>1, <2>2, Zenon
<1>6. p.id = id /\ p.links = adj /\ p.level = level
  OBVIOUS
<1> HIDE DEF p
<1> HIDE DEF seen
<1>8. DOMAIN seen = S
  BY <1>4
<1>9. seen[0] = {id}
  BY <1>4, <1>6 DEF SeenCall
<1>10. \A n \in 1..size : seen[n] = Step(seen[n - 1], level)
  <2> TAKE n \in 1..size
  <2>1. n \in S /\ n # 0
    OBVIOUS
  <2>2. seen[n] = SeenCall(p, seen, n)
    BY <1>4, <2>1
  <2> QED
    BY <1>5, <1>6, <2>1, <2>2 DEF SeenCall
<1>11. Spreads(seen, id, level)
  BY <1>0, <1>8, <1>9, <1>10 DEF Spreads
<1> QED
  BY <1>0, <1>7, <1>11

\* One step of the search: to the other ends of the links of that level, and no further.
LEMMA StepFacts ==
  ASSUME DetectionTypeOK, NEW S \in SUBSET Accounts, NEW level
  PROVE  /\ S \subseteq Step(S, level) /\ Step(S, level) \subseteq Accounts
         /\ \A x \in S : \A e \in adj[x] : e.confidence >= level => e.other \in Step(S, level)
         /\ \A y \in Step(S, level) :
              y \in S \/ \E x \in S : \E e \in adj[x] : e.confidence >= level /\ y = e.other
<1>1. S \subseteq Step(S, level)
  BY DEF Step
<1>2. \A x \in S : \A e \in adj[x] : e.confidence >= level => e.other \in Step(S, level)
  BY DEF Step
<1>3. \A y \in Step(S, level) :
        y \in S \/ \E x \in S : \E e \in adj[x] : e.confidence >= level /\ y = e.other
  BY DEF Step
<1>4. \A x \in S : \A e \in adj[x] : e.other \in Accounts
  <2>1. adj \in [Accounts -> SUBSET [other : Accounts, confidence : Thousandths]]
    BY DEF DetectionTypeOK
  <2> QED
    BY <2>1
<1>5. Step(S, level) \subseteq Accounts
  BY <1>3, <1>4
<1> QED
  BY <1>1, <1>2, <1>3, <1>5

\* The search goes on as long as it finds another account, of which there are so many.
LEMMA SpreadFacts ==
  ASSUME DetectionTypeOK, NEW id \in Accounts, NEW level, NEW seen, Spreads(seen, id, level)
  PROVE  \A n \in 0..Cardinality(Accounts) :
           /\ seen[n] \subseteq Accounts /\ id \in seen[n]
           /\ Step(seen[n], level) = seen[n] \/ Cardinality(seen[n]) >= n + 1
<1>1. PICK size \in Nat : size = Cardinality(Accounts)
  BY AccountsAssumption, FS_CardinalityType
<1>2. seen[0] = {id} /\ \A n \in 1..size : seen[n] = Step(seen[n - 1], level)
  BY <1>1 DEF Spreads
<1> DEFINE Good(n) == /\ seen[n] \subseteq Accounts /\ id \in seen[n]
                      /\ Step(seen[n], level) = seen[n] \/ Cardinality(seen[n]) >= n + 1
           Bad == {n \in Nat : n \in 0..size /\ ~Good(n)}
<1>3. Bad = {}
  <2> SUFFICES ASSUME Bad # {} PROVE FALSE
    OBVIOUS
  <2>1. PICK n \in Bad : \A m \in Bad : n <= m
    BY BestRecursion!LeastNatural, Bad \in SUBSET Nat
  <2>2. CASE n = 0
    <3>1. Cardinality({id}) = 1
      BY FS_Singleton
    <3>2. Cardinality(seen[0]) >= 0 + 1
      BY <1>2, <3>1
    <3>3. Good(0)
      BY <1>2, <3>2
    <3> QED
      BY <2>1, <2>2, <3>3
  <2>3. CASE n # 0
    <3>1. n \in 1..size
      BY <2>1, <2>3
    <3>2. n - 1 \in 0..size /\ n - 1 \in Nat /\ ~(n <= n - 1)
      BY <3>1
    <3>3. n - 1 \notin Bad
      BY <2>1, <3>2
    <3>4. Good(n - 1)
      BY <3>2, <3>3
    <3>5. seen[n] = Step(seen[n - 1], level)
      BY <1>2, <3>1
    <3>6. seen[n - 1] \subseteq seen[n] /\ seen[n] \subseteq Accounts
      BY <3>4, <3>5, StepFacts
    <3>7. CASE seen[n] = seen[n - 1]
      <4>1. Step(seen[n], level) = seen[n]
        BY <3>5, <3>7
      <4> QED
        BY <2>1, <3>4, <3>6, <4>1
    <3>8. CASE seen[n] # seen[n - 1]
      <4>1. IsFiniteSet(seen[n]) /\ IsFiniteSet(seen[n - 1])
        BY <3>4, <3>6, AccountsAssumption, FS_Subset
      <4>2. Cardinality(seen[n]) \in Nat /\ Cardinality(seen[n - 1]) \in Nat
        BY <4>1, FS_CardinalityType
      <4>3. Cardinality(seen[n - 1]) < Cardinality(seen[n])
        <5>1. Cardinality(seen[n - 1]) <= Cardinality(seen[n])
              /\ (Cardinality(seen[n - 1]) = Cardinality(seen[n]) => seen[n - 1] = seen[n])
          BY <3>6, <4>1, FS_Subset
        <5> QED
          BY <3>8, <4>2, <5>1
      <4>4. Cardinality(seen[n - 1]) >= (n - 1) + 1
        <5>1. Step(seen[n - 1], level) # seen[n - 1]
          BY <3>5, <3>8
        <5> QED
          BY <3>4, <5>1
      <4>5. Cardinality(seen[n]) >= n + 1
        BY <3>1, <4>2, <4>3, <4>4
      <4> QED
        BY <2>1, <3>4, <3>6, <4>5
    <3> QED
      BY <3>7, <3>8
  <2> QED
    BY <2>2, <2>3
<1> QED
  BY <1>1, <1>3

\* It ends when no link of that level leaves what it found.
LEMMA ClusterIsFixed ==
  ASSUME DetectionTypeOK, NEW id \in Accounts, NEW level
  PROVE  /\ Cluster(id, level) \subseteq Accounts /\ id \in Cluster(id, level)
         /\ Step(Cluster(id, level), level) = Cluster(id, level)
<1>1. PICK seen : Spreads(seen, id, level) /\ Cluster(id, level) = seen[Cardinality(Accounts)]
  BY ClusterEquation
<1>2. PICK size \in Nat : size = Cardinality(Accounts)
  BY AccountsAssumption, FS_CardinalityType
<1> DEFINE last == seen[size]
<1>3. /\ last \subseteq Accounts /\ id \in last
      /\ Step(last, level) = last \/ Cardinality(last) >= size + 1
  BY <1>1, <1>2, SpreadFacts
<1>4. Cardinality(last) \in Nat /\ Cardinality(last) <= size
  BY <1>2, <1>3, AccountsAssumption, FS_Subset, FS_CardinalityType
<1> HIDE DEF last
<1>5. ~(Cardinality(last) >= size + 1)
  BY <1>4
<1> QED
  BY <1>1, <1>2, <1>3, <1>5 DEF last

\* Whatever set the links of that level do not leave holds what was found from within it.
LEMMA ClusterIsLeast ==
  ASSUME DetectionTypeOK, NEW id \in Accounts, NEW level, NEW S \in SUBSET Accounts, id \in S,
         \A x \in S : \A e \in adj[x] : e.confidence >= level => e.other \in S
  PROVE  Cluster(id, level) \subseteq S
<1>1. PICK seen : Spreads(seen, id, level) /\ Cluster(id, level) = seen[Cardinality(Accounts)]
  BY ClusterEquation
<1>2. PICK size \in Nat : size = Cardinality(Accounts)
  BY AccountsAssumption, FS_CardinalityType
<1>3. seen[0] = {id} /\ \A n \in 1..size : seen[n] = Step(seen[n - 1], level)
  BY <1>1, <1>2 DEF Spreads
<1> DEFINE Bad == {n \in Nat : n \in 0..size /\ ~(seen[n] \subseteq S)}
<1>4. Bad = {}
  <2> SUFFICES ASSUME Bad # {} PROVE FALSE
    OBVIOUS
  <2>1. PICK n \in Bad : \A m \in Bad : n <= m
    BY BestRecursion!LeastNatural, Bad \in SUBSET Nat
  <2>2. CASE n = 0
    BY <1>3, <2>1, <2>2
  <2>3. CASE n # 0
    <3>1. n \in 1..size
      BY <2>1, <2>3
    <3>2. n - 1 \in 0..size /\ n - 1 \in Nat /\ ~(n <= n - 1)
      BY <3>1
    <3> DEFINE prev == seen[n - 1]
    <3>3. prev \subseteq S
      BY <2>1, <3>2
    <3>4. seen[n] = Step(prev, level)
      BY <1>3, <3>1
    <3> HIDE DEF prev
    <3>5. Step(prev, level) \subseteq S
      BY <3>3, \A x \in S : \A e \in adj[x] : e.confidence >= level => e.other \in S DEF Step
    <3> QED
      BY <2>1, <3>4, <3>5
  <2> QED
    BY <2>2, <2>3
<1> QED
  BY <1>1, <1>2, <1>4

\* A cluster is the least set with the account in it that no trusted link of its level
\* leaves.
THEOREM ClustersAreReach == DetectionSpec => []ClusterIsReach
<1>1. DetectionTypeOK /\ AdjacencyOK => ClusterIsReach
  <2> SUFFICES ASSUME DetectionTypeOK, AdjacencyOK, NEW id \in Accounts, NEW level \in Levels
               PROVE  LET strong == {{l.a, l.b} : l \in {k \in Range(edges) : k.confidence >= level}}
                          Closed(S) == \A pair \in strong : pair \intersect S # {} => pair \subseteq S
                          cluster == Cluster(id, level)
                      IN  /\ id \in cluster /\ Closed(cluster)
                          /\ \A S \in SUBSET Accounts : id \in S /\ Closed(S) => cluster \subseteq S
    BY DEF ClusterIsReach
  <2> DEFINE strong == {{l.a, l.b} : l \in {k \in Range(edges) : k.confidence >= level}}
             Closed(S) == \A pair \in strong : pair \intersect S # {} => pair \subseteq S
             cluster == Cluster(id, level)
  <2>1. cluster \in SUBSET Accounts /\ id \in cluster /\ Step(cluster, level) = cluster
    BY ClusterIsFixed
  <2> HIDE DEF cluster
  <2>2. \A x \in cluster : \A e \in adj[x] : e.confidence >= level => e.other \in cluster
    BY <2>1, StepFacts
  <2>3. ASSUME NEW l \in Range(edges), l.confidence >= level
        PROVE  (l.a \in cluster => l.b \in cluster) /\ (l.b \in cluster => l.a \in cluster)
    <3>1. /\ Neighbour(l.b, l.confidence) \in adj[l.a]
          /\ Neighbour(l.a, l.confidence) \in adj[l.b]
      BY DEF AdjacencyOK
    <3>2. /\ Neighbour(l.b, l.confidence).confidence = l.confidence
          /\ Neighbour(l.a, l.confidence).confidence = l.confidence
          /\ Neighbour(l.b, l.confidence).other = l.b /\ Neighbour(l.a, l.confidence).other = l.a
      BY DEF Neighbour
    <3> QED
      BY <2>2, <2>3, <3>1, <3>2
  <2>4. Closed(cluster)
    <3> SUFFICES ASSUME NEW l \in Range(edges), l.confidence >= level, {l.a, l.b} \intersect cluster # {}
                 PROVE  {l.a, l.b} \subseteq cluster
      OBVIOUS
    <3> QED
      BY <2>3
  <2>5. ASSUME NEW S \in SUBSET Accounts, id \in S, Closed(S)
        PROVE  cluster \subseteq S
    <3>1. ASSUME NEW x \in S, NEW e \in adj[x], e.confidence >= level
          PROVE  e.other \in S
      <4>1. PICK l \in Range(edges) :
              l.confidence = e.confidence /\ ((l.a = x /\ l.b = e.other) \/ (l.b = x /\ l.a = e.other))
        BY <2>5 DEF AdjacencyOK
      <4>2. {l.a, l.b} \in strong
        BY <3>1, <4>1
      <4>3. {l.a, l.b} \intersect S # {}
        BY <3>1, <4>1
      <4>4. {l.a, l.b} \subseteq S
        BY <2>5, <4>2, <4>3
      <4> QED
        BY <4>1, <4>4
    <3> QED
      BY <2>5, <3>1, ClusterIsLeast DEF cluster
  <2> QED
    BY <2>1, <2>4, <2>5 DEF cluster
<1> QED
  BY <1>1, DetectionTypeCorrect, AdjacencyInvariant, PTL

=============================================================================
