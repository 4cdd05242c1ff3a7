------------------------------- MODULE Detection -------------------------------
(***************************************************************************)
(* From registered content to linked accounts: assets and protected        *)
(* identities are registered, accounts are examined, what the detectors    *)
(* find is signed as a report or as a link between two accounts, and the   *)
(* links that state trusted key ids make up the linkage graph.             *)
(*   packages/detectors/src/*.ts, packages/sentinel/src/{linkage,report}.ts*)
(* What the exchange makes of reports is in module Sentinel.  All that is  *)
(* signed here verifies under the key it carries; keyId is the id stated.  *)
(***************************************************************************)
EXTENDS Detectors

CONSTANTS
  Accounts,      \* owners, publishers and subjects
  SigningKeyIds, \* key ids that detectors and linkers state
  Passports,     \* passports that may be registered: [asset, creator, content, cdc, look]
  Raws,          \* assets that may be registered by their bytes: [asset, owner, content]
  Clips,         \* clips that may be registered: [category, asset, owner, clip]
  Protected,     \* identities that may be protected: [id, names, image]
  Candidates,    \* [category, subject, publisher, content, names]
  OtherLinks,    \* links that linkers sign on another basis: [a, b, confidence]
  Levels,        \* the confidences clusters are asked for
  MaxEntries,    \* bound on registrations
  MaxSigned,     \* bound on statements signed
  MaxPresented   \* bound on links added to the graph

ASSUME BoundsAssumption == {MaxEntries, MaxSigned, MaxPresented} \subseteq Nat
ASSUME LinksAssumption == \A l \in OtherLinks : {l.a, l.b} \subseteq Accounts
ASSUME AccountsAssumption == IsFiniteSet(Accounts)
ASSUME RegistrationsAssumption ==
  /\ \A p \in Passports : p.content \in Contents /\ (p.look => p.content \in Images)
  /\ \A r \in Raws : r.owner \in Accounts /\ r.content \in Contents
  /\ \A r \in Clips : r.category \in {"audio", "video"} /\ r.owner \in Accounts /\ r.clip \in Contents
  /\ \A p \in Protected :
       p.id \in Accounts /\ p.names \in Seq(Names) /\ p.image \in Images \union {Null}
ASSUME CandidatesAssumption ==
  \A c \in Candidates :
    /\ c.category \in {"reuse", "audio", "video", "handle", "likeness"}
    /\ c.subject \in Accounts /\ c.content \in Contents /\ c.names \in Seq(Names)
    /\ c.category = "likeness" => c.content \in Images

Assets == {x.asset : x \in Passports \union Raws \union Clips}

\* The offers a detector can make, and how it comes by them.
Methods ==
  {"exact_digest", "cdc", "perceptual", "audio", "video", "homoglyph", "typosquat", "dhash"}
Offered == [matched : Assets \union Accounts, owner : Accounts, score : Thousandths, how : Methods]

ASSUME NullAssumption == Null \notin Offered

VARIABLES
  reuse,    \* ReuseIndex: its entries in order
  clips,    \* AudioReuseIndex and VideoReuseIndex: their entries in order
  ids,      \* ImpersonationIndex: its identities in order
  signed,   \* reports and links in circulation
  linkers,  \* the graph's trust store
  edges,    \* LinkageGraph: #edges
  adj       \* LinkageGraph: #adj, account -> [other, confidence]

index == <<reuse, clips, ids>>
graph == <<edges, adj>>
detectionVars == <<reuse, clips, ids, signed, linkers, edges, adj>>

DetectionInit ==
  /\ reuse = <<>>
  /\ clips = [category \in {"audio", "video"} |-> <<>>]
  /\ ids = <<>>
  /\ signed = {}
  /\ linkers = {}
  /\ edges = <<>>
  /\ adj = [x \in Accounts |-> {}]

Registered == Len(reuse) + Len(clips["audio"]) + Len(clips["video"]) + Len(ids)

\* addPassport: without a byte-level fingerprint the one of the empty string is taken.
AddPassport(p, owner) ==
  /\ Registered < MaxEntries
  /\ reuse' = Append(reuse, [asset |-> p.asset, owner |-> owner, digest |-> p.content,
                             cdc |-> IF p.cdc THEN p.content ELSE Empty,
                             look |-> IF p.look THEN p.content ELSE Null])
  /\ UNCHANGED <<clips, ids, signed, linkers, graph>>

RawEntry(r) ==
  [asset |-> r.asset, owner |-> r.owner, digest |-> r.content, cdc |-> r.content,
   look |-> IF r.content \in Images THEN r.content ELSE Null]

\* Seeded fault: an asset registered again takes the place of its earlier entry.
AddRawReplacing(r) ==
  /\ Registered < MaxEntries
  /\ reuse' = Append(SelectSeq(reuse, LAMBDA e : e.asset # r.asset), RawEntry(r))
  /\ UNCHANGED <<clips, ids, signed, linkers, graph>>

AddRaw(r) ==
  /\ Registered < MaxEntries
  /\ reuse' = Append(reuse, RawEntry(r))
  /\ UNCHANGED <<clips, ids, signed, linkers, graph>>

AddClip(r) ==
  /\ Registered < MaxEntries
  /\ clips' = [clips EXCEPT ![r.category] =
                 Append(@, [asset |-> r.asset, owner |-> r.owner, clip |-> r.clip])]
  /\ UNCHANGED <<reuse, ids, signed, linkers, graph>>

Protect(p) ==
  /\ Registered < MaxEntries
  /\ ids' = Append(ids, p)
  /\ UNCHANGED <<reuse, clips, signed, linkers, graph>>

EntriesFor(c) ==
  IF c.category = "reuse" THEN reuse
  ELSE IF c.category \in {"audio", "video"} THEN clips[c.category]
  ELSE ids

OffersOf(c, e) ==
  IF c.category = "reuse" THEN ReuseOffers(c, e)
  ELSE IF c.category \in {"audio", "video"} THEN ClipOffers(c, e)
  ELSE IF c.category = "handle" THEN HandleOffers(c, e)
  ELSE LikenessOffers(c, e)

OffersFor(c) == FlattenSeq([i \in DOMAIN EntriesFor(c) |-> OffersOf(c, EntriesFor(c)[i])])

\* What the detector of its category finds of a candidate.
Detect(c) == Detection(c, BestOf(OffersFor(c)))

\* signReport, signLinkage: a confidence outside [0, 1] throws.  "about" is the candidate
\* of the detection a statement rests on, if it rests on one.
Sign(statement) ==
  /\ statement.confidence \in Thousandths
  /\ Cardinality(signed) < MaxSigned
  /\ signed' = signed \union {statement}
  /\ UNCHANGED <<index, linkers, graph>>

Link(a, b, confidence, keyId, about) ==
  [type |-> "link", a |-> a, b |-> b, confidence |-> confidence, keyId |-> keyId, about |-> about]

\* detectionToReport: throws for a detection that is not positive.
DetectionToReport(c, keyId) ==
  LET d == Detect(c)
  IN  /\ IsPositive(d)
      /\ Sign([type |-> "report", a |-> c.subject, b |-> d.matched, confidence |-> d.confidence,
               keyId |-> keyId, about |-> c])

\* detectionToLinkage, called for the account examined and the owner of what it matched.
DetectionToLinkage(c, keyId) ==
  LET d == Detect(c)
  IN  /\ IsPositive(d)
      /\ Sign(Link(c.subject, d.owner, d.confidence, keyId, c))

\* Links on another basis, devices or timing, which a linker asserts.
SignLinkage(l, keyId) == Sign(Link(l.a, l.b, l.confidence, keyId, Null))

TrustLinker(keyId) ==
  /\ keyId \notin linkers
  /\ linkers' = linkers \union {keyId}
  /\ UNCHANGED <<index, signed, graph>>

\* Seeded fault: the link is entered at one end.
EnteredOneWay(l) == [adj EXCEPT ![l.a] = @ \union {[other |-> l.b, confidence |-> l.confidence]}]

\* #link at both ends.
Entered(l) ==
  [x \in Accounts |->
     adj[x] \union {[other |-> l.b, confidence |-> l.confidence] : y \in {l.a} \intersect {x}}
            \union {[other |-> l.a, confidence |-> l.confidence] : y \in {l.b} \intersect {x}}]

\* add, of a link that verifies under the key it carries and states a trusted key id,
\* whoever signed it; any other changes nothing.
AddLink(l) ==
  /\ l.type = "link" /\ l.keyId \in linkers
  /\ Len(edges) < MaxPresented
  /\ edges' = Append(edges, l)
  /\ adj' = Entered(l)
  /\ UNCHANGED <<index, signed, linkers>>

DetectionNext ==
  \/ \E p \in Passports, owner \in Accounts : AddPassport(p, owner)
  \/ \E r \in Raws : AddRaw(r)
  \/ \E r \in Clips : AddClip(r)
  \/ \E p \in Protected : Protect(p)
  \/ \E c \in Candidates, keyId \in SigningKeyIds : DetectionToReport(c, keyId) \/ DetectionToLinkage(c, keyId)
  \/ \E l \in OtherLinks, keyId \in SigningKeyIds : SignLinkage(l, keyId)
  \/ \E keyId \in SigningKeyIds : TrustLinker(keyId)
  \/ \E l \in signed : AddLink(l)

DetectionSpec == DetectionInit /\ [][DetectionNext]_detectionVars

\* The accounts one link further than those seen.
Step(seen, level) ==
  seen \union UNION {{e.other : e \in {f \in adj[x] : f.confidence >= level}} : x \in seen}

\* cluster: breadth first, which is done when every account has been in the queue.
Cluster(id, level) ==
  LET seen[n \in 0..Cardinality(Accounts)] == IF n = 0 THEN {id} ELSE Step(seen[n - 1], level)
  IN  seen[Cardinality(Accounts)]

(***************************************************************************)
(* Properties                                                              *)
(***************************************************************************)

Entries ==
  [asset : Assets, owner : Accounts, digest : Contents, cdc : Contents, look : Images \union {Null}]
ClipEntries == [asset : Assets, owner : Accounts, clip : Contents]
SignedStatements(type, named) ==
  [type : {type}, a : Accounts, b : named, confidence : Thousandths, keyId : SigningKeyIds,
   about : Candidates \union {Null}]

DetectionTypeOK ==
  /\ reuse \in Seq(Entries)
  /\ clips \in [{"audio", "video"} -> Seq(ClipEntries)]
  /\ ids \in Seq(Protected)
  /\ signed \subseteq SignedStatements("report", Assets \union Accounts) \union SignedStatements("link", Accounts)
  /\ linkers \subseteq SigningKeyIds
  /\ edges \in Seq(SignedStatements("link", Accounts))
  /\ adj \in [Accounts -> SUBSET [other : Accounts, confidence : Thousandths]]

Near(x, y) ==
  LET Changes(s) ==
        {RemoveAt(s, i) : i \in DOMAIN s}
        \union {[s EXCEPT ![i] = ch] : i \in DOMAIN s, ch \in Chars}
        \union {InsertAt(s, i, ch) : i \in 1..(Len(s) + 1), ch \in Chars}
  IN  IF y \in Changes(x) THEN 1 ELSE IF Changes(x) \intersect Changes(y) # {} THEN 2 ELSE 3

NameScore(c, p) ==
  LET x == Skeleton(c)
      y == Skeleton(p)
      share == (1000 * Near(x, y)) \div Max({Len(x), Len(y)})
  IN  IF Lower(c) = Lower(p) THEN 0
      ELSE IF x = y THEN 900
      ELSE IF Near(x, y) <= 2 /\ share <= 200 THEN Min({850, 1000 - share}) ELSE 0

NameScores == [c \in Names |-> [p \in Names |-> NameScore(c, p)]]

AtLeast(level, scores) == {s \in scores : s >= level}

\* The scores a candidate reaches, as a set: no order of entries, no best so far.  Two
\* names are compared by the changes that lead from one to the other.
ReuseScores(c) ==
  LET others == {e \in Range(reuse) : e.owner # c.publisher}
      pictured == {e \in others : e.look # Null}
  IN  {1000 : e \in {f \in others : f.digest = c.content}}
      \union AtLeast(Threshold["cdc"], {CdcSim[c.content][e.cdc] : e \in others})
      \union (IF c.content \in Images
              THEN AtLeast(Threshold["perceptual"], {LookSim[c.content][e.look] : e \in pictured})
              ELSE {})

ClipScores(c) ==
  LET others == {e \in Range(clips[c.category]) : e.owner # c.publisher}
  IN  AtLeast(Threshold[c.category], {ClipSim[c.content][e.clip] : e \in others})

HandleScores(c) ==
  AtLeast(1, {NameScores[n][p] : n \in Range(c.names), p \in UNION {Range(pid.names) : pid \in Range(ids)}})

LikenessScores(c) ==
  LET faces == {pid \in Range(ids) : pid.image # Null /\ pid.id # c.subject}
  IN  AtLeast(Threshold["likeness"], {LookSim[c.content][pid.image] : pid \in faces})

Scores(c) ==
  IF c.category = "reuse" THEN ReuseScores(c)
  ELSE IF c.category \in {"audio", "video"} THEN ClipScores(c)
  ELSE IF c.category = "handle" THEN HandleScores(c)
  ELSE LikenessScores(c)

\* A detection has the confidence of the best match among what others registered, in
\* whatever order they did, it is positive when there is any, and it never names the
\* owner who published the content, or whose likeness it is, himself (docs/CLAIMS.md:48-54).
DetectionIsBest ==
  \A c \in Candidates :
    LET d == Detect(c)
    IN  /\ d.confidence = Max(Scores(c) \union {0})
        /\ IsPositive(d) <=> Scores(c) # {}
        /\ c.category \in {"reuse", "audio", "video"} /\ IsPositive(d) => d.owner # c.publisher
        /\ c.category = "likeness" /\ IsPositive(d) => d.owner # c.subject

\* What was signed on the strength of a detection can be found again by whoever looks
\* later: the detector is still positive, and no less sure, although more has been
\* registered since (reuse.ts:87-118, report.ts:27-30).
EvidenceStaysGood ==
  \A s \in {t \in signed : t.about # Null} :
    IsPositive(Detect(s.about)) /\ Detect(s.about).confidence >= s.confidence

\* A cluster is what the accepted links of its level connect, no more and no less: the
\* least set with the account in it that no such link leaves, whichever end a link was
\* written from and in whatever order the links came (linkage.ts:43-56).
ClusterIsReach ==
  \A id \in Accounts, level \in Levels :
    LET strong == {{l.a, l.b} : l \in {k \in Range(edges) : k.confidence >= level}}
        Closed(S) == \A pair \in strong : pair \intersect S # {} => pair \subseteq S
        cluster == Cluster(id, level)
    IN  /\ id \in cluster /\ Closed(cluster)
        /\ \A S \in SUBSET Accounts : id \in S /\ Closed(S) => cluster \subseteq S

================================================================================
