------------------------------- MODULE Detectors -------------------------------
(***************************************************************************)
(* The four detectors: what each concludes of a candidate, given the       *)
(* entries registered so far in the order of their registration.           *)
(*   packages/detectors/src/{reuse,av,impersonation,types}.ts              *)
(* Similarities of fingerprints are parameters, scores are thousandths, a  *)
(* digest is the content it was taken of.                                  *)
(***************************************************************************)
EXTENDS Lookalikes

CONSTANTS
  Names,       \* names and domains that occur
  Contents,    \* what can be published: texts, images, clips
  Empty,       \* the content without bytes
  Images,      \* those that tryPerceptual can fingerprint
  CdcSim,      \* similarity of the byte-level fingerprints of two contents
  LookSim,     \* perceptual similarity of two images
  ClipSim,     \* acoustic similarity, or containment of the first in the second
  Threshold,   \* "cdc", "perceptual", "audio", "video", "likeness" -> 0..1000
  Null

\* A confidence, between 0 and 1.
Thousandths == 0..1000

ASSUME ContentsAssumption == Names \subseteq Seq(Chars) /\ Images \subseteq Contents /\ Empty \in Contents
ASSUME CdcAssumption ==
  CdcSim \in [Contents -> [Contents -> Thousandths]] /\ \A x \in Contents : CdcSim[x][x] = 1000
ASSUME LookAssumption == LookSim \in [Images -> [Images -> Thousandths]]
ASSUME ClipAssumption == ClipSim \in [Contents -> [Contents -> Thousandths]]
ASSUME ThresholdAssumption ==
  Threshold \in [{"cdc", "perceptual", "audio", "video", "likeness"} -> 1..1000]

Offer(matched, owner, score, how) == [matched |-> matched, owner |-> owner, score |-> score, how |-> how]

\* Seeded fault: the last offer wins over an equal or a better one.
ConsiderLast(best, offer) == offer

\* The closure consider of the detectors: only a better score displaces the best so far.
Consider(best, offer) == IF best = Null \/ offer.score > best.score THEN offer ELSE best

\* The best of what was offered, in the order in which it was, or Null.
BestOf(offers) ==
  LET best[i \in 0..Len(offers)] == IF i = 0 THEN Null ELSE Consider(best[i - 1], offers[i])
  IN  best[Len(offers)]

OfferIf(condition, offer) == IF condition THEN <<offer>> ELSE <<>>

\* What one registered asset offers for a candidate: nothing to its own owner.
ReuseOffers(c, e) ==
  IF e.owner = c.publisher THEN <<>>
  ELSE IF e.digest = c.content THEN <<Offer(e.asset, e.owner, 1000, "exact_digest")>>
  ELSE LET cs == CdcSim[c.content][e.cdc]
           looks == c.content \in Images /\ e.look # Null
           ps == IF looks THEN LookSim[c.content][e.look] ELSE 0
       IN  OfferIf(cs >= Threshold["cdc"], Offer(e.asset, e.owner, cs, "cdc"))
           \o OfferIf(looks /\ ps >= Threshold["perceptual"], Offer(e.asset, e.owner, ps, "perceptual"))

ClipOffers(c, e) ==
  LET s == ClipSim[c.content][e.clip]
  IN  OfferIf(e.owner # c.publisher /\ s >= Threshold[c.category], Offer(e.asset, e.owner, s, c.category))

Lookalike(c, protected) ==
  LET skC == Skeleton(c)
      skP == Skeleton(protected)
      sim == StringSimilarity(skC, skP)
  IN  IF Lower(c) = Lower(protected) THEN <<>>
      ELSE IF skC = skP THEN <<[score |-> 900, how |-> "homoglyph"]>>
      ELSE OfferIf(EditDistance(skC, skP) <= 2 /\ sim >= 800,
                   [score |-> Min({850, sim}), how |-> "typosquat"])

LookalikesOf == [c \in Names |-> [protected \in Names |-> Lookalike(c, protected)]]

\* Each protected string against the candidate's name and domain.
HandleOffers(c, pid) ==
  FlattenSeq([i \in DOMAIN pid.names |->
    FlattenSeq([j \in DOMAIN c.names |->
      LET found == LookalikesOf[c.names[j]][pid.names[i]]
      IN  [k \in DOMAIN found |-> Offer(pid.id, pid.id, found[k].score, found[k].how)]])])

LikenessOffers(c, pid) ==
  LET applies == pid.image # Null /\ pid.id # c.subject
      score == IF applies THEN LookSim[c.content][pid.image] ELSE 0
  IN  OfferIf(applies /\ score >= Threshold["likeness"], Offer(pid.id, pid.id, score, "dhash"))

\* Which best offers are a match; the others are a near match.
IsMatch(category, best) ==
  CASE category = "reuse" -> best.how = "exact_digest"
    [] category \in {"audio", "video"} -> best.score >= 999
    [] category = "handle" -> best.how = "homoglyph"
    [] category = "likeness" -> FALSE

Detection(c, best) ==
  IF best = Null THEN [disposition |-> "no_match", confidence |-> 0, matched |-> Null, owner |-> Null]
  ELSE [disposition |-> IF IsMatch(c.category, best) THEN "match" ELSE "near_match",
        confidence |-> best.score, matched |-> best.matched, owner |-> best.owner]

IsPositive(d) == d.disposition \in {"match", "near_match"}

================================================================================
