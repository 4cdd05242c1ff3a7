------------------------------ MODULE MCDetection ------------------------------
(* Small instance of Detection for TLC: three accounts, a text and its edited    *)
(* copy, an image and its re-encoded copy, a clip and a part of it, and names     *)
(* that are the same, fold to the same, or differ by one and by two letters.      *)
EXTENDS Detection

CONSTANTS alice, bob, carol, k1, k2

MCChars == {"M", "m", "a", "y", "l", "1", "r", "n"}
MCLowerOf == [ch \in MCChars |-> IF ch = "M" THEN "m" ELSE ch]
MCConfusables == [ch \in {"1"} |-> "l"]

MCContents == {"text", "edited", "image", "encoded", "clip", "part", ""}
MCImages == {"image", "encoded"}
Alike(x, y, S) == x = y \/ {x, y} = S
MCCdcSim == [x \in MCContents |-> [y \in MCContents |->
  IF x = y THEN 1000 ELSE IF {x, y} = {"text", "edited"} THEN 700 ELSE 100]]
MCLookSim == [x \in MCImages |-> [y \in MCImages |-> IF x = y THEN 1000 ELSE 950]]
\* The part is contained in the clip, not the clip in the part.
MCClipSim == [x \in MCContents |-> [y \in MCContents |->
  IF x = y \/ <<x, y>> = <<"part", "clip">> THEN 1000 ELSE IF <<x, y>> = <<"clip", "part">> THEN 800 ELSE 0]]
MCThreshold == [t \in {"cdc", "perceptual", "audio", "video", "likeness"} |->
  CASE t = "cdc" -> 600 [] t = "audio" -> 750 [] t = "video" -> 800 [] OTHER -> 850]

MCAccounts == {alice, bob, carol}
\* A passport without a byte-level fingerprint.
MCPassports == {[asset |-> "a1", creator |-> alice, content |-> "image", cdc |-> FALSE, look |-> TRUE]}
MCRaws == {[asset |-> "a1", owner |-> alice, content |-> "text"],
           [asset |-> "a1", owner |-> alice, content |-> "edited"],
           [asset |-> "a3", owner |-> carol, content |-> "encoded"]}
MCClips == {[category |-> "video", asset |-> "v1", owner |-> alice, clip |-> "clip"],
            [category |-> "video", asset |-> "v2", owner |-> bob, clip |-> "part"],
            [category |-> "audio", asset |-> "v1", owner |-> carol, clip |-> "clip"]}

Mayla == <<"M", "a", "y", "l", "a">>
MCProtected == {[id |-> alice, names |-> <<Mayla>>, image |-> "image"],
                [id |-> carol, names |-> <<<<"r", "a", "y">>, <<"a", "y", "l", "1", "a">>>>, image |-> Null]}

Examined(category, subject, content, names) ==
  [category |-> category, subject |-> subject, publisher |-> subject, content |-> content, names |-> names]
MCCandidates ==
  {Examined("reuse", bob, "text", <<>>), Examined("reuse", carol, "image", <<>>), Examined("reuse", bob, "", <<>>),
   Examined("video", carol, "part", <<>>), Examined("video", alice, "clip", <<>>), Examined("audio", bob, "clip", <<>>),
   Examined("likeness", bob, "encoded", <<>>), Examined("likeness", alice, "image", <<>>),
   Examined("handle", bob, "", << <<"r", "n", "a", "y", "1", "a">> >>),
   Examined("handle", carol, "", << <<"m", "a", "y", "l", "a">>, <<"m", "a", "y", "l">> >>),
   Examined("handle", bob, "", << <<"m", "a", "y">> >>)}

NamesOf(S) == UNION {Range(x.names) : x \in S}
MCNames == NamesOf(MCCandidates) \union NamesOf(MCProtected)

MCOtherLinks == {[a |-> bob, b |-> carol, confidence |-> 400], [a |-> carol, b |-> alice, confidence |-> 950],
                 [a |-> bob, b |-> bob, confidence |-> 1001]}

================================================================================
