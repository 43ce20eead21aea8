--------------------------- MODULE MCPureFunctions ---------------------------
\* Inputs of PureFunctions for TLC.
EXTENDS PureFunctions, FiniteSets

MCLists == UNION {[1 .. n -> {0, 1, 128, 90}] : n \in 0 .. 3}
MCIndexes == -1 .. 25
MCWidths == {-1, 0, 1, 2, 3, 4, 7, 8, 9, 16, 17, 18}

MCIdentifiers == UNION {[1 .. n -> Pieces] : n \in 0 .. 5}

Partial(keys) == UNION {[dom -> Values] : dom \in SUBSET keys}

MCTokens ==
  [hasClaims : BOOLEAN, claims : Partial({"family_name", "username"})]
MCForms ==
  Partial({"family_name", "expiry_date", "estimated_expiry_date", "session_id"})
    \union {[key \in MandatoryPIDClaims |-> "text"]}
Short(items) == UNION {[1 .. n -> items] : n \in 0 .. 2}
MCObjects ==
  [jwt : Short({"p1", "p2", Empty, NotText}), attestation : Short({"p1", Empty, NotText}),
   rest : {<< >>, << "p1" >>, << NotText >>}, lists : BOOLEAN]
MCListObjects ==
  [jwt : Short({"p1", Empty}), attestation : Short({"p1", "p2"}), rest : {<< >>}, lists : {TRUE}]
MCSingles == {Empty, "p1", "p3"}
MCBodies ==
  [shape : {"map", "array"}, objects : [1 .. 1 -> MCObjects], single : MCSingles]
    \union [shape : {"array"}, single : MCSingles, objects : [1 .. 2 -> MCListObjects]]
    \union [shape : {"other"}, objects : {<< >>}, single : MCSingles]

MCSettings == {"config", "empty"}

MCRoutes == {NoSegment, "credential", "nonce", "wallet"}
URL(host, path) == [parses |-> TRUE, host |-> host, path |-> path]
MCPublicURLs == {URL("issuer", path) : path \in {<< >>, << NoSegment >>, << "wallet" >>}}
MCURLs ==
  {URL("proxy", path) : path \in UNION {[1 .. n -> MCRoutes] : n \in 0 .. 3}}
    \union {URL("issuer", << "credential" >>), URL("issuer", << "nonce" >>),
            [URL("proxy", << "credential" >>) EXCEPT !.parses = FALSE]}
MCURLLists ==
  {<< >>} \union [1 .. 1 -> MCURLs]
    \union [1 .. 2 -> {u \in MCURLs : Len(u.path) < 3}]
=============================================================================
