-------------------------- MODULE PureFunctionsProofs --------------------------
(***************************************************************************)
(* Proofs that the pure functions of the issuer are what PureFunctions     *)
(* says of them, for every input.  A behaviour does no more than pick a    *)
(* function and an input for it; what is proved is about the functions.    *)
(* Where one is defined by recursion, the induction is about a set of      *)
(* numbers (AllNumbers), from the well-foundedness of the naturals.        *)
(***************************************************************************)
EXTENDS PureFunctions, FiniteSetTheorems, SequenceTheorems, WellFoundedInduction, TLAPS

\* The input is one for the function picked.
InputTyped ==
  /\ picked = "isIndexListed" => input \in [list : Lists, index : Indexes, width : Widths]
  /\ picked = "splitHolderIdentifier" => input \in [identifier : Identifiers]
  /\ picked = "buildPIDClaims" =>
       input \in [token : Tokens, form : Forms, country : Settings, authority : Settings]
  /\ picked = "UnmarshalJSON" => input \in Bodies
  /\ picked = "buildExtraHTUs" => input \in [publicURL : PublicURLs, accepted : URLLists]

\* Every input is one for the function picked.
THEOREM InputsTyped == Spec => []InputTyped
<1>1. Init => InputTyped
  BY DEF Init, InputTyped
<1>2. InputTyped /\ [Next]_vars => InputTyped'
  BY DEF InputTyped, Next, vars, StatusLookup, IdentifierSplit, ClaimsBuilt, ProofsCollected,
         HTUsGrouped, Answered, Choose
<1> QED
  BY <1>1, <1>2, PTL DEF Spec

-----------------------------------------------------------------------------

\* A PID claim taken from the user data is a text or empty.
LEMMA TextIsText ==
  ASSUME NEW u, NEW key
  PROVE  Text(u, key) \in {"text", "empty"}
  BY DEF Text

\* A PID carries only texts, whatever the token and the form hold.
THEOREM PIDClaimsTyped == Spec => []PIDClaimsAreTexts
<1>1. InputTyped => PIDClaimsAreTexts
  <2> SUFFICES ASSUME InputTyped, picked = "buildPIDClaims" PROVE PIDClaimsAreTexts
    BY DEF PIDClaimsAreTexts
  <2> DEFINE u == UserData(input.token, input.form)
             always == [family_name     |-> Text(u, "family_name"),
                        given_name      |-> Text(u, "given_name"),
                        issuing_country |-> OrConfig(Text(u, "issuing_country"), input.country),
                        issuance_date   |-> OrConfig(Text(u, "issuance_date"), "today"),
                        expiry_date     |-> ExpiryDate(u)]
             optional == [personal_administrative_number |->
                            Text(u, "personal_administrative_number"),
                          issuing_authority |->
                            OrConfig(Text(u, "issuing_authority"), input.authority)]
             given == Restrict(optional, {key \in DOMAIN optional : optional[key] # "empty"})
             pid == buildPIDClaims(u, input.country, input.authority)
  <2>1. input.country \in {"config", "empty"} /\ input.authority \in {"config", "empty"}
    BY InputAssumption DEF InputTyped
  <2>2. pid = Over(always, given)
    BY DEF buildPIDClaims
  <2> HIDE DEF u
  <2>3. DOMAIN always = {"family_name", "given_name", "issuing_country", "issuance_date",
                         "expiry_date"}
    OBVIOUS
  <2>4. \A key \in DOMAIN always : always[key] \in {"text", "empty"} \union Supplied
    <3>1. /\ Text(u, "family_name") \in {"text", "empty"}
          /\ Text(u, "given_name") \in {"text", "empty"}
          /\ OrConfig(Text(u, "issuing_country"), input.country) \in {"text", "empty", "config"}
          /\ OrConfig(Text(u, "issuance_date"), "today") \in {"text", "today"}
          /\ ExpiryDate(u) \in {"text", "today + PIDExpiry"}
      BY <2>1, TextIsText DEF OrConfig, ExpiryDate
    <3>2. /\ always["family_name"] = Text(u, "family_name")
          /\ always["given_name"] = Text(u, "given_name")
          /\ always["issuing_country"] = OrConfig(Text(u, "issuing_country"), input.country)
          /\ always["issuance_date"] = OrConfig(Text(u, "issuance_date"), "today")
          /\ always["expiry_date"] = ExpiryDate(u)
      OBVIOUS
    <3> HIDE DEF always
    <3> QED
      BY <2>3, <3>1, <3>2 DEF Supplied
  <2>5. /\ DOMAIN given \subseteq {"personal_administrative_number", "issuing_authority"}
        /\ \A key \in DOMAIN given : given[key] \in {"text", "empty"} \union Supplied
        /\ "issuing_authority" \notin DOMAIN given => input.authority = "empty"
    <3>1. /\ DOMAIN optional = {"personal_administrative_number", "issuing_authority"}
          /\ \A key \in DOMAIN optional : optional[key] \in {"text", "empty"} \union Supplied
      <4>1. /\ Text(u, "personal_administrative_number") \in {"text", "empty"}
            /\ OrConfig(Text(u, "issuing_authority"), input.authority)
                 \in {"text", "empty", "config"}
        BY <2>1, TextIsText DEF OrConfig
      <4>2. /\ DOMAIN optional = {"personal_administrative_number", "issuing_authority"}
            /\ optional["personal_administrative_number"] =
                 Text(u, "personal_administrative_number")
            /\ optional["issuing_authority"] =
                 OrConfig(Text(u, "issuing_authority"), input.authority)
        OBVIOUS
      <4> HIDE DEF optional
      <4> QED
        BY <4>1, <4>2 DEF Supplied
    <3>2. optional["issuing_authority"] = "empty" => input.authority = "empty"
      BY <2>1, TextIsText DEF OrConfig
    <3> HIDE DEF optional
    <3> QED
      BY <3>1, <3>2 DEF Restrict
  <2>6. /\ always["expiry_date"] # "empty" /\ always["issuance_date"] # "empty"
        /\ always["issuing_country"] = "empty" => input.country = "empty"
    <3>1. /\ always["expiry_date"] = ExpiryDate(u)
          /\ always["issuance_date"] = OrConfig(Text(u, "issuance_date"), "today")
          /\ always["issuing_country"] = OrConfig(Text(u, "issuing_country"), input.country)
      OBVIOUS
    <3> HIDE DEF always
    <3> QED
      BY <2>1, <3>1, TextIsText DEF OrConfig, ExpiryDate
  <2> HIDE DEF always, given
  <2>7. DOMAIN pid = DOMAIN always \union DOMAIN given
    BY <2>2 DEF Over
  <2>8. \A key \in DOMAIN pid :
          pid[key] = IF key \in DOMAIN always THEN always[key] ELSE given[key]
    BY <2>2 DEF Over
  <2> HIDE DEF pid
  <2>9. /\ \A key \in DOMAIN pid : pid[key] \in {"text", "empty"} \union Supplied
        /\ pid["expiry_date"] # "empty" /\ pid["issuance_date"] # "empty"
        /\ "issuing_authority" \notin DOMAIN pid => input.authority = "empty"
        /\ pid["issuing_country"] = "empty" => input.country = "empty"
    BY <2>3, <2>4, <2>5, <2>6, <2>7, <2>8
  <2> QED
    BY <2>9 DEF PIDClaimsAreTexts, pid, u
<1> QED
  BY <1>1, InputsTyped, PTL

\* No bookkeeping name is ever disclosed, and every other entry of the form is.
THEOREM InternalNamesStayInternal == Spec => []InternalNamesNeverMinted
<1>1. InternalNamesNeverMinted
  BY DEF InternalNamesNeverMinted, genericClaims, genericExcludedClaims, UserData, Over, Restrict
<1> QED
  BY <1>1, PTL
-----------------------------------------------------------------------------

\* An identifier has the scheme PNOLV if its first two pieces are the name and
\* a hyphen.
LEMMA SchemePieces ==
  ASSUME NEW id \in Seq(Pieces)
  PROVE  HasScheme(id) <=> Len(id) >= 2 /\ id[1] = "PNOLV" /\ id[2] = "-"
<1> DEFINE scheme == << "PNOLV", "-" >>
<1>1. HasScheme(id) <=> 2 <= Len(id) /\ SubSeq(scheme, 1, 2) = SubSeq(id, 1, 2)
  BY DEF HasScheme, IsPrefix
<1>2. ASSUME 2 <= Len(id)
      PROVE  SubSeq(scheme, 1, 2) = SubSeq(id, 1, 2) <=> id[1] = "PNOLV" /\ id[2] = "-"
  <2>1. /\ Len(SubSeq(id, 1, 2)) = 2 /\ SubSeq(id, 1, 2) \in Seq(Pieces)
        /\ SubSeq(id, 1, 2)[1] = id[1] /\ SubSeq(id, 1, 2)[2] = id[2]
    BY <1>2
  <2>2. /\ SubSeq(scheme, 1, 2) \in Seq(Pieces) /\ Len(SubSeq(scheme, 1, 2)) = 2
        /\ SubSeq(scheme, 1, 2)[1] = "PNOLV" /\ SubSeq(scheme, 1, 2)[2] = "-"
    BY DEF Pieces
  <2> QED
    BY <2>1, <2>2
<1> QED
  BY <1>1, <1>2

\* The scheme PNOLV is cut off and nothing else, and an identifier without a
\* hyphen is left alone, for identifiers of any length.
THEOREM KnownSchemesSplit == Spec => []KnownSchemeSplit
<1>1. ASSUME NEW id \in Seq(Pieces), HasScheme(id)
      PROVE  /\ splitHolderIdentifier(id).type = "PNOLV"
             /\ << "PNOLV", "-" >> \o splitHolderIdentifier(id).value = id
  <2>1. Len(id) >= 2 /\ id[1] = "PNOLV" /\ id[2] = "-" /\ Len(id) \in Nat
    BY <1>1, SchemePieces
  <2> DEFINE I == {i \in 1 .. Len(id) : id[i] = "-"}
  <2>2. 2 \in I /\ 1 \notin I /\ I \subseteq Nat \ {0}
    BY <2>1
  <2>3. Hyphen(id) = CHOOSE x \in I : \A y \in I : x <= y
    BY <2>2 DEF Hyphen, SelectInSeq, Min
  <2>4. \A y \in I : 2 <= y
    BY <2>2
  <2> HIDE DEF I
  <2>5. Hyphen(id) = 2
    <3>1. \A x \in I : (\A y \in I : x <= y) => x = 2
      BY <2>2, <2>4
    <3> QED
      BY <2>2, <2>3, <2>4, <3>1
  <2>6. splitHolderIdentifier(id) = [type |-> "PNOLV", value |-> SubSeq(id, 3, Len(id))]
    BY <1>1, <2>5 DEF splitHolderIdentifier
  <2>7. << "PNOLV", "-" >> \o SubSeq(id, 3, Len(id)) = id
    BY <2>1
  <2> QED
    BY <2>6, <2>7
<1>2. ASSUME NEW id \in Seq(Pieces), "-" \notin ToSet(id)
      PROVE  splitHolderIdentifier(id) = [type |-> "person_code", value |-> id]
  <2>1. \A i \in 1 .. Len(id) : id[i] # "-"
    BY <1>2 DEF ToSet
  <2>2. ~HasScheme(id)
    BY <2>1, SchemePieces
  <2>3. Hyphen(id) = 0
    BY <2>1 DEF Hyphen, SelectInSeq
  <2> QED
    BY <2>2, <2>3 DEF splitHolderIdentifier
<1>3. InputTyped => KnownSchemeSplit
  BY <1>1, <1>2, InputAssumption DEF InputTyped, KnownSchemeSplit
<1> QED
  BY <1>3, InputsTyped, PTL
-----------------------------------------------------------------------------

\* Every set of naturals that is not empty has a least member.
LEMMA LeastNumber ==
  ASSUME NEW T, T \subseteq Nat, T # {}
  PROVE  \E x \in T : \A y \in T : x <= y
<1> DEFINE R == OpToRel(<, Nat)
<1>1. IsWellFoundedOn(R, Nat)
  BY NatLessThanWellFounded
<1>2. \A x, y \in Nat : x < y => <<x, y>> \in R
  BY DEF OpToRel
<1> HIDE DEF R
<1>3. PICK x \in T : \A y \in T : ~ (<<y, x>> \in R)
  BY <1>1, WFMin
<1>4. ASSUME NEW y \in T PROVE x <= y
  <2>1. x \in Nat /\ y \in Nat /\ ~(y < x)
    BY <1>2, <1>3
  <2> QED
    BY <2>1
<1> QED
  BY <1>4

\* Every set of naturals up to n that is not empty has a greatest member.
LEMMA GreatestNumber ==
  ASSUME NEW n \in Nat, NEW T, T \subseteq 1 .. n, T # {}
  PROVE  \E x \in T : \A y \in T : y <= x
<1> DEFINE D == {n - x : x \in T}
<1>1. D \subseteq Nat /\ D # {}
  <2>1. \A x \in T : n - x \in Nat
    OBVIOUS
  <2> QED
    BY <2>1
<1>2. PICK d \in D : \A e \in D : d <= e
  BY <1>1, LeastNumber
<1>3. PICK x \in T : d = n - x
  OBVIOUS
<1>4. ASSUME NEW y \in T PROVE y <= x
  <2>1. n - x <= n - y
    BY <1>2, <1>3
  <2>2. x \in Int /\ y \in Int
    OBVIOUS
  <2> QED
    BY <2>1, <2>2
<1> QED
  BY <1>4

\* A greatest member is the one CHOOSE takes.
LEMMA GreatestChosen ==
  ASSUME NEW T, T \subseteq Nat, NEW x \in T, \A y \in T : y <= x
  PROVE  (CHOOSE n \in T : \A m \in T : m <= n) = x
<1>1. ASSUME NEW n \in T, \A m \in T : m <= n PROVE n = x
  <2>1. n \in Nat /\ x \in Nat /\ n <= x /\ x <= n
    BY <1>1
  <2> QED
    BY <2>1
<1> QED
  BY <1>1

\* What is left of a path ends with its last segment that is not empty.
LEMMA TrimmedPathEnds ==
  ASSUME NEW path, NEW n \in Nat, DOMAIN path = 1 .. n,
         NEW last \in 1 .. n, path[last] # NoSegment,
         \A m \in 1 .. n : m > last => path[m] = NoSegment
  PROVE  TrimmedPath(path) = SubSeq(path, 1, last)
<1> DEFINE kept == {m \in DOMAIN path : path[m] # NoSegment}
<1>1. last \in kept /\ kept \subseteq Nat
  OBVIOUS
<1>2. \A m \in kept : m <= last
  OBVIOUS
<1>3. TrimmedPath(path) = SubSeq(path, 1, CHOOSE x \in kept : \A m \in kept : m <= x)
  BY <1>1 DEF TrimmedPath
<1> HIDE DEF kept
<1>4. (CHOOSE x \in kept : \A m \in kept : m <= x) = last
  BY <1>1, <1>2, GreatestChosen
<1> QED
  BY <1>3, <1>4

\* The last segment of what is left of a path.
LEMMA LastOfStart ==
  ASSUME NEW S, NEW path \in Seq(S), NEW last \in 1 .. Len(path)
  PROVE  SubSeq(path, 1, last) # << >> /\ Last(SubSeq(path, 1, last)) = path[last]
<1>1. Len(SubSeq(path, 1, last)) = last /\ SubSeq(path, 1, last)[last] = path[last]
  BY SubSeqProperties, LenProperties
<1>2. last # 0 /\ Len(<< >>) = 0
  BY LenProperties
<1> QED
  BY <1>1, <1>2 DEF Last

\* The route of a URL is its last segment that is not empty, if any.
LEMMA LocalPathNames ==
  ASSUME NEW S, NEW url, url.path \in Seq(S), NEW route
  PROVE  LocalPath(url) = route <=> NamesEndpoint(url, route)
<1> DEFINE path == url.path
<1>1. path \in Seq(S) /\ Len(path) \in Nat /\ DOMAIN path = 1 .. Len(path)
  BY LenProperties
<1>2. LocalPath(url) = IF TrimmedPath(path) = << >> THEN NoSegment ELSE Last(TrimmedPath(path))
  BY DEF LocalPath
<1>3. NamesEndpoint(url, route) <=>
        IF route = NoSegment THEN \A n \in DOMAIN path : path[n] = NoSegment
        ELSE \E n \in DOMAIN path :
               path[n] = route /\ \A m \in DOMAIN path : m > n => path[m] = NoSegment
  BY DEF NamesEndpoint
<1> HIDE DEF path
<1>4. CASE \A n \in DOMAIN path : path[n] = NoSegment
  <2>1. {n \in DOMAIN path : path[n] # NoSegment} = {}
    BY <1>4
  <2>2. TrimmedPath(path) = SubSeq(path, 1, 0)
    BY <2>1 DEF TrimmedPath
  <2>3. TrimmedPath(path) = << >>
    BY <1>1, <2>2
  <2> QED
    BY <1>2, <1>3, <1>4, <2>3
<1>5. CASE \E n \in DOMAIN path : path[n] # NoSegment
  <2> DEFINE kept == {n \in 1 .. Len(path) : path[n] # NoSegment}
  <2>1. kept # {} /\ kept \subseteq 1 .. Len(path)
    BY <1>1, <1>5
  <2>2. PICK last \in kept : \A m \in kept : m <= last
    BY <1>1, <2>1, GreatestNumber
  <2>3. last \in 1 .. Len(path) /\ path[last] # NoSegment
    BY <2>2
  <2>4. ASSUME NEW m \in 1 .. Len(path), m > last PROVE path[m] = NoSegment
    <3>1. m \notin kept
      <4>1. m \in Int /\ last \in Int
        BY <1>1, <2>3
      <4> QED
        BY <2>2, <2>4, <4>1
    <3> QED
      BY <3>1
  <2> HIDE DEF kept
  <2>5. TrimmedPath(path) = SubSeq(path, 1, last)
    BY <1>1, <2>3, <2>4, TrimmedPathEnds
  <2>6. LocalPath(url) = path[last]
    BY <1>1, <1>2, <2>3, <2>5, LastOfStart
  <2>7. ASSUME NEW n \in DOMAIN path, path[n] # NoSegment,
               \A m \in DOMAIN path : m > n => path[m] = NoSegment
        PROVE  n = last
    <3>1. n \in Int /\ last \in Int
      BY <1>1, <2>3
    <3>2. ~(n > last) /\ ~(last > n)
      BY <1>1, <2>3, <2>4, <2>7
    <3> QED
      BY <3>1, <3>2
  <2>8. CASE route = NoSegment
    BY <1>1, <1>3, <2>3, <2>6, <2>8
  <2>9. CASE route # NoSegment
    <3>1. \A m \in DOMAIN path : m > last => path[m] = NoSegment
      BY <1>1, <2>4
    <3>2. NamesEndpoint(url, route) => path[last] = route
      <4>1. ASSUME NamesEndpoint(url, route) PROVE path[last] = route
        <5>1. PICK n \in DOMAIN path :
                path[n] = route /\ \A m \in DOMAIN path : m > n => path[m] = NoSegment
          BY <1>3, <2>9, <4>1
        <5> QED
          BY <2>7, <2>9, <5>1
      <4> QED
        BY <4>1
    <3>3. path[last] = route => NamesEndpoint(url, route)
      BY <1>1, <1>3, <2>3, <2>9, <3>1
    <3> QED
      BY <2>6, <3>2, <3>3
  <2> QED
    BY <2>8, <2>9
<1> QED
  BY <1>4, <1>5

\* A URL is accepted at a route if it is in the list, parses and is of that route.
LEMMA AcceptedURLs ==
  ASSUME NEW urls, NEW route, NEW u \in ToSet(urls)
  PROVE  HTUAccepted(NewValidator(urls), route, u) <=> u.parses /\ LocalPath(u) = route
<1>1. PICK i \in DOMAIN urls : urls[i] = u
  BY DEF ToSet
<1>2. ASSUME HTUAccepted(NewValidator(urls), route, u) PROVE u.parses /\ LocalPath(u) = route
  BY <1>2 DEF HTUAccepted, NewValidator, buildExtraHTUs
<1>3. ASSUME u.parses, LocalPath(u) = route PROVE HTUAccepted(NewValidator(urls), route, u)
  BY <1>1, <1>3 DEF HTUAccepted, NewValidator, buildExtraHTUs
<1> QED
  BY <1>2, <1>3

\* A DPoP proof is accepted exactly at the endpoint its URL names, for any
\* public URL, any configured list and any slashes.
THEOREM HTUsBoundToEndpoints == Spec => []HTUBoundToEndpoint
<1>1. ASSUME NEW publicURL \in PublicURLs, NEW accepted \in URLLists
      PROVE  LET configured == ToSet(ConfiguredHTUs(publicURL, accepted))
                 htus == NewValidator(ConfiguredHTUs(publicURL, accepted))
                 endpoint == ConfiguredHTUs(publicURL, << >>)[1]
                 Accepted(route) == {u \in configured : HTUAccepted(htus, route, u)}
             IN  /\ \A route \in Routes :
                      Accepted(route) = {u \in configured : u.parses /\ NamesEndpoint(u, route)}
                 /\ endpoint \in Accepted("credential")
                 /\ \A r1, r2 \in Routes : r1 # r2 => Accepted(r1) \intersect Accepted(r2) = {}
  <2> DEFINE urls == ConfiguredHTUs(publicURL, accepted)
             configured == ToSet(urls)
             endpoint == [publicURL EXCEPT !.path = Append(publicURL.path, "credential")]
             Accepted(route) == {u \in configured : HTUAccepted(NewValidator(urls), route, u)}
  <2>1. accepted \in Seq(URLs) /\ publicURL \in URLs /\ publicURL.parses
    BY InputAssumption
  <2>2. urls \in Seq(URLs) /\ urls # << >> /\ urls[1] = endpoint
        /\ endpoint.parses /\ NamesEndpoint(endpoint, "credential")
        /\ endpoint = ConfiguredHTUs(publicURL, << >>)[1]
    <3>1. publicURL.path \in Seq(Routes) /\ "credential" \in Routes
      BY <2>1, InputAssumption DEF URLs
    <3>2. /\ endpoint.path = Append(publicURL.path, "credential")
          /\ endpoint \in URLs /\ endpoint.parses
      <4> DEFINE longer == Append(publicURL.path, "credential")
      <4>1. longer \in Seq(Routes)
        BY <3>1, AppendProperties
      <4> HIDE DEF longer
      <4>2. endpoint = [publicURL EXCEPT !.path = longer]
        BY DEF longer
      <4>3. endpoint.path = longer /\ endpoint \in URLs /\ endpoint.parses
        BY <2>1, <4>1, <4>2 DEF URLs
      <4> QED
        BY <4>3 DEF longer
    <3>3. urls = << endpoint >> \o accepted /\ ConfiguredHTUs(publicURL, << >>) = << endpoint >> \o << >>
      BY DEF ConfiguredHTUs
    <3>4. urls \in Seq(URLs) /\ urls # << >> /\ urls[1] = endpoint
      BY <2>1, <3>2, <3>3
    <3>5. (<< endpoint >> \o << >>)[1] = endpoint
      OBVIOUS
    <3>6. NamesEndpoint(endpoint, "credential")
      <4> DEFINE n == Len(publicURL.path) + 1
      <4>1. /\ n \in DOMAIN endpoint.path /\ endpoint.path[n] = "credential"
            /\ \A m \in DOMAIN endpoint.path : ~(m > n)
        <5>1. /\ Len(endpoint.path) = n /\ DOMAIN endpoint.path = 1 .. n
              /\ endpoint.path[n] = "credential" /\ n \in Nat \ {0}
          BY <3>1, <3>2, AppendProperties, LenProperties
        <5> HIDE DEF n, endpoint
        <5> QED
          BY <5>1
      <4>2. "credential" # NoSegment
        BY DEF NoSegment
      <4> QED
        BY <4>1, <4>2 DEF NamesEndpoint
    <3> QED
      BY <3>2, <3>3, <3>4, <3>5, <3>6
  <2>3. endpoint \in configured
    BY <2>2 DEF ToSet
  <2>4. \A u \in configured : u \in URLs
    BY <2>2 DEF ToSet
  <2>5. ASSUME NEW u \in configured, NEW route
        PROVE  HTUAccepted(NewValidator(urls), route, u) <=>
                 u.parses /\ NamesEndpoint(u, route)
    <3>1. u.path \in Seq(Routes)
      BY <2>4 DEF URLs
    <3>2. HTUAccepted(NewValidator(urls), route, u) <=> u.parses /\ LocalPath(u) = route
      BY AcceptedURLs
    <3> QED
      BY <3>1, <3>2, LocalPathNames
  <2>6. \A u \in configured : \A r1, r2 \in Routes :
          u \in Accepted(r1) /\ u \in Accepted(r2) => r1 = r2
    BY AcceptedURLs
  <2> HIDE DEF configured, urls, endpoint
  <2>7. \A route \in Routes :
          Accepted(route) = {u \in configured : u.parses /\ NamesEndpoint(u, route)}
    BY <2>5
  <2>8. endpoint \in Accepted("credential")
    BY <2>2, <2>3, <2>5
  <2>9. \A r1, r2 \in Routes : r1 # r2 => Accepted(r1) \intersect Accepted(r2) = {}
    BY <2>6
  <2> QED
    BY <2>2, <2>7, <2>8, <2>9 DEF configured, urls
<1>2. InputTyped => HTUBoundToEndpoint
  BY <1>1 DEF InputTyped, HTUBoundToEndpoint
<1> QED
  BY <1>2, InputsTyped, PTL
-----------------------------------------------------------------------------

\* Induction: a set with 0 and with the successor of each of its numbers has them
\* all.
LEMMA AllNumbers ==
  ASSUME NEW T, 0 \in T, \A n \in Nat : n \in T => n + 1 \in T
  PROVE  Nat \subseteq T
<1> DEFINE without == Nat \ T
<1>1. ASSUME without # {} PROVE FALSE
  <2>1. PICK n \in without : \A m \in without : n <= m
    BY <1>1, LeastNumber
  <2>2. n \in Nat /\ n \notin T /\ n # 0
    BY <2>1
  <2>3. n - 1 \in Nat /\ (n - 1) + 1 = n /\ ~(n <= n - 1)
    BY <2>2
  <2>4. n - 1 \in T
    BY <2>1, <2>3
  <2> QED
    BY <2>2, <2>3, <2>4
<1> QED
  BY <1>1

\* Steps of a recursion over the numbers up to k, and what it defines from b on.
Steps(k, V) == [1 .. k -> [V -> V]]
Recursion(f, k, V, b, h) ==
  f \in [0 .. k -> V] /\ f[0] = b /\ \A n \in 1 .. k : f[n] = h[n][f[n - 1]]

\* A recursion defines something.
LEMMA RecursionExists ==
  ASSUME NEW k \in Nat, NEW V, NEW b \in V, NEW h \in Steps(k, V)
  PROVE  \E f : Recursion(f, k, V, b, h)
<1> DEFINE Is(f, l) == /\ f \in [0 .. l -> V] /\ f[0] = b
                       /\ \A n \in 1 .. l : f[n] = h[n][f[n - 1]]
           with == {l \in Nat : l <= k => \E f : Is(f, l)}
<1>1. 0 \in with
  <2>1. Is([n \in 0 .. 0 |-> b], 0)
    OBVIOUS
  <2> HIDE DEF Is
  <2> QED
    BY <2>1
<1>2. ASSUME NEW l \in Nat, l \in with PROVE l + 1 \in with
  <2> HIDE DEF Is
  <2> SUFFICES ASSUME l + 1 <= k PROVE \E f : Is(f, l + 1)
    OBVIOUS
  <2>1. l <= k /\ l + 1 \in 1 .. k
    OBVIOUS
  <2>2. PICK f : Is(f, l)
    BY <1>2, <2>1
  <2> USE DEF Is
  <2> DEFINE longer == [n \in 0 .. l + 1 |-> IF n = l + 1 THEN h[l + 1][f[l]] ELSE f[n]]
  <2>3. h[l + 1][f[l]] \in V /\ \A n \in 0 .. l : f[n] \in V
    <3>1. f[l] \in V /\ \A n \in 0 .. l : f[n] \in V
      BY <2>2
    <3>2. h[l + 1] \in [V -> V]
      BY <2>1 DEF Steps
    <3> QED
      BY <3>1, <3>2
  <2>4. \A n \in 0 .. l + 1 : n = l + 1 \/ n \in 0 .. l
    OBVIOUS
  <2>5. longer \in [0 .. l + 1 -> V]
    BY <2>3, <2>4
  <2>6. longer[0] = b
    BY <2>2
  <2>7. ASSUME NEW n \in 1 .. l + 1 PROVE longer[n] = h[n][longer[n - 1]]
    <3>1. n - 1 \in 0 .. l /\ n - 1 \in 0 .. l + 1 /\ n - 1 # l + 1 /\ n \in 0 .. l + 1
      OBVIOUS
    <3>2. longer[n - 1] = f[n - 1]
      BY <3>1
    <3>3. CASE n = l + 1
      <4>1. n - 1 = l /\ longer[n] = h[l + 1][f[l]]
        BY <3>1, <3>3
      <4> HIDE DEF longer
      <4> QED
        BY <3>2, <3>3, <4>1
    <3>4. CASE n # l + 1
      <4>1. n \in 1 .. l /\ longer[n] = f[n]
        BY <3>1, <3>4
      <4>2. f[n] = h[n][f[n - 1]]
        BY <2>2, <4>1
      <4> HIDE DEF longer
      <4> QED
        BY <3>2, <4>1, <4>2
    <3> QED
      BY <3>3, <3>4
  <2>8. Is(longer, l + 1)
    BY <2>5, <2>6, <2>7
  <2> HIDE DEF Is, longer
  <2> QED
    BY <2>8
<1> HIDE DEF with
<1>3. k \in with
  BY <1>1, <1>2, AllNumbers
<1>4. PICK f : Is(f, k)
  BY <1>3 DEF with
<1> QED
  BY <1>4 DEF Recursion

\* The powers of two exist up to every number.
LEMMA PowersExist ==
  ASSUME NEW i \in Nat
  PROVE  \E f : f = [n \in 0 .. i |-> IF n = 0 THEN 1 ELSE 2 * f[n - 1]]
<1>1. PICK h \in Steps(i, Int) : \A n \in 1 .. i : \A v \in Int : h[n][v] = 2 * v
  <2> DEFINE h == [n \in 1 .. i |-> [v \in Int |-> 2 * v]]
  <2>1. h \in Steps(i, Int) /\ \A n \in 1 .. i : \A v \in Int : h[n][v] = 2 * v
    BY DEF Steps
  <2> HIDE DEF h
  <2> QED
    BY <2>1
<1>2. PICK f : Recursion(f, i, Int, 1, h)
  BY RecursionExists
<1>3. ASSUME NEW n \in 0 .. i PROVE f[n] = IF n = 0 THEN 1 ELSE 2 * f[n - 1]
  <2>1. n # 0 => n \in 1 .. i /\ f[n - 1] \in Int
    BY <1>2 DEF Recursion
  <2>2. n # 0 => f[n] = h[n][f[n - 1]]
    BY <1>2, <2>1 DEF Recursion
  <2>3. n = 0 => f[n] = 1
    BY <1>2 DEF Recursion
  <2> QED
    BY <1>1, <2>1, <2>2, <2>3
<1> QED
  BY <1>2, <1>3 DEF Recursion

\* The recursion of Power gives a positive number.
LEMMA PowerPositive ==
  ASSUME NEW i \in Nat
  PROVE  Power(i) \in Nat \ {0}
<1> DEFINE power == CHOOSE f : f = [n \in 0 .. i |-> IF n = 0 THEN 1 ELSE 2 * f[n - 1]]
           right == {n \in Nat : n \in 0 .. i => power[n] \in Nat \ {0}}
<1>1. power = [n \in 0 .. i |-> IF n = 0 THEN 1 ELSE 2 * power[n - 1]]
  BY PowersExist
<1>2. Power(i) = power[i]
  BY DEF Power
<1> HIDE DEF power
<1>3. \A n \in 0 .. i : power[n] = IF n = 0 THEN 1 ELSE 2 * power[n - 1]
  BY <1>1
<1>4. 0 \in right
  BY <1>3
<1>5. ASSUME NEW n \in Nat, n \in right PROVE n + 1 \in right
  <2>1. ASSUME n + 1 \in 0 .. i PROVE power[n + 1] \in Nat \ {0}
    <3>1. n \in 0 .. i /\ n + 1 # 0 /\ (n + 1) - 1 = n
      BY <2>1
    <3>2. power[n] \in Nat \ {0}
      BY <1>5, <3>1
    <3>3. power[n + 1] = 2 * power[n]
      BY <1>3, <2>1, <3>1
    <3> QED
      BY <3>2, <3>3
  <2> QED
    BY <2>1
<1> HIDE DEF right
<1>6. i \in right
  BY <1>4, <1>5, AllNumbers
<1> QED
  BY <1>2, <1>6 DEF right

\* The sums of the first numbers of a series exist.
LEMMA SumsExist ==
  ASSUME NEW k \in Nat, NEW g \in [0 .. k - 1 -> Nat]
  PROVE  \E f : f = [i \in 0 .. k |-> IF i = 0 THEN 0 ELSE f[i - 1] + g[i - 1]]
<1>1. PICK h \in Steps(k, Int) :
        \A i \in 1 .. k : \A v \in Int : h[i][v] = v + g[i - 1]
  <2> DEFINE h == [i \in 1 .. k |-> [v \in Int |-> v + g[i - 1]]]
  <2>1. \A i \in 1 .. k : g[i - 1] \in Int
    OBVIOUS
  <2>2. h \in Steps(k, Int)
    BY <2>1 DEF Steps
  <2>3. \A i \in 1 .. k : \A v \in Int : h[i][v] = v + g[i - 1]
    OBVIOUS
  <2> HIDE DEF h
  <2> QED
    BY <2>2, <2>3
<1>2. PICK f : Recursion(f, k, Int, 0, h)
  <2>1. \A v \in Int : \E f : Recursion(f, k, Int, v, h)
    BY RecursionExists
  <2> QED
    BY <2>1
<1>3. ASSUME NEW i \in 0 .. k PROVE f[i] = IF i = 0 THEN 0 ELSE f[i - 1] + g[i - 1]
  <2>1. i # 0 => i \in 1 .. k /\ f[i - 1] \in Int
    BY <1>2 DEF Recursion
  <2>2. i # 0 => f[i] = h[i][f[i - 1]]
    BY <1>2, <2>1 DEF Recursion
  <2>3. i = 0 => f[i] = 0
    BY <1>2 DEF Recursion
  <2> QED
    BY <1>1, <2>1, <2>2, <2>3
<1>4. f = [i \in 0 .. k |-> f[i]]
  BY <1>2 DEF Recursion
<1>5. f = [i \in 0 .. k |-> IF i = 0 THEN 0 ELSE f[i - 1] + g[i - 1]]
  BY <1>3, <1>4
<1> QED
  BY <1>5

\* A sum of naturals is 0 exactly if each of them is.
LEMMA SumIsZero ==
  ASSUME NEW k \in Nat, NEW g \in [0 .. k - 1 -> Nat], NEW f,
         \A i \in 0 .. k : f[i] = IF i = 0 THEN 0 ELSE f[i - 1] + g[i - 1]
  PROVE  f[k] = 0 <=> \A j \in 0 .. k - 1 : g[j] = 0
<1> DEFINE Fits(n) == f[n] \in Nat /\ (f[n] = 0 <=> \A j \in 0 .. n - 1 : g[j] = 0)
           right == {n \in Nat : n <= k => Fits(n)}
<1>1. \A n \in 0 .. k : f[n] = IF n = 0 THEN 0 ELSE f[n - 1] + g[n - 1]
  OBVIOUS
<1>2. 0 \in right
  <2>1. f[0] = 0
    BY <1>1
  <2> QED
    BY <2>1
<1>3. ASSUME NEW n \in Nat, n \in right PROVE n + 1 \in right
  <2> SUFFICES ASSUME n + 1 <= k PROVE Fits(n + 1)
    OBVIOUS
  <2>1. n <= k /\ n \in 0 .. k - 1 /\ n + 1 \in 0 .. k /\ (n + 1) - 1 = n /\ n + 1 # 0
    OBVIOUS
  <2>2. Fits(n) /\ g[n] \in Nat
    BY <1>3, <2>1
  <2>3. f[n + 1] = f[n] + g[n]
    BY <1>1, <2>1
  <2>4. \A j : j \in 0 .. (n + 1) - 1 <=> j \in 0 .. n - 1 \/ j = n
    OBVIOUS
  <2>5. (\A j \in 0 .. (n + 1) - 1 : g[j] = 0) <=> (\A j \in 0 .. n - 1 : g[j] = 0) /\ g[n] = 0
    BY <2>4
  <2>6. f[n + 1] \in Nat /\ (f[n + 1] = 0 <=> f[n] = 0 /\ g[n] = 0)
    BY <2>2, <2>3
  <2> QED
    BY <2>2, <2>5, <2>6
<1> HIDE DEF right
<1>4. k \in right
  BY <1>2, <1>3, AllNumbers
<1> QED
  BY <1>4 DEF right

\* A number is beyond a quotient if its multiple is beyond the dividend.
LEMMA BeyondQuotient ==
  ASSUME NEW a \in Nat, NEW w \in Nat \ {0}, NEW k \in Nat
  PROVE  k > a \div w <=> k * w > a
<1> DEFINE q == a \div w
<1>1. q \in Int /\ q * w <= a /\ a < (q + 1) * w
  OBVIOUS
<1> HIDE DEF q
<1>2. ASSUME k > q PROVE k * w > a
  <2>1. k * w >= (q + 1) * w
    BY <1>1, <1>2
  <2> QED
    BY <1>1, <2>1
<1>3. ASSUME ~(k > q) PROVE ~(k * w > a)
  <2>1. k * w <= q * w
    BY <1>1, <1>3
  <2> QED
    BY <1>1, <2>1
<1> QED
  BY <1>2, <1>3 DEF q

\* A bit within the list is 0 or 1.
LEMMA BitIsBinary ==
  ASSUME NEW list \in Seq(0 .. 255), NEW n \in 0 .. Len(list) * 8 - 1
  PROVE  Bit(list, n) \in {0, 1}
<1>1. n \div 8 + 1 \in 1 .. Len(list) /\ n % 8 \in Nat
  <2>1. Len(list) \in Nat
    BY LenProperties
  <2> QED
    BY <2>1
<1> DEFINE byte == list[n \div 8 + 1]
           unit == Power(n % 8)
<1>2. byte \in Int /\ unit \in Nat \ {0}
  <2>1. byte \in 0 .. 255
    BY <1>1, LenProperties
  <2>2. unit \in Nat \ {0}
    BY <1>1, PowerPositive
  <2> QED
    <3> HIDE DEF byte, unit
    <3> QED
      BY <2>1, <2>2
<1>3. Bit(list, n) = (byte \div unit) % 2
  BY DEF Bit
<1> HIDE DEF byte, unit
<1>4. byte \div unit \in Int
  BY <1>2
<1> QED
  BY <1>3, <1>4

\* The value of an entry is not 0 exactly if one of its bits is set, for any
\* width: the bits are at different places, and those of an entry within the
\* list are read from its bytes.
LEMMA EntryValueIsSet ==
  ASSUME NEW list \in Seq(0 .. 255), NEW index \in Nat, NEW width \in Nat \ {0},
         (index + 1) * width <= Len(list) * 8
  PROVE  EntryValue(list, index, width) # 0 <=>
           \E i \in 0 .. width - 1 : i < IntBits /\ Bit(list, index * width + i) = 1
<1> DEFINE first == index * width
           g == [j \in 0 .. width - 1 |-> Shifted(Bit(list, first + j), j)]
           Collect(f) == [i \in 0 .. width |->
                            IF i = 0 THEN 0
                            ELSE f[i - 1] + Shifted(Bit(list, first + i - 1), i - 1)]
           val == CHOOSE f : f = Collect(f)
<1>1. first \in Nat /\ first + width <= Len(list) * 8 /\ Len(list) \in Nat
  <2>1. first \in Nat /\ (index + 1) * width = first + width
    OBVIOUS
  <2>2. Len(list) \in Nat
    BY LenProperties
  <2> QED
    BY <2>1, <2>2
<1>2. EntryValue(list, index, width) = val[width]
  BY DEF EntryValue
<1> HIDE DEF first
<1>3. ASSUME NEW j \in 0 .. width - 1
      PROVE  /\ Shifted(Bit(list, first + j), j) \in Nat
             /\ Shifted(Bit(list, first + j), j) # 0 <=>
                  j < IntBits /\ Bit(list, first + j) = 1
  <2>1. first + j \in 0 .. Len(list) * 8 - 1
    BY <1>1
  <2>2. Bit(list, first + j) \in {0, 1}
    BY <2>1, BitIsBinary
  <2>3. Power(j) \in Nat \ {0}
    <3>1. j \in Nat
      OBVIOUS
    <3> QED
      BY <3>1, PowerPositive
  <2> QED
    BY <2>2, <2>3 DEF Shifted
<1>4. g \in [0 .. width - 1 -> Nat]
  BY <1>3
<1>5. \A j \in 0 .. width - 1 : g[j] = 0 <=> ~(j < IntBits /\ Bit(list, first + j) = 1)
  BY <1>3
<1>6. ASSUME NEW i \in 1 .. width
      PROVE  Shifted(Bit(list, first + i - 1), i - 1) = g[i - 1]
  <2>1. i - 1 \in 0 .. width - 1 /\ first + i - 1 = first + (i - 1)
    BY <1>1
  <2> QED
    BY <2>1
<1> HIDE DEF g
<1>7. ASSUME NEW f
      PROVE  Collect(f) = [i \in 0 .. width |-> IF i = 0 THEN 0 ELSE f[i - 1] + g[i - 1]]
  <2>1. \A i \in 0 .. width : i # 0 => i \in 1 .. width
    OBVIOUS
  <2> QED
    BY <1>6, <2>1
<1> HIDE DEF Collect
<1>8. val = Collect(val)
  <2>1. width \in Nat
    OBVIOUS
  <2>2. PICK f : f = [i \in 0 .. width |-> IF i = 0 THEN 0 ELSE f[i - 1] + g[i - 1]]
    BY <1>4, <2>1, SumsExist
  <2>3. f = Collect(f)
    BY <1>7, <2>2
  <2> QED
    BY <2>3
<1> HIDE DEF val
<1>9. \A i \in 0 .. width : val[i] = IF i = 0 THEN 0 ELSE val[i - 1] + g[i - 1]
  BY <1>7, <1>8
<1>10. val[width] = 0 <=> \A j \in 0 .. width - 1 : g[j] = 0
  <2>1. width \in Nat
    OBVIOUS
  <2> QED
    BY <1>4, <1>9, <2>1, SumIsZero
<1> QED
  BY <1>2, <1>5, <1>10 DEF first

\* An entry is listed exactly if it lies in the list and one of its bits is set,
\* for any list of bytes, index and width.
THEOREM ListedEntriesAreSet == Spec => []ListedMatchesEntry
<1>1. ASSUME NEW list \in Lists, NEW index \in Indexes, NEW width \in Widths
      PROVE  LET answer == isIndexListed(list, index, width)
             IN  IF index < 0 \/ width <= 0 THEN answer = "error"
                 ELSE answer = "listed" <=> EntryIsSet(list, index, width)
  <2>1. list \in Seq(0 .. 255) /\ index \in Int /\ width \in Int
    BY InputAssumption
  <2>2. CASE index < 0 \/ width <= 0
    BY <2>2 DEF isIndexListed
  <2>3. CASE ~(index < 0 \/ width <= 0)
    <3>1. index \in Nat /\ width \in Nat \ {0} /\ index + 1 \in Nat
      BY <2>1, <2>3
    <3>2. Len(list) * 8 \in Nat
      <4>1. Len(list) \in Nat
        BY <2>1, LenProperties
      <4> QED
        BY <4>1
    <3>3. index + 1 > (Len(list) * 8) \div width <=> (index + 1) * width > Len(list) * 8
      BY <3>1, <3>2, BeyondQuotient
    <3>4. index > MaxIndex(list, width) <=> index + 1 > (Len(list) * 8) \div width
      <4> DEFINE q == (Len(list) * 8) \div width
      <4>1. q \in Int
        BY <3>1, <3>2
      <4>2. MaxIndex(list, width) = q - 1
        BY DEF MaxIndex
      <4> HIDE DEF q
      <4>3. index > MaxIndex(list, width) <=> index + 1 > q
        BY <3>1, <4>1, <4>2
      <4> QED
        BY <4>3 DEF q
    <3>5. (index + 1) * width \in Int
      BY <3>1
    <3>6. CASE index > MaxIndex(list, width)
      <4>1. ~((index + 1) * width <= Len(list) * 8)
        BY <3>2, <3>3, <3>4, <3>5, <3>6
      <4>2. isIndexListed(list, index, width) = "unlisted"
        BY <2>3, <3>6 DEF isIndexListed
      <4> QED
        BY <2>3, <4>1, <4>2 DEF EntryIsSet
    <3>7. CASE ~(index > MaxIndex(list, width))
      <4>1. (index + 1) * width <= Len(list) * 8
        BY <3>2, <3>3, <3>4, <3>5, <3>7
      <4>2. isIndexListed(list, index, width) = "listed" <=> EntryValue(list, index, width) # 0
        BY <2>3, <3>7 DEF isIndexListed
      <4>3. EntryIsSet(list, index, width) <=> EntryValue(list, index, width) # 0
        BY <2>1, <3>1, <4>1, EntryValueIsSet DEF EntryIsSet
      <4> QED
        BY <2>3, <4>2, <4>3
    <3> QED
      BY <3>6, <3>7
  <2> QED
    BY <2>2, <2>3
<1>2. InputTyped => ListedMatchesEntry
  BY <1>1 DEF InputTyped, ListedMatchesEntry
<1> QED
  BY <1>2, InputsTyped, PTL
-----------------------------------------------------------------------------

\* How often t is among the first n values of f.
Upto(f, n, t) == Cardinality({i \in 1 .. n : f[i] = t})

\* Counting one value further.
LEMMA UptoNext ==
  ASSUME NEW f, NEW n \in Nat, NEW t
  PROVE  /\ Upto(f, 0, t) = 0
         /\ Upto(f, n, t) \in Nat
         /\ Upto(f, n + 1, t) = IF f[n + 1] = t THEN Upto(f, n, t) + 1 ELSE Upto(f, n, t)
<1> DEFINE P(m) == {i \in 1 .. m : f[i] = t}
<1>1. P(0) = {}
  OBVIOUS
<1>2. IsFiniteSet(P(n))
  <2>1. IsFiniteSet(1 .. n)
    BY FS_Interval
  <2>2. P(n) \in SUBSET (1 .. n)
    OBVIOUS
  <2> QED
    BY <2>1, <2>2, FS_Subset
<1>3. \A i : i \in 1 .. n + 1 <=> i \in 1 .. n \/ i = n + 1
  OBVIOUS
<1>4. n + 1 \notin P(n)
  OBVIOUS
<1>5. CASE f[n + 1] = t
  <2>1. P(n + 1) = P(n) \union {n + 1}
    BY <1>3, <1>5
  <2> HIDE DEF P
  <2>2. Cardinality(P(n + 1)) = Cardinality(P(n)) + 1
    BY <1>2, <1>4, <2>1, FS_AddElement
  <2> QED
    BY <1>1, <1>2, <1>5, <2>2, FS_EmptySet, FS_CardinalityType DEF Upto, P
<1>6. CASE f[n + 1] # t
  <2>1. P(n + 1) = P(n)
    BY <1>3, <1>6
  <2> QED
    BY <1>1, <1>2, <1>6, <2>1, FS_EmptySet, FS_CardinalityType DEF Upto
<1> QED
  BY <1>5, <1>6

\* The occurrences in a sequence are those among its values.
LEMMA OccurrencesCount ==
  ASSUME NEW S, NEW seq \in Seq(S), NEW t
  PROVE  /\ Occurrences(seq, t) = Upto(seq, Len(seq), t)
         /\ Occurrences(seq, t) \in Nat
         /\ t \in ToSet(seq) <=> Occurrences(seq, t) # 0
<1> DEFINE P == {i \in DOMAIN seq : seq[i] = t}
<1>1. DOMAIN seq = 1 .. Len(seq) /\ Len(seq) \in Nat
  BY LenProperties
<1>2. IsFiniteSet(P)
  <2>1. IsFiniteSet(DOMAIN seq)
    BY <1>1, FS_Interval
  <2>2. P \in SUBSET (DOMAIN seq)
    OBVIOUS
  <2> QED
    BY <2>1, <2>2, FS_Subset
<1>3. Occurrences(seq, t) = Cardinality(P)
  BY DEF Occurrences
<1>4. t \in ToSet(seq) <=> P # {}
  BY DEF ToSet
<1>5. Upto(seq, Len(seq), t) = Cardinality(P)
  BY <1>1 DEF Upto
<1> HIDE DEF P
<1> QED
  BY <1>2, <1>3, <1>4, <1>5, FS_EmptySet, FS_CardinalityType

\* The occurrences in two sequences on end are those in the one and the other.
LEMMA OccurrencesConcat ==
  ASSUME NEW S, NEW s \in Seq(S), NEW u \in Seq(S), NEW t
  PROVE  Occurrences(s \o u, t) = Occurrences(s, t) + Occurrences(u, t)
<1> DEFINE both == s \o u
           right == {n \in Nat : n <= Len(u) =>
                       Upto(both, Len(s) + n, t) = Upto(s, Len(s), t) + Upto(u, n, t)}
<1>1. /\ Len(s) \in Nat /\ Len(u) \in Nat /\ both \in Seq(S) /\ Len(both) = Len(s) + Len(u)
      /\ \A i \in 1 .. Len(s) : both[i] = s[i]
      /\ \A i \in 1 .. Len(u) : both[Len(s) + i] = u[i]
  <2>1. Len(s) \in Nat /\ Len(u) \in Nat
    BY LenProperties
  <2>2. \A i \in 1 .. Len(s) + Len(u) : both[i] = IF i <= Len(s) THEN s[i] ELSE u[i - Len(s)]
    BY ConcatProperties
  <2>3. ASSUME NEW i \in 1 .. Len(s) PROVE both[i] = s[i]
    <3>1. i \in 1 .. Len(s) + Len(u) /\ i <= Len(s)
      BY <2>1
    <3> HIDE DEF both
    <3> QED
      BY <2>2, <3>1
  <2>4. ASSUME NEW i \in 1 .. Len(u) PROVE both[Len(s) + i] = u[i]
    <3>1. Len(s) + i \in 1 .. Len(s) + Len(u) /\ ~(Len(s) + i <= Len(s))
          /\ Len(s) + i - Len(s) = i
      BY <2>1
    <3> HIDE DEF both
    <3> QED
      BY <2>2, <3>1
  <2> QED
    BY <2>1, <2>3, <2>4, ConcatProperties
<1> HIDE DEF both
<1>2. 0 \in right
  <2>1. {i \in 1 .. Len(s) : both[i] = t} = {i \in 1 .. Len(s) : s[i] = t}
    BY <1>1
  <2>2. Upto(both, Len(s), t) = Upto(s, Len(s), t)
    BY <2>1 DEF Upto
  <2>3. Upto(u, 0, t) = 0 /\ Upto(s, Len(s), t) \in Nat
    BY <1>1, UptoNext
  <2>4. Len(s) + 0 = Len(s)
    BY <1>1
  <2> QED
    BY <2>2, <2>3, <2>4
<1>3. ASSUME NEW n \in Nat, n \in right PROVE n + 1 \in right
  <2>1. ASSUME n + 1 <= Len(u)
        PROVE  Upto(both, Len(s) + (n + 1), t) = Upto(s, Len(s), t) + Upto(u, n + 1, t)
    <3>1. /\ n <= Len(u) /\ n + 1 \in 1 .. Len(u) /\ Len(s) + n \in Nat
          /\ Len(s) + (n + 1) = (Len(s) + n) + 1
      BY <1>1, <2>1
    <3>2. Upto(both, Len(s) + n, t) = Upto(s, Len(s), t) + Upto(u, n, t)
      BY <1>3, <3>1
    <3>3. both[(Len(s) + n) + 1] = u[n + 1]
      BY <1>1, <3>1
    <3>4. Upto(both, (Len(s) + n) + 1, t) =
            IF u[n + 1] = t THEN Upto(both, Len(s) + n, t) + 1 ELSE Upto(both, Len(s) + n, t)
      <4>1. Upto(both, (Len(s) + n) + 1, t) =
              IF both[(Len(s) + n) + 1] = t THEN Upto(both, Len(s) + n, t) + 1
              ELSE Upto(both, Len(s) + n, t)
        BY <3>1, UptoNext
      <4> QED
        BY <3>3, <4>1
    <3>5. /\ Upto(u, n + 1, t) = IF u[n + 1] = t THEN Upto(u, n, t) + 1 ELSE Upto(u, n, t)
          /\ Upto(u, n, t) \in Nat /\ Upto(s, Len(s), t) \in Nat
      BY <1>1, UptoNext
    <3> QED
      BY <3>1, <3>2, <3>4, <3>5
  <2> QED
    BY <2>1
<1> HIDE DEF right
<1>4. Len(u) \in right
  BY <1>1, <1>2, <1>3, AllNumbers
<1>5. Upto(both, Len(s) + Len(u), t) = Upto(s, Len(s), t) + Upto(u, Len(u), t)
  BY <1>1, <1>4 DEF right
<1>6. Occurrences(both, t) = Upto(both, Len(both), t)
  BY <1>1, OccurrencesCount
<1>7. Occurrences(s, t) = Upto(s, Len(s), t) /\ Occurrences(u, t) = Upto(u, Len(u), t)
  BY OccurrencesCount
<1> QED
  BY <1>1, <1>5, <1>6, <1>7 DEF both

\* The occurrences in a sequence that got one longer.
LEMMA OccurrencesAppend ==
  ASSUME NEW S, NEW s \in Seq(S), NEW e \in S, NEW t
  PROVE  Occurrences(Append(s, e), t) =
           IF e = t THEN Occurrences(s, t) + 1 ELSE Occurrences(s, t)
<1> DEFINE longer == Append(s, e)
<1>1. /\ longer \in Seq(S) /\ Len(longer) = Len(s) + 1 /\ longer[Len(s) + 1] = e
      /\ \A i \in 1 .. Len(s) : longer[i] = s[i]
  BY AppendProperties
<1>2. Len(s) \in Nat
  BY LenProperties
<1> HIDE DEF longer
<1>3. Upto(longer, Len(s), t) = Upto(s, Len(s), t)
  <2>1. {i \in 1 .. Len(s) : longer[i] = t} = {i \in 1 .. Len(s) : s[i] = t}
    BY <1>1
  <2> QED
    BY <2>1 DEF Upto
<1>4. Upto(longer, Len(s) + 1, t) =
        IF longer[Len(s) + 1] = t THEN Upto(longer, Len(s), t) + 1 ELSE Upto(longer, Len(s), t)
  BY <1>2, UptoNext
<1>5. Occurrences(longer, t) = Upto(longer, Len(longer), t)
  BY <1>1, OccurrencesCount
<1>6. Occurrences(s, t) = Upto(s, Len(s), t)
  BY OccurrencesCount
<1> QED
  BY <1>1, <1>3, <1>4, <1>5, <1>6 DEF longer

\* The non-empty texts among some items are counted as often as the items have
\* them, and nothing else is.
LEMMA TextsCounted ==
  ASSUME NEW S, NEW items \in Seq(S), NEW t
  PROVE  /\ Texts(items) \in Seq(S)
         /\ Occurrences(Texts(items), t) =
              IF t \in {Empty, NotText} THEN 0 ELSE Occurrences(items, t)
<1> DEFINE Skips(n) == items[n] \in {Empty, NotText}
           Collect(f) == [n \in 0 .. Len(items) |->
                            IF n = 0 THEN << >>
                            ELSE IF items[n] \in {Empty, NotText} THEN f[n - 1]
                            ELSE Append(f[n - 1], items[n])]
           kept == CHOOSE f : f = Collect(f)
           Counted(n) == Occurrences(kept[n], t) =
                           IF t \in {Empty, NotText} THEN 0 ELSE Upto(items, n, t)
           right == {n \in Nat : n <= Len(items) => kept[n] \in Seq(S) /\ Counted(n)}
<1>1. Len(items) \in Nat /\ \A n \in 1 .. Len(items) : items[n] \in S
  BY LenProperties
<1>2. Texts(items) = kept[Len(items)]
  BY DEF Texts
<1> HIDE DEF kept, Collect, right
<1>3. \A n \in Nat :
         /\ Upto(items, n, t) \in Nat
         /\ Upto(items, n + 1, t) =
              IF items[n + 1] = t THEN Upto(items, n, t) + 1 ELSE Upto(items, n, t)
  <2>1. \A f : \A n \in Nat :
          /\ Upto(f, n, t) \in Nat
          /\ Upto(f, n + 1, t) = IF f[n + 1] = t THEN Upto(f, n, t) + 1 ELSE Upto(f, n, t)
    BY UptoNext
  <2> QED
    BY <2>1
<1> USE DEF kept, Collect, right
<1>4. PICK h \in Steps(Len(items), Seq(S)) :
        \A n \in 1 .. Len(items) : \A v \in Seq(S) :
          h[n][v] = IF Skips(n) THEN v ELSE Append(v, items[n])
  <2> DEFINE h == [n \in 1 .. Len(items) |-> [v \in Seq(S) |->
                     IF Skips(n) THEN v ELSE Append(v, items[n])]]
  <2>1. ASSUME NEW n \in 1 .. Len(items), NEW v \in Seq(S)
        PROVE  (IF Skips(n) THEN v ELSE Append(v, items[n])) \in Seq(S)
    BY <1>1, AppendProperties
  <2> HIDE DEF Skips
  <2>2. h \in Steps(Len(items), Seq(S))
    BY <2>1 DEF Steps
  <2>3. \A n \in 1 .. Len(items) : \A v \in Seq(S) :
          h[n][v] = IF Skips(n) THEN v ELSE Append(v, items[n])
    OBVIOUS
  <2> HIDE DEF h
  <2> QED
    BY <2>2, <2>3
<1>5. kept = Collect(kept)
  <2>1. << >> \in Seq(S)
    OBVIOUS
  <2>2. PICK f : Recursion(f, Len(items), Seq(S), << >>, h)
    <3>1. Len(items) \in Nat
      BY <1>1
    <3> QED
      BY <2>1, <3>1, RecursionExists
  <2>3. f \in [0 .. Len(items) -> Seq(S)] /\ f[0] = << >>
    BY <2>2 DEF Recursion
  <2>4. ASSUME NEW n \in 1 .. Len(items)
        PROVE  f[n] = IF Skips(n) THEN f[n - 1] ELSE Append(f[n - 1], items[n])
    <3>1. f[n - 1] \in Seq(S)
      <4>1. n - 1 \in 0 .. Len(items)
        BY <1>1
      <4> QED
        BY <2>3, <4>1
    <3>2. f[n] = h[n][f[n - 1]]
      BY <2>2 DEF Recursion
    <3> HIDE DEF Skips
    <3> QED
      BY <1>4, <3>1, <3>2
  <2>5. \A n \in 0 .. Len(items) : n # 0 => n \in 1 .. Len(items)
    BY <1>1
  <2>6. f = Collect(f)
    <3>1. f = [n \in 0 .. Len(items) |-> f[n]]
      BY <2>3
    <3>2. \A n \in 0 .. Len(items) :
            f[n] = IF n = 0 THEN << >>
                   ELSE IF items[n] \in {Empty, NotText} THEN f[n - 1]
                   ELSE Append(f[n - 1], items[n])
      BY <2>3, <2>4, <2>5
    <3> QED
      BY <3>1, <3>2
  <2> HIDE DEF Collect
  <2> QED
    BY <2>6
<1> HIDE DEF kept
<1>6. /\ kept[0] = << >>
      /\ \A n \in 1 .. Len(items) :
           kept[n] = IF Skips(n) THEN kept[n - 1] ELSE Append(kept[n - 1], items[n])
  <2>1. 0 \in 0 .. Len(items) /\ \A n \in 1 .. Len(items) : n \in 0 .. Len(items) /\ n # 0
    BY <1>1
  <2> QED
    BY <1>5, <2>1
<1>7. 0 \in right
  <2>1. Occurrences(<< >>, t) = 0 /\ << >> \in Seq(S)
    <3>1. {i \in DOMAIN << >> : << >>[i] = t} = {}
      OBVIOUS
    <3> QED
      BY <3>1, FS_EmptySet DEF Occurrences
  <2>2. Upto(items, 0, t) = 0
    BY UptoNext
  <2> QED
    BY <1>6, <2>1, <2>2
<1>8. ASSUME NEW n \in Nat, n \in right PROVE n + 1 \in right
  <2>1. ASSUME n + 1 <= Len(items)
        PROVE  kept[n + 1] \in Seq(S) /\ Counted(n + 1)
    <3>1. n <= Len(items) /\ n + 1 \in 1 .. Len(items) /\ (n + 1) - 1 = n
      BY <1>1, <2>1
    <3>2. kept[n] \in Seq(S) /\ Counted(n)
      BY <1>8, <3>1
    <3>3. kept[n + 1] = IF Skips(n + 1) THEN kept[n] ELSE Append(kept[n], items[n + 1])
      BY <1>6, <3>1
    <3>4. /\ Upto(items, n, t) \in Nat
          /\ Upto(items, n + 1, t) =
               IF items[n + 1] = t THEN Upto(items, n, t) + 1 ELSE Upto(items, n, t)
      BY <1>3
    <3>5. items[n + 1] \in S
      BY <1>1, <3>1
    <3>6. CASE Skips(n + 1)
      BY <3>2, <3>3, <3>4, <3>6
    <3>7. CASE ~Skips(n + 1)
      <4>1. kept[n + 1] = Append(kept[n], items[n + 1]) /\ kept[n + 1] \in Seq(S)
        BY <3>2, <3>3, <3>5, <3>7, AppendProperties
      <4>2. Occurrences(kept[n + 1], t) =
              IF items[n + 1] = t THEN Occurrences(kept[n], t) + 1 ELSE Occurrences(kept[n], t)
        BY <3>2, <3>5, <4>1, OccurrencesAppend
      <4>3. Occurrences(kept[n], t) \in Nat
        BY <3>2, OccurrencesCount
      <4> QED
        BY <3>2, <3>4, <3>7, <4>1, <4>2, <4>3
    <3> QED
      BY <3>6, <3>7
  <2> QED
    BY <2>1
<1> HIDE DEF right
<1>9. Len(items) \in right
  BY <1>1, <1>7, <1>8, AllNumbers
<1>10. Occurrences(items, t) = Upto(items, Len(items), t)
  BY OccurrencesCount
<1> QED
  BY <1>1, <1>2, <1>9, <1>10 DEF right

\* The recursion of FlattenSeq: each start of the list put on end.
LEMMA FlattenStarts ==
  ASSUME NEW S, NEW seqs \in Seq(Seq(S)), seqs # << >>
  PROVE  \E f : /\ FlattenSeq(seqs) = f[Len(seqs)]
                /\ f[1] = seqs[1] /\ f[1] \in Seq(S)
                /\ \A n \in 2 .. Len(seqs) : f[n] = f[n - 1] \o seqs[n]
                /\ \A n \in 1 .. Len(seqs) : f[n] \in Seq(S)
<1> DEFINE last == Len(seqs)
           Join(f) == [i \in 1 .. Len(seqs) |-> IF i = 1 THEN seqs[i] ELSE f[i - 1] \o seqs[i]]
           flatten == CHOOSE f : f = Join(f)
           right == {n \in Nat : n + 1 <= last => flatten[n + 1] \in Seq(S)}
<1>1. last \in Nat \ {0} /\ \A n \in 1 .. last : seqs[n] \in Seq(S)
  BY LenProperties, EmptySeq
<1>2. FlattenSeq(seqs) = flatten[last]
  BY <1>1 DEF FlattenSeq
<1>3. PICK h \in Steps(last, Seq(S)) :
        \A n \in 1 .. last : \A v \in Seq(S) : h[n][v] = v \o seqs[n]
  <2> DEFINE h == [n \in 1 .. last |-> [v \in Seq(S) |-> v \o seqs[n]]]
  <2>1. ASSUME NEW n \in 1 .. last, NEW v \in Seq(S) PROVE v \o seqs[n] \in Seq(S)
    BY <1>1, ConcatProperties
  <2> HIDE DEF last
  <2>2. h \in Steps(last, Seq(S))
    BY <2>1 DEF Steps
  <2>3. \A n \in 1 .. last : \A v \in Seq(S) : h[n][v] = v \o seqs[n]
    OBVIOUS
  <2> HIDE DEF h
  <2> QED
    BY <2>2, <2>3
<1>4. flatten = Join(flatten)
  <2>1. << >> \in Seq(S)
    OBVIOUS
  <2>2. PICK f : Recursion(f, last, Seq(S), << >>, h)
    <3>1. last \in Nat
      BY <1>1
    <3> HIDE DEF last
    <3> QED
      BY <2>1, <3>1, RecursionExists
  <2>3. f \in [0 .. last -> Seq(S)] /\ f[0] = << >>
    BY <2>2 DEF Recursion
  <2>4. ASSUME NEW n \in 1 .. last
        PROVE  f[n] = f[n - 1] \o seqs[n]
    <3>1. f[n - 1] \in Seq(S)
      <4>1. n - 1 \in 0 .. last
        BY <1>1
      <4> QED
        BY <2>3, <4>1
    <3>2. f[n] = h[n][f[n - 1]]
      BY <2>2 DEF Recursion
    <3> QED
      BY <1>3, <3>1, <3>2
  <2> DEFINE g == [n \in 1 .. last |-> f[n]]
  <2>5. ASSUME NEW n \in 1 .. last
        PROVE  g[n] = IF n = 1 THEN seqs[n] ELSE g[n - 1] \o seqs[n]
    <3>1. CASE n = 1
      <4>1. f[1] = << >> \o seqs[1] /\ seqs[1] \in Seq(S)
        <5>1. 1 \in 1 .. last /\ 1 - 1 = 0
          BY <1>1
        <5>2. f[1] = f[1 - 1] \o seqs[1]
          BY <2>4, <5>1
        <5> QED
          BY <1>1, <2>3, <5>1, <5>2
      <4> QED
        BY <3>1, <4>1, ConcatEmptySeq
    <3>2. CASE n # 1
      <4>1. n - 1 \in 1 .. last
        BY <1>1, <3>2
      <4> QED
        BY <2>4, <3>2, <4>1
    <3> QED
      BY <3>1, <3>2
  <2>6. g = Join(g)
    <3>1. g = [n \in 1 .. last |-> g[n]]
      OBVIOUS
    <3> HIDE DEF g
    <3> QED
      BY <2>5, <3>1
  <2> HIDE DEF Join, g
  <2> QED
    BY <2>6
<1> HIDE DEF flatten
<1>5. /\ flatten[1] = seqs[1]
      /\ \A n \in 2 .. last : flatten[n] = flatten[n - 1] \o seqs[n]
  <2>1. 1 \in 1 .. last /\ \A n \in 2 .. last : n \in 1 .. last /\ n # 1
    BY <1>1
  <2> QED
    BY <1>4, <2>1
<1>6. 0 \in right
  BY <1>1, <1>5
<1>7. ASSUME NEW n \in Nat, n \in right PROVE n + 1 \in right
  <2>1. ASSUME (n + 1) + 1 <= last PROVE flatten[(n + 1) + 1] \in Seq(S)
    <3>1. n + 1 <= last /\ (n + 1) + 1 \in 2 .. last /\ (n + 1) + 1 \in 1 .. last
          /\ ((n + 1) + 1) - 1 = n + 1
      BY <1>1, <2>1
    <3>2. flatten[n + 1] \in Seq(S) /\ seqs[(n + 1) + 1] \in Seq(S)
      BY <1>1, <1>7, <3>1
    <3>3. flatten[(n + 1) + 1] = flatten[n + 1] \o seqs[(n + 1) + 1]
      BY <1>5, <3>1
    <3> QED
      BY <3>2, <3>3, ConcatProperties
  <2> QED
    BY <2>1
<1> HIDE DEF right
<1>8. ASSUME NEW n \in 1 .. last PROVE flatten[n] \in Seq(S)
  <2>1. n - 1 \in Nat /\ (n - 1) + 1 = n /\ n <= last
    BY <1>1
  <2>2. n - 1 \in right
    BY <1>6, <1>7, <2>1, AllNumbers
  <2> QED
    BY <2>1, <2>2 DEF right
<1>9. 1 \in 1 .. last
  BY <1>1
<1> QED
  BY <1>2, <1>5, <1>8, <1>9

\* If each sequence of one list has t as often as its counterpart in another, so
\* have the lists put on end; and if none has it, neither has the whole.
LEMMA FlattenCounted ==
  ASSUME NEW S, NEW a \in Seq(Seq(S)), NEW b \in Seq(Seq(S)), Len(a) = Len(b), NEW t,
         NEW counts \in BOOLEAN,
         \A n \in 1 .. Len(a) :
           Occurrences(a[n], t) = IF counts THEN Occurrences(b[n], t) ELSE 0
  PROVE  /\ FlattenSeq(a) \in Seq(S) /\ FlattenSeq(b) \in Seq(S)
         /\ Occurrences(FlattenSeq(a), t) =
              IF counts THEN Occurrences(FlattenSeq(b), t) ELSE 0
<1>1. CASE Len(a) = 0
  <2>1. FlattenSeq(a) = << >> /\ FlattenSeq(b) = << >>
    <3>1. a = << >> /\ b = << >>
      BY <1>1, EmptySeq
    <3> QED
      BY <3>1, EmptySeq DEF FlattenSeq
  <2>2. Occurrences(<< >>, t) = 0
    <3>1. {i \in DOMAIN << >> : << >>[i] = t} = {}
      OBVIOUS
    <3> QED
      BY <3>1, FS_EmptySet DEF Occurrences
  <2> QED
    BY <2>1, <2>2, EmptySeq
<1>2. CASE Len(a) # 0
  <2> DEFINE last == Len(a)
  <2>1. last \in Nat \ {0} /\ Len(b) = last /\ a # << >> /\ b # << >>
        /\ \A n \in 1 .. last : a[n] \in Seq(S) /\ b[n] \in Seq(S)
    BY <1>2, LenProperties, EmptySeq
  <2>2. PICK f : /\ FlattenSeq(a) = f[Len(a)]
                 /\ f[1] = a[1] /\ f[1] \in Seq(S)
                 /\ \A n \in 2 .. Len(a) : f[n] = f[n - 1] \o a[n]
                 /\ \A n \in 1 .. Len(a) : f[n] \in Seq(S)
    BY <2>1, FlattenStarts
  <2>3. PICK g : /\ FlattenSeq(b) = g[Len(b)]
                 /\ g[1] = b[1] /\ g[1] \in Seq(S)
                 /\ \A n \in 2 .. Len(b) : g[n] = g[n - 1] \o b[n]
                 /\ \A n \in 1 .. Len(b) : g[n] \in Seq(S)
    BY <2>1, FlattenStarts
  <2> DEFINE Counted(n) == Occurrences(f[n], t) = IF counts THEN Occurrences(g[n], t) ELSE 0
             right == {n \in Nat : n + 1 <= last => Counted(n + 1)}
  <2>4. 0 \in right
    <3>1. 1 \in 1 .. last
      BY <2>1
    <3> QED
      BY <2>2, <2>3, <3>1
  <2>5. ASSUME NEW n \in Nat, n \in right PROVE n + 1 \in right
    <3>1. ASSUME (n + 1) + 1 <= last PROVE Counted((n + 1) + 1)
      <4> DEFINE m == n + 1
      <4>1. m <= last /\ m \in 1 .. last /\ m + 1 \in 2 .. last /\ m + 1 \in 1 .. last
            /\ (m + 1) - 1 = m
        BY <2>1, <3>1
      <4>2. Counted(m)
        BY <2>5, <4>1
      <4> HIDE DEF m
      <4>3. /\ f[m] \in Seq(S) /\ g[m] \in Seq(S)
            /\ a[m + 1] \in Seq(S) /\ b[m + 1] \in Seq(S)
        BY <2>1, <2>2, <2>3, <4>1
      <4>4. f[m + 1] = f[m] \o a[m + 1] /\ g[m + 1] = g[m] \o b[m + 1]
        BY <2>1, <2>2, <2>3, <4>1
      <4>5. Occurrences(f[m + 1], t) = Occurrences(f[m], t) + Occurrences(a[m + 1], t)
        BY <4>3, <4>4, OccurrencesConcat
      <4>6. Occurrences(g[m + 1], t) = Occurrences(g[m], t) + Occurrences(b[m + 1], t)
        BY <4>3, <4>4, OccurrencesConcat
      <4>7. Occurrences(a[m + 1], t) = IF counts THEN Occurrences(b[m + 1], t) ELSE 0
        BY <4>1
      <4>8. Counted(m + 1)
        BY <4>2, <4>5, <4>6, <4>7
      <4> QED
        BY <4>8 DEF m
    <3> QED
      BY <3>1
  <2> HIDE DEF right
  <2>6. last - 1 \in right
    <3>1. last - 1 \in Nat
      BY <2>1
    <3> QED
      BY <2>4, <2>5, <3>1, AllNumbers
  <2>7. Counted(last)
    <3>1. last - 1 \in Nat /\ (last - 1) + 1 = last
      BY <2>1
    <3> QED
      BY <2>6, <3>1 DEF right
  <2>8. last \in 1 .. last
    BY <2>1
  <2> QED
    BY <2>1, <2>2, <2>3, <2>7, <2>8
<1> QED
  BY <1>1, <1>2

\* The proofs of an array are the texts given in it, each as often as it is given.
LEMMA ArrayCounted ==
  ASSUME NEW S, NEW t, NEW body,
         Len(body.objects) \in Nat, DOMAIN body.objects = 1 .. Len(body.objects),
         \A i \in DOMAIN body.objects :
           body.objects[i].jwt \in Seq(S) /\ body.objects[i].attestation \in Seq(S)
  PROVE  /\ ArrayProofs(body.objects) \in Seq(S) /\ Given(body) \in Seq(S)
         /\ Occurrences(ArrayProofs(body.objects), t) =
              IF t \in {Empty, NotText} THEN 0 ELSE Occurrences(Given(body), t)
<1> DEFINE objects == body.objects
           last == Len(objects)
           Items(i) == objects[i].jwt \o objects[i].attestation
           b == [i \in DOMAIN objects |-> Items(i)]
           a == [i \in DOMAIN objects |-> ObjectProofs(objects[i])]
           counts == t \notin {Empty, NotText}
<1>1. last \in Nat /\ DOMAIN objects = 1 .. last
  OBVIOUS
<1>2. ASSUME NEW i \in 1 .. last
      PROVE  /\ Items(i) \in Seq(S) /\ ObjectProofs(objects[i]) \in Seq(S)
             /\ Occurrences(ObjectProofs(objects[i]), t) =
                  IF counts THEN Occurrences(Items(i), t) ELSE 0
  <2>2. objects[i].jwt \in Seq(S) /\ objects[i].attestation \in Seq(S)
    BY <1>1
  <2>3. Items(i) \in Seq(S)
    BY <2>2, ConcatProperties
  <2>4. ObjectProofs(objects[i]) = Texts(Items(i))
    BY DEF ObjectProofs
  <2> HIDE DEF Items
  <2> QED
    BY <2>3, <2>4, TextsCounted
<1> HIDE DEF Items
<1>3. a \in Seq(Seq(S)) /\ Len(a) = last /\ b \in Seq(Seq(S)) /\ Len(b) = last
  <2>1. a \in [1 .. last -> Seq(S)] /\ b \in [1 .. last -> Seq(S)]
    BY <1>1, <1>2
  <2> HIDE DEF a, b, last
  <2> QED
    BY <1>1, <2>1
<1>4. \A i \in 1 .. last : a[i] = ObjectProofs(objects[i]) /\ b[i] = Items(i)
  BY <1>1
<1> HIDE DEF a, b
<1>5. /\ FlattenSeq(a) \in Seq(S) /\ FlattenSeq(b) \in Seq(S)
      /\ Occurrences(FlattenSeq(a), t) =
           IF counts THEN Occurrences(FlattenSeq(b), t) ELSE 0
  <2>1. \A i \in 1 .. Len(a) :
          Occurrences(a[i], t) = IF counts THEN Occurrences(b[i], t) ELSE 0
    BY <1>2, <1>3, <1>4
  <2>2. counts \in BOOLEAN
    OBVIOUS
  <2> HIDE DEF counts
  <2> QED
    BY <1>3, <2>1, <2>2, FlattenCounted
<1>6. ArrayProofs(objects) = FlattenSeq(a) /\ Given(body) = FlattenSeq(b)
  BY DEF ArrayProofs, Given, a, b, Items
<1> QED
  BY <1>5, <1>6

\* One list is its own concatenation.
LEMMA OneList ==
  ASSUME NEW S, NEW lists \in Seq(Seq(S)), Len(lists) = 1
  PROVE  FlattenSeq(lists) = lists[1]
<1>1. lists # << >>
  <2>1. lists = << >> => Len(lists) = 0
    OBVIOUS
  <2> QED
    BY <2>1
<1>2. PICK f : FlattenSeq(lists) = f[Len(lists)] /\ f[1] = lists[1]
  BY <1>1, FlattenStarts
<1> QED
  BY <1>2

\* What a map gives is what its two lists hold.
LEMMA OneObject ==
  ASSUME NEW S, NEW objects \in Seq([jwt : Seq(S), attestation : Seq(S), rest : Seq(S), lists : BOOLEAN]),
         Len(objects) = 1
  PROVE  FlattenSeq([i \in DOMAIN objects |-> objects[i].jwt \o objects[i].attestation]) =
           objects[1].jwt \o objects[1].attestation
<1> DEFINE lists == [i \in DOMAIN objects |-> objects[i].jwt \o objects[i].attestation]
           items == objects[1].jwt \o objects[1].attestation
<1>1. /\ DOMAIN objects = 1 .. Len(objects) /\ Len(objects) \in Nat
      /\ 1 \in 1 .. Len(objects) /\ \A i \in 1 .. Len(objects) : i = 1
  BY LenProperties
<1>2. \A i \in 1 .. Len(objects) :
        objects[i] \in [jwt : Seq(S), attestation : Seq(S), rest : Seq(S), lists : BOOLEAN]
  BY LenProperties
<1>3. items \in Seq(S)
  <2>1. objects[1].jwt \in Seq(S) /\ objects[1].attestation \in Seq(S)
    BY <1>1, <1>2
  <2> QED
    BY <2>1, ConcatProperties
<1>4. lists \in [1 .. Len(objects) -> Seq(S)] /\ lists[1] = items
  <2> HIDE DEF items
  <2>1. lists = [i \in 1 .. Len(objects) |-> items]
    BY <1>1 DEF items
  <2> HIDE DEF lists
  <2> QED
    BY <1>1, <1>3, <2>1
<1> HIDE DEF items, lists
<1>5. lists \in Seq(Seq(S)) /\ Len(lists) = 1
  <2> DEFINE last == Len(objects)
  <2>1. lists \in [1 .. last -> Seq(S)] /\ last \in Nat
    BY <1>1, <1>4
  <2>2. last = 1
    OBVIOUS
  <2> HIDE DEF last
  <2>3. lists \in Seq(Seq(S)) /\ Len(lists) = last
    BY <2>1
  <2> QED
    BY <2>2, <2>3
<1> QED
  BY <1>4, <1>5, OneList DEF items, lists

\* What occurs is the same as what is in a sequence.
LEMMA SameTexts ==
  ASSUME NEW S, NEW proofs \in Seq(S), NEW given \in Seq(S),
         \A t : Occurrences(proofs, t) =
                  IF t \in {Empty, NotText} THEN 0 ELSE Occurrences(given, t)
  PROVE  ToSet(proofs) = ToSet(given) \ {Empty, NotText}
<1>1. ASSUME NEW t PROVE t \in ToSet(proofs) <=> t \in ToSet(given) \ {Empty, NotText}
  <2>1. /\ t \in ToSet(proofs) <=> Occurrences(proofs, t) # 0
        /\ t \in ToSet(given) <=> Occurrences(given, t) # 0
    BY OccurrencesCount
  <2> QED
    BY <2>1
<1> QED
  BY <1>1

\* A sequence that is not empty has an element, and none is in the empty one.
LEMMA Elements ==
  ASSUME NEW S, NEW seq \in Seq(S)
  PROVE  ToSet(seq) = {} <=> seq = << >>
<1>1. DOMAIN seq = 1 .. Len(seq) /\ Len(seq) \in Nat /\ (seq # << >> => Len(seq) # 0)
  BY LenProperties, EmptySeq
<1>2. seq # << >> => 1 \in DOMAIN seq
  BY <1>1
<1>3. seq # << >> => seq[1] \in ToSet(seq)
  BY <1>2 DEF ToSet
<1>4. seq = << >> => ToSet(seq) = {}
  BY DEF ToSet
<1> QED
  BY <1>3, <1>4

\* An item of a sequence is one of those it is made of.
LEMMA ItemOf ==
  ASSUME NEW S, NEW seq \in Seq(S), NEW i \in DOMAIN seq
  PROVE  seq[i] \in S
  BY LenProperties

\* Every proof a request gives is verified as often as it is given, whatever
\* the format, the objects and the texts.
THEOREM NoProofsLost == Spec => []NoProofLost
<1>1. ASSUME NEW body \in Bodies
      PROVE  LET given  == Given(body)
                 texts  == ToSet(given) \ {Empty, NotText}
                 single == {body.single} \ {Empty}
                 proofs == proofJWTs(body)
             IN  IF body.shape = "other" \/ (body.shape = "map" /\ ~MapDecodes(body.objects[1]))
                 THEN ToSet(proofs) = single
                 ELSE /\ \A t \in texts : Occurrences(proofs, t) = Occurrences(given, t)
                      /\ ToSet(proofs) \ {Empty} \subseteq
                           IF texts = {} THEN single ELSE texts
  <2> DEFINE given  == Given(body)
             texts  == ToSet(given) \ {Empty, NotText}
             single == {body.single} \ {Empty}
             proofs == proofJWTs(body)
             parsed == UnmarshalJSON(body)
  <2>1. /\ body.shape \in {"map", "array", "other"}
        /\ body.objects \in
             Seq([jwt : Seq(STRING), attestation : Seq(STRING), rest : Seq(STRING), lists : BOOLEAN])
        /\ body.shape = "map" => Len(body.objects) = 1
    BY InputAssumption DEF Requests
  <2>2. /\ given \in Seq(STRING) /\ ArrayProofs(body.objects) \in Seq(STRING)
        /\ \A t : Occurrences(ArrayProofs(body.objects), t) =
                     IF t \in {Empty, NotText} THEN 0 ELSE Occurrences(given, t)
    <3>1. Len(body.objects) \in Nat /\ DOMAIN body.objects = 1 .. Len(body.objects)
      BY <2>1, LenProperties
    <3>2. ASSUME NEW i \in DOMAIN body.objects
          PROVE  /\ body.objects[i].jwt \in Seq(STRING)
                 /\ body.objects[i].attestation \in Seq(STRING)
      <4> DEFINE objects == body.objects
      <4>1. objects[i] \in [jwt : Seq(STRING), attestation : Seq(STRING), rest : Seq(STRING),
                            lists : BOOLEAN]
        BY <2>1, ItemOf
      <4> QED
        BY <4>1
    <3> QED
      BY <3>1, <3>2, ArrayCounted
  <2>3. proofs = IF parsed # << >> THEN parsed
                 ELSE IF body.single # Empty THEN << body.single >> ELSE << >>
    BY DEF proofJWTs
  <2>4. ToSet(<< body.single >>) = {body.single} /\ ToSet(<< >>) = {}
    BY DEF ToSet
  <2>5. parsed = << >> => ToSet(proofs) = single
    BY <2>3, <2>4
  <2>6. parsed # << >> => proofs = parsed
    BY <2>3
  <2>7. CASE body.shape = "other"
    <3>1. parsed = << >>
      BY <2>7 DEF UnmarshalJSON
    <3> QED
      BY <2>5, <2>7, <3>1
  <2>8. CASE body.shape = "map"
    <3> DEFINE items == body.objects[1].jwt \o body.objects[1].attestation
    <3>1. given = items
      BY <2>1, <2>8, OneObject DEF Given
    <3> DEFINE decodes == MapDecodes(body.objects[1])
    <3>2. parsed = IF decodes THEN given ELSE << >>
      BY <2>8, <3>1 DEF UnmarshalJSON, MapProofs
    <3>3. decodes => NotText \notin ToSet(given)
      BY <3>1 DEF MapDecodes
    <3> HIDE DEF given, proofs, parsed, decodes
    <3>4. CASE ~decodes
      <4>1. ToSet(proofs) = single
        BY <2>5, <3>2, <3>4
      <4> QED
        BY <2>8, <3>4, <4>1 DEF given, proofs, decodes
    <3>5. CASE decodes
      <4>1. CASE given = << >>
        <5>1. texts = {} /\ ToSet(proofs) = single
          BY <2>4, <2>5, <3>2, <3>5, <4>1
        <5> QED
          BY <2>8, <3>5, <5>1 DEF given, proofs, decodes
      <4>2. CASE given # << >>
        <5>1. proofs = given
          BY <2>6, <3>2, <3>5, <4>2
        <5>2. ToSet(proofs) \ {Empty} = texts
          BY <3>3, <3>5, <5>1
        <5> QED
          BY <2>8, <3>5, <5>1, <5>2 DEF given, proofs, decodes
      <4> QED
        BY <4>1, <4>2
    <3> QED
      BY <3>4, <3>5
  <2>9. CASE body.shape = "array"
    <3>1. parsed = ArrayProofs(body.objects)
      BY <2>9 DEF UnmarshalJSON
    <3>2. \A t : Occurrences(parsed, t) =
                   IF t \in {Empty, NotText} THEN 0 ELSE Occurrences(given, t)
      BY <2>2, <3>1
    <3>3. parsed \in Seq(STRING)
      BY <2>2, <3>1
    <3> HIDE DEF given, proofs, parsed
    <3>4. ToSet(parsed) = texts
      BY <2>2, <3>2, <3>3, SameTexts
    <3>5. parsed = << >> <=> texts = {}
      BY <3>3, <3>4, Elements
    <3>6. CASE parsed = << >>
      <4>1. texts = {} /\ ToSet(proofs) = single
        BY <2>5, <3>5, <3>6
      <4> QED
        BY <2>9, <4>1 DEF given, proofs
    <3>7. CASE parsed # << >>
      <4>1. proofs = parsed /\ ToSet(proofs) = texts /\ texts # {}
        BY <2>6, <3>4, <3>5, <3>7
      <4>2. \A t \in texts : Occurrences(proofs, t) = Occurrences(given, t)
        BY <3>2, <4>1
      <4> QED
        BY <2>9, <4>1, <4>2 DEF given, proofs
    <3> QED
      BY <3>6, <3>7
  <2> QED
    BY <2>1, <2>7, <2>8, <2>9
<1>2. InputTyped => NoProofLost
  BY <1>1 DEF InputTyped, NoProofLost
<1> QED
  BY <1>2, InputsTyped, PTL
=============================================================================
