-------------------------- MODULE CredentialClaims --------------------------
(***************************************************************************)
(* Which claims a credential carries: the user data assembled by           *)
(* POST /credential (routes/credential.go), the claims the PID types take  *)
(* from it (credential/pid.go) and those the generic SD-JWT type takes     *)
(* (credential/generic.go).  A claim's value is abstracted to what the     *)
(* code tells apart: a text, the empty text, or something that is not a    *)
(* text; and to where it came from when the issuer supplies it.            *)
(***************************************************************************)
EXTENDS Functions

Values == {"text", "empty", "not text"}
Supplied == {"config", "today", "today + PIDExpiry"}

\* The claims genericSDJWTIssue leaves out.
genericExcludedClaims ==
  {"iss", "sub", "aud", "exp", "nbf", "iat", "jti", "vct", "cnf", "status", "scope",
   "session_id", "username", "active", "client_id", "token_type"}

\* The claims pidSDJWTClaims declares mandatory.
MandatoryPIDClaims ==
  {"family_name", "given_name", "birth_date", "issuance_date", "expiry_date",
   "issuing_authority", "issuing_country"}

\* f, with the entries of g for the keys f does not have.
Over(f, g) ==
  [key \in DOMAIN f \union DOMAIN g |-> IF key \in DOMAIN f THEN f[key] ELSE g[key]]

\* A token for which introspection returned no claims object contributes its
\* subject; a form overrides.
UserData(token, form) ==
  Over(form, IF token.hasClaims THEN token.claims ELSE [sub |-> "text"])

\* Mutant of Text: whatever the user data holds.
TextUnchecked(u, key) == IF key \in DOMAIN u THEN u[key] ELSE "empty"

\* The accessor get of buildPIDClaims.
Text(u, key) == IF key \in DOMAIN u /\ u[key] = "text" THEN "text" ELSE "empty"

\* A claim with the issuer's setting as the fallback, which may be empty.
OrConfig(value, setting) == IF value # "empty" THEN value ELSE setting

ExpiryDate(u) ==
  IF Text(u, "expiry_date") # "empty" THEN Text(u, "expiry_date")
  ELSE IF Text(u, "estimated_expiry_date") # "empty" THEN Text(u, "estimated_expiry_date")
  ELSE "today + PIDExpiry"

\* The claims that are there whatever their value, and those that are left
\* out when empty.
buildPIDClaims(u, country, authority) ==
  LET always   == [family_name     |-> Text(u, "family_name"),
                   given_name      |-> Text(u, "given_name"),
                   issuing_country |-> OrConfig(Text(u, "issuing_country"), country),
                   issuance_date   |-> OrConfig(Text(u, "issuance_date"), "today"),
                   expiry_date     |-> ExpiryDate(u)]
      optional == [personal_administrative_number |-> Text(u, "personal_administrative_number"),
                   issuing_authority |-> OrConfig(Text(u, "issuing_authority"), authority)]
  IN  Over(always, Restrict(optional, {key \in DOMAIN optional : optional[key] # "empty"}))

\* Mutant of genericClaims: only the names JWT reserves are left out.
genericClaimsReserved(u) ==
  Restrict(u, DOMAIN u \ {"iss", "sub", "aud", "exp", "nbf", "iat", "jti", "vct", "cnf"})

\* The generic type discloses the user data as it is, but for internal names.
genericClaims(u) == Restrict(u, DOMAIN u \ genericExcludedClaims)
=============================================================================
