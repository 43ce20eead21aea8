# A TLA+ model of api-issuer

api-issuer issues verifiable credentials over OpenID4VCI: a portal asks it for a
credential offer, a wallet exchanges the offer at IDAuth for an access token and
asks the issuer for credentials, one per holder key it proves to own. The issuer
itself keeps little state, but what it keeps is shared by concurrent requests
(four caches and a registry), and one credential request makes several calls to other services
that may each fail half way. The models are about that: what stays true between
credentials signed, revocation slots taken, records written, forms stored, proofs
seen, nonces spent, types advertised and attestations revoked, whatever the interleaving and whatever fails.

All paths are relative to `src/`. `PROJECT.json` maps every definition to the
lines it stands for.

## 1. Inventory

| Component | State | Operations | Interacts with |
|---|---|---|---|
| Credential issuance (`routes/credential.go` `issueAndRespond`, `credential/sdjwt.go`, `credential/mdoc.go`) | locals of a request | per proof: take a slot, mint, record, append; then answer | status list service (`POST /take`), signing key, database function |
| Proof and key attestation verification (`routes/credential.go` IDAuth branch, `credential/proof.go`, `openid4vci/wua_validate.go`) | locals of a request | `ValidateWUA`, `VerifyProofSignatureAll`, attestation gate | wallet provider's status list, clock |
| Bearer and DPoP authentication (`middleware.go`, `dpop/`, `routes/router.go`) | jti cache | `BearerAuthenticate`, `Validate`, `ReplayCheck` | IDAuth introspection, cache, clock |
| Credential offers and forms (`routes/offer.go`, `openid4vci/form_store.go`, `idauth/client.go`) | form cache | `generateCredentialOffer`, `AddFormData`, `GetFormData` | IDAuth `POST /preauth_generate`, cache |
| Nonce service and WUA sessions (`openid4vci/nonce.go`, `wua_store.go`, `routes/nonce.go`) | nonce cache, session cache | `Nonce`, `ValidateNonce`, `GetWUASession`, ... | cache, clock |
| Accepted DPoP URLs (`routes/router.go` `buildExtraHTUs`, `dpop/dpop.go` `NewValidator`) | a map filled at startup | grouping by route, htu test | settings |
| Issuance records (`openid4vci/issuance.go`) | rows in the database | `RecordCredentialIssuance`, `splitHolderIdentifier` | database |
| Claims (`credential/pid.go`, `credential/generic.go`) | none | `buildPIDClaims`, generic exclusion | settings |
| Status list decoding (`isIndexListed`) | none | bit lookup | |
| Request parsing (`routes/request/request.go`) | none | `UnmarshalJSON` | |
| Registry and metadata (`credential/registry.go`, `openid4vci/metadata.go`, `signed_metadata.go`, `routes/wellknown.go`) | registry filled at startup | `Register`, `IssuerMeta` | metadata file |
| Certificate caches (`openid4vci/config.go`, `jwk.go`) | two lazily filled fields | `SigningCertificate`, `TrustedWalletProviderCertPool` | configuration |
| Audit hook, configuration, process, OpenAPI (`app.go`, `config.go`, `cmd/server/`, `openapi/`) | none of interest | start-up wiring | |

How one credential request runs: `BearerAuthenticate` (WUA session lookup, then
introspection, DPoP proof, jti cache) → registry lookup → form cache lookup by the token's subject, merged
over the token's claims → for each proof: `ValidateWUA` (may call a status list),
`VerifyProofSignatureAll` → attestation gate → `issueAndRespond`: for each proof
result take, mint, record, append → one answer. The form was put into the cache by
an earlier offer request. If the token names a WUA session, introspection and DPoP are
skipped and the handler takes its other branch: mint a nonce, look up the type, check
each proof against that nonce (`VerifyProof`), issue.

What is hard here: a loop of three outgoing calls per credential with no
transaction around it; replies lost after the callee acted; look-then-record on a
shared cache; several readings of the clock within one request; forms keyed by a
session id that another service decides; caches with expiry that a restart may
empty; a document that is read anew for each request and a registry that was filled
from it once. `PROJECT.json` lists these as `hazards`, each at its line.

What makes each component correct:

- issuance: a revocation slot is in at most one credential; a record describes a
  credential that was signed, once; an answer lists exactly the credentials signed
  for the request, in proof order; failures waste at most one slot each;
- authentication: a recorded proof is not accepted by a later lookup; a bound token
  is let through only with a fresh proof by its key;
- offers: a disclosed offer's form can be found; what is merged is no other session's
  form and no older one than the session has;
- nonces: one is accepted at most once, and findable as long as it is valid;
- registry: an advertised type is refused only if nothing can mint it, and each type is
  held to the attestation its entry or the Go code asks for, unless that very entry was
  replaced since the process started;
- verification: with enforcement on, keys come only from validated, unrevoked
  attestations; a required attestation covers every key; one result per usable key;
- pure functions: each agrees with a definition of what it is for.

## 2. Modules

| Module | What it is |
|---|---|
| `IssuanceLedger` | abstract specification: what `POST /credential` promises about credentials and answers |
| `CredentialIssuance` | `issueAndRespond`, status list service, minter, database function; refines `IssuanceLedger` |
| `CredentialIssuanceProofs` | its inductive invariant and theorems; a stronger invariant for answers, expiries and wasted slots; the refinement of `IssuanceLedger` |
| `BearerAuthentication` | middleware, DPoP validator, replay check over the jti cache |
| `BearerAuthenticationProofs` | its inductive invariant and theorems |
| `OfferForms` | offers and the form cache, from storing to merging |
| `OfferFormsProofs` | its inductive invariant and theorems |
| `ProofVerification` | the verification loop of `POST /credential` |
| `ProofVerificationProofs` | its inductive invariant and theorems |
| `OneTimeTokens` | abstract specification: a token is issued once and redeemed at most once |
| `NonceService` | `Nonce` and `ValidateNonce` over the nonce cache; refines `OneTimeTokens` |
| `NonceServiceProofs` | its inductive invariant, the refinement |
| `CredentialRegistry` | metadata document, registry filled at startup, lookups |
| `CredentialRegistryProofs` | its inductive invariant and theorems |
| `CredentialRequests` | composition: both branches of `POST /credential` from the header to the choice of a minter, over `NonceService` and `CredentialRegistry` |
| `CredentialRequestsProofs` | the composition inherits its components' theorems |
| `StatusListBits`, `HolderIdentifier`, `CredentialClaims`, `RequestParsing`, `AcceptedHTUs` | pure functions as operators |
| `PureFunctions` | picks a function and an input, states what each function is for |
| `PureFunctionsProofs` | that each is what it is for, for every input; the inductions over data this needs |
| `MC*` | values of the constants for TLC |

### CredentialIssuance

`pc[r]` is the line a handler waits at: `take` (inside `StatusList().Take`),
`allocated` (the service acted, the reply is under way), `mint`, `record` (inside
`RecordCredentialIssuance`), `stored` (the row is written, the reply is under
way). Calls are split in two so that `TakeFailed` and `RecordFailed` can happen
after the callee acted. `taken` belongs to the status list service, `db` to the
database, `minted` is every credential ever signed, `entries` the response so far.
`expiry` is `credExpiry`, read once in `Begin`; a credential's `exp` is read in
`Mint`, from the clock of that moment. `Crash` loses every running request, `Tick`
moves the clock. Formats, disclosures and signatures are left out; a credential is
its request, position, slot and expiry.

`IssuanceLedger` knows only open, answered and aborted requests, credentials and
answers. The refinement maps `pc` to the status and `entries` of an answered
request to its answer: take, record and append are stutters, `Mint` is `Issue`, the
last append is `Answer`, failing or crashing is `Abort`.

### BearerAuthentication

The cache maps a jti to the time its entry expires. `Arrive` is the parsing of the
Authorization header, `TokenRefused`/`TokenUnbound`/`TokenBound` the outcomes of
introspection, `Validate` the check of the proof with its reading of the clock,
`LookupHit`/`LookupMiss`/`LookupFailed` the cache `Get` (fails open),
`Record`/`RecordFailed` the cache `Set` (fails closed, whether or not the entry was
stored), and the verdict compares scheme and key after that. `recorded`, `before`
and `failedOpen` are history. A `Restart` loses the requests, and the cache if it
lives in the process. The WUA session lookup that precedes introspection is in
`CredentialRequests`; here it has missed. What `Validate` reads from the proof alone
is one field, its htu test is `AcceptedHTUs`.

### OfferForms

An offer request is reduced to what decides where its form goes: the session id of
the body, the person number in the form, whether the form has entries, whether the
pre-authorized grant is asked for. IDAuth (external) echoes a hint and otherwise
makes up a session, as `routes/offer.go:89` describes. A credential request has
the subject of a token; a subject is the session of a disclosed offer or one a
login names; its lookup finds a form (`MergeForm`), finds none (`NoFormFound`) or is not
answered (`NoAnswer`), which the code treats alike. `StoreFailed` covers a `Set` that failed with and without effect,
`Restart` a cache that is lost and one that is kept.

### ProofVerification

One request, because everything it keeps is local; beside it run the clock and the
wallet provider's revocations. A proof carries a bare key, an attestation in its
header, or is itself an attestation. `ValidateWUA` ends in `verify` or goes through
`status`; `Unverified` is the enforcement switch; `VerifySignature` and
`SingleKey`/`BeginBatch` each parse the attestation with a clock of their own;
`AttestedKey` is one pass of the loop over the attested keys; `Gate` is the
final check on `KeyAttestationVerified`. Typ, certificate chain and signature of an
attestation are one field (`genuine`).

### NonceService

A nonce is named by the call that mints it, since its subject is a fresh ULID.
`MintNonce` is the token with its reading of the clock, `StoreNonce` and
`StoreNonceFailed` the cache `Set` with a later one; `Present` and `PresentForged` are
decryption and the `ValidAt` rule of `ValidateNonce`, `PopHit`/`PopMiss`/`PopFailed` its
`Pop`. `ValidateNonce` has no caller in `src/`, so `Validations` stands for the callers
its comment speaks of: `ImplementsOneTime` is the contract they would get, from a `Pop`
that the cache does in one step. The refinement of `OneTimeTokens` counts a nonce live while its
entry is: storing is `Issue`, `PopHit` is `Redeem`, expiry, a failed `Pop` that took
effect and a lost cache are `Withdraw`.

### CredentialRegistry

A document is a function from types to format and required attestation. `Served` is
`loadIssuerMetadataJSON` with the unmarshalling after it: an unreadable file falls back
to the compiled-in document, a malformed one leaves no types. `Registered` fills the
registry as `init` and `RegisterGenericFromMetadata` do. `ReadMetadata` serves the
document of this moment, `Lookup` asks the registry of this process; `basis` records
what that registry was built from. `RegistryRestart` comes between any two steps, and
`ReplaceFile` as long as a client is still to be answered (after that no document
matters). The file may have been replaced any number of times between the document a client
was served and the one its process started on, so the properties speak of the
one entry a client asks for: `SameEntry` compares it in both documents, and whatever
else differs must not matter.

### CredentialRequests

Extends both and adds where each request is (`wpc`) and the nonce its proofs carry. Its
actions conjoin a component's action with their own effect: `MintOwnNonce` is
`MintNonce`, `LookupType` is `Lookup`, `Restart` hits everything at once. Whether a
session is found is left open, because nothing in `src/` registers one. On the branch of a session
a proof is refused for its key attestation, text, signature, audience or age
(`ProofRefused`), or, all that being in order, `CompareNonces` decides: the request goes on
to issuance, or ends `mismatched`. What introspection
and DPoP decide and what follows the lookup of the IDAuth branch belongs to
`BearerAuthentication`, `ProofVerification` and `CredentialIssuance`: the request is
`forwarded` to them.

### Pure functions

`isIndexListed` (integer width as a constant), `splitHolderIdentifier` (pieces
instead of characters), `buildPIDClaims`, the user data merge and the generic
exclusion list (claims as functions to text / empty text / not text),
`UnmarshalJSON` of a credential request (an object as the items under its two proof keys,
those under its other keys, and whether it holds lists only, since a map decodes
as a whole or not at all), and the DPoP URLs accepted per route (paths as sequences of
segments, the empty one included).

## 3. Runs

| Run | Bounds | Shows |
|---|---|---|
| `issuance` | 2 requests, 3 slots, 2 proofs, clock to 1, PID 2, generic 1 | type, `SlotsNeverShared`, `RecordsMatchCredentials`, `AnswerMatchesLedger`, `OneWastedSlotPerFailure`, `PIDExpiryNeverOverstated`; `ImplementsLedger`; `EveryRequestEnds` under fairness |
| `dpop_replay` | 2 requests, 2 jtis, 2 keys, window 1, TTL 4, latency 1, clock to 6 | type, `SequentialReplayRejected`, `JtiOutlivesWindow`, `BoundRequestProved`, `ReplayEndsWithWindow`; `EveryRequestDecided` |
| `offer_forms` | 2 offers, 1 credential request, 2 known sessions, 1 generated, TTL 2, clock to 2 | type, `DisclosedFormFindable`, `MergedFormIsOfSession`; `MergedFormIsLatest`, `FormMissedOnlyOnFailure`, `EveryOfferEnds` |
| `key_attestation` | 2 keys and an unusable one, up to 2 proofs of each kind, attestations of up to 3 entries and one that lists a key twice, clock to 1 | type, `EnforcedMeansValidated`, `RevokedBeforeIsRefused`, `AttestedKeysWereLive`, `ResultsFollowProofs`, `RequiredAttestationHeld`; `EveryRequestDecided` |
| `pure_functions` | lists of up to 3 bytes, widths −1 to 18 with 16-bit integers; identifiers of up to 5 pieces; forms over 4 claims; bodies of up to 2 objects; up to 2 configured URLs beside the public one | `ListedMatchesEntry`, `KnownSchemeSplit`, `PIDClaimsAreTexts`, `InternalNamesNeverMinted`, `NoProofLost`, `HTUBoundToEndpoint` |
| `request_paths` | 1 request, 1 public nonce, 2 validations, TTL 1, clock to 2; a type written in Go and two of the documents, files readable, missing and malformed; symmetry on validations | type, `FreshNonceFindable`, `RefusedTypeHasCause`, `AttestationNeverWeakened`; `ImplementsOneTime` |
| `issuance_expiry`, `dpop_race`, `attestation_doc`, `wua_nonce`, `holder_identifier`, `pid_mandatory` | as above, smaller | the disagreements of section 5 |

Why these bounds: two requests with two proofs let every pair of steps of the loop
interleave, within a batch and across requests. Four slots are all that two such
requests can use; with three, either request can complete its batch while the other is
under way, and the list runs short as well (a take then fails). One tick suffices for a
mint to read the clock after the expiry was fixed. For the jti cache the clock runs past the lifetime of an entry
and past both windows of a proof dated ahead, with the smallest integers for which
the time to live exceeds two windows and the latency. Two offers with a time to
live of two ticks cover overwriting an entry that is still live, expiry and restart in
any order.
Three bytes and widths to 18 cover entries inside a byte, across two bytes and
across three, and ones wider than the integer. In `request_paths` two validations race
for one nonce while it expires, is lost or is popped; one request is enough because
requests share nothing but the registry, which they only read, and nonces of their
own. Of the three types one is written in Go, and the document in the file declares it,
without attestation; the second both documents declare alike; the third is mdoc in the
document compiled in and SD-JWT in the file. So an entry that stays while the document
around it is replaced, one that changes, one that only one document has, and one that
is declared unlike its code all occur.

Every property of a passing run fails when the code it is about is changed in a
small, plausible way; the changed definitions stand before the ones they replace,
named "Mutant of", and `PROJECT.json` pairs them.

Fairness: each handler's step is weakly fair, with every outgoing call allowed to
succeed or fail. It stands for the Go scheduler running the goroutine of a request
and for HTTP clients, cache and database returning within their timeouts. Arrival of
requests, ticks, crashes and revocations are not fair. `request_paths` assumes no
fairness: its properties are about safety. Deadlock is checked everywhere; a run in which
all requests have ended stutters (`Finished`), and in `request_paths` a file can always
be replaced.

## 4. Proofs

The runs check small instances; the theorems hold for any number of requests,
slots, proofs, sessions and any durations that satisfy the named assumptions.

`CredentialIssuanceProofs`. `SlotsNeverShared` alone is not inductive: nothing in it
says that the slot a handler is about to mint against is unused. `IInv` adds
`LoopDiscipline` (a handler in the loop has a proof left, and a slot once past the
take), `SlotDiscipline` (a slot held between take and mint is in no credential and
held by no one else; every slot in a credential was taken) and `RecordDiscipline`
(between mint and append the credential exists, and is in the database exactly when
the database function ran). From it follow `TypeCorrect`, `SlotsAreNeverShared` and
`RecordsAlwaysMatch`. Assumptions: at least one proof per request, `NoSlot` is not a
slot, durations are naturals.

`BearerAuthenticationProofs`. The argument for `SequentialReplayRejected` is about
time: a proof let through the iat test at a lookup is at most `IATWindow` old plus
the latency up to the lookup; a jti was recorded when the proof was at most
`IATWindow` ahead of the clock, so its entry lives until at least
`iat - IATWindow + JtiTTL`, which is later if `JtiTTL > 2 * IATWindow + Latency`
(`WindowAssumption`; with the code's one and five minutes, any latency below three
minutes). `ClockDiscipline`, `CacheDiscipline` and `HistoryDiscipline` carry these
facts from step to step. Theorems: `TypeCorrect`, `ReplaysAreRejected`,
`JtiIsRemembered`.

`OfferFormsProofs`. Neither invariant says what the cache holds, so
`IInv` adds it. `CacheDiscipline`: an entry is a form stored for that very
session since the cache was last lost, with its own expiry; a stored form not lost with
the cache is there or a later one is; and lost forms are no later than the others.
`StoreDiscipline`: an offer about to store has a form and a
session, and a stored offer is settled (its request, session and store time no
longer change). `MergeDiscipline`: a credential request looks up a real session,
and what it merged was stored. Storing is the hard step, since it changes the
entry other offers are owed: it has a lemma of its own, used by both outcomes of
the handler after it. Theorems: `TypeCorrect`, `MergedFormIsAlwaysOfSession`,
`DisclosedFormIsFindable`. Assumptions: `OfferAssumption`, `SessionAssumption`,
`TTLAssumption`.

`FormIsMissedOnlyOnFailure` and `MergedFormIsAlwaysLatest` are action properties of the
same invariant: a lookup that finds nothing contradicts `CacheDiscipline` for every stored,
unexpired form, and what a lookup finds (`CachedIsLatest`) was stored since the cache was
last lost, hence no earlier than any form lost with it, and no earlier than any other.

`BearerAuthenticationProofs`, beyond the cache: `ProofDiscipline` ties what a handler has
checked to its place in the code (`BoundRequestsAreProved`), and since every check
places the clock within one window of the proof's iat, any two uses of a proof are
within two windows (`ReplaysEnd`), whatever races, failed lookups and restarts do.

`CredentialIssuanceProofs`, answers and the ledger. `IInv` does not say where in its batch a credential belongs, so
`LedgerInv` adds it: `PositionDiscipline` (a running or answered request has credentials
at the positions 1 to `Progress`, each once, with the slots of its entries),
`EntryDiscipline` (an entry's id names its own record) and `ExpiryDiscipline`. From it
follow `AnswersMatchTheLedger`, `PIDExpiryIsNeverOverstated` and the refinement
`IssuanceImplementsLedger`: one lemma for each kind of step shows it to be `Issue`,
`Answer`, `Abort` or a stutter of `IssuanceLedger`, the mint resting on a lemma that
counts the credentials of a request (a bijection from `1 .. Progress`).
`OneSlotWastedPerFailure` has a strengthening of its own, `WasteDiscipline`: a slot in no
credential is the last one of a request that holds it or has failed. The inequality
follows by mapping credentials and such requests onto slots. No finiteness is assumed:
that only finitely many requests have begun is part of the invariant.

`ProofVerificationProofs`. The invariant has two parts. `RestInv` is about what each
result rests on: `Sound` says what it was read from (its proof, a usable
key, a parse before expiry); `ResultDiscipline`, `PassedDiscipline` and `LoopDiscipline`
carry it through the two nested loops: with enforcement on, the attestation whose keys are
being used has passed, and what passed was not revoked before the request. Theorems:
`TypeCorrect`, `EnforcementHolds`, `RevokedUnitsAreRefused`,
`KeysComeFromLiveAttestations`, `RequiredAttestationsHold`.

`CoverDiscipline` is about what the results amount to together, which `RestInv` leaves
open: it could hold of a list with a key left out or one key twice. Each result carries,
as history, the place of its proof and of its entry in the attestation's list
(`of`, `entry`). Behind the loop over the proofs, every proof has its results, in order
and complete; ahead of it there are none; inside the loop over an attestation's keys the
results of this proof are those of the usable entries before the one at hand. An
attestation may expire between its two parses, and its proof then has the first key as
its only result: `Complete` says so of the moment at hand, and it stays true as the
clock moves on (`CompleteLater`). The hard steps append a result, and rest
on lemmas about what that does to the places of one proof (`EntriesAppended`,
`OrderExtended`) and of the others (`OthersKept`). Theorem: `ResultsCoverProofs`.

`NonceServiceProofs`. `NonceEntries` (the entry of a minted nonce lasts as long as its
token, or was removed) and `NonceRedeemers` (an accepted nonce was removed, and has one
acceptor) are inductive with the type invariant; `FreshNonceIsFindable` and the
refinement `NoncesAreOneTime` follow, the hard step being the tick, which withdraws
every entry that expires with it.

`CredentialRegistryProofs`. `RegistryAgrees`: the registry is `Registered` of the document
it was built from, and an answered client got that registry's answer. What it was refused
or held to is then a matter of its type's entry in that document. Theorems:
`RefusedTypesHaveCause`, `AttestationIsNeverWeakened`.

`CredentialRequestsProofs`. `ComponentsRun` shows that every step of the composition is a
step or a stutter of each component, so their theorems carry over
(`ComponentProperties`, `NoncesStayOneTime`). `TypeCorrect` joins the type invariants.

`PureFunctionsProofs`. A behaviour only picks a function and an input (`InputsTyped`), so
these theorems are about the functions, for every list, identifier, body, token, form and
URL. Three of the functions compute by recursion on their input. The library's induction
theorems take an operator as parameter, which no installed prover can instantiate, so the
module has induction as a statement about sets: a set that holds 0 and with each
number the next holds all numbers (`AllNumbers`, from the well-foundedness of
the naturals). `RecursionExists` derives from it that a function defined by recursion
on an interval exists and satisfies its equations; `PowersExist`, `SumsExist`,
`TextsCounted` and `FlattenStarts` are its uses.

- `ListedEntriesAreSet`: the sum over the bits of an entry is zero exactly if all bits an
  integer can hold are (`SumIsZero`), and the guard on the last index is the same as lying
  wholly in the list (`BeyondQuotient`). The width of the integer is any positive number.
- `NoProofsLost`: an occurrence is counted through concatenation, appending, filtering
  (`TextsCounted`) and flattening (`FlattenCounted`, by the starts of the parts), so a
  proof occurs among those verified as often as the request gives it.
- `HTUsBoundToEndpoints`: what is left of a path without its trailing slashes ends with the
  last segment that is not empty (`TrimmedPathEnds`, `LocalPathNames`).
- `PIDClaimsTyped`, `InternalNamesStayInternal`, `KnownSchemesSplit`: by cases.

Assumptions: `InputAssumption` (the inputs have their types, a map of lists is one
object, the public URL parses, which `openid4vci/config.go:23` validates) and
`IntBitsAssumption`.

Assumptions throughout are those the modules name; none says more than that constants
have their type, are distinct where they must be, and `WindowAssumption`.

Every invariant and every safety property of a step that a passing run checks is stated
by one of these theorems, and so are the three refinements. Left to TLC is liveness
(`EveryRequestEnds`, `EveryRequestDecided` of both modules, `EveryOfferEnds`): it rests
on weak fairness, hence on `ENABLED`, about which the prover cannot reason. The six
properties that runs violate are refuted by TLC's counterexamples.

## 5. Where the code and its words disagree

- `RecordedExpiryIsActual` (`issuance_expiry`): `openid4vci/issuance.go:35` and
  `routes/response/response.go:10` call the recorded expiry the credential's actual
  one; it is always now + PIDExpiry, also for types that embed CredentialTTL, and is
  read before the minter reads the clock. With both settings at their 24 h default
  the two differ only by the time the calls take.
- `JtiAcceptedOnce` (`dpop_race`): `dpop/dpop.go:26` describes one step that reports
  and records; `routes/router.go:52-63` is a `Get` and a `Set`. What does hold is
  `SequentialReplayRejected`.
- `AttestedMeansVerified` (`attestation_doc`): `credential/registry.go:25` speaks of a
  verified attestation; without enforcement, the default, a failed verification is
  logged only. What does hold is `EnforcedMeansValidated`.
- `EndpointNonceAccepted` (`wua_nonce`): `routes/credential.go:85` says that the nonce of a
  request with a WUA session comes from the PASETO endpoint, `POST /nonce`. The branch mints a
  nonce of its own for each request and demands that one (line 252), which is in no
  proof made before, so a request is refused that proves a fresh nonce of the endpoint.
  The comments on what the branch puts into its credentials (lines 270-273 and
  289-292) describe code that no request reaches.
- `UnknownSchemeUnchanged` (`holder_identifier`): `openid4vci/issuance.go:65` says the
  value is unchanged; anything before the first hyphen is cut off.
- `MandatoryClaimsMinted` (`pid_mandatory`): `credential/pid.go:21` declares
  `birth_date` mandatory; `buildPIDClaims` never copies it.

Observed while reading, with no run:

- the embedded `issuer_metadata.json` names the PID SD-JWT type differently from
  `PIDSDJTVCID` (`credential/pid.go:13`), so the advertised type gets the generic minter;
- `openid4vci/metadata.go:17` says an invalid override falls back to the embedded
  document; that holds for a file that cannot be read, while a malformed one leaves no
  types (`Served`), and line 185 relies on a startup check that drops the same error
  (line 175);
- the README's `/revoke` URL (`README.md:102`) is not among the accepted ones
  (`routes/router.go:48`).

## 6. Not modelled

Cryptography and encodings (SD-JWT, CBOR/COSE, JWS, PASETO, X.509): the models use
what they decide. `AddWUASession` and `DeleteWUASession`: nothing calls them, and a
session found or not found is a choice the model leaves open. The certificate caches
(`openid4vci/config.go:182`): two fields filled on first use without synchronisation. Every
writer computes an equal value from configuration fixed at startup, and a reader gets nil
or a pointer that was stored; but this is a data race, and the Go memory model does not
promise the reader what that pointer leads to. The modules, whose steps are atomic, have
no such outcomes, and no property of theirs speaks of them. The expiry cap of
the WUA branch: behind a check that no request passes. Audit hook, configuration,
command line, health probe, OpenAPI, OAuth metadata: no state that a property could be
about.

## 7. Plan

Done: the modules and proofs above. What could follow, in this order:

1. The htu and the other textual checks of `Validate` (htm, ath, typ) as parts of a proof in
   `BearerAuthentication` rather than one field, if a second route is ever bound to DPoP.
2. The whole of one request as a composition (authentication, verification, form merge,
   issuance), once a property spans more than two of them; today each hands the next a
   value it owns alone, and the parts' theorems compose by that.
3. The WUA session cache with its expiry, as soon as something registers a session.
