------------------------- MODULE CredentialRegistry -------------------------
(***************************************************************************)
(* The issuer's metadata document and its registry of credential types     *)
(* (openid4vci/metadata.go, credential/registry.go, credential/generic.go, *)
(* app.go).  The document comes from a file that may replace the one       *)
(* compiled in.  It is read anew for each request of the metadata, while   *)
(* the registry is filled from it once, when the process starts: the types *)
(* written in Go first, then every SD-JWT type of the document they do not *)
(* claim.  POST /credential knows the types of the registry alone.         *)
(*                                                                         *)
(* A document is a function from the types it declares to their format and *)
(* whether they require a key attestation.  The failure to sign the        *)
(* document, which answers 500, changes nothing and is left out.           *)
(***************************************************************************)
EXTENDS Integers

CONSTANTS
  Types,       \* credential configuration ids
  CodeTypes,   \* those registered by the init function of credential/pid.go
  Documents,   \* the documents that the file at the metadata path may hold
  Embedded,    \* the document compiled into the binary
  Unreadable,  \* a file that is not set, or cannot be read
  Malformed,   \* a file that is not JSON
  Clients      \* the requests that are sent to POST /credential

Entry == [format : {"dc+sd-jwt", "mso_mdoc"}, attested : BOOLEAN]
Config == [minter : {"pid", "generic"}, required : BOOLEAN]

AllDocuments == UNION {[D -> Entry] : D \in SUBSET Types}
AllRegistries == UNION {[D -> Config] : D \in SUBSET Types}

ASSUME DocumentAssumption ==
  /\ Types # {} /\ CodeTypes \subseteq Types
  /\ Embedded \in AllDocuments /\ Documents \subseteq AllDocuments
  /\ Unreadable \notin Documents /\ Malformed \notin Documents /\ Unreadable # Malformed

Files == Documents \union {Unreadable, Malformed}

VARIABLES
  file,        \* what the metadata path leads to
  registry,    \* credential.Registry of the running process
  builtFrom,   \* history: the document served when the process started
  rpc,         \* where each client is
  advertised,  \* the document each client was served, if it asked
  asked,       \* the type each client named
  basis,       \* history: builtFrom when that type was looked up
  found        \* the configuration found

clientVars == <<rpc, advertised, asked, basis, found>>
registryVars == <<file, registry, builtFrom, rpc, advertised, asked, basis, found>>

-----------------------------------------------------------------------------

NoTypes == [t \in {} |-> [format |-> "mso_mdoc", attested |-> FALSE]]

\* loadIssuerMetadataJSON falls back when the file cannot be read.  What is
\* read but does not parse leaves the template empty: that error is dropped.
Served(f) ==
  IF f = Unreadable THEN Embedded ELSE IF f = Malformed THEN NoTypes ELSE f

\* Mutant of StartupDocument: only the document compiled in is registered.
StartupEmbedded(f) == Embedded

\* EmbeddedCredentialConfigurations reads the file like IssuerMeta does.
StartupDocument(f) == Served(f)

\* Both Go configurations require a key attestation in their own metadata.
CodeConfig == [minter |-> "pid", required |-> TRUE]

\* The types of a document that RegisterGenericFromMetadata registers.
GenericTypes(doc) == {t \in DOMAIN doc : doc[t].format = "dc+sd-jwt"} \ CodeTypes

GenericConfig(entry) == [minter |-> "generic", required |-> entry.attested]

\* Mutant of Registered: the document's entries replace those written in Go.
RegisteredLast(doc) ==
  LET listed == {t \in DOMAIN doc : doc[t].format = "dc+sd-jwt"}
  IN  [t \in CodeTypes \union listed |->
        IF t \in listed THEN GenericConfig(doc[t]) ELSE CodeConfig]

Registered(doc) ==
  [t \in CodeTypes \union GenericTypes(doc) |->
     IF t \in CodeTypes THEN CodeConfig ELSE GenericConfig(doc[t])]

NoConfig == [minter |-> "generic", required |-> FALSE]
AnyType == CHOOSE t \in Types : TRUE

\* The process starts on a file of any kind.
RegistryInit ==
  /\ file \in Files
  /\ builtFrom = Served(file)
  /\ registry = Registered(StartupDocument(file))
  /\ rpc = [c \in Clients |-> "idle"]
  /\ advertised = [c \in Clients |-> NoTypes]
  /\ asked = [c \in Clients |-> AnyType]
  /\ basis = [c \in Clients |-> NoTypes]
  /\ found = [c \in Clients |-> NoConfig]

\* GET /.well-known/openid-credential-issuer
ReadMetadata(c) ==
  /\ rpc[c] = "idle"
  /\ advertised' = [advertised EXCEPT ![c] = Served(file)]
  /\ rpc' = [rpc EXCEPT ![c] = "informed"]
  /\ UNCHANGED <<file, registry, builtFrom, asked, basis, found>>

\* POST /credential looks up the type its request names, and what the
\* metadata of that type requires (credentialConfigRequiresKeyAttestation).
Lookup(c) ==
  /\ rpc[c] \in {"idle", "informed"}
  /\ basis' = [basis EXCEPT ![c] = builtFrom]
  /\ \E t \in Types :
       /\ asked' = [asked EXCEPT ![c] = t]
       /\ \/ /\ t \in DOMAIN registry
             /\ found' = [found EXCEPT ![c] = registry[t]]
             /\ rpc' = [rpc EXCEPT ![c] = "known"]
          \/ /\ t \notin DOMAIN registry
             /\ rpc' = [rpc EXCEPT ![c] = "unsupported"]
             /\ UNCHANGED found
  /\ UNCHANGED <<file, registry, builtFrom, advertised>>

\* The deployment replaces, breaks or removes the file under the process.  Bound:
\* not once every client has been answered, when no document matters any more.
ReplaceFile ==
  /\ \E c \in Clients : rpc[c] \in {"idle", "informed"}
  /\ file' \in Files \ {file}
  /\ UNCHANGED <<registry, builtFrom, clientVars>>

\* A new process runs init and New on the file as it is then.
RegistryRestart ==
  /\ builtFrom' = Served(file)
  /\ registry' = Registered(StartupDocument(file))
  /\ UNCHANGED <<file, clientVars>>

RegistryNext ==
  \/ \E c \in Clients : ReadMetadata(c) \/ Lookup(c)
  \/ ReplaceFile
  \/ RegistryRestart

RegistrySpec == RegistryInit /\ [][RegistryNext]_registryVars

-----------------------------------------------------------------------------

RegistryTypeOK ==
  /\ file \in Files
  /\ registry \in AllRegistries
  /\ builtFrom \in AllDocuments
  /\ rpc \in [Clients -> {"idle", "informed", "known", "unsupported"}]
  /\ advertised \in [Clients -> AllDocuments]
  /\ asked \in [Clients -> Types]
  /\ basis \in [Clients -> AllDocuments]
  /\ found \in [Clients -> Config]

\* The document a client was served and the one its process started on say the
\* same of the type it asked for.
SameEntry(c) ==
  /\ asked[c] \in DOMAIN advertised[c] /\ asked[c] \in DOMAIN basis[c]
  /\ advertised[c][asked[c]] = basis[c][asked[c]]

\* A client is refused a type advertised to it only when nothing can mint the
\* type, because it is an mdoc type other than those written in Go, or when its
\* entry is another one in the document its process started on.  However often the
\* file was replaced in between, a type whose entry is the same in both is
\* not refused, and one written in Go never is.
RefusedTypeHasCause ==
  \A c \in Clients : rpc[c] = "unsupported" =>
    /\ asked[c] \notin CodeTypes
    /\ SameEntry(c) => advertised[c][asked[c]].format = "mso_mdoc"

\* A generic type is held to the key attestation its advertised entry asks for,
\* neither more nor less, as long as that entry is the same in the document
\* the process started on, whatever else was replaced; and a type written in Go
\* keeps its own minter and its attestation whatever any document says of it.
AttestationNeverWeakened ==
  \A c \in Clients : rpc[c] = "known" =>
    /\ asked[c] \in CodeTypes => found[c] = CodeConfig
    /\ asked[c] \notin CodeTypes /\ SameEntry(c)
         => found[c] = GenericConfig(advertised[c][asked[c]])

-----------------------------------------------------------------------------
(* The strengthening that makes these inductive (CredentialRegistryProofs). *)

\* The registry is that of the document it was built from, and a client that
\* was answered got the answer of the registry built from its basis.
RegistryAgrees ==
  /\ registry = Registered(builtFrom)
  /\ \A c \in Clients :
       /\ rpc[c] = "known" =>
            /\ asked[c] \in DOMAIN Registered(basis[c])
            /\ found[c] = Registered(basis[c])[asked[c]]
       /\ rpc[c] = "unsupported" => asked[c] \notin DOMAIN Registered(basis[c])

RegistryInv == RegistryTypeOK /\ RegistryAgrees
=============================================================================
