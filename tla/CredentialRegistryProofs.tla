---------------------- MODULE CredentialRegistryProofs ----------------------
(***************************************************************************)
(* Proofs about CredentialRegistry for any types, documents and clients:   *)
(* what a client is refused, and the attestation it is held to, follow     *)
(* from the entry of its type in the document its process started on.      *)
(***************************************************************************)
EXTENDS CredentialRegistry, TLAPS

USE DocumentAssumption

\* What the path serves is a document over the known types.
LEMMA ServedType == \A f \in Files : Served(f) \in AllDocuments
<1>1. NoTypes \in [{} -> Entry] /\ {} \in SUBSET Types
  BY DEF NoTypes, Entry
<1>2. NoTypes \in AllDocuments
  BY <1>1 DEF AllDocuments
<1> QED
  BY <1>2 DEF Files, Served

\* A registry has the types written in Go and the SD-JWT types of its
\* document, and a configuration for each.
LEMMA RegisteredType ==
  ASSUME NEW doc \in AllDocuments
  PROVE  /\ Registered(doc) \in AllRegistries
         /\ DOMAIN Registered(doc) = CodeTypes \union GenericTypes(doc)
<1> DEFINE D == CodeTypes \union GenericTypes(doc)
<1>1. PICK S \in SUBSET Types : doc \in [S -> Entry]
  BY DEF AllDocuments
<1>2. D \in SUBSET Types
  BY <1>1 DEF GenericTypes
<1>3. \A t \in D : (IF t \in CodeTypes THEN CodeConfig ELSE GenericConfig(doc[t])) \in Config
  BY <1>1 DEF GenericTypes, GenericConfig, CodeConfig, Config, Entry
<1>4. Registered(doc) \in [D -> Config]
  BY <1>3 DEF Registered
<1> QED
  BY <1>2, <1>4 DEF AllRegistries

\* The configuration a registry has for a type.
LEMMA RegisteredConfig ==
  ASSUME NEW doc, NEW t \in DOMAIN Registered(doc)
  PROVE  Registered(doc)[t] = IF t \in CodeTypes THEN CodeConfig ELSE GenericConfig(doc[t])
  BY DEF Registered

LEMMA RegistryInitInv == RegistryInit => RegistryInv
<1> SUFFICES ASSUME RegistryInit PROVE RegistryInv
  OBVIOUS
<1>1. builtFrom \in AllDocuments /\ registry = Registered(builtFrom)
  BY ServedType DEF RegistryInit, StartupDocument
<1>2. NoTypes \in AllDocuments /\ AnyType \in Types /\ NoConfig \in Config
  BY ServedType DEF Files, Served, AnyType, NoConfig, Config
<1>3. RegistryTypeOK
  BY <1>1, <1>2, RegisteredType DEF RegistryInit, RegistryTypeOK
<1>4. RegistryAgrees
  BY <1>1 DEF RegistryInit, RegistryAgrees
<1> QED
  BY <1>3, <1>4 DEF RegistryInv

\* Reading the metadata answers nothing yet.
LEMMA ReadMetadataInv ==
  ASSUME RegistryInv, NEW c \in Clients, ReadMetadata(c)
  PROVE  RegistryInv'
<1> USE DEF RegistryInv, ReadMetadata
<1>1. Served(file) \in AllDocuments
  BY ServedType DEF RegistryTypeOK
<1>2. RegistryTypeOK'
  BY <1>1 DEF RegistryTypeOK
<1>3. RegistryAgrees'
  BY DEF RegistryTypeOK, RegistryAgrees
<1> QED
  BY <1>2, <1>3

\* A lookup answers from the registry, which is that of its basis.
LEMMA LookupInv ==
  ASSUME RegistryInv, NEW c \in Clients, Lookup(c)
  PROVE  RegistryInv'
<1> USE DEF RegistryInv
<1>1. PICK t \in Types :
        /\ asked' = [asked EXCEPT ![c] = t] /\ basis' = [basis EXCEPT ![c] = builtFrom]
        /\ \/ /\ t \in DOMAIN registry /\ found' = [found EXCEPT ![c] = registry[t]]
              /\ rpc' = [rpc EXCEPT ![c] = "known"]
           \/ /\ t \notin DOMAIN registry /\ found' = found
              /\ rpc' = [rpc EXCEPT ![c] = "unsupported"]
        /\ UNCHANGED <<file, registry, builtFrom, advertised>>
  BY DEF Lookup
<1>2. \A u \in DOMAIN registry : registry[u] \in Config
  BY DEF RegistryTypeOK, AllRegistries
<1>3. RegistryTypeOK'
  BY <1>1, <1>2 DEF RegistryTypeOK
<1>4. RegistryAgrees'
  BY <1>1 DEF RegistryTypeOK, RegistryAgrees
<1> QED
  BY <1>3, <1>4

\* A replaced file changes nothing a client was told; a restart registers the
\* types of the file as it is then.
LEMMA DeploymentInv ==
  ASSUME RegistryInv, ReplaceFile \/ RegistryRestart
  PROVE  RegistryInv'
<1> USE DEF RegistryInv
<1>1. CASE ReplaceFile
  BY <1>1 DEF ReplaceFile, clientVars, RegistryTypeOK, RegistryAgrees
<1>2. CASE RegistryRestart
  <2>1. builtFrom' \in AllDocuments /\ registry' = Registered(builtFrom')
    BY <1>2, ServedType DEF RegistryRestart, StartupDocument, RegistryTypeOK
  <2>2. registry' \in AllRegistries
    BY <2>1, RegisteredType
  <2> QED
    BY <1>2, <2>1, <2>2 DEF RegistryRestart, clientVars, RegistryTypeOK, RegistryAgrees
<1> QED
  BY <1>1, <1>2

LEMMA RegistryNextInv == RegistryInv /\ [RegistryNext]_registryVars => RegistryInv'
<1> SUFFICES ASSUME RegistryInv, [RegistryNext]_registryVars PROVE RegistryInv'
  OBVIOUS
<1>1. CASE \E c \in Clients : ReadMetadata(c) \/ Lookup(c)
  BY <1>1, ReadMetadataInv, LookupInv
<1>2. CASE ReplaceFile \/ RegistryRestart
  BY <1>2, DeploymentInv
<1>3. CASE UNCHANGED registryVars
  BY <1>3 DEF registryVars, RegistryInv, RegistryTypeOK, RegistryAgrees
<1> QED
  BY <1>1, <1>2, <1>3 DEF RegistryNext

\* The inductive invariant of the registry holds in every reachable state.
THEOREM RegistryInvHolds == RegistrySpec => []RegistryInv
<1>1. RegistryInit => RegistryInv
  BY RegistryInitInv
<1>2. RegistryInv /\ [RegistryNext]_registryVars => RegistryInv'
  BY RegistryNextInv
<1> QED
  BY <1>1, <1>2, PTL DEF RegistrySpec

\* What a registry lacks is not written in Go, and what is the same entry in
\* the document it was built from is an mdoc type (RegisterGenericFromMetadata
\* skips nothing else).
LEMMA RefusalsExplained == RegistryInv => RefusedTypeHasCause
<1> SUFFICES ASSUME RegistryInv, NEW c \in Clients, rpc[c] = "unsupported"
             PROVE  /\ asked[c] \notin CodeTypes
                    /\ SameEntry(c) => advertised[c][asked[c]].format = "mso_mdoc"
  BY DEF RefusedTypeHasCause
<1>1. basis[c] \in AllDocuments
  BY DEF RegistryInv, RegistryTypeOK
<1>2. asked[c] \notin CodeTypes \union GenericTypes(basis[c])
  BY <1>1, RegisteredType DEF RegistryInv, RegistryAgrees
<1>3. ASSUME SameEntry(c)
      PROVE  advertised[c][asked[c]].format = "mso_mdoc"
  <2>1. asked[c] \in DOMAIN basis[c] /\ advertised[c][asked[c]] = basis[c][asked[c]]
    BY <1>3 DEF SameEntry
  <2>2. basis[c][asked[c]] \in Entry
    BY <1>1, <2>1 DEF AllDocuments
  <2> QED
    BY <1>2, <2>1, <2>2 DEF GenericTypes, Entry
<1> QED
  BY <1>2, <1>3

THEOREM RefusedTypesHaveCause == RegistrySpec => []RefusedTypeHasCause
  BY RefusalsExplained, RegistryInvHolds, PTL

\* A type written in Go keeps its minter and its attestation; a generic type is
\* held to what the entry asks for that it was built from.
LEMMA AttestationFollows == RegistryInv => AttestationNeverWeakened
<1> SUFFICES ASSUME RegistryInv, NEW c \in Clients, rpc[c] = "known"
             PROVE  /\ asked[c] \in CodeTypes => found[c] = CodeConfig
                    /\ asked[c] \notin CodeTypes /\ SameEntry(c)
                         => found[c] = GenericConfig(advertised[c][asked[c]])
  BY DEF AttestationNeverWeakened
<1>1. /\ asked[c] \in DOMAIN Registered(basis[c])
      /\ found[c] = Registered(basis[c])[asked[c]]
  BY DEF RegistryInv, RegistryAgrees
<1>2. found[c] = IF asked[c] \in CodeTypes THEN CodeConfig
                 ELSE GenericConfig(basis[c][asked[c]])
  BY <1>1, RegisteredConfig
<1> QED
  BY <1>2 DEF SameEntry

THEOREM AttestationIsNeverWeakened == RegistrySpec => []AttestationNeverWeakened
  BY AttestationFollows, RegistryInvHolds, PTL
=============================================================================
