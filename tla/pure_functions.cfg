SPECIFICATION Spec
CONSTANTS
  IntBits = 16
  Lists <- MCLists
  Indexes <- MCIndexes
  Widths <- MCWidths
  Identifiers <- MCIdentifiers
  Tokens <- MCTokens
  Forms <- MCForms
  Bodies <- MCBodies
  Settings <- MCSettings
  PublicURLs <- MCPublicURLs
  URLLists <- MCURLLists
  Routes <- MCRoutes
INVARIANTS
  ListedMatchesEntry
  KnownSchemeSplit
  PIDClaimsAreTexts
  InternalNamesNeverMinted
  NoProofLost
  HTUBoundToEndpoint
