SPECIFICATION FairSpec
CONSTANTS
  Offers = {o1, o2}
  NoOffer = NoOffer
  Credentials = {c1}
  Known = {p1, p2}
  Generated = {g1}
  NoSession = NoSession
  FormTTL = 2
  MaxTime = 2
INVARIANTS
  TypeOK
  DisclosedFormFindable
  MergedFormIsOfSession
PROPERTIES
  MergedFormIsLatest
  FormMissedOnlyOnFailure
  EveryOfferEnds
