---------------------------- MODULE MCOfferForms ----------------------------
\* Small instances of OfferForms for TLC.
EXTENDS OfferForms, TLC

MCSymmetry ==
  Permutations(Offers) \union Permutations(Known) \union Permutations(Generated)
=============================================================================
