------------------------ MODULE MCBtpsAuthentication ------------------------
(* Small instances of BtpsAuthentication for TLC.                          *)
EXTENDS BtpsAuthentication, TLC

\* the values of each kind are alike: no property tells them apart
MCSymmetry ==
    Permutations(Calls) \cup Permutations(Keys) \cup Permutations(RefreshTokens)
=============================================================================
