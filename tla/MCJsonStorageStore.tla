------------------------ MODULE MCJsonStorageStore ------------------------
(* Small instances of JsonStorageStore for TLC.                            *)
EXTENDS JsonStorageStore, TLC

\* calls and flushes are alike, and so are the stores, and the ids: no
\* property tells them apart
MCSymmetry == Permutations(Calls) \cup Permutations(Flushers)
              \cup Permutations(Stores) \cup Permutations(Ids)

MCMissing == {TRUE, FALSE}
=============================================================================
