---------------------------- MODULE MCAssetStore ----------------------------
(* Instances of AssetStore for TLC.                                        *)
EXTENDS AssetStore, TLC

Stored        == {[type |-> y, removed |-> FALSE] : y \in Types}
StoredRemoved == Asset

IdSymmetry == Permutations(Ids)
=============================================================================
