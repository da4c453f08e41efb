------------------------ MODULE MCObservationBuffer ------------------------
(* Small instances of ObservationBuffer for TLC.                           *)
EXTENDS ObservationBuffer, TLC

AllItems  == {DataItems}
EachItem  == {{i} : i \in DataItems} \cup {DataItems}
SomeCounts == {-2, 1, 2, 3}
ForwardAndBack == {-1, 2}

(* Codes, keys and values of entries are compared and never ordered.       *)
MergeSymmetry == Permutations(Codes) \cup Permutations(Keys) \cup Permutations(EntryValues)
=============================================================================
