--------------------------- MODULE MCSampleStream ---------------------------
(* Small instances of SampleStream for TLC.                                *)
EXTENDS SampleStream

EachFilter == {{i} : i \in Items} \cup {Items}
=============================================================================
