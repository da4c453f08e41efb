-------------------------- MODULE MCStreamDocument --------------------------
(* Two devices, the second with a component of the same id as one of the   *)
(* first, and observations of every kind: numbers, texts, UNAVAILABLE,     *)
(* conditions, time series, data sets and tables with removed entries (all *)
(* but 3D samples, which JSON splits into three numbers).                  *)
EXTENDS StreamDocument

Obs(device, component, category, item, sequence, prefix, kind, value) ==
  [device |-> device, component |-> component, category |-> category, item |-> item,
   sequence |-> sequence, prefix |-> prefix,
   name |-> <<"Position", "Program", "Fault">>[category], kind |-> kind, value |-> value]

Entry(key, value) == [key |-> key, value |-> value, removed |-> FALSE]
Removed(key, nothing) == [key |-> key, value |-> nothing, removed |-> TRUE]
Cell(key, value) == [key |-> key, value |-> value]

SomeObservations == {
  Obs(1, 1, 1, 11, 5, "", "number", "1.50"),
  Obs(1, 1, 1, 11, 2, "", "unavailable", "UNAVAILABLE"),
  Obs(1, 1, 3, 12, 3, "x", "text", "alarm"),
  Obs(1, 2, 2, 13, 4, "", "set", {Entry("a", "1"), Removed("b", "")}),
  Obs(1, 2, 2, 14, 7, "x", "table",
      {Entry("r", {Cell("c", "1"), Cell("d", "2")}), Removed("q", {})}),
  Obs(2, 2, 2, 21, 1, "y", "text", "program"),
  Obs(2, 2, 1, 22, 6, "x", "number", "2"),
  Obs(2, 2, 1, 23, 8, "", "series", "1.5 2 ") }

(* The observations as the buffer or a checkpoint gives them, in any order *)
(* of up to three, or of four without a table and a time series, with a    *)
(* chain of two observations of one item among them.                       *)
Orders(S, n) == {s \in [1..n -> S] : \A i, j \in 1..n : s[i] = s[j] => i = j}

SomeInputs ==
  UNION {Orders(SomeObservations, n) : n \in 0..3}
    \cup Orders({o \in SomeObservations : o.kind \notin {"table", "series"}}, 4)

NumberOf(text) == CASE text = "1.50" -> "1.5" [] text = "1.5 2 " -> "1.5,2" [] OTHER -> text
=============================================================================
