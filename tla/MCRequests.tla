----------------------------- MODULE MCRequests -----------------------------
(* Requests that reach every handler and every check: two puts that name   *)
(* the same items, two that put different entries of one data set, a data  *)
(* item called "time", a file that two get, numbers at and beyond the ends *)
(* of their ranges.                                                        *)
EXTENDS Requests

T(is, n, word, set) == [is |-> is, n |-> n, word |-> word, set |-> set]

Num(n)  == T("int", n, "", {})
Text(w) == T("word", 0, w, {})
Big     == T("big", 0, "", {})
Empty   == T("empty", 0, "", {})
Set(s)  == T("word", 0, "", s)

A1 == [name |-> "a", value |-> 1]
A2 == [name |-> "a", value |-> 2]
B1 == [name |-> "b", value |-> 1]

R(method, from, path, keys, texts) ==
  [method |-> method, from |-> from, accept |-> <<"html", "json">>, path |-> path,
   keys |-> keys, query |-> [k \in ToSet(keys) |-> texts[CHOOSE i \in DOMAIN keys : keys[i] = k]]]

Get(path, keys, texts) == R("GET", "far", path, keys, texts)

Reads ==
  {Get(<<"current">>, <<"at">>, <<Num(n)>>) : n \in {0, 1, 4}}
  \cup {Get(<<"current">>, <<"at", "interval">>, <<Num(3), Num(10)>>),
        Get(<<"d1", "current">>, <<"heartbeat">>, <<Num(9)>>),
        Get(<<"d9", "current">>, <<>>, <<>>),
        Get(<<"sample">>, <<"count">>, <<Num(0)>>),
        Get(<<"sample">>, <<"count", "interval">>, <<Num(-1), Num(0)>>),
        Get(<<"sample">>, <<"count", "from">>, <<Num(-3), Num(2)>>),
        Get(<<"sample">>, <<"count">>, <<Num(-5)>>),
        Get(<<"sample">>, <<"from">>, <<Big>>),
        Get(<<"sample">>, <<"frequency", "start">>, <<Empty, Num(4)>>),
        Get(<<"sample">>, <<"path">>, <<Text("nothing")>>)}

Others ==
  {Get(<<"d1">>, <<>>, <<>>), Get(<<"d9", "probe">>, <<>>, <<>>),
   Get(<<"d1", "other">>, <<>>, <<>>), Get(<<"d1", "probe", "x">>, <<>>, <<>>),
   Get(<<"assets">>, <<"count">>, <<Text("many")>>)}

Writes ==
  {R("PUT", "near", <<"d1">>, <<"time", "x">>, <<Text("now"), Text("v")>>),
   R("POST", "near", <<"d2", "a">>, <<"none", "time", "x">>, <<Text("v"), Text("v"), Text("v")>>),
   R("PUT", "near", <<"d1">>, <<"_type">>, <<Text("command")>>),
   R("PUT", "near", <<"d2">>, <<"_type", "x">>, <<Text("command"), Text("v")>>),
   R("PUT", "near", <<"d1">>, <<"s", "x">>, <<Set({A1, B1}), Text("v")>>),
   R("PUT", "near", <<"d1">>, <<"s">>, <<Set({A2, B1})>>),
   R("PUT", "far", <<"d1">>, <<"x">>, <<Text("v")>>),
   R("PUT", "near", <<"d9">>, <<"x">>, <<Text("v")>>),
   R("HEAD", "near", <<"d1">>, <<>>, <<>>),
   R("DELETE", "near", <<"assets", "a">>, <<"device">>, <<Text("d2")>>)}

MCRequests == Reads \cup Others \cup Writes \cup {Get(<<"file">>, <<>>, <<>>)}

MCDevices ==
  ("d1" :> [items |-> {"s", "x"}, dataSets |-> {"s"}, adapters |-> <<"a1", "a2">>])
  @@ ("d2" :> [items |-> {"time", "x"}, dataSets |-> {}, adapters |-> <<"a2">>])

MCFileMap == <<"file">> :> "f"

(* A file that changes before anybody has asked for it might as well       *)
(* change after the first request for it was made, which does not look at  *)
(* files in its first step.  So files change only from then on.            *)
FilesMatter ==
  \/ present = Range(m_fileMap) /\ \A f \in DOMAIN versions : Len(versions[f]) = 1
  \/ DOMAIN m_fileCache # {}
  \/ \E t \in Threads : thread[t] # Idle /\ isFile(Request(t))

MCThreads == Permutations(Threads)
=============================================================================
