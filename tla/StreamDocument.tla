--------------------------- MODULE StreamDocument ---------------------------
(* Answers to sample and current: XmlPrinter::printSample and              *)
(* JsonPrinter::printSample write the observations of a request below      *)
(* their device, component and category.  Two clients ask for the same     *)
(* observations, one in each format.                                       *)
EXTENDS Naturals, Sequences, SequencesExt, FiniteSets, TLC

CONSTANTS
  Inputs,     \* the sequences of observations a request may have fetched, each
              \* [item, component, device, category, sequence, prefix, name,
              \* kind, value]
  Namespaces, \* the prefixes in m_streamsNamespaces
  Number(_)   \* the number or numbers a text stands for, as text

(* A data item's id, its component and its device are numbers that stand   *)
(* for the ids as they are ordered; a category is a DataItem::ECategory.   *)
Categories == <<"Samples", "Events", "Condition">>

VARIABLES
  fetched,  \* the array a request has fetched
  xmlPos,   \* observations that printSample has written so far, in XML
  writer,   \* the XML writer and the three elements that follow it
  jsonPos,  \* the same for JSON
  streams   \* the vector of DeviceRef

vars == <<fetched, xmlPos, writer, jsonPos, streams>>

-----------------------------------------------------------------------------
(* Observation::operator<: device, component, category, item, sequence.    *)

Less(a, b) ==
  IF a.device # b.device THEN a.device < b.device
  ELSE IF a.component # b.component THEN a.component < b.component
  ELSE IF a.category # b.category THEN a.category < b.category
  ELSE IF a.item # b.item THEN a.item < b.item
  ELSE a.sequence < b.sequence

Sorted(s) == SortSeq(s, Less)

Place(o) == <<o.device, o.component, Categories[o.category]>>

-----------------------------------------------------------------------------
(* XmlPrinter: AutoElement closes whatever element is open at the writer.  *)

None == [name |-> "", key |-> 0]

NewWriter ==
  [stack |-> <<>>, opened |-> <<>>, written |-> <<>>,
   device |-> None, component |-> None, category |-> None]

openElement(w, e) ==
  [w EXCEPT !.stack = Append(@, e), !.opened = Append(@, Append(w.stack, e))]

closeElement(w) == [w EXCEPT !.stack = Front(@)]

reset(w, element, name, key) ==
  LET new == [name |-> name, key |-> key]
      closed == IF w[element].name = "" THEN w ELSE closeElement(w)
      opened == IF name = "" THEN closed ELSE openElement(closed, new)
  IN  IF w[element] = new THEN w ELSE [opened EXCEPT ![element] = new]

(* XmlPrinter::addObservation.  The element is named after the level of a  *)
(* condition or the type of the item, whose prefix is left out if it is of *)
(* no registered namespace.  Numbers, texts, the numbers of a time series  *)
(* and the entries and cells of data sets and tables are written as they   *)
(* are.                                                                    *)
ElementName(o, prefix) == [prefix |-> IF o.category = 3 THEN "" ELSE prefix, local |-> o.name]

XmlName(o) == ElementName(o, IF o.prefix \in Namespaces THEN o.prefix ELSE "")

addObservation(w, o) ==
  [w EXCEPT !.written = Append(@, [in |-> w.stack, name |-> XmlName(o), value |-> o.value,
                                   sequence |-> o.sequence])]

DeviceBegins(w, o) ==
  IF w.device.key = o.device THEN w
  ELSE reset(reset(reset(w, "category", "", 0), "component", "", 0),
             "device", "DeviceStream", o.device)

ComponentBegins(w, o) ==
  IF w.component.key = o.component THEN w
  ELSE reset(reset(w, "category", "", 0), "component", "ComponentStream", o.component)

CategoryBegins_Once(w, o) ==
  IF w.category.name # "" THEN w ELSE reset(w, "category", Categories[o.category], 0)

CategoryBegins(w, o) == reset(w, "category", Categories[o.category], 0)

xmlObservation ==
  LET o == Sorted(fetched)[xmlPos + 1]
  IN  /\ xmlPos < Len(fetched)
      /\ xmlPos' = xmlPos + 1
      /\ writer' = addObservation(CategoryBegins(ComponentBegins(DeviceBegins(writer, o), o), o), o)
      /\ UNCHANGED <<fetched, jsonPos, streams>>

(* The elements go out of scope, the innermost first.                      *)
xmlEnd ==
  /\ xmlPos = Len(fetched)
  /\ xmlPos' = xmlPos + 1
  /\ writer' = reset(reset(reset(writer, "category", "", 0), "component", "", 0),
                     "device", "", 0)
  /\ UNCHANGED <<fetched, jsonPos, streams>>

-----------------------------------------------------------------------------
(* JsonPrinter: DeviceRef, ComponentRef and CategoryRef, each of which     *)
(* goes on with its last entry or begins a new one.                        *)

(* toJson: numbers are written as numbers, a removed entry without its     *)
(* value, and the prefix of an item always.                                *)
JsonEntry(e, nothing) == IF e.removed THEN [e EXCEPT !.value = nothing] ELSE e

JsonValue(o) ==
  CASE o.kind = "set"                  -> {JsonEntry(e, "") : e \in o.value}
    [] o.kind = "table"                -> {JsonEntry(e, {}) : e \in o.value}
    [] o.kind \in {"number", "series"} -> Number(o.value)
    [] OTHER                           -> o.value

JsonObservation(o) == [name |-> ElementName(o, o.prefix), value |-> JsonValue(o), sequence |-> o.sequence]

(* The list with its last entry changed, or with a new one when the last   *)
(* is for another key.                                                     *)
Extend(list, key, Change(_)) ==
  IF list # <<>> /\ Last(list).key = key
  THEN [list EXCEPT ![Len(list)].in = Change(@)]
  ELSE Append(list, [key |-> key, in |-> Change(<<>>)])

CategoryAdd(list, o) ==
  Extend(list, Categories[o.category], LAMBDA s : Append(s, JsonObservation(o)))

ComponentAdd(list, o) == Extend(list, o.component, LAMBDA s : CategoryAdd(s, o))

DeviceAdd_Front(list, o) ==
  IF list # <<>> THEN [list EXCEPT ![1].in = ComponentAdd(@, o)]
  ELSE Append(list, [key |-> o.device, in |-> ComponentAdd(<<>>, o)])

DeviceAdd(list, o) == Extend(list, o.device, LAMBDA s : ComponentAdd(s, o))

jsonObservation ==
  LET o == Sorted(fetched)[jsonPos + 1]
  IN  /\ jsonPos < Len(fetched)
      /\ jsonPos' = jsonPos + 1
      /\ streams' = DeviceAdd(streams, o)
      /\ UNCHANGED <<fetched, xmlPos, writer>>

(* ComponentRef::toJson assigns a member per category: the last one stays. *)
JsonMembers(categories) ==
  SelectSeq(categories, LAMBDA c : \A i \in DOMAIN categories :
                                     categories[i].key = c.key => categories[i] = c)

JsonContent ==
  LET Entries(d, c, k) == [i \in DOMAIN k.in |-> [place |-> <<d.key, c.key, k.key>>,
                                                 entry |-> k.in[i]]]
      OfComponent(d, c) == LET m == JsonMembers(c.in)
                           IN  FlattenSeq([i \in DOMAIN m |-> Entries(d, c, m[i])])
      OfDevice(d) == FlattenSeq([i \in DOMAIN d.in |-> OfComponent(d, d.in[i])])
  IN  FlattenSeq([i \in DOMAIN streams |-> OfDevice(streams[i])])

-----------------------------------------------------------------------------
Init ==
  /\ fetched \in Inputs
  /\ xmlPos = 0
  /\ writer = NewWriter
  /\ jsonPos = 0
  /\ streams = <<>>

Next == xmlObservation \/ xmlEnd \/ jsonObservation

Spec == Init /\ [][Next]_vars

-----------------------------------------------------------------------------
XmlDone == xmlPos = Len(fetched) + 1
JsonDone == jsonPos = Len(fetched)

(* The elements of the document are nested as their kinds are.             *)
TypeOK ==
  /\ fetched \in Inputs
  /\ xmlPos \in 0..(Len(fetched) + 1)
  /\ jsonPos \in 0..Len(fetched)
  /\ Len(writer.stack) <= 3
  /\ \A i \in DOMAIN writer.stack :
       writer.stack[i].name \in CASE i = 1 -> {"DeviceStream"}
                                  [] i = 2 -> {"ComponentStream"}
                                  [] i = 3 -> ToSet(Categories)

(* printSample writes no device, component or category in two pieces:      *)
(* whatever order the observations were fetched in, no element is opened   *)
(* twice and all are closed in the end.                                    *)
WholeElements ==
  /\ \A i, j \in DOMAIN writer.opened : writer.opened[i] = writer.opened[j] => i = j
  /\ XmlDone => writer.stack = <<>>

XmlPlace(stack) == <<stack[1].key, stack[2].key, stack[3].name>>

(* The elements are nested and whole, and every observation of a request   *)
(* is written exactly once, below its own device, component and category   *)
(* (XML).                                                                  *)
EachInItsPlace ==
  /\ TypeOK
  /\ WholeElements
  /\ XmlDone =>
       /\ Len(writer.written) = Len(fetched)
       /\ \A o \in ToSet(fetched) : \E w \in ToSet(writer.written) :
            Len(w.in) = 3 /\ XmlPlace(w.in) = Place(o) /\ w.sequence = o.sequence

XmlContent ==
  [i \in DOMAIN writer.written |->
     LET w == writer.written[i]
     IN  [place |-> XmlPlace(w.in),
          entry |-> [name |-> w.name, value |-> w.value, sequence |-> w.sequence]]]

Numbers(content) ==
  [i \in DOMAIN content |->
     IF content[i].place[3] = "Samples"
     THEN [content[i] EXCEPT !.entry.value = IF @ \in STRING THEN Number(@) ELSE @]
     ELSE content[i]]

Registered(content) ==
  [i \in DOMAIN content |->
     [content[i] EXCEPT !.entry.name.prefix = IF @ \in Namespaces THEN @ ELSE ""]]

(* Both formats answer with the same observations in the same places, in   *)
(* the same order, but for the spelling of numbers (six digits in an XML   *)
(* time series) and for a prefix of no registered namespace, which only    *)
(* JSON shows.                                                             *)
FormatsAgree ==
  XmlDone /\ JsonDone => Numbers(XmlContent) = Registered(JsonContent)
=============================================================================
