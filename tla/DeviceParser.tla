---------------------------- MODULE DeviceParser ----------------------------
(* What XmlParser makes of a device document: the components, their data   *)
(* items, compositions, references and configurations, and the data items  *)
(* that getDataItems finds below a node of a document.                     *)
EXTENDS XmlTree, Naturals

CONSTANTS
  Floats      \* [text -> text]: floatToString(strtod(text)), "0" for others

Float(text) == IF text \in DOMAIN Floats THEN Floats[text] ELSE "0"

-----------------------------------------------------------------------------
(* Component, Device and DataItem: the attributes they keep.               *)

ComponentKeys == {"id", "name", "uuid", "nativeName"}

SampleInterval(attrs) ==
  LET text == IF "sampleInterval" \in DOMAIN attrs THEN attrs["sampleInterval"]
              ELSE IF "sampleRate" \in DOMAIN attrs THEN attrs["sampleRate"]
              ELSE "0"
  IN  IF Float(text) = "0" THEN "" ELSE Float(text)

BuildAttributes(attrs) ==
  addAttributes(Restrict(attrs, ComponentKeys \cap DOMAIN attrs)
                @@ Attribute("sampleInterval", SampleInterval(attrs)))

(* The device keeps its class as well, until its attributes are rebuilt.   *)
DeviceAttributes(attrs) ==
  BuildAttributes(attrs) @@ Restrict(attrs, {"iso841Class"} \cap DOMAIN attrs)

Representations == {"TIME_SERIES", "DISCRETE", "DATA_SET", "TABLE"}

DataItemAttributes(attrs) ==
  LET kept == {k \in DOMAIN attrs :
                 CASE k = "representation" -> attrs[k] \in Representations
                   [] k = "discrete"       -> attrs[k] = "true"
                   [] OTHER -> k \in {"id", "name", "type", "subType", "category",
                                      "statistic", "sampleRate", "units", "nativeUnits",
                                      "nativeScale", "significantDigits",
                                      "coordinateSystem", "compositionId"}}
      read == [k \in kept |-> IF k \in {"nativeScale", "significantDigits"}
                              THEN Float(attrs[k]) ELSE attrs[k]]
      native == IF "units" \in kept THEN Attribute("nativeUnits", attrs["units"])
                ELSE NoAttributes
  IN  read @@ native

-----------------------------------------------------------------------------
(* XmlParser.                                                              *)

loadDefinition(node) ==
  [key |-> getAttribute(node, "key"),
   attrs |-> addAttributes(Read(node, {"units", "type", "subType"})),
   description |-> ChildText(node, "Description")]

(* std::set::emplace: the first definition of a key stays.                 *)
EmplaceAll(definitions) ==
  FoldLeft(LAMBDA kept, d : IF \E i \in DOMAIN kept : kept[i].key = d.key
                            THEN kept ELSE Append(kept, d),
           <<>>, definitions)

loadCells(node) ==
  LET Cells(list) == MapSeq(loadDefinition, Children(list, "CellDefinition"))
  IN  EmplaceAll(FlattenSeq(MapSeq(Cells, Children(node, "CellDefinitions"))))

loadEntries(node) ==
  LET Entry(e) == loadDefinition(e) @@ [cells |-> loadCells(e)]
      Entries(list) == MapSeq(Entry, Children(list, "EntryDefinition"))
  IN  EmplaceAll(FlattenSeq(MapSeq(Entries, Children(node, "EntryDefinitions"))))

loadDataItemDefinition(node) ==
  [description |-> ChildText(node, "Description"),
   entries |-> loadEntries(node), cells |-> loadCells(node)]

SourceKeys == {"dataItemId", "componentId", "compositionId"}

Inner(node, outer, tag) ==
  FlattenSeq(MapSeq(LAMBDA c : Children(c, tag), Children(node, outer)))

Filled(nodes) == SelectSeq(nodes, LAMBDA c : c.text # "")

LastText(nodes) == IF nodes = <<>> THEN "" ELSE Last(nodes).text

loadDataItem(node) ==
  LET source == Children(node, "Source")
      filter == Inner(node, "Filters", "Filter")
      period == SelectSeq(filter, LAMBDA f : getAttribute(f, "type") = "PERIOD")
      Deltas(k) == CASE k.tag = "Constraints" -> Filled(Children(k, "Filter"))
                     [] k.tag = "Filters" ->
                          SelectSeq(Children(k, "Filter"),
                                    LAMBDA f : getAttribute(f, "type") # "PERIOD")
                     [] OTHER -> <<>>
      delta  == FlattenSeq(MapSeq(Deltas, node.kids))
      definition == Children(node, "Definition")
  IN  [attrs   |-> DataItemAttributes(node.attrs),
       source  |-> LastText(source),
       origin  |-> IF source = <<>> THEN NoAttributes
                   ELSE addAttributes(Read(Last(source), SourceKeys)),
       minimum |-> LastText(Filled(Inner(node, "Constraints", "Minimum"))),
       maximum |-> LastText(Filled(Inner(node, "Constraints", "Maximum"))),
       values  |-> MapSeq(LAMBDA v : v.text,
                          Filled(Inner(node, "Constraints", "Value"))),
       delta   |-> IF delta = <<>> THEN "" ELSE Float(LastText(delta)),
       period  |-> IF period = <<>> THEN "" ELSE Float(LastText(period)),
       initial |-> ChildText(node, "InitialValue"),
       reset   |-> ChildText(node, "ResetTrigger"),
       definition |-> IF definition = <<>> THEN <<>>
                      ELSE <<loadDataItemDefinition(Last(definition))>>]

handleComposition(node) ==
  LET d == Children(node, "Description")
  IN  [attrs |-> addAttributes(Read(node, {"id", "type", "uuid", "name"})),
       description |->
         IF d = <<>> THEN <<>>
         ELSE <<[attrs |-> addAttributes(Read(Last(d), {"manufacturer", "model",
                                                       "serialNumber", "station"})),
                 body |-> Last(d).text]>>]

handleReference(node) ==
  [type |-> IF node.tag = "ComponentRef" THEN "COMPONENT" ELSE "DATA_ITEM",
   id   |-> getAttribute(node, IF node.tag = "Reference" THEN "dataItemId" ELSE "idRef"),
   name |-> getAttribute(node, "name")]

(* Neither the next calibration date of the sensor nor that of a channel   *)
(* is read: the sensor's goes into the rest with everything unknown.       *)
handleSensorConfiguration(node) ==
  LET known == {"FirmwareVersion", "CalibrationDate", "CalibrationInitials", "Channels"}
      Channel(c) == [attrs |-> addAttributes(c.attrs),
                     description |-> ChildText(c, "Description"),
                     date |-> ChildText(c, "CalibrationDate"),
                     initials |-> ChildText(c, "CalibrationInitials")]
      channels == Children(node, "Channels")
  IN  [kind |-> "SensorConfiguration",
       firmware |-> ChildText(node, "FirmwareVersion"),
       date     |-> ChildText(node, "CalibrationDate"),
       initials |-> ChildText(node, "CalibrationInitials"),
       rest     |-> SelectSeq(node.kids, LAMBDA k : k.tag \notin known),
       channels |-> IF channels = <<>> THEN <<>>
                    ELSE MapSeq(Channel, Last(channels).kids)]

handleRelationships(node) ==
  LET known == SelectSeq(node.kids, LAMBDA k : k.tag \in {"ComponentRelationship",
                                                         "DeviceRelationship"})
      Own(k) == IF k.tag = "ComponentRelationship" THEN {"idRef"}
                ELSE {"href", "role", "deviceUuidRef"}
      Relationship(k) ==
        [class |-> k.tag,
         attrs |-> addAttributes(Read(k, {"id", "name", "type", "criticality"} \cup Own(k)))]
  IN  [kind |-> "Relationships", relationships |-> MapSeq(Relationship, known)]

handleCoordinateSystems(node) ==
  LET System(k) ==
        [attrs |-> addAttributes(Read(k, {"id", "name", "type", "nativeName", "parentIdRef"})),
         origin |-> ChildText(k, "Origin"),
         translation |-> LastText(Inner(k, "Transformation", "Translation")),
         rotation |-> LastText(Inner(k, "Transformation", "Rotation"))]
  IN  [kind |-> "CoordinateSystems", systems |-> MapSeq(System, node.kids)]

handleSpecifications(node) ==
  LET Specification(k) ==
        [attrs |-> addAttributes(Read(k, {"name", "type", "subType", "units",
                     "dataItemIdRef", "compositionIdRef", "coordinateSystemIdRef"})),
         maximum |-> ChildText(k, "Maximum"),
         minimum |-> ChildText(k, "Minimum"),
         nominal |-> ChildText(k, "Nominal")]
  IN  [kind |-> "Specifications", specifications |-> MapSeq(Specification, node.kids)]

handleConfiguration(node) ==
  LET Handle(k) ==
        CASE k.tag = "SensorConfiguration" -> handleSensorConfiguration(k)
          [] k.tag = "Relationships"       -> handleRelationships(k)
          [] k.tag = "CoordinateSystems"   -> handleCoordinateSystems(k)
          [] k.tag = "Specifications"      -> handleSpecifications(k)
          [] OTHER -> [kind |-> "Extended", content |-> k]
  IN  MapSeq(Handle, node.kids)

Collections == {"Components", "DataItems", "References", "Compositions"}
References  == {"Reference", "DataItemRef", "ComponentRef"}
Parts       == {"DataItem", "Composition", "Description", "Configuration"}
               \cup Collections \cup References

(* handleChildren: a collection hands its children to the same parent, and *)
(* so a component's part may as well stand outside of its collection.      *)
RECURSIVE PartsOf(_)
PartsOf(node) ==
  FlattenSeq(MapSeq(LAMBDA k : IF k.tag \in Collections THEN PartsOf(k) ELSE <<k>>,
                    node.kids))

RECURSIVE handleNode(_)
handleNode(node) ==
  LET parts == PartsOf(node)
      Of(tags) == SelectSeq(parts, LAMBDA k : k.tag \in tags)
      descriptions == Of({"Description"})
  IN  [class |-> node.tag,
       attrs |-> IF node.tag = "Device" THEN DeviceAttributes(node.attrs)
                 ELSE BuildAttributes(node.attrs),
       description  |-> IF descriptions = <<>> THEN NoAttributes
                        ELSE addAttributes(Last(descriptions).attrs),
       body         |-> LastText(Filled(descriptions)),
       config       |-> FlattenSeq(MapSeq(handleConfiguration, Of({"Configuration"}))),
       items        |-> MapSeq(loadDataItem, Of({"DataItem"})),
       children     |-> MapSeq(handleNode,
                               SelectSeq(parts, LAMBDA k : k.tag \notin Parts)),
       compositions |-> MapSeq(handleComposition, Of({"Composition"})),
       references   |-> MapSeq(handleReference, Of(References))]

(* parseFile: every element below Devices is a device.                     *)
parseDevices(document) == MapSeq(handleNode, Children(document, "Devices")[1].kids)

-----------------------------------------------------------------------------
(* The data items and references below a node stand two or more levels     *)
(* down, in their collections.                                             *)

Below(node) == UNION {Descendants(k) : k \in ToSet(node.kids)}

WithId(document, id) == {n \in Descendants(document) : getAttribute(n, "id") = id}

NonEmpty_Inverted(id) == {id} \cap {""}

(* An empty id is not put into the filter.                                 *)
NonEmpty(id) == {id} \ {""}

RECURSIVE getDataItems(_, _)
getDataItems(document, node) ==
  CASE node.tag = "DataItem"     -> {getAttribute(node, "id")}
    [] node.tag = "DataItems"    -> {getAttribute(k, "id") :
                                       k \in ToSet(Children(node, "DataItem"))}
    [] node.tag = "Reference"    -> NonEmpty(getAttribute(node, "dataItemId"))
    [] node.tag = "DataItemRef"  -> NonEmpty(getAttribute(node, "idRef"))
    [] node.tag = "ComponentRef" ->
         UNION {getDataItems(document, n) :
                  n \in WithId(document, getAttribute(node, "idRef"))}
    [] OTHER ->
         UNION {getDataItems(document, n) :
                  n \in {b \in Below(node) : b.tag \in {"DataItem"} \cup References}}
=============================================================================
