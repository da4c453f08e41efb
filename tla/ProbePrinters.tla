--------------------------- MODULE ProbePrinters ---------------------------
(* The probe documents that XmlPrinter and JsonPrinter write for the       *)
(* devices of DeviceParser.  Texts are kept, layout and the header are     *)
(* not.                                                                    *)
EXTENDS DeviceParser

-----------------------------------------------------------------------------
(* XmlPrinter.                                                             *)

printDefinition(tag, d, inner) ==
  Element(tag, d.attrs @@ Attribute("key", d.key),
          SimpleUnlessEmpty("Description", d.description) \o inner)

printCellDefinitions(cells) ==
  Wrapped("CellDefinitions",
          MapSeq(LAMBDA c : printDefinition("CellDefinition", c, <<>>), cells))

printDataItemDefinition(d) ==
  Element("Definition", NoAttributes,
          SimpleUnlessEmpty("Description", d.description)
          \o Wrapped("EntryDefinitions",
                     MapSeq(LAMBDA e : printDefinition("EntryDefinition", e,
                                                       printCellDefinitions(e.cells)),
                            d.entries))
          \o printCellDefinitions(d.cells))

hasSource_Named(item) == item.source # ""

hasSource(item) == item.source # "" \/ item.origin # NoAttributes

FilterElement(type, value) ==
  IF value = "" THEN <<>>
  ELSE <<TextElement("Filter", Attribute("type", type), value)>>

printDataItem(item) ==
  Element("DataItem", item.attrs,
    (IF hasSource(item) THEN <<TextElement("Source", item.origin, item.source)>> ELSE <<>>)
    \o Wrapped("Constraints",
               SimpleUnlessEmpty("Maximum", item.maximum)
               \o SimpleUnlessEmpty("Minimum", item.minimum)
               \o FlattenSeq(MapSeq(LAMBDA v : Simple("Value", v), item.values)))
    \o Wrapped("Filters", FilterElement("MINIMUM_DELTA", item.delta)
                          \o FilterElement("PERIOD", item.period))
    \o SimpleUnlessEmpty("InitialValue", item.initial)
    \o SimpleUnlessEmpty("ResetTrigger", item.reset)
    \o MapSeq(printDataItemDefinition, item.definition))

(* The next calibration date is written although it is never read.         *)
Calibration(c) ==
  Simple("CalibrationDate", c.date) \o Simple("NextCalibrationDate", "")
  \o Simple("CalibrationInitials", c.initials)

printSensorConfiguration(c) ==
  LET firmware == Simple("FirmwareVersion", c.firmware)
      Channel(ch) == Element("Channel", ch.attrs,
                             Simple("Description", ch.description) \o Calibration(ch))
  IN  Element("SensorConfiguration", NoAttributes,
              firmware \o firmware \o Calibration(c) \o c.rest
              \o Wrapped("Channels", MapSeq(Channel, c.channels)))

printRelationships(c) ==
  Wrapped("Relationships",
          MapSeq(LAMBDA r : Element(r.class, r.attrs, <<>>), c.relationships))

printSpecifications(c) ==
  Element("Specifications", NoAttributes,
    MapSeq(LAMBDA s : Element("Specification", s.attrs,
                              SimpleUnlessEmpty("Maximum", s.maximum)
                              \o SimpleUnlessEmpty("Minimum", s.minimum)
                              \o SimpleUnlessEmpty("Nominal", s.nominal)),
           c.specifications))

printCoordinateSystems(c) ==
  Element("CoordinateSystems", NoAttributes,
    MapSeq(LAMBDA s : Element("CoordinateSystem", s.attrs,
                              SimpleUnlessEmpty("Origin", s.origin)
                              \o Wrapped("Transformation",
                                         SimpleUnlessEmpty("Translation", s.translation)
                                         \o SimpleUnlessEmpty("Rotation", s.rotation))),
           c.systems))

printConfiguration(c) ==
  CASE c.kind = "SensorConfiguration" -> <<printSensorConfiguration(c)>>
    [] c.kind = "Relationships"       -> printRelationships(c)
    [] c.kind = "Specifications"      -> <<printSpecifications(c)>>
    [] c.kind = "CoordinateSystems"   -> <<printCoordinateSystems(c)>>
    [] c.kind = "Extended"            -> <<c.content>>

printDescription(attrs, body) ==
  IF attrs = NoAttributes /\ body = "" THEN <<>>
  ELSE <<TextElement("Description", attrs, body)>>

printComposition(c) ==
  Element("Composition", c.attrs,
          MapSeq(LAMBDA d : TextElement("Description", d.attrs, d.body), c.description))

(* Below version 1.4 there is no element for a component reference.        *)
printReference(r, version) ==
  LET attrs(key) == addAttributes(Attribute(key, r.id) @@ Attribute("name", r.name))
  IN  IF version >= 14
      THEN <<Element(IF r.type = "COMPONENT" THEN "ComponentRef" ELSE "DataItemRef",
                     attrs("idRef"), <<>>)>>
      ELSE IF r.type = "DATA_ITEM"
      THEN <<Element("Reference", attrs("dataItemId"), <<>>)>>
      ELSE <<>>

(* An element that is opened as soon as its list is not empty, whatever is *)
(* written into it.                                                        *)
Listed(tag, list, children) ==
  IF list = <<>> THEN <<>> ELSE <<Element(tag, NoAttributes, children)>>

RECURSIVE printProbeHelper(_, _)
printProbeHelper(c, version) ==
  Element(c.class, c.attrs,
    printDescription(c.description, c.body)
    \o Listed("Configuration", c.config, FlattenSeq(MapSeq(printConfiguration, c.config)))
    \o Wrapped("DataItems", MapSeq(printDataItem, c.items))
    \o Wrapped("Components", MapSeq(LAMBDA k : printProbeHelper(k, version), c.children))
    \o Wrapped("Compositions", MapSeq(printComposition, c.compositions))
    \o Listed("References", c.references,
              FlattenSeq(MapSeq(LAMBDA r : printReference(r, version), c.references))))

printProbe(devices, version) ==
  Element("MTConnectDevices", NoAttributes,
    <<Element("Devices", NoAttributes,
              MapSeq(LAMBDA d : printProbeHelper(d, version), devices))>>)

-----------------------------------------------------------------------------
(* JsonPrinter.  Numbers are printed as numbers; a member that is empty is *)
(* left out, and one that is assigned twice keeps the last value.          *)

Number(tag, text) == IF text = "" THEN <<>> ELSE Simple(tag, Float(text))

jsonCells(cells) ==
  Wrapped("CellDefinitions",
          MapSeq(LAMBDA c : printDefinition("CellDefinition", c, <<>>), cells))

jsonItemDefinition(d) ==
  Element("Definition", NoAttributes,
          SimpleUnlessEmpty("Description", d.description)
          \o Wrapped("EntryDefinitions",
                     MapSeq(LAMBDA e : printDefinition("EntryDefinition", e, jsonCells(e.cells)),
                            d.entries))
          \o jsonCells(d.cells))

jsonDataItem(item) ==
  Element("DataItem", item.attrs,
    (IF hasSource(item) THEN <<TextElement("Source", item.origin, item.source)>> ELSE <<>>)
    \o Wrapped("Constraints",
               Number("Maximum", item.maximum) \o Number("Minimum", item.minimum)
               \o FlattenSeq(MapSeq(LAMBDA v : Simple("Value", v), item.values)))
    \o Wrapped("Filters", FilterElement("MINIMUM_DELTA", item.delta)
                          \o FilterElement("PERIOD", item.period))
    \o Number("InitialValue", item.initial)
    \o MapSeq(jsonItemDefinition, item.definition))

jsonComposition(c) ==
  Element("Composition", c.attrs,
          MapSeq(LAMBDA d : TextElement("Description", d.attrs, d.body), c.description))

jsonReference_Items(r) ==
  Element("DataItemRef",
          addAttributes(Attribute("idRef", r.id) @@ Attribute("name", r.name)), <<>>)

jsonReference(r) ==
  Element(IF r.type = "COMPONENT" THEN "ComponentRef" ELSE "DataItemRef",
          addAttributes(Attribute("idRef", r.id) @@ Attribute("name", r.name)), <<>>)

jsonCalibration(c) ==
  SimpleUnlessEmpty("CalibrationDate", c.date)
  \o SimpleUnlessEmpty("CalibrationInitials", c.initials)

(* The origin is lost behind a translation or a rotation, and a rotation   *)
(* is written only beside a translation.                                   *)
jsonCoordinateSystem(s) ==
  LET origin == SimpleUnlessEmpty("Origin", s.origin)
      moved  == IF s.translation = "" THEN <<>>
                ELSE Simple("Translation", s.translation) \o Simple("Rotation", s.rotation)
  IN  Element("CoordinateSystem", s.attrs,
              IF s.translation # "" \/ s.rotation # ""
              THEN <<Element("Transformation", NoAttributes, moved)>>
              ELSE Wrapped("Transformation", origin))

jsonConfiguration(c) ==
  CASE c.kind = "SensorConfiguration" ->
         Element(c.kind, NoAttributes,
           SimpleUnlessEmpty("FirmwareVersion", c.firmware) \o jsonCalibration(c)
           \o Wrapped("Channels",
                MapSeq(LAMBDA ch : Element("Channel", ch.attrs,
                                     SimpleUnlessEmpty("Description", ch.description)
                                     \o jsonCalibration(ch)),
                       c.channels)))
    [] c.kind = "Relationships" ->
         Element(c.kind, NoAttributes,
           MapSeq(LAMBDA r : Element(r.class, r.attrs, <<>>), c.relationships))
    [] c.kind = "Specifications" ->
         Element(c.kind, NoAttributes,
           MapSeq(LAMBDA s : Element("Specification", s.attrs,
                               SimpleUnlessEmpty("Maximum", s.maximum)
                               \o SimpleUnlessEmpty("Minimum", s.minimum)
                               \o SimpleUnlessEmpty("Nominal", s.nominal)),
                  c.specifications))
    [] c.kind = "CoordinateSystems" ->
         Element(c.kind, NoAttributes, MapSeq(jsonCoordinateSystem, c.systems))
    [] c.kind = "Extended" -> Element("ExtendedConfiguration", NoAttributes, <<c.content>>)

(* One member for each kind of configuration.                              *)
LastOfEach(nodes) ==
  FoldLeft(LAMBDA kept, n : Append(SelectSeq(kept, LAMBDA k : k.tag # n.tag), n), <<>>, nodes)

RECURSIVE jsonComponent(_)
jsonComponent(c) ==
  Element(c.class, c.attrs,
    printDescription(c.description, c.body)
    \o Listed("Configuration", c.config, LastOfEach(MapSeq(jsonConfiguration, c.config)))
    \o Wrapped("DataItems", MapSeq(jsonDataItem, c.items))
    \o Wrapped("Components", MapSeq(jsonComponent, c.children))
    \o Wrapped("Compositions", MapSeq(jsonComposition, c.compositions))
    \o Wrapped("References", MapSeq(jsonReference, c.references)))

jsonProbe(devices) ==
  Element("MTConnectDevices", NoAttributes,
    <<Element("Devices", NoAttributes, MapSeq(jsonComponent, devices))>>)
=============================================================================
