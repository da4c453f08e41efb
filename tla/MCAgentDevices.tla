--------------------------- MODULE MCAgentDevices ---------------------------
(* Device files for AgentDevices: one or two devices whose components,     *)
(* data items, references and configurations vary in form.                 *)
EXTENDS AgentDevices

NumberTexts == ("1.50" :> "1.5") @@ ("1.5" :> "1.5") @@ ("10" :> "10") @@ ("0" :> "0")

Avail   == ("d1" :> "d1_avail") @@ ("d2" :> "d2_avail")
Changed == ("d1" :> "d1_asset_chg") @@ ("d2" :> "d2_asset_chg")
Removed == ("d1" :> "d1_asset_rem") @@ ("d2" :> "d2_asset_rem")

At(k, v) == Attribute(k, v)

Item(id, name, type, inner) ==
  Element("DataItem", At("id", id) @@ At("name", name) @@ At("type", type)
                      @@ At("category", "SAMPLE") @@ At("units", "mm"), inner)

(* Forms of a data item.                                                   *)
ItemForms == {
  <<>>,
  <<TextElement("Source", At("dataItemId", "i2"), "")>>,
  <<TextElement("Source", At("componentId", "c2"), "src"),
    Element("Constraints", NoAttributes,
            Simple("Minimum", "1.50") \o Simple("Value", "") \o Simple("Value", "A"))>>,
  <<Element("Filters", NoAttributes,
            <<TextElement("Filter", At("type", "PERIOD"), "10")>> \o Simple("Filter", "1.50")),
    Element("Constraints", NoAttributes, Simple("Filter", "junk"))>>,
  Simple("InitialValue", "1.50") \o Simple("ResetTrigger", "DAY"),
  <<Element("Definition", NoAttributes,
      Simple("Description", "text") \o
      <<Element("EntryDefinitions", NoAttributes,
          <<Element("EntryDefinition", At("key", "k") @@ At("units", "mm"),
              <<Element("CellDefinitions", NoAttributes,
                  <<Element("CellDefinition", At("key", "x"), Simple("Description", "cell")),
                    Element("CellDefinition", At("key", "x"), <<>>)>>)>>),
            Element("EntryDefinition", At("key", "k"), <<>>)>>)>>)>> }

(* Forms of a configuration.                                               *)
Sensor == Element("SensorConfiguration", NoAttributes,
  Simple("CalibrationDate", "2019") \o Simple("NextCalibrationDate", "2021") \o
  <<Element("Channels", NoAttributes,
      <<Element("Channel", At("number", "1"),
                Simple("Description", "one") \o Simple("CalibrationInitials", "x"))>>)>>)
Relations == Element("Relationships", NoAttributes,
  <<Element("ComponentRelationship", At("id", "r1") @@ At("idRef", "c2"), <<>>),
    Element("DeviceRelationship", At("id", "r2") @@ At("role", "SYSTEM"), <<>>),
    Element("OtherRelationship", At("id", "r3"), <<>>)>>)
Coordinates == Element("CoordinateSystems", NoAttributes,
  <<Element("CoordinateSystem", At("id", "s1"),
      Simple("Origin", "0 0 0") \o
      <<Element("Transformation", NoAttributes, Simple("Rotation", "90 0 0"))>>)>>)
Specs == Element("Specifications", NoAttributes,
  <<Element("Specification", At("type", "LOAD") @@ At("dataItemIdRef", "i1"),
            Simple("Maximum", "10") \o Simple("Nominal", "1.50"))>>)
ConfigForms == {<<>>, <<Sensor>>, <<Relations>>, <<Coordinates>>, <<Specs, Specs>>,
                <<Element("Other", At("a", "b"), Simple("Inner", "t")), Sensor>>}

(* Forms of a reference of the first component.                            *)
Ref(tag, key, id) == <<Element(tag, At(key, id), <<>>)>>
RefForms == {
  <<>>,
  Ref("DataItemRef", "idRef", "i2"),
  Ref("Reference", "dataItemId", "i2"),
  Ref("DataItemRef", "idRef", "second"),        \* by the name of i2
  Ref("ComponentRef", "idRef", "c2") \o Ref("DataItemRef", "idRef", "i1"),
  Ref("ComponentRef", "idRef", "d1"),           \* a device is no component
  Ref("DataItemRef", "idRef", "j1") }           \* an item of the other device

CompositionForms == {
  <<>>,
  <<Element("Composition", At("id", "m1") @@ At("type", "MOTOR"),
            <<TextElement("Description", At("station", "s"), "motor")>>)>> }

(* Items that the file itself gives to the device.                         *)
OwnForms == {
  <<>>,
  <<Item("own1", "av", "AVAILABILITY", <<>>), Item("own2", "chg", "ASSET_CHANGED", <<>>)>> }

Collected(wrap, tag, nodes) ==
  IF wrap THEN Wrapped(tag, nodes) ELSE nodes

FirstDevice(own, wrap, item, config, ref, composition) ==
  Element("Device", At("id", "d1") @@ At("name", "one") @@ At("uuid", "u1")
                    @@ At("iso841Class", "6") @@ At("sampleRate", "10"),
    <<TextElement("Description", At("manufacturer", "m"), "first")>>
    \o Collected(wrap, "DataItems", own)
    \o <<Element("Components", NoAttributes,
      <<Element("Axes", At("id", "c1") @@ At("name", "axes"),
          Wrapped("Configuration", config)
          \o Collected(wrap, "DataItems", <<Item("i1", "first", "POSITION", item)>>)
          \o Wrapped("Compositions", composition)
          \o Wrapped("References", ref)
          \o <<Element("Components", NoAttributes,
               <<Element("Linear", At("id", "c3") @@ At("sampleInterval", "1.50"),
                         Wrapped("DataItems", <<Item("i3", "", "LOAD", <<>>)>>))>>)>>),
        Element("Controller", At("id", "c2"),
          Wrapped("DataItems", <<Item("i2", "second", "PROGRAM", <<>>)>>))>>)>>)

SecondDevice(uuid, item) ==
  Element("Device", At("id", "d2") @@ At("name", "two") @@ At("uuid", uuid),
    Wrapped("DataItems", <<Item(item, "first", "POSITION", <<>>)>>))

SecondForms == {<<>>, <<SecondDevice("u2", "j1")>>, <<SecondDevice("u1", "j1")>>,
                <<SecondDevice("u2", "i3")>>}

File(list) ==
  Element("MTConnectDevices", NoAttributes, <<Element("Devices", NoAttributes, list)>>)

PathFiles ==
  {File(<<FirstDevice(own, wrap, <<>>, <<>>, ref, <<>>)>> \o second) :
     own \in OwnForms, wrap \in BOOLEAN, ref \in RefForms, second \in SecondForms}

ContentFiles ==
  {File(<<FirstDevice(<<>>, TRUE, item, config, <<>>, composition)>>) :
     item \in ItemForms, config \in ConfigForms, composition \in CompositionForms}

AllFiles == PathFiles \cup ContentFiles

TwoDevices ==
  {File(<<FirstDevice(<<>>, TRUE, <<>>, <<>>, <<>>, <<>>), SecondDevice("u2", "j1")>>)}
=============================================================================
