--------------------------- MODULE MCCuttingTools ---------------------------
(* Three documents of a tool and the changes an adapter may make to it.    *)
EXTENDS CuttingTools

At(k, v) == Attribute(k, v)

Life(type, value) == <<TextElement("ToolLife", At("type", type) @@ At("limit", ""), value)>>

Measured(name, value) == <<TextElement(name, At("code", "LF") @@ At("nominal", "1.50"), value)>>

Item(attrs, inner) == Element("CuttingItem", attrs, inner)

First1 == Item(At("indices", "1") @@ At("itemId", "x"),
               Simple("Locus", "12") \o Simple("Extra", "e")
               \o <<TextElement("ItemLife", At("type", "MINUTES"), "10")>>
               \o Wrapped("Measurements", Measured("Length", "10")))

Second == Item(At("itemId", "y"), Simple("Description", "item"))

Full ==
  Element("CuttingTool", At("toolId", "1") @@ At("assetId", "other") @@ At("serialNumber", ""),
    <<TextElement("AssetArchetypeRef", At("source", "s"), "")>> \o Simple("Description", "tool")
    \o <<TextElement("CuttingToolDefinition", At("kind", "k"), "def")>>
    \o <<Element("CuttingToolLifeCycle", NoAttributes,
          Wrapped("CutterStatus", Simple("Status", "NEW") \o Simple("Status", ""))
          \o Life("MINUTES", "10") \o Life("PART_COUNT", "")
          \o <<TextElement("Location", At("type", "POT"), "10")>>
          \o Simple("Vendor", "v") \o Simple("Description", "hidden")
          \o Wrapped("Measurements", Measured("Length", "10") \o Measured("Vendor", "1.50"))
          \o <<Element("CuttingItems", At("count", "2"), <<First1, Second>>)>>)>>)

Small ==
  Element("CuttingTool", At("toolId", "1") @@ At("serialNumber", "7"), Simple("Vendor", "v"))

Archetype ==
  Element("CuttingToolArchetype", At("toolId", "1") @@ At("removed", "true"),
          <<Element("CuttingToolLifeCycle", NoAttributes, Simple("ReconditionCount", "10"))>>)

MCDocuments == {Full, Small, Archetype}

Value(key, value) == [kind |-> "value", key |-> key, value |-> value]
Selected(key, sel, val, value) ==
  [kind |-> "selected", key |-> key, sel |-> sel, val |-> val, value |-> value]
Xml(node) == [kind |-> "xml", node |-> node]

MCUpdates == {
  <<Value("Vendor", "w"), Value("Length", "12")>>,
  <<[kind |-> "status", value |-> <<"USED", "BROKEN">>], Value("Nothing", "1")>>,
  <<Selected("ToolLife", "type", "PART_COUNT", "12"), Selected("Locus", "itemId", "x", "10")>>,
  <<Selected("Length", "indices", "1", "12"), Selected("Length", "itemId", "y", "12")>>,
  <<Xml(Item(At("indices", "1"), Simple("Locus", "9"))), [kind |-> "broken"]>>,
  <<Xml(Item(At("itemId", "z"), Measured("Width", "12")))>>,
  <<Xml(TextElement("Location", At("type", "STATION"), "12")),
    Xml(TextElement("Length", NoAttributes, "1.50"))>> }

Whole(text) == text :> [atoi |-> text, strtod |-> text]

NumberTexts ==
  ("1.50" :> [atoi |-> "1", strtod |-> "1.5"]) @@ Whole("10") @@ Whole("12") @@ Whole("9")
  @@ Whole("7") @@ Whole("2") @@ Whole("1")

ClientSymmetry == Permutations(Clients)
=============================================================================
