---------------------------- MODULE CuttingTools ----------------------------
(* A cutting tool from its adapter to its clients: the document that is    *)
(* parsed (XmlParser::parseAsset), the changes that are made to it piece   *)
(* by piece (updateAsset, CuttingTool::updateValue), and what the two      *)
(* printers write.  Changes are made under m_assetLock.  handleAssets      *)
(* prints after it has released the lock, and the XML that is printed is   *)
(* kept in the tool (m_content) until it is changed.                       *)
(*                                                                         *)
(* A node's value is its text; escaping and inner markup are left out.     *)
(* m_keys is written and never read, and is left out too.  The printer     *)
(* reads the tool while it may change: it reads it in two parts.           *)
EXTENDS XmlTree, Naturals, FiniteSets

CONSTANTS
  Documents,   \* documents of the tool that an adapter may send
  Updates,     \* lists of changes that an adapter may send
  Clients,     \* threads of requests for the tool in XML
  Id,          \* the tool's asset id
  DeviceUuid,
  Numbers,     \* the numbers among the texts: what atoi and strtod make of them
  MaxChanges   \* bound on documents, updates and removals

VARIABLES
  tools,    \* the objects the asset map has held; the last one is in it
  content,  \* m_content of each: <<>> or <<element>>
  changes,  \* changes so far, which is the time
  client,   \* what each client does
  late      \* history: objects whose content was printed before their last change

vars == <<tools, content, changes, client, late>>

NoValues == [k \in {} |-> [key |-> "", props |-> NoAttributes, value |-> ""]]

-----------------------------------------------------------------------------
(* XmlParser: a document makes a tool.                                     *)

parseCuttingToolNode(node) == [key |-> node.tag, props |-> node.attrs, value |-> node.text]

ByKey(nodes) ==
  FoldLeft(LAMBDA map, n : (n.tag :> parseCuttingToolNode(n)) @@ map, NoValues, nodes)

Grandchildren(node, outer) == FlattenSeq(MapSeq(LAMBDA c : c.kids, Children(node, outer)))

parseCuttingItem(node) ==
  [identity     |-> node.attrs,
   values       |-> ByKey(SelectSeq(node.kids, LAMBDA k : k.tag \notin {"Measurements",
                                                                        "ItemLife"})),
   measurements |-> ByKey(Grandchildren(node, "Measurements")),
   lives        |-> MapSeq(parseCuttingToolNode, Children(node, "ItemLife"))]

addValue(tool, value) == [tool EXCEPT !.values = (value.key :> value) @@ @]

parseCuttingToolLife(tool, node) ==
  LET Child(t, k) ==
        CASE k.tag = "CuttingItems" ->
               [t EXCEPT !.itemCount = IF "count" \in DOMAIN k.attrs THEN k.attrs["count"] ELSE @,
                         !.items = @ \o MapSeq(parseCuttingItem, Children(k, "CuttingItem"))]
          [] k.tag = "Measurements" -> [t EXCEPT !.measurements = ByKey(k.kids) @@ @]
          [] k.tag = "CutterStatus" ->
               [t EXCEPT !.status = @ \o SelectSeq(MapSeq(LAMBDA s : s.text,
                                                          Children(k, "Status")),
                                                   LAMBDA s : s # "")]
          [] k.tag = "ToolLife" -> [t EXCEPT !.lives = Append(@, parseCuttingToolNode(k))]
          [] OTHER -> addValue(t, parseCuttingToolNode(k))
  IN  FoldLeft(Child, tool, node.kids)

(* Asset::addIdentity keeps these in members of their own.                 *)
Members == {"deviceUuid", "timestamp", "removed", "assetId"}

handleCuttingTool(node) ==
  LET new == [type |-> node.tag,
              identity |-> Restrict(node.attrs, DOMAIN node.attrs \ Members),
              removed |-> getAttribute(node, "removed") = "true",
              assetId |-> "", timestamp |-> 0, deviceUuid |-> "", description |-> "",
              archetype |-> NoAttributes, status |-> <<>>, values |-> NoValues,
              measurements |-> NoValues, itemCount |-> "", items |-> <<>>, lives |-> <<>>]
      Child(t, k) ==
        CASE k.tag = "AssetArchetypeRef"    -> [t EXCEPT !.archetype = k.attrs]
          [] k.tag = "Description"          -> [t EXCEPT !.description = k.text]
          [] k.tag = "CuttingToolLifeCycle" -> parseCuttingToolLife(t, k)
          [] OTHER                          -> addValue(t, parseCuttingToolNode(k))
  IN  FoldLeft(Child, new, node.kids)

-----------------------------------------------------------------------------
(* Changes.  A change is the XML of a node, or a key with a value; the key *)
(* may select a tool life or an item: key@sel=val.                         *)

(* std::map::operator[] leaves an empty entry behind in the items that     *)
(* were looked at.                                                         *)
Indices(item) == IF "indices" \in DOMAIN item.identity THEN item.identity["indices"] ELSE ""

Touched(item) == [item EXCEPT !.identity = @ @@ ("indices" :> "")]

ReplaceItem(items, item) ==
  LET at == SelectInSeq(items, LAMBDA i : Indices(i) = Indices(item))
  IN  [i \in DOMAIN items |-> IF i = at THEN Touched(item)
                              ELSE IF at = 0 \/ i < at THEN Touched(items[i]) ELSE items[i]]

updateXml(tool, node) ==
  LET value == parseCuttingToolNode(node)
  IN  IF node.tag = "CuttingItem"
      THEN [tool EXCEPT !.items = ReplaceItem(@, parseCuttingItem(node))]
      ELSE IF value.key \in DOMAIN tool.values THEN addValue(tool, value)
      ELSE IF value.key \in DOMAIN tool.measurements
      THEN [tool EXCEPT !.measurements[value.key] = value]
      ELSE tool

(* What has the key: one of the values or, failing that, a measurement.    *)
SetValue(holder, key, value) ==
  IF key \in DOMAIN holder.values THEN [holder EXCEPT !.values[key].value = value]
  ELSE IF key \in DOMAIN holder.measurements
  THEN [holder EXCEPT !.measurements[key].value = value]
  ELSE holder

updateSelected(tool, c) ==
  LET life == SelectInSeq(tool.lives, LAMBDA l : c.sel \in DOMAIN l.props /\ l.props[c.sel] = c.val)
      item == SelectInSeq(tool.items,
                          LAMBDA i : c.sel \in DOMAIN i.identity /\ i.identity[c.sel] = c.val)
  IN  IF c.key = "ToolLife"
      THEN IF life = 0 THEN tool ELSE [tool EXCEPT !.lives[life].value = c.value]
      ELSE IF item = 0 THEN tool
      ELSE [tool EXCEPT !.items[item] = SetValue(@, c.key, c.value)]

updateValue(tool, c) ==
  CASE c.kind = "selected" -> updateSelected(tool, c)
    [] c.kind = "status"   -> [tool EXCEPT !.status = c.value]
    [] c.kind = "value"    -> SetValue(tool, c.key, c.value)

(* XML that cannot be parsed is logged and passed over.                    *)
Applied(tool, c) ==
  CASE c.kind = "xml"    -> updateXml(tool, c.node)
    [] c.kind = "broken" -> tool
    [] OTHER             -> updateValue(tool, c)

-----------------------------------------------------------------------------
(* XmlPrinter.  A std::map is written in the order of its keys.            *)

printValue(v) == TextElement(v.key, addAttributes(v.props), v.value)

Named(values, key) == IF key \in DOMAIN values THEN <<printValue(values[key])>> ELSE <<>>

Ordered(values, keys) ==
  FlattenSeq(MapSeq(LAMBDA k : Named(values, k), SetToSeq(keys \cap DOMAIN values)))

printMeasurements(values) == Wrapped("Measurements", Ordered(values, DOMAIN values))

Extended_Named(values, printed) == <<>>

(* The values that have no place of their own.                             *)
Extended(values, printed) == Ordered(values, DOMAIN values \ printed)

printCuttingToolItem(item) ==
  Element("CuttingItem", addAttributes(item.identity),
    Named(item.values, "Description") \o Named(item.values, "Locus")
    \o MapSeq(printValue, item.lives)
    \o Extended(item.values, {"Description", "Locus"})
    \o printMeasurements(item.measurements))

addSerialNumber(tool) ==
  IF "serialNumber" \in DOMAIN tool.identity /\ tool.identity["serialNumber"] # "" THEN tool
  ELSE [tool EXCEPT !.identity = ("serialNumber" :> Id) @@ @]

printAssetNode(tool) ==
  [attrs |-> addAttributes(tool.identity)
             @@ ("timestamp" :> tool.timestamp) @@ ("deviceUuid" :> tool.deviceUuid)
             @@ ("assetId" :> tool.assetId)
             @@ (IF tool.removed THEN "removed" :> "true" ELSE NoAttributes),
   kids |-> (IF tool.archetype = NoAttributes THEN <<>>
             ELSE <<TextElement("AssetArchetypeRef", addAttributes(tool.archetype), "")>>)
            \o SimpleUnlessEmpty("Description", tool.description)
            \o Named(tool.values, "CuttingToolDefinition")]

LifeOrder == <<"ProgramToolGroup", "ProgramToolNumber", "Location", "ProcessSpindleSpeed",
               "ProcessFeedRate", "ConnectionCodeMachineSide">>

printLifeCycle(tool) ==
  Element("CuttingToolLifeCycle", NoAttributes,
    Wrapped("CutterStatus", FlattenSeq(MapSeq(LAMBDA s : Simple("Status", s), tool.status)))
    \o Named(tool.values, "ReconditionCount")
    \o MapSeq(printValue, tool.lives)
    \o FlattenSeq(MapSeq(LAMBDA k : Named(tool.values, k), LifeOrder))
    \o Extended(tool.values, ToSet(LifeOrder) \cup {"ReconditionCount", "Description",
                                                    "CuttingToolDefinition"})
    \o printMeasurements(tool.measurements)
    \o IF tool.items = <<>> THEN <<>>
       ELSE <<Element("CuttingItems", addAttributes("count" :> tool.itemCount),
                      MapSeq(printCuttingToolItem, tool.items))>>)

Assembled(tool, head, life) == Element(tool.type, head.attrs, Append(head.kids, life))

printCuttingTool(tool) == Assembled(tool, printAssetNode(tool), printLifeCycle(tool))

-----------------------------------------------------------------------------
(* JsonPrinter, which prints from the tool every time.                     *)

IntegerKeys == {"negativeOverlap", "positiveOverlap", "Location", "maximumCount",
                "ReconditionCount", "significantDigits", "ToolLife"}

DoubleKeys == {"maximum", "minimum", "nominal", "ProcessSpindleSpeed", "ProcessFeedRate",
               "Measurement"}

(* atoi and strtod make 0 of what is not a number.                         *)
JsonText(key, text) ==
  LET number == IF text \in DOMAIN Numbers THEN Numbers[text] ELSE [atoi |-> "0", strtod |-> "0"]
  IN  CASE key \in IntegerKeys -> number.atoi
        [] key \in DoubleKeys  -> number.strtod
        [] OTHER               -> text

jsonValue(v, kind) ==
  TextElement(v.key, [k \in DOMAIN v.props |-> JsonText(k, v.props[k])],
              IF v.value = "" THEN "" ELSE JsonText(kind, v.value))

jsonValues(values, keys) ==
  MapSeq(LAMBDA k : jsonValue(values[k], k), SetToSeq(keys))

jsonMeasurements(values) ==
  Wrapped("Measurements", MapSeq(LAMBDA k : jsonValue(values[k], "Measurement"),
                                 SetToSeq(DOMAIN values)))

jsonLives(lives) == MapSeq(LAMBDA l : jsonValue(l, l.key), lives)

jsonItem_NoLives(item) ==
  Element("CuttingItem", item.identity,
          jsonValues(item.values, DOMAIN item.values) \o jsonMeasurements(item.measurements))

jsonItem(item) ==
  Element("CuttingItem", item.identity,
          jsonValues(item.values, DOMAIN item.values) \o jsonLives(item.lives)
          \o jsonMeasurements(item.measurements))

jsonLifeCycle(tool) ==
  Wrapped("CutterStatus", FlattenSeq(MapSeq(LAMBDA s : Simple("Status", s), tool.status)))
  \o jsonLives(tool.lives)
  \o jsonValues(tool.values, DOMAIN tool.values \ {"CuttingToolDefinition"})
  \o jsonMeasurements(tool.measurements)
  \o Wrapped("CuttingItems", MapSeq(jsonItem, tool.items))

jsonDefinition(tool) ==
  IF "CuttingToolDefinition" \notin DOMAIN tool.values THEN <<>>
  ELSE LET definition == tool.values["CuttingToolDefinition"]
       IN  <<TextElement("CuttingToolDefinition",
                         "format" :> getAttribute([attrs |-> definition.props], "format"),
                         definition.value)>>

jsonTool(tool) ==
  Element(tool.type,
          tool.identity @@ ("assetId" :> tool.assetId) @@ ("timestamp" :> tool.timestamp)
          @@ ("deviceUuid" :> tool.deviceUuid),
          Simple("Description", tool.description) \o jsonDefinition(tool)
          \o Wrapped("CuttingToolLifeCycle", jsonLifeCycle(tool)))

-----------------------------------------------------------------------------
Idle == [at |-> "idle"]

Init ==
  /\ tools = <<>>
  /\ content = <<>>
  /\ changes = 0
  /\ client = [c \in Clients |-> Idle]
  /\ late = {}

Current == Len(tools)

Changes == changes < MaxChanges /\ changes' = changes + 1

(* addAsset: the map takes a new object, and requests that have the old    *)
(* one go on with it.  A document that marks the tool removed needs one.   *)
addAsset(document) ==
  LET tool == handleCuttingTool(document)
  IN  /\ Changes
      /\ tool.removed => tools # <<>>
      /\ tools' = Append(tools, [tool EXCEPT !.assetId = Id, !.timestamp = changes',
                                             !.deviceUuid = DeviceUuid])
      /\ content' = Append(content, <<>>)
      /\ UNCHANGED <<client, late>>

changed_Keeps == content

changed == [content EXCEPT ![Current] = <<>>]

(* Of the two types of tool only one passes the check of updateAsset,      *)
(* which spells the other one differently.                                 *)
updateAsset(update) ==
  /\ Changes
  /\ tools # <<>>
  /\ tools[Current].type = "CuttingTool"
  /\ tools' = [tools EXCEPT ![Current] =
                 [FoldLeft(Applied, @, update) EXCEPT !.timestamp = changes',
                                                      !.deviceUuid = DeviceUuid]]
  /\ content' = changed
  /\ late' = late \ {Current}
  /\ UNCHANGED client

(* removeAsset and removeAllAssets leave the content alone.                *)
removeAsset ==
  /\ Changes
  /\ tools # <<>>
  /\ tools' = [tools EXCEPT ![Current].removed = TRUE, ![Current].timestamp = changes']
  /\ UNCHANGED <<content, client, late>>

To(c, state) == client' = [client EXCEPT ![c] = state]

(* handleAssets: the lock is released with a reference to the tool.        *)
handleAssets(c) ==
  /\ client[c].at = "idle"
  /\ tools # <<>>
  /\ To(c, [at |-> "asked", tool |-> Current])
  /\ UNCHANGED <<tools, content, changes, late>>

(* CuttingTool::getContent.                                                *)
getContent(c) ==
  LET o == client[c].tool
  IN  /\ client[c].at = "asked"
      /\ IF content[o] # <<>>
         THEN To(c, [at |-> "done", tool |-> o]) /\ UNCHANGED tools
         ELSE /\ tools' = [tools EXCEPT ![o] = addSerialNumber(@)]
              /\ To(c, [at |-> "printing", tool |-> o, since |-> tools[o].timestamp,
                        head |-> printAssetNode(tools'[o])])
      /\ UNCHANGED <<content, changes, late>>

printLife(c) ==
  /\ client[c].at = "printing"
  /\ To(c, [at |-> "printed", tool |-> client[c].tool, since |-> client[c].since,
            text |-> Assembled(tools[client[c].tool], client[c].head,
                               printLifeCycle(tools[client[c].tool]))])
  /\ UNCHANGED <<tools, content, changes, late>>

storeContent(c) ==
  LET o == client[c].tool
  IN  /\ client[c].at = "printed"
      /\ content' = [content EXCEPT ![o] = <<client[c].text>>]
      /\ late' = IF tools[o].timestamp = client[c].since THEN late \ {o} ELSE late \cup {o}
      /\ To(c, [at |-> "done", tool |-> o])
      /\ UNCHANGED <<tools, changes>>

answer(c) ==
  /\ client[c].at = "done"
  /\ To(c, Idle)
  /\ UNCHANGED <<tools, content, changes, late>>

(* A client that asks for JSON: the definition's format is looked up with  *)
(* operator[], which leaves an empty one in the tool.                      *)
jsonAsset ==
  /\ tools # <<>>
  /\ jsonDefinition(tools[Current]) # <<>>
  /\ tools' = [tools EXCEPT ![Current].values["CuttingToolDefinition"].props =
                 @ @@ ("format" :> "")]
  /\ UNCHANGED <<content, changes, client, late>>

Next ==
  \/ \E d \in Documents : addAsset(d)
  \/ \E u \in Updates : updateAsset(u)
  \/ removeAsset
  \/ jsonAsset
  \/ \E c \in Clients :
       handleAssets(c) \/ getContent(c) \/ printLife(c) \/ storeContent(c) \/ answer(c)

Spec == Init /\ [][Next]_vars

-----------------------------------------------------------------------------
(* Properties.                                                             *)

TypeOK ==
  /\ Len(content) = Len(tools)
  /\ changes \in 0..MaxChanges
  /\ late \subseteq DOMAIN tools
  /\ \A o \in DOMAIN tools : tools[o].timestamp \in 1..changes /\ Len(content[o]) <= 1
  /\ \A c \in Clients : client[c] = Idle \/ client[c].tool \in DOMAIN tools

(* The marks of a removal.                                                 *)
Unmarked(element) ==
  [element EXCEPT !.attrs = Restrict(@, DOMAIN @ \ {"removed", "timestamp"})]

Printed(o) == printCuttingTool(addSerialNumber(tools[o]))

(* The XML that is kept in a tool is what would be printed now: whatever   *)
(* adapters and requests do to it, every change is followed by a new       *)
(* print.  A removal changes the marks only, and clears nothing.  Content  *)
(* that a request was printing when the tool changed is left out: it is    *)
(* stored late, and is the old one or a mixture.                           *)
ContentIsCurrent ==
  \A o \in DOMAIN tools \ late :
    content[o] # <<>> =>
      IF tools[o].removed THEN Unmarked(content[o][1]) = Unmarked(Printed(o))
      ELSE content[o][1] = Printed(o)

(* What the XML of a tool does not show: attributes without a value, the   *)
(* count of no items, and a description among the values.                  *)
Shown(value) == [value EXCEPT !.props = addAttributes(@)]

ShownItem(item) ==
  [item EXCEPT !.identity = addAttributes(@),
               !.values = [k \in DOMAIN @ |-> Shown(@[k])],
               !.measurements = [k \in DOMAIN @ |-> Shown(@[k])],
               !.lives = MapSeq(Shown, @)]

ShownTool(tool) ==
  [tool EXCEPT !.identity = addAttributes(@), !.archetype = addAttributes(@),
               !.values = [k \in DOMAIN @ \ {"Description"} |-> Shown(@[k])],
               !.measurements = [k \in DOMAIN @ |-> Shown(@[k])],
               !.lives = MapSeq(Shown, @), !.items = MapSeq(ShownItem, @),
               !.itemCount = IF tool.items = <<>> THEN "" ELSE @]

(* The state is well typed, and a client that stores the document it was   *)
(* given stores the same tool: after any documents and updates, what the   *)
(* printer writes and what the parser reads are the same values,           *)
(* measurements, lives and items.                                          *)
ToolRoundTrip ==
  /\ TypeOK
  /\ \A o \in DOMAIN tools :
       LET tool == addSerialNumber(tools[o])
           back == handleCuttingTool(printCuttingTool(tool))
       IN  [back EXCEPT !.assetId = Id, !.timestamp = tool.timestamp,
                        !.deviceUuid = DeviceUuid] = ShownTool(tool)

(* A document by the names of its elements: the order of two elements      *)
(* counts only if they have the same name.  Numbers are spelled one way.   *)
Spelled(text) == IF text \in DOMAIN Numbers THEN Numbers[text].strtod ELSE text

OnlyInXml(node) ==
  CASE node.tag = "AssetArchetypeRef" -> TRUE
    [] node.tag = "Description"       -> TRUE
    [] OTHER                          -> FALSE

AttributesOnlyInXml(node) ==
  CASE node.tag = "CuttingToolDefinition" -> DOMAIN node.attrs \ {"format"}
    [] node.tag = "CuttingItems"          -> {"count"}
    [] OTHER                              -> {"removed", "timestamp"}

RECURSIVE ByName(_)
ByName(node) ==
  LET kids  == SelectSeq(node.kids, LAMBDA k : ~OnlyInXml(k))
      attrs == addAttributes(Restrict(node.attrs, DOMAIN node.attrs \ AttributesOnlyInXml(node)))
  IN  [text  |-> Spelled(node.text),
       attrs |-> [k \in DOMAIN attrs |-> Spelled(attrs[k])],
       kids  |-> [t \in {k.tag : k \in ToSet(kids)} |->
                    MapSeq(ByName, SelectSeq(kids, LAMBDA k : k.tag = t))]]

(* XML and JSON show the same tool after any documents and updates, but    *)
(* for the archetype, the descriptions, the marks of a removal, the count  *)
(* of the items and the spelling of numbers.  Left out are tools of which  *)
(* JSON has no life cycle at all, an empty CuttingToolLifeCycle in XML.    *)
ToolFormatsAgree ==
  \A o \in DOMAIN tools :
    LET tool == addSerialNumber(tools[o])
    IN  jsonLifeCycle(tool) # <<>> => ByName(jsonTool(tool)) = ByName(printCuttingTool(tool))

(* A client is shown the tool as it is at that moment, marked removed if   *)
(* it was removed.  This does not hold: removeAsset clears no content, and *)
(* a print that was begun before a change is stored after it.              *)
ServedIsCurrent ==
  \A c \in Clients :
    client[c].at = "done" /\ content[client[c].tool] # <<>> =>
      content[client[c].tool][1] = Printed(client[c].tool)
=============================================================================
