---------------------------- MODULE AgentDevices ----------------------------
(* The devices of an agent: the constructor of Agent reads a device file,  *)
(* checks it, adds the data items every device must have, prints a probe   *)
(* and reads that back as the document in which paths are resolved, and    *)
(* registers the data items.  From then on adapters change the devices     *)
(* with protocol commands while requests name devices and follow paths.    *)
EXTENDS ProbePrinters

CONSTANTS
  Files,         \* the device documents the agent may be started with
  Versions,      \* schema versions, 12 for 1.2
  PreserveUuid,  \* names of the devices whose uuid is kept
  Values,        \* what a protocol command may set
  AvailId,       \* [device id -> id]: the device's id and a suffix, for the
  ChangedId,     \* items the agent adds
  RemovedId,
  MaxCommands    \* bound on the protocol commands

VARIABLES
  phase,     \* "start", "checked", "complete", "loaded", "serving", "failed"
  file,      \* the document that is read
  version,   \* the schema version of the printers
  devices,   \* m_devices
  document,  \* m_doc of the parser
  itemMap,   \* the ids in m_dataItemMap
  nameMap,   \* m_deviceNameMap: names to positions in devices
  uuidMap,   \* m_deviceUuidMap
  commands   \* commands received so far

vars == <<phase, file, version, devices, document, itemMap, nameMap, uuidMap, commands>>

-----------------------------------------------------------------------------
(* Components and data items of a device.                                  *)

RECURSIVE SubComponents(_)
SubComponents(c) ==
  {c} \cup UNION {SubComponents(k) : k \in ToSet(c.children)}

ItemsOf(c) == UNION {ToSet(s.items) : s \in SubComponents(c)}

IdOf(x) == x.attrs["id"]
Attr(x, key) == IF key \in DOMAIN x.attrs THEN x.attrs[key] ELSE ""

Uuid(d) == Attr(d, "uuid")

(* Device::getDeviceDataItem looks at sources, names and ids.              *)
Resolvable(device) ==
  UNION {{i.source, Attr(i, "name"), IdOf(i)} : i \in ItemsOf(device)} \ {""}

(* The device itself is not in its map of components.                      *)
ComponentIds(device) ==
  {IdOf(c) : c \in SubComponents(device) \ {device}}

(* Component::resolveReferences throws unless this holds.                  *)
Resolves(device) ==
  \A c \in SubComponents(device) : \A r \in ToSet(c.references) :
    r.id \in IF r.type = "DATA_ITEM" THEN Resolvable(device) ELSE ComponentIds(device)

UniqueUuids(list) ==
  \A i, j \in DOMAIN list : Uuid(list[i]) = Uuid(list[j]) => i = j

-----------------------------------------------------------------------------
(* The constructor.                                                        *)

Init ==
  /\ phase = "start"
  /\ file \in Files
  /\ version \in Versions
  /\ devices = <<>>
  /\ document = file
  /\ itemMap = {}
  /\ nameMap = [n \in {} |-> 0]
  /\ uuidMap = [u \in {} |-> 0]
  /\ commands = 0

parseFile ==
  LET parsed == parseDevices(file)
      valid  == UniqueUuids(parsed) /\ \A i \in DOMAIN parsed : Resolves(parsed[i])
  IN  /\ phase = "start"
      /\ phase' = IF valid THEN "checked" ELSE "failed"
      /\ devices' = parsed
      /\ UNCHANGED <<file, version, document, itemMap, nameMap, uuidMap, commands>>

Has(device, type) == \E i \in ToSet(device.items) : Attr(i, "type") = type

NewItem(device, type, idFor) ==
  loadDataItem(Element("DataItem",
                       Attribute("type", type) @@ Attribute("category", "EVENT")
                       @@ Attribute("id", idFor[IdOf(device)]), <<>>))

Lacks(device, type, since) == version >= since /\ ~Has(device, type)

(* DataItem::makeDiscrete for the last ASSET_CHANGED item of the device.   *)
MakeDiscrete(items) ==
  LET changed == {i \in DOMAIN items : Attr(items[i], "type") = "ASSET_CHANGED"}
      last == CHOOSE i \in changed : \A j \in changed : j <= i
  IN  IF version < 15 \/ changed = {} THEN items
      ELSE [items EXCEPT ![last].attrs = Attribute("discrete", "true") @@ @]

Complete(device) ==
  LET avail   == IF Lacks(device, "AVAILABILITY", 0)
                 THEN <<NewItem(device, "AVAILABILITY", AvailId)>> ELSE <<>>
      changed == IF Lacks(device, "ASSET_CHANGED", 12)
                 THEN <<NewItem(device, "ASSET_CHANGED", ChangedId)>> ELSE <<>>
      removed == IF Lacks(device, "ASSET_REMOVED", 13)
                 THEN <<NewItem(device, "ASSET_REMOVED", RemovedId)>> ELSE <<>>
  IN  [device EXCEPT !.items = MakeDiscrete(@ \o avail \o changed) \o removed]

LastWith(list, Key(_), value) ==
  CHOOSE i \in DOMAIN list : /\ Key(list[i]) = value
                             /\ \A j \in DOMAIN list : Key(list[j]) = value => j <= i

MapBy(list, Key(_)) ==
  [v \in {Key(list[i]) : i \in DOMAIN list} |-> LastWith(list, Key, v)]

addDeviceItems ==
  /\ phase = "checked"
  /\ phase' = "complete"
  /\ devices' = MapSeq(Complete, devices)
  /\ nameMap' = MapBy(devices, LAMBDA d : Attr(d, "name"))
  /\ uuidMap' = MapBy(devices, Uuid)
  /\ UNCHANGED <<file, version, document, itemMap, commands>>

Probe == printProbe(devices, version)

loadDocument ==
  /\ phase = "complete"
  /\ phase' = "loaded"
  /\ document' = Probe
  /\ UNCHANGED <<file, version, devices, itemMap, nameMap, uuidMap, commands>>

RegisteredTwice(i, j) ==
  i # j /\ {IdOf(x) : x \in ItemsOf(devices[i])} \cap {IdOf(x) : x \in ItemsOf(devices[j])} # {}

(* An id may be used once in the agent; a device skips its own doubles.    *)
registerItems ==
  /\ phase = "loaded"
  /\ IF \E i, j \in DOMAIN devices : RegisteredTwice(i, j)
     THEN phase' = "failed" /\ UNCHANGED itemMap
     ELSE /\ phase' = "serving"
          /\ itemMap' = UNION {{IdOf(x) : x \in ItemsOf(devices[i])} : i \in DOMAIN devices}
  /\ UNCHANGED <<file, version, devices, document, nameMap, uuidMap, commands>>

-----------------------------------------------------------------------------
(* Adapter::protocolCommand, the commands that change the device.          *)

setUuid(d, value) ==
  IF Attr(d, "name") \in PreserveUuid THEN d
  ELSE [d EXCEPT !.attrs = BuildAttributes(Attribute("uuid", value) @@ @)]

setNativeName(d, value) ==
  [d EXCEPT !.attrs = BuildAttributes(Attribute("nativeName", value) @@ @)]

setDescription(d, value) == [d EXCEPT !.body = value]

setDescriptionAttribute(d, key, value) ==
  [d EXCEPT !.description = Attribute(key, value) @@ @]

Commands == {"uuid", "nativeName", "description", "manufacturer", "station", "serialNumber"}

Apply(d, key, value) ==
  CASE key = "uuid"        -> setUuid(d, value)
    [] key = "nativeName"  -> setNativeName(d, value)
    [] key = "description" -> setDescription(d, value)
    [] OTHER               -> setDescriptionAttribute(d, key, value)

UuidMapAfter_Moves(i, key, value) ==
  IF key = "uuid" THEN (value :> i) @@ uuidMap ELSE uuidMap

(* m_deviceUuidMap stays as the constructor has made it.                   *)
UuidMapAfter(i, key, value) == uuidMap

protocolCommand(i, key, value) ==
  /\ phase = "serving"
  /\ commands < MaxCommands
  /\ commands' = commands + 1
  /\ devices' = [devices EXCEPT ![i] = Apply(@, key, value)]
  /\ uuidMap' = UuidMapAfter(i, key, value)
  /\ UNCHANGED <<phase, file, version, document, itemMap, nameMap>>

Next ==
  \/ parseFile
  \/ addDeviceItems
  \/ loadDocument
  \/ registerItems
  \/ \E i \in DOMAIN devices, key \in Commands, value \in Values :
       protocolCommand(i, key, value)

Spec == Init /\ [][Next]_vars

-----------------------------------------------------------------------------
(* Requests: the device that a request names, and the data items of a path *)
(* below it.                                                               *)

findDeviceByUUIDorName(s) ==
  IF s \in DOMAIN uuidMap THEN uuidMap[s]
  ELSE IF s \in DOMAIN nameMap THEN nameMap[s] ELSE 0

DeviceNodes(s) ==
  {n \in ToSet(Children(document, "Devices")[1].kids) :
     getAttribute(n, "name") = s \/ getAttribute(n, "uuid") = s}

(* getDataItems for devicesAndPath("", s).                                 *)
DeviceFilter(s) == UNION {getDataItems(document, n) : n \in DeviceNodes(s)}

(* getDataItems for the path of the element with an id.                    *)
PathFilter(id) == UNION {getDataItems(document, n) : n \in WithId(document, id)}

-----------------------------------------------------------------------------
(* Properties.                                                             *)

Serving == phase = "serving"
AllComponents == UNION {SubComponents(devices[i]) : i \in DOMAIN devices}
IdsOf(components) == UNION {{IdOf(x) : x \in ToSet(c.items)} : c \in components}

(* The constructor's phases follow one another, every map names a device,  *)
(* and every device has the items that the agent itself writes to.         *)
TypeOK ==
  /\ phase \in {"start", "checked", "complete", "loaded", "serving", "failed"}
  /\ commands \in 0..MaxCommands
  /\ \A n \in DOMAIN nameMap : nameMap[n] \in DOMAIN devices
  /\ \A u \in DOMAIN uuidMap : uuidMap[u] \in DOMAIN devices
  /\ Serving => \A i \in DOMAIN devices :
       /\ Has(devices[i], "AVAILABILITY")
       /\ version >= 12 => Has(devices[i], "ASSET_CHANGED")
       /\ version >= 13 => Has(devices[i], "ASSET_REMOVED")

(* The rest of a sensor configuration gains the empty next calibration     *)
(* date at every turn, all else is unchanged by printing and reading back. *)
RECURSIVE WithoutRest(_)
WithoutRest(c) ==
  [c EXCEPT !.config   = MapSeq(LAMBDA k : IF k.kind = "SensorConfiguration"
                                           THEN [k EXCEPT !.rest = <<>>] ELSE k, @),
            !.children = MapSeq(WithoutRest, @)]

(* The probe a client gets (Agent::handleProbe) describes the devices the  *)
(* agent has: reading it back with the agent's parser gives the same       *)
(* components, items, references and configurations, whatever the form of  *)
(* the file was and whatever the adapters have set.                        *)
ProbeRoundTrip ==
  Serving /\ version >= 14 =>
    MapSeq(WithoutRest, parseDevices(printProbe(devices, version)))
      = MapSeq(WithoutRest, devices)

(* What a path to a component stands for: the items below it, and what     *)
(* its references name, followed from component to component.              *)
RECURSIVE Closure(_)
Closure(components) ==
  LET named == {r.id : r \in {x \in UNION {ToSet(c.references) : c \in components} :
                                x.type = "COMPONENT"}}
      more  == UNION {SubComponents(c) : c \in {k \in AllComponents : IdOf(k) \in named}}
  IN  IF more \subseteq components THEN components ELSE Closure(components \cup more)

ReferredItems(components) ==
  {r.id : r \in {x \in UNION {ToSet(c.references) : c \in components} : x.type = "DATA_ITEM"}}

(* XmlParser::getDataItems on the document the agent has read back finds   *)
(* for every component exactly the items its path stands for.              *)
FilterMatchesModel ==
  Serving /\ version >= 14 =>
    \A c \in AllComponents :
      LET whole == Closure(SubComponents(c))
      IN  PathFilter(IdOf(c)) = IdsOf(whole) \cup ReferredItems(whole)

(* The state is well typed, and a request that is accepted for a name or a *)
(* uuid selects all the data items of the device that                      *)
(* findDeviceByUUIDorName returns and no item of another device, also      *)
(* after the adapters have changed uuids.                                  *)
AcceptedSelectsDevice ==
  /\ TypeOK
  /\ Serving =>
       \A s \in DOMAIN nameMap \cup DOMAIN uuidMap :
         LET i == findDeviceByUUIDorName(s)
         IN  DeviceFilter(s) \cap itemMap = IdsOf(SubComponents(devices[i]))

(* The JSON probe says what the XML probe says, but for the reset triggers *)
(* it leaves out, the configurations and the spelling of numbers.          *)
RECURSIVE Essence(_)
Essence(node) ==
  [node EXCEPT
     !.text = IF node.tag \in {"Maximum", "Minimum", "InitialValue"} THEN Float(@) ELSE @,
     !.kids = MapSeq(Essence, SelectSeq(@, LAMBDA k : k.tag \notin {"Configuration",
                                                                   "ResetTrigger"}))]

JsonAgrees ==
  Serving /\ version >= 14 =>
    Essence(jsonProbe(devices)) = Essence(printProbe(devices, version))

(* The uuid that a probe shows for a device can be used in a path.         *)
ProbedUuidResolves ==
  Serving => \A i \in DOMAIN devices :
    IdsOf(SubComponents(devices[i])) \subseteq DeviceFilter(Uuid(devices[i]))
=============================================================================
