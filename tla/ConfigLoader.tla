---------------------------- MODULE ConfigLoader ----------------------------
(* AgentConfiguration::loadConfig: what a configuration file makes of an   *)
(* agent that has been created from a device file.  A configuration is     *)
(*   valid       whether it parses                                         *)
(*   keys        the options at the top of the file                        *)
(*   adapters    the Adapters block: <<>> or <<blocks>>                    *)
(*   files       the Files blocks                                          *)
(*   namespaces  for each kind of document, the blocks of that name        *)
(*   styles      for each kind, <<>> or <<block>>                          *)
(*   types       the MimeTypes block                                       *)
(* and a block is the function from its keys to their values.  A device    *)
(* file is its devices, in order, with the names of those for which the    *)
(* agent adds the availability item, and its namespaces.                   *)
EXTENDS Naturals, Sequences, SequencesExt, FiniteSets, Functions, TLC

CONSTANTS
  Directories,  \* [path -> names]: the directories that can be registered
  PlainFiles,   \* paths of single files
  Schemas,      \* [name -> [kind, version]]: MTConnect<kind>_<version>.xsd
  Addresses     \* [host -> ip]: what hostname_to_ip finds

Kinds == {"Devices", "Streams", "Assets", "Error"}

(* A prefix is a number that stands for it as it is ordered; this is "m".  *)
StandardPrefix == 5

Nothing == [k \in {} |-> ""]

get_with_default(block, key, default) ==
  IF key \in DOMAIN block THEN block[key] ELSE default

(* The reader of a file that could not be opened.                          *)
EmptyReader ==
  [valid |-> TRUE, keys |-> Nothing, adapters |-> <<>>, files |-> <<>>,
   namespaces |-> [t \in Kinds |-> <<>>], styles |-> [t \in Kinds |-> <<>>],
   types |-> Nothing]

-----------------------------------------------------------------------------
(* Agent::Agent and XmlPrinter::XmlPrinter.  std::map::insert leaves an    *)
(* entry that is there as it is.                                           *)

insert(map, key, value) == map @@ (key :> value)

addNamespace(settings, kind, urn, location, prefix) ==
  [settings EXCEPT !.namespaces[kind] =
     insert(@, prefix, [urn |-> urn, location |-> location])]

addNamespaces(settings, kind, list) ==
  FoldLeft(LAMBDA s, n : addNamespace(s, kind, n.urn, n.location, n.prefix), settings, list)

NewAgent(devices, reader) ==
  addNamespaces(
    [devices    |-> devices,
     version    |-> get_with_default(reader.keys, "SchemaVersion", "1.5"),
     put        |-> FALSE,
     hosts      |-> {},
     preserve   |-> [d \in ToSet(devices.names) |-> TRUE],
     uuid       |-> Nothing,
     adapters   |-> <<>>,
     files      |-> Nothing,
     namespaces |-> [t \in Kinds |-> Nothing],
     styles     |-> Nothing,
     types      |-> Nothing],
    "Devices", devices.namespaces)

-----------------------------------------------------------------------------
(* Agent::registerFile.  A uri is the sequence of its segments.            *)

addSchema_Streams(settings, name, uri) ==
  IF name \in DOMAIN Schemas /\ Schemas[name].version = settings.version
  THEN addNamespace(settings, "Streams",
                    <<"urn", Schemas[name].kind, settings.version>>, uri, StandardPrefix)
  ELSE settings

addSchema(settings, name, uri) ==
  IF name \in DOMAIN Schemas /\ Schemas[name].version = settings.version
  THEN addNamespace(settings, Schemas[name].kind,
                    <<"urn", Schemas[name].kind, settings.version>>, uri, StandardPrefix)
  ELSE settings

registerFile(settings, uri, path) ==
  IF path \in DOMAIN Directories
  THEN FoldLeft(LAMBDA s, name :
                  addSchema([s EXCEPT !.files = insert(@, Append(uri, name), <<path, name>>)],
                            name, Append(uri, name)),
                settings, Directories[path])
  ELSE IF path \in PlainFiles
  THEN [settings EXCEPT !.files = insert(@, uri, <<path>>)]
  ELSE settings

-----------------------------------------------------------------------------
(* The parts of loadConfig.                                                *)

(* A host whose name is not found is left out.                             *)
loadAllowPut(settings, reader) ==
  LET named == get_with_default(reader.keys, "AllowPutFrom", {})
      found == {Addresses[h] : h \in named \cap DOMAIN Addresses}
  IN  [settings EXCEPT !.put   = get_with_default(reader.keys, "AllowPut", FALSE) \/ found # {},
                       !.hosts = @ \cup found]

defaultDevice(devices) ==
  IF Len(devices.names) = 1 THEN devices.names ELSE <<>>

addAdapter(settings, device, host) ==
  [device    |-> device,
   host      |-> host,
   duplicate |-> FALSE,
   available |-> device \in settings.devices.added,
   ignore    |-> FALSE,
   convert   |-> TRUE,
   upcase    |-> TRUE,
   reconnect |-> 10,
   devices   |-> {device}]

Global(reader, key, default) == get_with_default(reader.keys, key, default)

(* The options of the block come first, then those at the top.             *)
Configured(adapter, block, reader) ==
  LET Of(key, default) ==
        get_with_default(block, key, Global(reader, key, default))
  IN  [adapter EXCEPT
         !.duplicate = Of("FilterDuplicates", FALSE),
         !.available = get_with_default(block, "AutoAvailable", @),
         !.ignore    = Of("IgnoreTimestamps", FALSE),
         !.convert   = Of("ConversionRequired", TRUE),
         !.upcase    = Of("UpcaseDataItemValue", TRUE),
         !.reconnect = Of("ReconnectInterval", 10)]

(* The device an adapter block is for: <<>> if there is none.              *)
AdapterDevice(devices, block) ==
  LET name == get_with_default(block, "Device", block["block"])
  IN  IF name \in ToSet(devices.names) THEN <<name>> ELSE defaultDevice(devices)

loadAdapterBlock(settings, block, reader) ==
  LET device  == AdapterDevice(settings.devices, block)[1]
      adapter == Configured(addAdapter(settings, device,
                                       get_with_default(block, "Host", "localhost")),
                            block, reader)
      others  == get_with_default(block, "AdditionalDevices", {})
                 \cap ToSet(settings.devices.names)
      default == get_with_default(reader.keys, "PreserveUUID", TRUE)
  IN  [settings EXCEPT
         !.adapters = Append(@, [adapter EXCEPT !.devices = @ \cup others]),
         !.preserve[device] = get_with_default(block, "PreserveUUID", default),
         !.uuid = IF "UUID" \in DOMAIN block THEN (device :> block["UUID"]) @@ @ ELSE @]

(* Without an Adapters block, one adapter that takes few of the options.   *)
loadDefaultAdapter(settings, reader) ==
  LET adapter == addAdapter(settings, defaultDevice(settings.devices)[1], "localhost")
  IN  [settings EXCEPT
         !.adapters = Append(@, [adapter EXCEPT
           !.ignore    = Global(reader, "IgnoreTimestamps", FALSE),
           !.reconnect = Global(reader, "ReconnectInterval", 10)])]

loadAdapters(settings, reader) ==
  IF reader.adapters = <<>> THEN loadDefaultAdapter(settings, reader)
  ELSE FoldLeft(LAMBDA s, b : loadAdapterBlock(s, b, reader), settings, reader.adapters[1])

loadFiles(settings, reader) ==
  FoldLeft(LAMBDA s, f : IF {"Location", "Path"} \subseteq DOMAIN f
                         THEN registerFile(s, f["Location"], f["Path"]) ELSE s,
           settings, reader.files)

loadNamespaceBlock(settings, kind, block) ==
  LET location == get_with_default(block, "Location", <<>>)
      added == addNamespace(settings, kind, get_with_default(block, "Urn", <<>>),
                            location, block["prefix"])
  IN  IF block["prefix"] # StandardPrefix /\ "Urn" \notin DOMAIN block THEN settings
      ELSE IF "Path" \in DOMAIN block /\ location # <<>>
      THEN registerFile(added, location, block["Path"]) ELSE added

loadNamespace(settings, reader, kind) ==
  FoldLeft(LAMBDA s, b : loadNamespaceBlock(s, kind, b), settings, reader.namespaces[kind])

loadStyle(settings, reader, kind) ==
  FoldLeft(LAMBDA s, b :
             IF "Location" \notin DOMAIN b THEN s
             ELSE LET styled == [s EXCEPT !.styles = (kind :> b["Location"]) @@ @]
                  IN  IF "Path" \in DOMAIN b
                      THEN registerFile(styled, b["Location"], b["Path"]) ELSE styled,
           settings, reader.styles[kind])

loadTypes(settings, reader) == [settings EXCEPT !.types = reader.types @@ @]

KindOrder == <<"Devices", "Streams", "Assets", "Error">>

(* loadConfig from loadAllowPut on.                                        *)
loadSettings(settings, reader) ==
  LET default  == get_with_default(reader.keys, "PreserveUUID", TRUE)
      kept     == [settings EXCEPT !.preserve = [d \in DOMAIN @ |-> default]]
      adapters == loadAdapters(loadAllowPut(kept, reader), reader)
      spaces   == FoldLeft(LAMBDA s, k : loadNamespace(s, reader, k),
                           loadFiles(adapters, reader), KindOrder)
      styled   == FoldLeft(LAMBDA s, k : loadStyle(s, reader, k), spaces, KindOrder)
  IN  loadTypes(styled, reader)

(* What becomes of loadAdapters: it throws when there are several devices  *)
(* and no Adapters block, and it uses a null device for a block that names *)
(* none of several devices.                                                *)
AdaptersOutcome(devices, reader) ==
  LET one == Len(devices.names) = 1
  IN  IF reader.adapters = <<>> THEN IF one THEN "loaded" ELSE "failed"
      ELSE IF \A i \in DOMAIN reader.adapters[1] :
                AdapterDevice(devices, reader.adapters[1][i]) # <<>>
      THEN "loaded" ELSE "crashed"

-----------------------------------------------------------------------------
(* XmlPrinter::initXmlDoc: the schema that a document of a kind names. The *)
(* first location of another namespace goes before that of the standard.   *)

schemaLocation(settings, kind) ==
  LET spaces  == settings.namespaces[kind]
      located == {p \in DOMAIN spaces : spaces[p].location # <<>>}
      others  == located \ {StandardPrefix}
      first   == CHOOSE p \in others : \A q \in others : p <= q
  IN  IF others # {} THEN spaces[first].location
      ELSE IF StandardPrefix \in located THEN spaces[StandardPrefix].location
      ELSE <<"http", kind, settings.version>>
=============================================================================
