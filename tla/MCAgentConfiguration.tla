------------------------ MODULE MCAgentConfiguration ------------------------
(* Two configurations that differ in every block, one that ends the        *)
(* monitoring, one whose adapter names no device and one that does not     *)
(* parse, and device files with one, with two and with no devices.         *)
EXTENDS AgentConfiguration

MCDirectories ==
  "schemas" :> <<"D15", "S15", "S14", "A15", "E15", "other">>

MCPlainFiles == {"ext.xsd", "style.xsl"}

Schema(kind, version) == [kind |-> kind, version |-> version]

MCSchemas == ("D15" :> Schema("Devices", "1.5")) @@ ("S15" :> Schema("Streams", "1.5"))
             @@ ("S14" :> Schema("Streams", "1.4")) @@ ("A15" :> Schema("Assets", "1.5"))
             @@ ("E15" :> Schema("Error", "1.5"))

MCAddresses == "known" :> "10.0.0.1"

Space(prefix, location) ==
  ("prefix" :> prefix) @@ ("Urn" :> <<"x">>) @@ ("Location" :> location)
  @@ ("Path" :> "ext.xsd")

Plain ==
  [EmptyReader EXCEPT
     !.keys = ("MonitorConfigFiles" :> TRUE) @@ ("FilterDuplicates" :> TRUE)
              @@ ("PreserveUUID" :> FALSE) @@ ("Devices" :> <<"probe.xml">>),
     !.adapters = <<<<("block" :> "d1") @@ ("UUID" :> "u1"),
                      ("block" :> "d1b") @@ ("Device" :> "d1") @@ ("FilterDuplicates" :> FALSE)
                      @@ ("AdditionalDevices" :> {"d2", "none"})>>>>,
     !.files = <<("Location" :> <<"schemas">>) @@ ("Path" :> "schemas"),
                 "Path" :> "style.xsl">>]

Extended ==
  [EmptyReader EXCEPT
     !.keys = ("MonitorConfigFiles" :> TRUE) @@ ("SchemaVersion" :> "1.4")
              @@ ("AllowPutFrom" :> {"known", "unknown"}) @@ ("logger_config" :> 1),
     !.adapters = <<<<("block" :> "d1") @@ ("AutoAvailable" :> TRUE)
                      @@ ("PreserveUUID" :> FALSE)>>>>,
     !.files = <<("Location" :> <<"local">>) @@ ("Path" :> "schemas")>>,
     !.namespaces["Streams"] = <<Space(9, <<"ext.xsd">>)>>,
     !.namespaces["Devices"] = <<(("prefix" :> 1) @@ ("Location" :> <<"lost">>)),
                                 ("prefix" :> StandardPrefix) @@ ("Location" :> <<"own">>)>>,
     !.styles["Streams"] = <<("Location" :> <<"style.xsl">>) @@ ("Path" :> "style.xsl")>>,
     !.types = "svg" :> "image/svg"]

Unmonitored ==
  [EmptyReader EXCEPT !.keys = ("AllowPut" :> TRUE) @@ ("IgnoreTimestamps" :> TRUE),
                      !.styles["Error"] = <<"Path" :> "style.xsl">>]

Dynamic ==
  [EmptyReader EXCEPT !.keys = "MonitorConfigFiles" :> TRUE,
                      !.adapters = <<<<("block" :> "d9")>>>>]

Broken == [EmptyReader EXCEPT !.valid = FALSE]

MCConfigs == ("plain" :> Plain) @@ ("extended" :> Extended)
             @@ ("unmonitored" :> Unmonitored) @@ ("dynamic" :> Dynamic)
             @@ ("broken" :> Broken)

One == [valid |-> TRUE, names |-> <<"d1">>, added |-> {"d1"},
        namespaces |-> <<[prefix |-> 1, urn |-> <<"y">>, location |-> <<"y.xsd">>]>>]
Two == [valid |-> TRUE, names |-> <<"d1", "d2">>, added |-> {"d2"}, namespaces |-> <<>>]
Bad == [valid |-> FALSE, names |-> <<>>, added |-> {}, namespaces |-> <<>>]

MCDeviceFiles == ("one" :> One) @@ ("two" :> Two) @@ ("bad" :> Bad)
MCCandidates  == <<"Devices.xml", "probe.xml">>
=============================================================================
