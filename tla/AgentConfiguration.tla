------------------------- MODULE AgentConfiguration -------------------------
(* The life of an agent process: the main thread loads the configuration   *)
(* and runs the server (AgentConfiguration::start), the monitor thread     *)
(* watches the files and, when they have changed and settled, stops and    *)
(* deletes the agent and loads a new one (monitorThread), and somebody     *)
(* edits, removes and restores the files meanwhile.                        *)
(*                                                                         *)
(* A file's modification time is a number; an edit in the same second      *)
(* leaves it alone.  "old" says that a file is older than                  *)
(* m_minimumConfigReloadAge.                                               *)
EXTENDS ConfigLoader

CONSTANTS
  Configs,      \* [name -> reader]: contents of the configuration file
  DeviceFiles,  \* [name -> device file]: contents of a device file
  Candidates,   \* the device files, in the order they are looked for
  ConfigFile,   \* the configuration file of the command line
  Elsewhere,    \* the same name beside the executable, where there is none
  MaxEdits      \* bound on the edits of files

Editable == {ConfigFile} \cup ToSet(Candidates)
Paths    == Editable \cup {Elsewhere}

ASSUME ConfigurationAssumption ==
  /\ MaxEdits \in Nat
  /\ Candidates \in Seq(Editable)
  /\ \A c \in DOMAIN Configs :
       LET keys == Configs[c].keys
       IN  /\ "Devices" \in DOMAIN keys => keys["Devices"] \in Seq(Editable)
           /\ "MonitorConfigFiles" \in DOMAIN keys => keys["MonitorConfigFiles"] \in BOOLEAN

VARIABLES
  disk,            \* [path -> [exists, content, mtime, old]]
  edits,           \* edits so far
  m_agent,         \* <<>> or <<agent>>
  m_monitorFiles,
  m_restart,
  m_configFile,
  m_devicesFile,
  logger,          \* m_loggerFile: <<>> or <<the logger block it is made from>>
  stage,           \* how far initialize() is
  reader,          \* the configuration that is being loaded
  server,          \* "down", "up", "closing"
  mainPc,
  monitorPc,
  start,           \* cfg_at_start and devices_at_start
  seen             \* the times of the present check, and whether they are old

files   == <<disk, edits>>
config  == <<m_monitorFiles, m_configFile, m_devicesFile, logger, stage, reader>>
monitor == <<monitorPc, start, seen>>
vars    == <<files, m_agent, m_restart, config, server, mainPc, monitor>>

Ended == {"exited", "failed", "crashed"}
Alive == mainPc \notin Ended

NoTimes == [p \in {} |-> 0]

(* Contents are told apart by their names.                                 *)
Reader(name) == IF name \in DOMAIN Configs THEN Configs[name] ELSE EmptyReader

(* An agent is the device file and the configuration it was created with   *)
(* and the configurations that loadConfig has applied to it since, which   *)
(* determine its settings.                                                 *)
Settings(agent) ==
  LET after[n \in 0..Len(agent.loaded)] ==
        IF n = 0 THEN NewAgent(DeviceFiles[agent.devices], Reader(agent.created))
        ELSE loadSettings(after[n - 1], Reader(agent.loaded[n]))
  IN  after[Len(agent.loaded)]

Ready == m_agent # <<>> /\ m_agent[1].loaded # <<>>

Init ==
  /\ \E c \in {c \in DOMAIN Configs : Configs[c].valid},
        d \in [ToSet(Candidates) -> {d \in DOMAIN DeviceFiles : DeviceFiles[d].valid}] :
       disk = [p \in Paths |-> [exists |-> p \in Editable, mtime |-> 1, old |-> TRUE,
                               content |-> IF p \in DOMAIN d THEN d[p] ELSE c]]
  /\ edits = 0
  /\ m_agent = <<>>
  /\ m_monitorFiles = FALSE
  /\ m_restart = FALSE
  /\ m_configFile = ConfigFile
  /\ m_devicesFile = ConfigFile
  /\ logger = <<>>
  /\ stage = "read"
  /\ reader = "none"
  /\ server = "down"
  /\ mainPc = "initialize"
  /\ monitorPc = "none"
  /\ start = NoTimes
  /\ seen = NoTimes

-----------------------------------------------------------------------------
(* initialize() and loadConfig, in the thread that calls them.  A failure  *)
(* ends the process: usage() exits.                                        *)

Fails == mainPc' = "failed" /\ UNCHANGED <<m_agent, stage, monitorPc>>

(* The device files, the one the configuration names before the others,    *)
(* and the first of them that is there.                                    *)
DevicesNames(read) == get_with_default(read.keys, "Devices", <<>>) \o Candidates

FindDevices(names) ==
  {names[i] : i \in {i \in DOMAIN names :
    disk[names[i]].exists /\ \A j \in 1..(i - 1) : ~disk[names[j]].exists}}

(* A configuration file that is missing is looked for beside the           *)
(* executable; the reader of a file that is not there either is empty.  A  *)
(* file that does not parse ends the process.  The logger is configured    *)
(* once: a restart keeps it.                                               *)
readConfig ==
  LET read  == Reader(reader')
      found == FindDevices(DevicesNames(read))
  IN  /\ Alive
      /\ stage = "read"
      /\ m_configFile' = IF disk[m_configFile].exists THEN m_configFile ELSE Elsewhere
      /\ reader' = IF disk[m_configFile'].exists THEN disk[m_configFile'].content ELSE "none"
      /\ IF ~read.valid
         THEN Fails /\ UNCHANGED <<logger, m_monitorFiles, m_devicesFile>>
         ELSE /\ logger' = IF logger # <<>> THEN logger
                           ELSE <<get_with_default(read.keys, "logger_config", 0)>>
              /\ m_monitorFiles' = get_with_default(read.keys, "MonitorConfigFiles", FALSE)
              /\ IF found = {}
                 THEN Fails /\ UNCHANGED m_devicesFile
                 ELSE /\ m_devicesFile' \in found
                      /\ stage' = "create"
                      /\ UNCHANGED <<m_agent, mainPc, monitorPc>>
      /\ UNCHANGED <<files, m_restart, server, start, seen>>

(* The agent reads the device file when it is created.                     *)
createAgent ==
  LET file == disk[m_devicesFile]
  IN  /\ Alive
      /\ stage = "create"
      /\ IF m_agent # <<>>
         THEN stage' = "configure" /\ UNCHANGED <<m_agent, mainPc, monitorPc>>
         ELSE IF file.exists /\ DeviceFiles[file.content].valid
         THEN /\ m_agent' = <<[devices |-> file.content, created |-> reader, loaded |-> <<>>]>>
              /\ stage' = "configure"
              /\ UNCHANGED <<mainPc, monitorPc>>
         ELSE Fails
      /\ UNCHANGED <<files, m_restart, m_monitorFiles, m_configFile, m_devicesFile,
                     logger, reader, server, start, seen>>

Returns ==
  IF monitorPc = "reload" THEN monitorPc' = "done" /\ UNCHANGED mainPc
  ELSE mainPc' = "loop" /\ UNCHANGED monitorPc

configureAgent ==
  LET outcome == AdaptersOutcome(DeviceFiles[m_agent[1].devices], Reader(reader))
  IN  /\ Alive
      /\ stage = "configure"
      /\ IF outcome = "loaded"
         THEN /\ m_agent' = <<[m_agent[1] EXCEPT !.loaded = Append(@, reader)]>>
              /\ stage' = "none"
              /\ Returns
         ELSE mainPc' = outcome /\ UNCHANGED <<m_agent, stage, monitorPc>>
      /\ UNCHANGED <<files, m_restart, m_monitorFiles, m_configFile, m_devicesFile,
                     logger, reader, server, start, seen>>

-----------------------------------------------------------------------------
(* AgentConfiguration::start, the main thread.                             *)

beginLoop ==
  /\ mainPc = "loop"
  /\ mainPc' = "start"
  /\ m_restart' = FALSE
  /\ monitorPc' = IF m_monitorFiles THEN "start" ELSE monitorPc
  /\ UNCHANGED <<files, m_agent, config, server, start, seen>>

(* Agent::start: the port may be in use.                                   *)
startAgent ==
  /\ mainPc = "start"
  /\ \/ /\ m_agent # <<>>
        /\ server' = "up"
        /\ mainPc' = "serving"
     \/ /\ m_agent # <<>>
        /\ mainPc' = "failed"
        /\ UNCHANGED server
     \/ /\ m_agent = <<>>
        /\ mainPc' = "crashed"
        /\ UNCHANGED server
  /\ UNCHANGED <<files, m_agent, m_restart, config, monitor>>

(* server_http::start returns when the server has been cleared.            *)
serverStops ==
  /\ mainPc = "serving"
  /\ server = "closing"
  /\ server' = "down"
  /\ mainPc' = "returned"
  /\ UNCHANGED <<files, m_agent, m_restart, config, monitor>>

WaitsForMonitor == m_restart /\ m_monitorFiles

afterStart ==
  /\ mainPc = "returned"
  /\ mainPc' = IF WaitsForMonitor THEN "join"
               ELSE IF m_restart THEN "loop" ELSE "exited"
  /\ UNCHANGED <<files, m_agent, m_restart, config, server, monitor>>

joinMonitor ==
  /\ mainPc = "join"
  /\ monitorPc = "done"
  /\ mainPc' = "loop"
  /\ UNCHANGED <<files, m_agent, m_restart, config, server, monitor>>

-----------------------------------------------------------------------------
(* AgentConfiguration::monitorThread.                                      *)

Watched == <<m_configFile, m_devicesFile>>

(* GetFileModificationTime: 0 for a file that is not there.                *)
GetFileModificationTime(path) == IF disk[path].exists THEN disk[path].mtime ELSE 0

monitorStart ==
  /\ Alive
  /\ monitorPc = "start"
  /\ start' = [i \in 1..2 |-> GetFileModificationTime(Watched[i])]
  /\ monitorPc' = IF start'[1] = 0 \/ start'[2] = 0 THEN "done" ELSE "sleep"
  /\ UNCHANGED <<files, m_agent, m_restart, config, server, mainPc, seen>>

checkConfig ==
  /\ Alive
  /\ monitorPc = "sleep"
  /\ seen' = <<[time |-> GetFileModificationTime(m_configFile), old |-> disk[m_configFile].old]>>
  /\ monitorPc' = "checking"
  /\ UNCHANGED <<files, m_agent, m_restart, config, server, mainPc, start>>

is_running == server = "up"

Changed_Both(now) ==
  /\ \A i \in 1..2 : now[i].time # 0
  /\ \A i \in 1..2 : now[i].time # start[i]
  /\ \A i \in 1..2 : now[i].old

Changed(now) ==
  /\ \A i \in 1..2 : now[i].time # 0
  /\ \E i \in 1..2 : now[i].time # start[i]
  /\ \A i \in 1..2 : now[i].old

SetsRestart_Never == UNCHANGED m_restart

SetsRestart == m_restart' = TRUE

(* The second file, the decision, and m_restart before clear().            *)
checkDevices ==
  LET now == Append(seen, [time |-> GetFileModificationTime(m_devicesFile),
                           old |-> disk[m_devicesFile].old])
  IN  /\ Alive
      /\ monitorPc = "checking"
      /\ seen' = now
      /\ IF ~is_running THEN monitorPc' = "done" /\ UNCHANGED m_restart
         ELSE IF Changed(now) THEN monitorPc' = "clear" /\ SetsRestart
         ELSE monitorPc' = "sleep" /\ UNCHANGED m_restart
      /\ UNCHANGED <<files, m_agent, config, server, mainPc, start>>

(* Agent::clear stops the adapters and the server and waits for it.        *)
clearAgent ==
  /\ Alive
  /\ monitorPc = "clear"
  /\ server' = "closing"
  /\ monitorPc' = "clearing"
  /\ UNCHANGED <<files, m_agent, m_restart, config, mainPc, start, seen>>

Cleared_AtOnce == TRUE

Cleared == server = "down"

Deletes_Keeps == UNCHANGED m_agent

Deletes == m_agent' = <<>>

deleteAgent ==
  /\ Alive
  /\ monitorPc = "clearing"
  /\ Cleared
  /\ Deletes
  /\ stage' = "read"
  /\ monitorPc' = "reload"
  /\ UNCHANGED <<files, m_restart, m_monitorFiles, m_configFile, m_devicesFile, logger,
                 reader, server, mainPc, start, seen>>

-----------------------------------------------------------------------------
(* The files.                                                              *)

WriteFile(path, content) ==
  /\ edits < MaxEdits
  /\ edits' = edits + 1
  /\ disk[path].exists => content # disk[path].content
  /\ \E mtime \in {edits + 2} \cup IF disk[path].old THEN {} ELSE {disk[path].mtime} :
       disk' = [disk EXCEPT ![path] = [exists |-> TRUE, content |-> content,
                                       mtime |-> mtime, old |-> FALSE]]
  /\ UNCHANGED <<m_agent, m_restart, config, server, mainPc, monitor>>

RemoveFile(path) ==
  /\ edits < MaxEdits
  /\ edits' = edits + 1
  /\ disk[path].exists
  /\ disk' = [disk EXCEPT ![path].exists = FALSE]
  /\ UNCHANGED <<m_agent, m_restart, config, server, mainPc, monitor>>

Age(path) ==
  /\ ~disk[path].old
  /\ disk' = [disk EXCEPT ![path].old = TRUE]
  /\ UNCHANGED <<edits, m_agent, m_restart, config, server, mainPc, monitor>>

Load    == readConfig \/ createAgent \/ configureAgent
Main    == beginLoop \/ startAgent \/ serverStops \/ afterStart \/ joinMonitor
Monitor == monitorStart \/ checkConfig \/ checkDevices \/ clearAgent \/ deleteAgent

Next ==
  \/ Load
  \/ Main
  \/ Monitor
  \/ \E p \in Editable : Age(p) \/ RemoveFile(p)
  \/ \E c \in DOMAIN Configs : WriteFile(ConfigFile, c)
  \/ \E p \in ToSet(Candidates), d \in DOMAIN DeviceFiles : WriteFile(p, d)

Spec == Init /\ [][Next]_vars

(* The threads run, time passes.                                           *)
Fairness ==
  /\ WF_vars(Load)
  /\ WF_vars(Main)
  /\ WF_vars(Monitor)
  /\ \A p \in Editable : WF_vars(Age(p))

FairSpec == Spec /\ Fairness

-----------------------------------------------------------------------------
(* Properties.                                                             *)

TypeOK ==
  /\ edits \in 0..MaxEdits
  /\ Len(m_agent) <= 1
  /\ m_restart \in BOOLEAN /\ m_monitorFiles \in BOOLEAN
  /\ {m_configFile, m_devicesFile} \subseteq Paths
  /\ stage \in {"none", "read", "create", "configure"}
  /\ server \in {"down", "up", "closing"}
  /\ mainPc \in {"initialize", "loop", "start", "serving", "returned", "join"} \cup Ended
  /\ monitorPc \in {"none", "start", "sleep", "checking", "clear", "clearing", "reload", "done"}
  /\ stage = "configure" => m_agent # <<>>
  /\ Alive => (stage # "none" <=> mainPc = "initialize" \/ monitorPc = "reload")

(* The state is well typed, and the monitor never deletes an agent whose   *)
(* server is up or whose start() the main thread is in.                    *)
InUseIsLive ==
  /\ TypeOK
  /\ mainPc = "serving" \/ server # "down" => m_agent # <<>>

(* An agent that is started after a restart has the settings that a        *)
(* process started now with the same two files would have: nothing of the  *)
(* agent before it is left over.                                           *)
WarmIsCold ==
  mainPc = "start" /\ Ready =>
    Settings(m_agent[1]) =
      loadSettings(NewAgent(DeviceFiles[m_agent[1].devices], Reader(reader)), Reader(reader))

(* Every document names a schema of its own kind and of the version the    *)
(* agent has whenever it names one of the standard schemas that were       *)
(* registered with a directory, and the agent serves that file.            *)
SchemaOfItsKind ==
  mainPc = "start" /\ Ready =>
    LET s == Settings(m_agent[1])
    IN  \A kind \in Kinds :
          LET uri == schemaLocation(s, kind)
          IN  Last(uri) \in DOMAIN Schemas =>
                /\ Schemas[Last(uri)] = [kind |-> kind, version |-> s.version]
                /\ uri \in DOMAIN s.files /\ Last(s.files[uri]) = Last(uri)

(* A change the monitor can see is loaded in the end, unless a file is     *)
(* missing.                                                                *)
Pending ==
  /\ Alive /\ monitorPc \in {"sleep", "checking"} /\ is_running
  /\ \E i \in 1..2 : GetFileModificationTime(Watched[i]) # start[i]

ChangeIsLoaded ==
  Pending ~> \/ stage # "none"
             \/ ~Alive
             \/ \E i \in 1..2 : ~disk[Watched[i]].exists

(* A restart that has begun ends with a serving agent: no thread waits for *)
(* the other, and main does not leave the loop.                            *)
RestartCompletes ==
  monitorPc = "clear" ~> (mainPc = "serving" /\ server = "up" /\ monitorPc # "clear")
                         \/ mainPc \in {"failed", "crashed"}

(* The main thread starts an agent only when it has been loaded            *)
(* completely: it waits for the monitor to re-initialize.                  *)
StartsLoadedAgent ==
  mainPc \in {"start", "serving"} => Ready
-----------------------------------------------------------------------------
(* The inductive invariant behind InUseIsLive and WarmIsCold.              *)

(* The main thread is in the server exactly while it is up or closing; a   *)
(* monitor that has decided to restart finds main in the server or waiting *)
(* for it, unless the new configuration has ended the monitoring, and then *)
(* it has already deleted the old agent.                                   *)
ThreadsInv ==
  /\ mainPc = "serving" => server # "down"
  /\ Alive /\ server # "down" => mainPc = "serving"
  /\ mainPc = "initialize" => monitorPc = "none"
  /\ monitorPc \in {"start", "sleep", "checking", "clear", "clearing"} => m_monitorFiles
  /\ Alive /\ monitorPc = "reload" /\ stage = "read" => m_monitorFiles
  /\ monitorPc = "clear" => server = "up" /\ m_restart
  /\ monitorPc = "clearing" =>
       /\ server \in {"closing", "down"} /\ m_restart
       /\ mainPc \in {"serving", "returned", "join"} \cup Ended
  /\ monitorPc = "reload" /\ m_monitorFiles =>
       m_restart /\ mainPc \in {"returned", "join"} \cup Ended

(* How far initialize() is says what there is of the agent: nothing until  *)
(* it is created, then one to which the configuration that was read has    *)
(* been applied once.                                                      *)
AgentInv ==
  /\ stage \in {"read", "create"} => m_agent = <<>>
  /\ stage = "configure" =>
       m_agent = <<[devices |-> m_agent[1].devices, created |-> reader, loaded |-> <<>>]>>
  /\ stage = "none" =>
       m_agent = <<[devices |-> m_agent[1].devices, created |-> reader, loaded |-> <<reader>>]>>

IInv ==
  /\ TypeOK
  /\ disk \in [Paths -> [exists : BOOLEAN, content : DOMAIN Configs \cup DOMAIN DeviceFiles,
                         mtime : Nat, old : BOOLEAN]]
  /\ ThreadsInv
  /\ AgentInv
  /\ mainPc = "serving" \/ server # "down" => m_agent # <<>>
=============================================================================
