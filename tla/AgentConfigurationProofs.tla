----------------------- MODULE AgentConfigurationProofs -----------------------
(***************************************************************************)
(* Theorems about the life of an agent process, for every set of files and *)
(* however often they are edited: the monitor never deletes an agent that  *)
(* serves, and an agent that a restart has loaded has the settings of one  *)
(* that a new process would load.                                          *)
(*                                                                         *)
(* Both follow from IInv of module AgentConfiguration.  Its conjuncts that *)
(* an action leaves alone because it leaves their variables alone are      *)
(* settled together.                                                       *)
(***************************************************************************)
EXTENDS AgentConfiguration, TLAPS

Disks ==
  [Paths -> [exists : BOOLEAN, content : DOMAIN Configs \cup DOMAIN DeviceFiles,
             mtime : Nat, old : BOOLEAN]]

(* The parts of IInv.                                                      *)
LEMMA Parts ==
  IInv <=> /\ TypeOK /\ disk \in Disks /\ ThreadsInv /\ AgentInv
           /\ mainPc = "serving" \/ server # "down" => m_agent # <<>>
BY DEF IInv, Disks

(* The monitoring option of a configuration is a boolean.                  *)
LEMMA ReaderMonitors ==
  ASSUME NEW name
  PROVE  get_with_default(Reader(name).keys, "MonitorConfigFiles", FALSE) \in BOOLEAN
BY ConfigurationAssumption DEF get_with_default, Reader, EmptyReader, Nothing

(* The device file that is found has a path.                               *)
LEMMA FoundIsPath ==
  ASSUME NEW name, NEW path \in FindDevices(DevicesNames(Reader(name)))
  PROVE  path \in Paths
<1> DEFINE named == get_with_default(Reader(name).keys, "Devices", <<>>)
<1>1. named \in Seq(Editable)
  BY ConfigurationAssumption DEF get_with_default, Reader, EmptyReader, Nothing
<1>2. DevicesNames(Reader(name)) \in Seq(Editable)
  <2> HIDE DEF named
  <2>1. named \o Candidates \in Seq(Editable)
    BY <1>1, ConfigurationAssumption
  <2> QED
    BY <2>1 DEF DevicesNames, named
<1> QED
  BY <1>2 DEF FindDevices, Paths

(* The types and the shape of the agent bound its length.                  *)
LEMMA AgentLength ==
  ASSUME NEW agent, NEW d, NEW c, NEW l,
         agent = <<>> \/ agent = <<[devices |-> d, created |-> c, loaded |-> l]>>
  PROVE  Len(agent) <= 1
<1>1. CASE agent = <<>>
  BY <1>1
<1>2. CASE agent # <<>>
  <2> DEFINE a == [devices |-> d, created |-> c, loaded |-> l]
  <2>1. agent = <<a>>
    BY <1>2
  <2> HIDE DEF a
  <2> QED
    BY <2>1
<1> QED
  BY <1>1, <1>2

-----------------------------------------------------------------------------
(* The process starts in the invariant.                                    *)
LEMMA InitIInv ==
  ASSUME Init
  PROVE  IInv
<1>1. disk \in Disks
  <2>1. PICK c \in {c \in DOMAIN Configs : Configs[c].valid},
             d \in [ToSet(Candidates) -> {d \in DOMAIN DeviceFiles : DeviceFiles[d].valid}] :
          disk = [p \in Paths |->
                    [exists |-> p \in Editable, mtime |-> 1, old |-> TRUE,
                     content |-> IF p \in DOMAIN d THEN d[p] ELSE c]]
    BY DEF Init
  <2>2. ASSUME NEW p \in Paths
        PROVE  (IF p \in DOMAIN d THEN d[p] ELSE c) \in DOMAIN Configs \cup DOMAIN DeviceFiles
    OBVIOUS
  <2> QED
    BY <2>1, <2>2 DEF Disks
<1>2. TypeOK
  <2>1. Len(m_agent) <= 1
    BY DEF Init
  <2>2. {m_configFile, m_devicesFile} \subseteq Paths
    BY DEF Init, Paths, Editable
  <2>3. edits \in 0..MaxEdits
    BY ConfigurationAssumption DEF Init
  <2>4. /\ m_restart = FALSE /\ m_monitorFiles = FALSE
        /\ stage = "read" /\ server = "down" /\ mainPc = "initialize" /\ monitorPc = "none"
    BY DEF Init
  <2> QED
    BY <2>1, <2>2, <2>3, <2>4 DEF TypeOK, Alive, Ended
<1>3. ThreadsInv /\ AgentInv
  BY DEF Init, ThreadsInv, AgentInv, Alive, Ended
<1> QED
  BY <1>1, <1>2, <1>3, Parts DEF Init

-----------------------------------------------------------------------------
(* initialize() and loadConfig.                                            *)

(* readConfig keeps it: there is no agent yet, so nothing that reads the   *)
(* configuration is affected.                                              *)
LEMMA ReadConfigStep ==
  ASSUME IInv, readConfig
  PROVE  IInv'
<1> USE DEF files, Fails
<1>1. disk \in Disks /\ m_agent = <<>> /\ m_agent' = <<>> /\ UNCHANGED <<disk, edits>>
  BY Parts DEF readConfig, AgentInv
<1>2. stage = "read" /\ Alive /\ stage' \in {"read", "create"}
  BY DEF readConfig
<1>3. m_configFile' \in Paths
  BY DEF IInv, TypeOK, readConfig, Paths
<1>4. m_devicesFile' \in Paths
  BY FoundIsPath DEF IInv, TypeOK, readConfig
<1>5. m_monitorFiles' \in BOOLEAN
  BY ReaderMonitors DEF IInv, TypeOK, readConfig
<1>6. TypeOK'
  BY <1>1, <1>2, <1>3, <1>4, <1>5 DEF IInv, TypeOK, readConfig, Alive, Ended
<1>7. ThreadsInv'
  BY <1>2 DEF IInv, TypeOK, ThreadsInv, readConfig, Alive, Ended
<1>8. AgentInv'
  BY <1>1, <1>2 DEF AgentInv
<1>9. (mainPc = "serving" \/ server # "down" => m_agent # <<>>)'
  BY <1>1, Parts DEF readConfig
<1> QED
  BY <1>1, <1>6, <1>7, <1>8, <1>9 DEF IInv, Disks

(* createAgent makes an agent to which nothing has been applied.           *)
LEMMA CreateAgentStep ==
  ASSUME IInv, createAgent
  PROVE  IInv'
<1> USE DEF files, Fails
<1> DEFINE file == disk[m_devicesFile]
           new == [devices |-> file.content, created |-> reader, loaded |-> <<>>]
<1>1. m_agent = <<>> /\ stage = "create" /\ Alive /\ UNCHANGED <<disk, edits, reader>>
  BY Parts DEF createAgent, AgentInv
<1>2. \/ m_agent' = <<new>> /\ stage' = "configure" /\ UNCHANGED <<mainPc, monitorPc>>
      \/ m_agent' = <<>> /\ stage' = "create" /\ mainPc' = "failed" /\ UNCHANGED monitorPc
  BY <1>1 DEF createAgent
<1> HIDE DEF file
<1>3. Len(m_agent') <= 1
  BY <1>2, AgentLength
<1>4. <<new>>[1].devices = file.content /\ <<new>> # <<>>
  OBVIOUS
<1>5. AgentInv'
  BY <1>1, <1>2, <1>4 DEF AgentInv
<1> HIDE DEF new
<1>6. TypeOK'
  <2>1. stage' = "configure" => m_agent' # <<>>
    BY <1>2, <1>4
  <2>2. {m_configFile, m_devicesFile}' \subseteq Paths
    BY DEF IInv, TypeOK, createAgent
  <2> QED
    BY <1>1, <1>2, <1>3, <2>1, <2>2 DEF IInv, TypeOK, createAgent, Alive, Ended
<1>7. ThreadsInv'
  BY <1>1, <1>2 DEF IInv, TypeOK, ThreadsInv, createAgent, Alive, Ended
<1>8. (mainPc = "serving" \/ server # "down" => m_agent # <<>>)'
  BY <1>1, <1>2, <1>4, Parts DEF createAgent
<1> QED
  BY <1>1, <1>5, <1>6, <1>7, <1>8 DEF IInv, Disks

(* configureAgent applies the configuration that was read, once.           *)
LEMMA ConfigureAgentStep ==
  ASSUME IInv, configureAgent
  PROVE  IInv'
<1> USE DEF files
<1> DEFINE d == m_agent[1].devices
           old == [devices |-> d, created |-> reader, loaded |-> <<>>]
           new == [devices |-> d, created |-> reader, loaded |-> <<reader>>]
<1>1. m_agent = <<old>> /\ stage = "configure" /\ Alive /\ UNCHANGED <<disk, edits, reader>>
  BY DEF IInv, configureAgent, AgentInv
<1> HIDE DEF d
<1>2. [old EXCEPT !.loaded = Append(@, reader)] = new
  OBVIOUS
<1>3. \/ m_agent' = <<new>> /\ stage' = "none" /\ Returns
      \/ /\ m_agent' = m_agent /\ stage' = "configure" /\ mainPc' \in Ended
         /\ UNCHANGED monitorPc
  <2>1. m_agent[1] = old
    BY <1>1
  <2> HIDE DEF old, new
  <2> QED
    BY <1>1, <1>2, <2>1 DEF configureAgent, AdaptersOutcome, Ended
<1>4. Len(m_agent') <= 1
  BY <1>1, <1>3, AgentLength
<1>5. <<new>>[1].devices = d /\ <<new>> # <<>> /\ <<old>> # <<>>
  OBVIOUS
<1>6. AgentInv'
  <2>1. CASE m_agent' = <<new>> /\ stage' = "none"
    BY <1>1, <1>5, <2>1 DEF AgentInv
  <2>2. CASE m_agent' = m_agent /\ stage' = "configure"
    BY <1>1, <2>2, Parts DEF AgentInv
  <2> QED
    BY <1>3, <2>1, <2>2
<1> HIDE DEF new, old
<1>7. TypeOK'
  <2>1. stage' = "configure" => m_agent' # <<>>
    BY <1>1, <1>3, <1>5
  <2>2. {m_configFile, m_devicesFile}' \subseteq Paths
    BY DEF IInv, TypeOK, configureAgent
  <2> QED
    BY <1>1, <1>3, <1>4, <2>1, <2>2
      DEF IInv, TypeOK, ThreadsInv, configureAgent, Returns, Alive, Ended
<1>8. ThreadsInv'
  BY <1>1, <1>3 DEF IInv, TypeOK, ThreadsInv, configureAgent, Returns, Alive, Ended
<1>9. (mainPc = "serving" \/ server # "down" => m_agent # <<>>)'
  BY <1>1, <1>3, <1>5 DEF configureAgent
<1> QED
  BY <1>1, <1>6, <1>7, <1>8, <1>9 DEF IInv, Disks

-----------------------------------------------------------------------------
(* The threads.                                                            *)

(* What is left of IInv once an action leaves the agent and the files.     *)
LEMMA Frame ==
  ASSUME IInv, UNCHANGED <<disk, m_agent, stage, reader>>, TypeOK', ThreadsInv',
         server' # "down" => m_agent # <<>>
  PROVE  IInv'
<1>1. AgentInv'
  BY DEF IInv, AgentInv
<1>2. mainPc' = "serving" => server' # "down"
  BY DEF ThreadsInv
<1> QED
  BY <1>1, <1>2 DEF IInv

(* Every step of the main thread keeps the invariant.                      *)
LEMMA MainStep ==
  ASSUME IInv, Main
  PROVE  IInv'
<1> USE DEF IInv, TypeOK, ThreadsInv, Alive, Ended, config, monitor, files
<1>1. CASE beginLoop
  BY <1>1, Frame DEF beginLoop
<1>2. CASE startAgent
  BY <1>2, Frame DEF startAgent
<1>3. CASE serverStops
  BY <1>3, Frame DEF serverStops
<1>4. CASE afterStart
  BY <1>4, Frame DEF afterStart, WaitsForMonitor
<1>5. CASE joinMonitor
  BY <1>5, Frame DEF joinMonitor
<1> QED
  BY <1>1, <1>2, <1>3, <1>4, <1>5 DEF Main

(* deleteAgent finds main in the server or waiting for the monitor.        *)
LEMMA DeleteAgentStep ==
  ASSUME IInv, deleteAgent
  PROVE  IInv'
<1> USE DEF deleteAgent, Deletes, Cleared, files
<1>1. m_agent' = <<>> /\ stage' = "read" /\ Len(m_agent') <= 1
  OBVIOUS
<1>2. TypeOK'
  BY <1>1 DEF IInv, TypeOK, ThreadsInv, Alive, Ended
<1>3. ThreadsInv'
  BY DEF IInv, TypeOK, ThreadsInv, Alive, Ended
<1>4. AgentInv'
  BY <1>1 DEF AgentInv
<1>5. ~ (mainPc' = "serving" \/ server' # "down")
  BY DEF IInv, ThreadsInv
<1> QED
  BY <1>2, <1>3, <1>4, <1>5 DEF IInv

(* Every step of the monitor keeps the invariant.                          *)
LEMMA MonitorStep ==
  ASSUME IInv, Monitor
  PROVE  IInv'
<1> USE DEF IInv, TypeOK, ThreadsInv, Alive, Ended, config, files
<1>1. CASE monitorStart
  BY <1>1, Frame DEF monitorStart
<1>2. CASE checkConfig
  BY <1>2, Frame DEF checkConfig
<1>3. CASE checkDevices
  BY <1>3, Frame DEF checkDevices, is_running, SetsRestart
<1>4. CASE clearAgent
  BY <1>4, Frame DEF clearAgent
<1>5. CASE deleteAgent
  BY <1>5, DeleteAgentStep
<1> QED
  BY <1>1, <1>2, <1>3, <1>4, <1>5 DEF Monitor

-----------------------------------------------------------------------------
(* The files change under the threads.                                     *)

(* A step that leaves the program alone keeps all but the type of the      *)
(* files.                                                                  *)
LEMMA DiskFrame ==
  ASSUME IInv, disk' \in Disks, edits' \in 0..MaxEdits,
         UNCHANGED <<m_agent, m_restart, config, server, mainPc, monitor>>
  PROVE  IInv'
BY DEF IInv, Disks, TypeOK, ThreadsInv, AgentInv, Alive, Ended, config, monitor

(* Editing, removing and ageing a file keep that type.                     *)
LEMMA FilesStep ==
  ASSUME IInv, NEW path \in Paths,
         \/ Age(path)
         \/ RemoveFile(path)
         \/ \E c \in DOMAIN Configs \cup DOMAIN DeviceFiles : WriteFile(path, c)
  PROVE  IInv'
<1>1. disk \in Disks /\ edits \in 0..MaxEdits
  BY Parts DEF TypeOK
<1>2. disk[path] \in [exists : BOOLEAN, content : DOMAIN Configs \cup DOMAIN DeviceFiles,
                      mtime : Nat, old : BOOLEAN]
  BY <1>1 DEF Disks
<1>3. CASE Age(path)
  <2>1. disk' \in Disks
    BY <1>1, <1>2, <1>3 DEF Age, Disks
  <2> QED
    BY <1>1, <1>3, <2>1, DiskFrame DEF Age
<1>4. CASE RemoveFile(path)
  <2>1. disk' \in Disks
    BY <1>1, <1>2, <1>4 DEF RemoveFile, Disks
  <2> QED
    BY <1>1, <1>4, <2>1, DiskFrame, ConfigurationAssumption DEF RemoveFile
<1>5. ASSUME NEW c \in DOMAIN Configs \cup DOMAIN DeviceFiles, WriteFile(path, c)
      PROVE  IInv'
  <2>1. PICK mtime \in {edits + 2} \cup IF disk[path].old THEN {} ELSE {disk[path].mtime} :
          disk' = [disk EXCEPT ![path] = [exists |-> TRUE, content |-> c,
                                          mtime |-> mtime, old |-> FALSE]]
    BY <1>5 DEF WriteFile
  <2>2. mtime \in Nat
    BY <1>1, <1>2, ConfigurationAssumption
  <2>3. disk' \in Disks
    BY <1>1, <2>1, <2>2 DEF Disks
  <2> QED
    BY <1>1, <1>5, <2>3, DiskFrame, ConfigurationAssumption DEF WriteFile
<1> QED
  BY <1>3, <1>4, <1>5

-----------------------------------------------------------------------------
(* IInv holds of every state of every behaviour.                           *)
LEMMA Invariance == Spec => []IInv
<1>1. IInv /\ [Next]_vars => IInv'
  <2> SUFFICES ASSUME IInv, [Next]_vars
               PROVE  IInv'
    OBVIOUS
  <2>1. CASE Load
    BY <2>1, ReadConfigStep, CreateAgentStep, ConfigureAgentStep DEF Load
  <2>2. CASE Main
    BY <2>2, MainStep
  <2>3. CASE Monitor
    BY <2>3, MonitorStep
  <2>4. ASSUME NEW p \in Editable, Age(p) \/ RemoveFile(p)
        PROVE  IInv'
    BY <2>4, FilesStep DEF Paths
  <2>5. ASSUME NEW c \in DOMAIN Configs, WriteFile(ConfigFile, c)
        PROVE  IInv'
    BY <2>5, FilesStep DEF Paths, Editable
  <2>6. ASSUME NEW p \in ToSet(Candidates), NEW d \in DOMAIN DeviceFiles, WriteFile(p, d)
        PROVE  IInv'
    BY <2>6, FilesStep DEF Paths, Editable
  <2>7. CASE UNCHANGED vars
    <3>1. disk' \in Disks /\ edits' \in 0..MaxEdits
      BY <2>7, Parts DEF vars, files, TypeOK
    <3> QED
      BY <2>7, <3>1, DiskFrame DEF vars
  <2> QED
    BY <2>1, <2>2, <2>3, <2>4, <2>5, <2>6, <2>7 DEF Next
<1> QED
  BY <1>1, InitIInv, PTL DEF Spec

(* The monitor never deletes the agent of a server that is up or that the  *)
(* main thread is in, and the state keeps its types.                       *)
THEOREM InUseCorrect == Spec => []InUseIsLive
<1>1. IInv => InUseIsLive
  BY Parts DEF InUseIsLive
<1> QED
  BY <1>1, Invariance, PTL

(* The settings of an agent to which one configuration has been applied.   *)
LEMMA SettingsOfOne ==
  ASSUME NEW agent, NEW c, agent.loaded = <<c>>
  PROVE  Settings(agent) =
           loadSettings(NewAgent(DeviceFiles[agent.devices], Reader(agent.created)), Reader(c))
<1> DEFINE base == NewAgent(DeviceFiles[agent.devices], Reader(agent.created))
           step(s, n) == loadSettings(s, Reader(agent.loaded[n]))
           Is(f) == f = [n \in 0..Len(agent.loaded) |->
                           IF n = 0 THEN base ELSE step(f[n - 1], n)]
           g == [n \in 0..1 |-> IF n = 0 THEN base ELSE step(base, 1)]
<1>1. Settings(agent) = (CHOOSE f : Is(f))[Len(agent.loaded)]
  BY DEF Settings
<1> HIDE DEF base, step
<1>0. Len(agent.loaded) = 1 /\ agent.loaded[1] = c
  OBVIOUS
<1>2. Is(g)
  BY <1>0
<1>3. Is(CHOOSE f : Is(f))
  <2> HIDE DEF Is, g
  <2> QED
    BY <1>2
<1>4. ASSUME NEW f, Is(f)
      PROVE  f[1] = step(base, 1)
  BY <1>0, <1>4
<1> HIDE DEF Is
<1> QED
  BY <1>0, <1>1, <1>3, <1>4 DEF step, base

(* An agent that is started has the settings that a process started with   *)
(* the same files would have: a restart leaves nothing over.               *)
THEOREM WarmCorrect == Spec => []WarmIsCold
<1>1. ASSUME IInv, mainPc = "start", Ready
      PROVE  /\ m_agent[1].loaded = <<reader>>
             /\ m_agent[1].created = reader
  <2>1. stage # "configure"
    BY <1>1 DEF IInv, AgentInv, Ready
  <2> QED
    BY <1>1, <2>1 DEF IInv, TypeOK, AgentInv, Ready
<1>2. IInv => WarmIsCold
  BY <1>1, SettingsOfOne DEF WarmIsCold
<1> QED
  BY <1>2, Invariance, PTL
=============================================================================
