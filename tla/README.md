# A TLA+ model of the MTConnect agent

The MTConnect C++ agent collects observations from machine tool adapters over
sockets, keeps the latest ones in a ring buffer, and serves them to HTTP clients:
the current state (also at a past sequence number), samples of the past, and
streams that never end. The modules here model the parts of the agent whose
correctness depends on order, on concurrency, on arithmetic at the edge of a
buffer, or on two pieces of code that have to agree about the same data. File names are relative to the repository; line numbers are
in `PROJECT.json` under `map`.

## The system

| Part | State | Operations | Interacts with |
|---|---|---|---|
| Observation buffer (`src/agent.cpp`) | `m_sequence`, `m_slidingBuffer`, `m_latest`, `m_first`, `m_checkpoints`, `m_sequenceLock` | `addToBuffer`, `fetchCurrentData`, `fetchSampleData` | written by adapters, PUT requests and asset changes; read by request threads |
| Checkpoints (`src/checkpoint.cpp`, `src/observation.cpp`) | data item -> chain of observations | `addObservation`, `copy`, `getObservations`, `dataSetDifference` | held by the buffer |
| Streams (`Agent::streamData`, `src/change_observer.*`) | the stream's `start`, its `ChangeObserver`, the signalers' observer lists | fetch, wait, wake up, choose the next start | signalled by `addToBuffer`; read the buffer |
| Requests (`httpRequest`, `handleCall`, `handlePut`, `handleFile`, ...) | `m_fileMap`, `m_fileCache`, the hosts that may put | routing, parameter checks, puts, commands, files | buffer, assets, devices, adapters |
| Assets (`addAsset`, `updateAsset`, ...) | `m_assets`, `m_assetMap`, `m_assetCounts`, `m_assetIndices`, `m_assetLock` | add, update, remove, remove all, query | post events to the buffer |
| Cutting tools (`src/cutting_tool.cpp`) | values, measurements, lives and items of a tool, and its XML, `m_content` | parse, update by key or by XML, print | assets, parser, printers |
| Adapter connection (`src/connector.cpp`) | `m_connected`, `m_connectActive`, heartbeat times | connect, heartbeats, close, reconnect, stop | calls the adapter and the agent back |
| Adapter protocol (`src/adapter.cpp`) | the asset being gathered, relative time, the device | parse lines, data items, assets, commands | buffer, assets, devices |
| Availability (`Agent::connected`, `disconnected`, `DataItem::isDuplicate`, `isFiltered`) | the last value, sample and time of every data item, its source | post AVAILABLE / UNAVAILABLE, drop duplicates | adapters, buffer |
| Devices (`src/device.cpp`, `src/component.cpp`, `src/data_item.cpp`) | components, data items, `m_deviceNameMap`, `m_deviceUuidMap` | complete, register, change by protocol commands | parser, printers, requests |
| XML parser (`src/xml_parser.cpp`) | `m_doc`, the document of paths | `parseDevices`, `loadDocument`, `getDataItems` | devices, requests |
| Printers (`src/xml_printer.cpp`, `src/json_printer.cpp`) | namespaces and schema locations | `printProbe`, `printSample`, ... | devices, buffer |
| Configuration (`src/config.cpp`) | the agent, file names, modification times, `m_restart` | load, monitor, restart | creates the agent and the adapters |
| Log file (`src/rolling_file_logger.cpp`) | file descriptor, files | write, roll over | every thread |
| Reference counts (`src/ref_counted.hpp`) | the count | refer, release | observations and assets |

One thread runs for every adapter and for every HTTP connection. What is hard:
the lock of the buffer is released between a request's range check and its fetch,
and between a stream's fetch, its wait and its next start; slots are reused while
requests are being served; checkpoints are taken in slot order and not in sequence
order; signals and heartbeats race; asset events are posted after the asset lock is
released; connections are closed by one thread while another one connects. The
list, with the line where each of them bites, is `hazards` in
`PROJECT.json`.

What makes each part correct: the buffer is a window onto an append-only log, and
every answer is what replaying the log gives; a condition's chain is its set of
active conditions; a data set is what a client holds that applied every
observation; a stream sends everything after its start once and in order, or says
that it could not; the asset list and map agree; the XML kept in a tool is the tool; a
connection that was
announced is taken back once; the latest value of an item is the last one its adapter
sent, and unavailable after it disconnects; a probe says what the devices are, in both
formats, and a path selects what it names in them; a sample document puts every
observation in its place; a request changes exactly what it says; a changed
configuration is loaded, into an agent that has the settings of a fresh process.

## The modules

`Checkpoint` defines observations and checkpoints as values: condition chains
(`AddCondition`), data sets (`AddDataSet`, `SetDifference`) and the filtered copies
requests work on. The text of a value is parsed before it gets here: a payload is
the condition's level and native code, the data set's entries, the reset trigger or
a plain value. Native codes, values and keys are members of small sets.

`ObservationBuffer` extends it with the agent's buffer.

| Action | Code |
|---|---|
| `ConstructItem`, `Post` | `addToBuffer`, called by the constructor for every data item, and by everyone else afterwards |
| `CheckCurrent`, `CheckSample` | the range checks of `handleCall`, without the lock |
| `FetchLatest` | `fetchCurrentData` without `at` |
| `FetchCurrentBegin`, `RollForward`, `FetchCurrentEnd` | `fetchCurrentData` with `at`: choice of the checkpoint, roll forward, unlock |
| `FetchSampleBegin`, `ScanSample`, `FetchSampleEnd` | `fetchSampleData` |
| `Respond` | the document is sent |

`addToBuffer` holds the lock throughout and is one step. The loops of the fetches
hold it too, but take one step per iteration, which keeps what they have collected
in the state. `log` and `states` are history variables: all observations, and the
checkpoint after each.

`ObservationLog` is what the buffer promises: a log that grows, a window of its last
`Size` entries, and replies that come from one moment's window. It has no slots,
no checkpoints and no lock. `ImplementsLog` maps the buffer onto it. `Subsequences` has the
part of a sequence at a set of positions, as a recursive function the proofs can use.

`SampleStream` models `streamData` and the observers. The slots are left out, since
`ObservationBuffer` shows that they hold the log. Because the stream's checks take no
lock, a writer that has incremented `m_sequence` and not yet signalled is visible to
them: `addToBuffer` and `signalObservers` are two steps, and `adding` says that the
lock is held in between. The stream's thread is a program counter: `registering`
observers, `looking` whether it has fallen behind, `fetching`, `sent`, `waiting`,
`woken`, `leaving`. `sent`, `chunk` and `missed` are history: what was sent before,
what was sent last and what the fetch had to step over.

`AssetStore` models the assets: `m_assets` is a list of pointers, and a pointer leads
to an entry of `m_assetMap` or, after `updateAsset`, to a local variable. Everything
that an operation does under `m_assetLock` is one step, apart from the events that
`removeAsset` and `removeAllAssets` post meanwhile; the event that follows the lock is
a step of its own. Following a pointer to a local variable is undefined, and the model
stops there. `recency` is history: the ids in the order in which they were stored.

| Action | Code |
|---|---|
| `addAsset`, then `PostEvent` | `addAsset`: take the old one off the list, make room, store, list; then the event |
| `updateAsset`, then `PostEvent` | `updateAsset`, which lists the address of its local variable |
| `removeAsset`, then `Revoke` if AssetChanged names the asset, then `PostEvent` | `removeAsset` |
| `removeAllAssets`, `RemoveNext`, `RemovedAll` | `removeAllAssets`, one step per asset |
| `handleAssets` | a request for all assets, which follows every pointer |

`CuttingTools` models what one such asset, a cutting tool, consists of and what clients
are shown of it. The tools the map has held are kept in a sequence, because a request
goes on with the object it was given after another one has replaced it. A print reads the
tool without the lock, and is cut in two where a change may come between; what it stores
afterwards is shown to every later client until the next change. `late` is history: the
objects whose content was overtaken by a change while it was printed.

| Action | Code |
|---|---|
| `addAsset` | `parseAsset`, `handleCuttingTool`, and the entry of `m_assetMap` |
| `updateAsset` | `Agent::updateAsset` with a list of changes, each by `CuttingTool::updateValue` or `XmlParser::updateAsset` |
| `removeAsset` | `removeAsset`, which clears no content |
| `handleAssets`, `getContent`, `printLife`, `storeContent`, `answer` | a request in XML: the reference, the content or its printing in two parts, the content stored, the document |
| `jsonAsset` | a request in JSON, which leaves an empty `format` in the tool |

`Connector` models an adapter's connection with three threads: the one that connects
(`Adapter::thread`, `pc`), the one that stops the adapter (`stopper`) and a request
that sends a command (`command`).

| Action | Code |
|---|---|
| `Top`, `Dial`, `Greet`, `Enter` | `connect()` up to the read loop: the socket, the first PING, `connected()`, `m_connected` |
| `BeginRead`, `ReadClosed`, `ReadData`, `ReadTimeout`, `ReadError` | the read and what it returned |
| `ParsePong`, `ParseUnknownDevice`, `Parsed` | the lines of `parseBuffer` |
| `CheckHeartbeats` | the heartbeat's end, the next PING |
| `Exit`, `close`, `Leave` | the end of `connect()` and `~AutoSignal` |
| `closeAgain`, `Sleep`, `Reconnect` | the rest of `Adapter::thread` |
| `stop`, `stopClose`, `stopResume`, `stopJoin` | `Adapter::stop`; `close()` is cut in two at its wait |
| `sendCommand`, `writeCommand` | `sendCommand`, around its look at `m_connected` |

Time is a count of ticks since each event. It passes while the thread dials, sleeps
or blocks in a read; processing takes none, so the properties about heartbeats are
exact up to the time it takes.

`AdapterFeed` models what becomes of the lines adapters send. Each adapter has a
thread: a line is a job with a list of pairs, one pair at a time is looked up, converted
and put to the filters (`processDataItem`), and what passes is stored in a second step
(`addToBuffer`), because the filters take no lock. The filters' members are kept per data
item, as in `DataItem`. A peer may lose its connection between any two lines, also in the
middle of an asset. `received`, `before` and `timing` are history.

| Action | Code |
|---|---|
| `Connect`, `connected` | `Adapter::connected`, `Agent::connected`: AVAILABLE for each device, one step each |
| `Disconnect`, `disconnected` | `Adapter::disconnected`, `Agent::disconnected`, one step per data item |
| `processData`, `processDataItem`, `addToBuffer` | `processData`, `processDataItem`, `isDuplicate`, `isFiltered`, `convertValue` |
| `Gather`, `processAsset` | multi-line assets: the header line, the lines, the terminator |
| `protocolCommand` | the commands that change how the lines are read: device, conversion, relative time, calibration |

`XmlTree` has documents as trees. `DeviceParser` is `XmlParser` on them, `ProbePrinters`
the two printers of a probe, and `AgentDevices` the life of the devices.

| Action | Code |
|---|---|
| `parseFile`, `addDeviceItems` | `Agent::Agent`: the device file is parsed, references are resolved, AVAILABILITY and the asset items are added |
| `loadDocument` | the probe is printed and read back as the document of paths |
| `registerItems` | the maps of names, uuids and data items |
| `protocolCommand` | an adapter sets uuid, native name or parts of the description |

`StreamDocument` models `printSample`: observations are sorted and written by a state
machine that remembers three open elements (XML), and into nested vectors that are
searched for the last entry of the same key (JSON). One step is one observation.

`ConfigLoader` is `loadConfig` as a function from a configuration file and a device file
to an agent's settings: adapters, hosts, files and schemas, namespaces, styles and types.
`AgentConfiguration` is the process around it.

| Action | Code |
|---|---|
| `readConfig`, `createAgent`, `configureAgent` | `initialize`, `loadConfig`, run by main and later by the monitor |
| `beginLoop`, `startAgent`, `serverStops`, `afterStart`, `joinMonitor` | `AgentConfiguration::start`, and the server it runs |
| `monitorStart`, `checkConfig`, `checkDevices`, `clearAgent`, `deleteAgent` | `monitorThread` |
| `WriteFile`, `RemoveFile`, `Age` | the files: somebody edits them, time passes |

`Requests` models a request from its connection to its answer, each in a thread of its
own, with the steps at which other threads can come between.

| Action | Code |
|---|---|
| `Make`, `httpRequest` | `on_connect`, `httpRequest`: method, host, file or call |
| `ReadWindow`, `CheckParams` | `handleCall`: the window is read, then the parameters are checked against it |
| `PutValue`, `SendCommand`, `PutEnds` | `handlePut`, one step per parameter and adapter |
| `Asset` | `handleAssets`, `storeAsset` |
| `FindFile`, `ReadFile`, `CacheFile` | `handleFile`: the cache and stat, the read, the cache again |
| `Observe`, `WriteFile`, `RemoveFile` | adapters, and whoever maintains the files |

The `MC` modules define the inputs of the runs: filter sets, counts, lines, documents,
configurations, requests and symmetries.

## What TLC checks

| Run | Checks |
|---|---|
| `buffer_window` | Four slots and a checkpoint every third slot: a frequency that does not divide the size, and eight observations, so that the slots are filled twice and the window begins in every position relative to the checkpoints. One reader asks `current`, `current?at` and `sample` with positive and negative counts. `WindowIntact`, `CheckpointsAreReplays`, `CurrentIsReplay`, `SampleIsExact`, and `ImplementsLog`, the refinement of `ObservationLog`. Values are left out here: the sequence number already tells observations apart. |
| `buffer_merges` | A condition with two native codes and the empty one at every level, and two data sets, one discrete, with two keys and two values: `ChainIsActiveSet`, `DataSetIsMerge`. No reader runs, so the run ends when the bound on sequence numbers is reached. Codes, keys and values are symmetric. |
| `stream` | A stream with every filter against a writer that fills the buffer twice, the heartbeat elapsing at any time: `NothingSkipped`, `SentOnceInOrder` and, with fairness, `EventuallySent`. |
| `stream_loss` | Violated. The window passes the stream's start between the check for a client that has fallen behind and the fetch, which moves the start without a word. |
| `asset_store` | Three ids, two assets at most, documents that store an asset or mark it removed, a type that may change, updates in place: `ListMatchesMap` (types, every listed pointer leads to an entry, every asset that is present is listed, the list is bounded) and `ListIsMostRecent`. The system may stop, at an undefined access. |
| `connector` | Reconnections without end, two frequencies, stop at any time: `ReadsItsConnection` (the adapter's own thread reads from the connection it made until it leaves `connect()`), `AnnouncedInTurn`, `HeartbeatsOnTime` and, with fairness, `CloseCompletes`. The thread may end, so deadlock is not checked. |
| `adapter_feed` | Two adapters that share a device, one of them with relative time and the duplicate filter; items with a minimum delta, a minimum period, constraints, conversion, a reset trigger without and one with an InitialValue, and a condition that its adapter also reports as UNAVAILABLE itself; a multi-line asset, commands and a lost connection each: `LatestIsReceived`, `NoStaleValue`, `FiltersHold` (no repetition but for the UNAVAILABLE of a condition, the minimum delta, and a first sample that the minimum period never holds back), `RelativeToConnection`, `AssetsWhole`. |
| `devices` | Some 180 device files that vary own items, wrappers, references, second devices with colliding ids and uuids, item contents, configurations and compositions, at four schema versions, with two commands: `ProbeRoundTrip`, `FilterMatchesModel`, `AcceptedSelectsDevice`, `JsonAgrees`. |
| `stream_document` | Lists of up to three observations of eight (numbers, texts, UNAVAILABLE, a condition, a time series, a data set and a table with removed entries, with a prefix of a registered namespace and one of none) in two devices, the second with a component of the same id, and lists of four without the table and the time series: `EachInItsPlace`, `FormatsAgree`. |
| `configuration` | Five configuration files that differ in every block and three device files, edited twice at any moment: `InUseIsLive`, `WarmIsCold`, `SchemaOfItsKind` and, with fairness, `ChangeIsLoaded`, `RestartCompletes`. |
| `requests` | Two threads with two requests out of some thirty that reach every handler and every end of a range, while adapters write and the file changes; two puts give one data set different entries, commands go to two adapters and to one: `PutIsExact`, `ServedFileWhole`, `AcceptedInRange`. |
| `cutting_tools` | Three documents of a tool, one of them an archetype that is marked removed, and seven lists of changes, by key, by selected life or item, by XML, also broken, with two clients: `ContentIsCurrent`, `ToolRoundTrip`, `ToolFormatsAgree`. |

### Counterexamples outside the runs

These configurations each check one property that the code does not have although one of
its comments, tests, messages or guards says so. `tlc -config <cfg> <module>` prints the behaviour.

| Configuration, module | Property | What happens |
|---|---|---|
| `MCBufferStaleAt.cfg`, `MCObservationBuffer` | `CurrentAtAnswersAt` | The window moves between the range check of `at` (`agent.cpp:911`) and the fetch, and the answer is the state at another sequence number. `test/agent_test.cpp:533` expects OUT_OF_RANGE: "'at' must be greater than or equal to %d." |
| `MCAssetEventRace.cfg`, `MCAssetStore` | `ChangedIsPresent` | `addAsset` posts AssetChanged after it has released `m_assetLock`; if another thread removes the asset in between, the event names a removed asset. `agent.cpp:614`: "Releaes before we add the event so we don't cause a race condition." |
| `MCAssetDangling.cfg`, `MCAssetStore` | `NoInvalidAccess` | `updateAsset` lists the address of its local variable (`agent.cpp:743`), which is followed later. `agent.cpp:741`: "Move it to the front of the queue". |
| `MCConnectorStop.cfg`, `Connector` | `StopCompletes` | `stop()` before `m_connected` is set closes nothing and waits for as long as the peer answers. `adapter.cpp:67`: "Will stop threaded object gracefully Adapter::thread()". |
| `MCConnectorCommand.cfg`, `Connector` | `CommandHasConnection` | `sendCommand` holds `m_commandLock` from its look at `m_connected` to the write, `close()` takes `m_connectionMutex` and resets the connection in between: the write follows a pointer that is gone. The `if (m_connected)` of `connector.cpp:314` means to exclude it. |
| `MCFeedUnavailable.cfg`, `MCAdapterFeed` | `AllUnavailable` | For an item with a minimum delta `disconnected()` has "UNAVAILABLE" converted to 0.0 and filtered when the last sample is near 0. `agent.cpp:826`: "Disconnected from adapter, setting all values to UNAVAILABLE". |
| `MCProbeUuid.cfg`, `MCAgentDevices` | `ProbedUuidResolves` | A uuid that an adapter has set is shown by probe but is not in the document of paths, which is printed once (`agent.cpp:187`). `test/agent_test.cpp:798`: "TODO: Fix and make sure dom is updated so this xpath will parse correctly." |
| `MCRestartWait.cfg`, `MCAgentConfiguration` | `StartsLoadedAgent` | `start()` decides by `m_monitorFiles` whether to wait for the monitor, which has meanwhile loaded a file that turns monitoring off: `m_agent->start()` is called on an agent that is null or half configured. `config.cpp:362`: "Will destruct and wait to re-initialize." |
| `MCToolServed.cfg`, `MCCuttingTools` | `ServedIsCurrent` | A tool is removed or changed while a request prints it, or removed after its XML was kept: clients are shown the old one until the next change. `test/agent_test.cpp:1591`: "TODO: When asset is removed and the content is literal, it will not regenerate the attributes for the asset." |

Some consequences of the models contradict what one would expect of the code, and no
run states them. An asset that is marked removed while it is the oldest of a full
list stays in the map for ever, outside the list, so that the agent holds more than
`MaxAssets`; stored again it is listed without being counted (`m_assetCounts`).
AssetChanged is not taken back by a document that marks its asset removed, nor by a
removal through another device. The PONG that starts the heartbeats does not set
`m_lastHeartbeat`: if it comes later than two periods the connection is given up at
once. A command is answered with success whether or not
any adapter was connected, or took it: `sendCommand` returns nothing. An unknown device in a
command is caught in `connect()`, and the adapter reconnects instead of stopping.
A condition that is lost and that its adapter then reports
as UNAVAILABLE is published as UNAVAILABLE twice in a row, since the filter remembers
`UNAVAILABLE|||` of the first. The filter also leaves the reset trigger out: a reset that
repeats the last number is dropped together with its trigger and its InitialValue. An asset
begun on a connection that breaks swallows the lines of the next one up to its
terminator. `m_parseTime` is never cleared, and a line earlier than the first of its
connection gets an offset that wraps around. Items with a constraint of one value or a
range stay as they are when their adapter disconnects. `iso841Class` is gone from the
probe once a command has set the uuid or the native name; the JSON probe has no reset triggers.
In a streams document XML leaves out the prefix of a namespace that is not registered, and
JSON keeps it; an XML time series has six digits, a JSON one all.
A file that cannot be opened at a reload is read as an empty configuration, and is looked
for beside the executable from then on; an edit between the reading and the monitor's
first look at the files, or within the second of the last one, is not noticed; the logger
keeps its first settings; an Adapters block for none of several devices follows a null
pointer. A count that `assets` refuses throws a `ParameterError` that nothing in the
agent catches, a `SERVER_EXCEPTION` document is computed and discarded, and `lastSequence` of a
header is read after the lock is released. With a buffer of one observation the
minimum of `count` is -1, which is the number for "no minimum". Updates of a tool archetype are
refused, since `updateAsset` looks for "CuttingToolArchitype". An item that is replaced by
XML without `indices` takes the place of the first item that has none. A description
among the values of a tool's life cycle is not printed in XML; the JSON tool has no
archetype reference, no removed mark and no count of items, and of a tool life of 1.5 it
shows 1. A `CheckpointFrequency` of
0 divides by zero.

Bounds. `MaxSequence` bounds the observations and nothing else: every guard that
mentions it is the one of `addToBuffer`. Each run lets the window move at least
one whole buffer past its first position, which is where the arithmetic of slots can go
wrong. Streams do not influence one another, so one stream is enough; readers meet only
at the lock, so one reader is enough too.
Changes of the assets hold `m_assetLock` throughout, so `asset_store` needs one thread;
two matter where events are late. `MaxAssets` is smaller than the number of ids, so
that assets are dropped. `MaxCount` keeps the counts, which drift, finite: where a
count would leave the bound the model stops. Ids are symmetric. `MaxAge` is larger than
three periods, the longest any guard looks back; the ages beyond are one.
`MaxLines` and `MaxBreaks` of `AdapterFeed` let an adapter send a value, break off, come
back and send it again, or give a command in between; the other one, of which one line
is enough, writes or gives a command at any moment of that. `MaxCommands` is 2: a second
command may undo what the first did. `MaxEdits` is 2: an edit while the first one is
being loaded, a file removed and restored. In `Requests` files of one and three bytes
stand on both sides of `SMALL_FILE`, `MaxVersions` is 2 because a request reads a file
once, `MaxRequests` is 2 because two requests are what a race takes, and the
buffer of four observations is passed by `MaxObservations`. The constraint `FilesMatter` lets files change only once one has been asked for: no
request looks at a file in its first step, so an earlier change might as well come after
it, and requests for other things never look at one. Whether an adapter takes a
command is left open in `Requests` (`written`), since it is `Connector` that knows. `StreamDocument` has no bound but its
inputs, lists of up to four observations. `MaxChanges` is 3: a document, a change that a
print overtakes, and one that has to clear what was kept. The documents of tools have
numbers where JSON expects them.

Fairness. `FairSpec` assumes that a thread inside `addToBuffer` finishes and that a
stream's thread goes on as long as it can, getting the lock in the end; `std::mutex`
promises no order, but no thread keeps this lock for longer than one call. Writers,
clients and the heartbeat owe nothing: `EventuallySent` holds even if the heartbeat
never elapses, so no wake-up is lost. In `Connector` the three threads run, and time
passes (`SF` of `Tick`, since a busy peer disables it again and again); the peer owes
nothing, nor does anyone have to call `stop()`. In `AgentConfiguration` both threads run,
and a file that is left alone grows old; nobody has to edit or restore one.

## What is proved

The proofs hold for every size of the buffer, every checkpoint frequency (also larger
than the buffer), every set of data items and every number of threads.

`ObservationBufferProofs` proves `Spec => []IInv` (`Invariance`) and from it
`TypeCorrect`, `WindowCorrect`, `CheckpointsCorrect` and `CurrentCorrect`. These properties are not inductive by themselves. `IInv` adds

* `HistoryInv`: each state of the history is the one before with one observation
  added, which turns "replay" into something a single step can be compared with;
* `SlotsInv`: slots ahead of `m_sequence` are empty until the buffer is full, without
  which `m_first` would not know whether the next slot holds an observation;
* `CheckpointsInv`: the checkpoints also before the first observation;
* `RequestInv`: a reader inside a fetch holds the lock and has seen the present window,
  and the checkpoint it has rolled forward is the state at the resident of the slot
  before `index` (`Rolled`).

The heart of it is arithmetic: for `at` in the window, the slots from the chosen
checkpoint to the slot of `at` hold consecutive sequence numbers of the window
(`BasicFacts`), and the first observation can be added to `m_first` twice, which happens when the buffer has one slot. This needs
that the very first observation is the constructor's: a plain value or UNAVAILABLE.

Two more invariants are inductive together with `IInv`, and the refinement follows from
them:

* `SampleInv` says of a scan what a loop invariant would: the results so far are the
  subsequence of the log at the sequence numbers passed over (`Collected`), which lie in
  the window the scan saw and are no more than the limit. `SampleCorrect` follows with
  what a subsequence is (`BasicFacts`: it selects, in order, each position once).
* `MergeInv` extends `ChainIsActiveSet` and `DataSetIsMerge` to the items that have no
  observation yet, so that construction can be passed through. An observation of one item
  changes the active conditions or present entries by one case (raise, clear, normal,
  unavailable; entry, removal, reset), and each case is compared with what
  `Checkpoint::addObservation` does with the chain or the set: `ChainCorrect`,
  `DataSetCorrect`.
* `Refinement` is `Spec => ImplementsLog`: the initial states map to the empty log;
  `ConstructItem` and `Post` map to `Add`; the ends of a fetch map to the answer, whose
  body `CurrentIsReplay` and `SampleInv` put into the log's terms; `Respond` to
  `Forget`; and every other step to a stutter.

`SampleStreamProofs` proves `Spec => []StreamInv` (`StreamInvariance`) and from it
`NothingSkippedCorrect` and `SentOnceCorrect`. `StreamInv` adds `Placed`: a
streaming thread is registered for its whole filter, its observer holds a
sequence number that was assigned, and everything sent lies before the place
where it goes on (its start, the end of the last fetch or the observer's number).

`ConnectorProofs`: `ConnectionCorrect`, `AnnouncementsCorrect`, `HeartbeatsCorrect`.
The invariant has three parts. `ThreadsInv` says where the two threads may be at once: the
stopper waits only for a thread that has `Leave` ahead of it, and is woken only behind it.
`ConnectionCorrect` is about the adapter's own thread: the thread of a request that sends a
command has no such promise (`MCConnectorCommand.cfg`).
`ConnectionInv` ties `m_connected`, the connection and the announcement together: what is
announced is connected, about to be, or shut down by a stopper that takes it back.
`HeartbeatInv` carries an equation through the blocking read, age of the PING + timeout =
period + age of the read, without which "on time" is not preserved by the passing of time.

`AgentConfigurationProofs`: `InUseCorrect`, `WarmCorrect`. The monitor looks at nothing of
the main thread's before it deletes the agent, so the invariant has to say where main is:
a monitor past its decision to restart finds main in the server or waiting to join it. The one exception, a new configuration that ends the monitoring, comes only
after the old agent is gone. `AgentInv` says that the agent was created from and configured
with the configuration that was read last, once.

`AssetStoreProofs`: `ListCorrect`, `RecencyCorrect`. That the list is a suffix of the order
of storing is not preserved by a removal in the middle. `Follows` is: ids are listed once,
in the order of storing, and with an id everything stored after it is listed. The bound on
the list is a cardinality, since ids are listed once. Pointers to local variables lie
between the entries and change none of this.

`AdapterFeedProofs`: `FeedInvariance`, and from it `LatestIsWhatWasReceived`,
`ValuesAreOfTheirConnection`, `FiltersWork`, `TimesAreRelative` and `AssetsAreWhole`. None
of the properties is inductive. `FeedInv` has a part for each thing they rest on:

* `AssetInv`: the lines gathered and the lines the peer has still to send are together
  those of one of its assets, as long as the connection is the one it began on;
* `TimeInv`: the base is the time of the connection's first line, or there was none, and
  `m_parseTime` fits the form the adapter writes times in;
* `JobInv` and `FeederInv`: what is left of a line or of the items of a lost connection,
  and that an adapter posts, owns and shows only items that it feeds;
* `PrivateInv`, for an item that one adapter feeds: what the filter remembers is what is
  shown or about to be, converted (`LastIsShown`, `SampleIsShown`), what was received last
  too (`ReceivedIsShown`), what is shown is of this connection or the loss has still to
  reach it (`Current`), and the factor is unknown or that of the units (`ConvInv`).

A step changes what is known of an item only if its adapter feeds it (`StepFeeds`). For an
item only one adapter feeds, every step is therefore one of a few kinds (`EveryKind`):
nothing, the connection comes up or goes down, availability is posted, a value is accepted,
marked UNAVAILABLE, or added. Each part of `PrivateInv` is kept by each kind.

The proof shows what the properties depend on, and they say so. Two adapters that feed one
item overwrite each other's values and share its filter (`Private`). An empty first value
stays hidden, because `m_lastValue` starts out empty. Values that are compared as sent and
shown converted may repeat unless they are numbers. An UNAVAILABLE the adapter sends
itself starts the minimum period, so the first sample after it may be held back. The loss of
a condition is filtered as `UNAVAILABLE|||` and shown as UNAVAILABLE (`Down`, `Said`), so what
the filter remembers and what is shown agree only up to that text, and a condition may repeat
its UNAVAILABLE. A reset shows an InitialValue the filter has not seen: where duplicates are
filtered, items with both are left out (`SentAsShown`). What an
adapter changes by protocol commands is excepted (`commanded`), but `NoStaleValue`, the
first sample of a connection and assets hold with commands too.

`RequestsProofs`: `FilesCorrect`, `AcceptedCorrect`, `PutsCorrect`. `StepInv` says what a thread knows at
each step of a request and that it stays true while the log and the versions of files
grow (`Grows`): the end of the window that was read first may be out of date, but the
first sequence number only too low, never below the one at the request, and the next one
never too high; a file that was not shorter than `stat` said is whole, even if
it is another version by then, and so is a cached one. For `PutsCorrect`, `PutInv` says that
requests are told apart by their numbers, that a number not given yet has made nothing, and
what a request has made at each step (`AtPut`, `AtCommand`, `AtEnd`): its entries in the log,
the commands and the assets, as the subsequences that are its own. A step of another thread
appends entries of other numbers and leaves these subsequences alone. A data set that
would not change is left out, and of others the entries that are new are added; so `AtSets`
says of every data set the put has passed that there was a moment since its beginning at
which all its entries were held (`Effective`). At the moment of the put itself every entry is
either held already or in the observation that is added (`ChangesTakeEffect`), and what other
threads append later does not undo that it was so (`AtSetsKept`). The calls of `sendCommand`
are followed without what became of them (`Called`). The commands go to
one adapter after the other for each key, so the part made is a prefix of rows of equal
length laid end to end.

What a fetch collects, what a list keeps and what a client merges are loops over data.
Induction with an operator as a parameter is out of the prover's reach; `BasicFacts` states
it with a set instead (`UpTo`: a set of numbers that has 0 and with each its successor up
to a bound has them all, by the least one that is missing), which is enough for the
recursive functions of `Subsequences`.

The assumptions are on constants only. `ItemsAssumption`, `BufferAssumption` and
`StreamAssumption`: the kinds of data items are disjoint, sizes and frequencies are
positive, counts are not 0. The code checks counts; it does not check the frequency.
`ConnectorAssumption`: periods are positive, and the ages are counted far enough (a bound
of the model). `AssetAssumption`: ids are finitely many, which memory guarantees, and
`MaxAssets` is positive. `ConfigurationAssumption`: the device files named are files
of the model and the monitoring option is a boolean. `RequestsAssumption`: a buffer of at
least two observations, because with one the minimum of `count` is -1, the number for "no
minimum"; sizes are naturals, texts are of the four kinds, a data set in a text has one entry per
name, parameters and the adapters of a device are sequences. `FeedAssumption`: an adapter has at least one device and a
device at least one item, definitions are of the code's kinds, and factors, deltas and
periods are numbers. `LineAssumption`: a peer's lines are well formed, a line of data has
a pair, and an asset's lines end with its terminator and have no other. The agent cannot
enforce this; lines out of form are not modelled.

Only model-checked:

* liveness (`EventuallySent`, `CloseCompletes`, `ChangeIsLoaded`, `RestartCompletes`),
  which needs fairness and `ENABLED`;
* everything about documents: `AgentDevices` and `CuttingTools`, whose documents are trees and
  whose printers and parsers are recursive operators, which the prover cannot use, and
  `StreamDocument`, which folds over lists it has sorted: what it prints is an induction
  over data;
* `SchemaOfItsKind`: it is not a fact about every configuration (a block may give the
  location of one kind's standard schema to another kind), but about what `loadConfig` makes of
  the configurations of the run. `WarmCorrect` carries it over to restarts.

## Not modelled

The headers, the error document and assets that are not tools, which are copied as text; and the spelling of numbers, dates and element names: text
without control of its own. Options, the Windows service and the string and time conversions
have no state that outlives a call. The HTTP server, sockets, the configuration
reader, libxml2 and the ring buffer's index are libraries; they appear as threads, inputs,
trees and `get_element_id`. The rolling log file writes without the lock under which it
rolls over, and nothing in the agent reads it. Reference counts decrement and
read in two steps; observations and assets are values here, so nothing is shared: that
adding an observation to a second checkpoint relinks a shared object is argued in `Checkpoint`.
`Requests` puts entries into data sets but removes none and resets none, which
`ObservationBuffer` does; the observations that a stored asset causes are those of `AssetStore`.
3D samples, which JSON splits into three numbers, are not among the observations printed.
Sequence numbers are 64 bits wide and do not overflow in practice; they are naturals here.

## Plan

1. A condition on configurations under which `SchemaOfItsKind` holds for all of them, and
   `StreamDocument` without its sort, so that its folds can be reasoned about.
2. An abstract connection that `Connector` implements and from which `AdapterFeed` takes its
   announcements.
3. `RollingFileLogger` and `RefCounted`, two threads each.
