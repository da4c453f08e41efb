------------------------------ MODULE Requests ------------------------------
(* The requests of an agent's clients: on_connect, httpRequest and the     *)
(* handlers it calls, each request in a thread of its own.  What current,  *)
(* sample and the assets answer is in ObservationBuffer, SampleStream and  *)
(* AssetStore; here are the routing of a request, the checks of its        *)
(* parameters, the values and commands it puts and the files it gets.      *)
(*                                                                         *)
(* A request is                                                            *)
(*   method, from   its HTTP method and the address it comes from          *)
(*   accept         the formats it accepts, in order                       *)
(*   path           the segments of its path                               *)
(*   keys, query    its parameters in order, and their texts               *)
(* where a text is [is, n, word, set]: "empty", "int" (the integer n),     *)
(* "big" (the digits of a number that no int holds) or "word" (no          *)
(* integer), and the [name, value] entries a data set reads in it.  What   *)
(* removes an entry or resets a data set is in ObservationBuffer.          *)
EXTENDS Integers, Sequences, SequencesExt, FiniteSets, FiniteSetsExt, Functions, Subsequences

CONSTANTS
  Threads,              \* threads that serve requests
  Requests,             \* requests that clients make
  MaxRequests,          \* bound on the requests that are made
  Devices,              \* [name -> [items, dataSets, adapters]]: the names of
                        \* its items, those of them that are data sets and
                        \* not discrete, and its adapters in order
  FirstDevice,          \* m_devices[0]
  m_putEnabled,
  m_putAllowedHosts,
  m_slidingBufferSize,
  m_fileMap,            \* [path of a request -> file]
  Sizes,                \* sizes a file may have
  SMALL_FILE,
  MaxVersions,          \* bound on the versions of a file
  MaxObservations       \* bound on what the adapters have sent

(* The agent starts with an observation of every data item.                *)
InitialObservations ==
  UNION {{[by |-> 0, device |-> d, key |-> k, set |-> {}, unavailable |-> TRUE] :
            k \in Devices[d].items} : d \in DOMAIN Devices}

ASSUME RequestsAssumption ==
  /\ m_slidingBufferSize \in Nat \ {0, 1}
  /\ MaxRequests \in Nat
  /\ Sizes \subseteq Nat
  /\ IsFiniteSet(InitialObservations)
  /\ \A d \in DOMAIN Devices : Devices[d].adapters \in Seq(ToSet(Devices[d].adapters))
  /\ \A r \in Requests :
       /\ r.keys \in Seq(ToSet(r.keys)) /\ DOMAIN r.query = ToSet(r.keys)
       /\ \A k \in DOMAIN r.query :
            /\ r.query[k].is \in {"empty", "int", "big", "word"} /\ r.query[k].n \in Int
            /\ \A e, f \in r.query[k].set : e.name = f.name => e = f
            /\ r.query[k].word = "UNAVAILABLE" => r.query[k].set = {}

VARIABLES
  versions,     \* [file -> sizes of its versions so far]; the last is on disk
  present,      \* files that are on disk
  m_fileCache,  \* [path -> cached file]
  log,          \* observations in the order of their sequence numbers
  sent,         \* calls of sendCommand: [by, adapter, key, written]
  stored,       \* assets put and removed: [by, method, device]
  made,         \* requests made so far
  thread        \* [thread -> what it does]

vars == <<versions, present, m_fileCache, log, sent, stored, made, thread>>

NO_VALUE32 == -1
NO_FREQ    == -2
NO_START   == -1

m_sequence == Len(log) + 1

getFirstSequence == Max({1, m_sequence - m_slidingBufferSize})

InitialLog == SetToSeq(InitialObservations)

Idle == [at |-> "idle"]

Init ==
  /\ versions \in [Range(m_fileMap) -> {<<s>> : s \in Sizes}]
  /\ present = Range(m_fileMap)
  /\ m_fileCache = [p \in {} |-> 0]
  /\ log = InitialLog
  /\ sent = <<>>
  /\ stored = <<>>
  /\ made = 0
  /\ thread = [t \in Threads |-> Idle]

To(t, step) == thread' = [thread EXCEPT ![t] = step]

Request(t) == thread[t].request

Goes(t, at) == To(t, [thread[t] EXCEPT !.at = at])

Answers(t, what) == To(t, [thread[t] EXCEPT !.at = "done", !.answer = what])

printError(t, code) == Answers(t, [is |-> "error", code |-> code])

-----------------------------------------------------------------------------
(* The parameters.  A check gives a value or the code of a ParameterError. *)

Value(n)    == [is |-> "value", n |-> n]
Error(code) == [is |-> code, n |-> 0]

(* stringToInt of the text of an integer.                                  *)
stringToInt(text, outOfRangeDefault) == IF text.is = "big" THEN outOfRangeDefault ELSE text.n

InRange_NoMinError(value, minValue, minError, maxValue, none) ==
  IF minValue # none /\ value < minValue THEN Value(minValue)
  ELSE IF maxValue # none /\ value > maxValue THEN Error("OUT_OF_RANGE")
  ELSE Value(value)

InRange(value, minValue, minError, maxValue, none) ==
  IF minValue # none /\ value < minValue
  THEN IF minError THEN Error("OUT_OF_RANGE") ELSE Value(minValue)
  ELSE IF maxValue # none /\ value > maxValue THEN Error("OUT_OF_RANGE")
  ELSE Value(value)

checkAndGetParam(queries, param, defaultValue, minValue, minError, maxValue, positive) ==
  LET v == queries[param]
  IN  IF param \notin DOMAIN queries THEN Value(defaultValue)
      ELSE IF v.is = "empty" THEN Error("QUERY_ERROR")
      ELSE IF v.is = "word" \/ (positive /\ v.n < 0) THEN Error("OUT_OF_RANGE")
      ELSE InRange(stringToInt(v, maxValue + 1), minValue, minError, maxValue, NO_VALUE32)

(* A number that no int holds is also above every sequence number.         *)
checkAndGetParam64(queries, param, defaultValue, minValue, maxValue) ==
  checkAndGetParam(queries, param, defaultValue, minValue, TRUE, maxValue, TRUE)

SLOWEST_FREQ == 2147483646

(* The first of two parameters that is given.                              *)
Either(queries, one, other) ==
  LET Of(p) == checkAndGetParam(queries, p, NO_FREQ, 0, FALSE, SLOWEST_FREQ, TRUE)
  IN  IF Of(one) = Value(NO_FREQ) THEN Of(other) ELSE Of(one)

DefaultHeartbeat == 10000
MinHeartbeat     == 10
MaxHeartbeat     == 600000

heartbeat(queries) ==
  checkAndGetParam(queries, "heartbeat", DefaultHeartbeat, MinHeartbeat, TRUE, MaxHeartbeat, TRUE)

(* What handleCall asks for, or the first error.                           *)
Checked(params, more) ==
  IF \E i \in DOMAIN params : params[i].is # "value"
  THEN [error |-> SelectSeq(params, LAMBDA p : p.is # "value")[1].is]
  ELSE more

CurrentParams(queries, first, next) ==
  LET freq == Either(queries, "frequency", "interval")
      at   == checkAndGetParam64(queries, "at", NO_START, first, next - 1)
      beat == heartbeat(queries)
  IN  Checked(<<freq, at, beat>>,
        IF freq.n # NO_FREQ /\ at.n # NO_START THEN [error |-> "INVALID_REQUEST"]
        ELSE [call |-> "current", freq |-> freq.n, start |-> at.n, count |-> 0,
              heartbeat |-> beat.n])

(* count is checked before the interval, the interval before it may not be *)
(* given with a negative count, and from before start.                     *)
SampleParams(queries, first, next) ==
  LET count == checkAndGetParam(queries, "count", 100, -m_slidingBufferSize, TRUE,
                                m_slidingBufferSize, FALSE)
      freq  == Either(queries, "interval", "frequency")
      From(p) == checkAndGetParam64(queries, p, NO_START, first, next)
      start == IF From("from") = Value(NO_START) THEN From("start") ELSE From("from")
      beat  == heartbeat(queries)
      zero  == IF count = Value(0) THEN Error("OUT_OF_RANGE") ELSE count
      mixed == IF freq.is = "value" /\ freq.n # NO_FREQ /\ count.n < 0
               THEN Error("OUT_OF_RANGE") ELSE freq
  IN  Checked(<<zero, mixed, start, beat>>,
        [call |-> "sample", freq |-> freq.n, start |-> start.n, count |-> count.n,
         heartbeat |-> beat.n])

-----------------------------------------------------------------------------
(* on_connect and httpRequest.                                             *)

printerForAccepts(accept) ==
  LET known == SelectSeq(accept, LAMBDA f : f \in {"xml", "json"})
  IN  IF known = <<>> THEN "xml" ELSE known[1]

NoFile == [version |-> 0, size |-> 0, bytes |-> 0]

Make(t, r) ==
  /\ thread[t] = Idle
  /\ made < MaxRequests
  /\ made' = made + 1
  /\ To(t, [at |-> "route", id |-> made', request |-> r,
            format |-> printerForAccepts(r.accept), since |-> getFirstSequence,
            begun |-> Len(log), window |-> <<>>, todo |-> <<>>, file |-> NoFile,
            answer |-> [is |-> "none"]])
  /\ UNCHANGED <<versions, present, m_fileCache, log, sent, stored>>

PutAllowed(r) ==
  /\ m_putEnabled
  /\ r.method \in {"PUT", "POST", "DELETE"}
  /\ m_putAllowedHosts = {} \/ r.from \in m_putAllowedHosts

MethodAccepted(r) == r.method = "GET" \/ PutAllowed(r)

isFile(r) == r.path \in DOMAIN m_fileMap

First(r) == IF r.path = <<>> THEN "" ELSE r.path[1]

IsAsset(r) == First(r) \in {"assets", "asset"}

(* The call and the device of a path of at most two segments.  A slash at  *)
(* the end makes no segment.                                               *)
Call(r)   == IF Len(r.path) = 2 THEN r.path[2] ELSE First(r)
Device(r) == IF Len(r.path) = 2 THEN r.path[1] ELSE ""

handleProbe(t, name) ==
  IF name = "" THEN Answers(t, [is |-> "probe", of |-> DOMAIN Devices])
  ELSE IF name \in DOMAIN Devices THEN Answers(t, [is |-> "probe", of |-> {name}])
  ELSE printError(t, "NO_DEVICE")

(* handleCall, up to the checks of the parameters.                         *)
handleCall(t, call, device) ==
  IF call \in {"current", "sample"} THEN Goes(t, "first")
  ELSE IF call \in {"probe", ""} THEN handleProbe(t, device)
  ELSE IF call \in DOMAIN Devices /\ device = "" THEN handleProbe(t, call)
  ELSE printError(t, "UNSUPPORTED")

PutDevice(r) == IF Device(r) = "" THEN Call(r) ELSE Device(r)

Word(r, key) == IF key \in DOMAIN r.query THEN r.query[key].word ELSE ""

(* handlePut, up to the loops over the parameters.                         *)
handlePut(t, r) ==
  IF PutDevice(r) \notin DOMAIN Devices THEN printError(t, "UNSUPPORTED")
  ELSE IF Word(r, "_type") = "command"
  THEN To(t, [thread[t] EXCEPT !.at = "command",
                !.todo = FlattenSeq([i \in DOMAIN Devices[PutDevice(r)].adapters |->
                           [j \in DOMAIN r.keys |->
                              [key |-> r.keys[j],
                               adapter |-> Devices[PutDevice(r)].adapters[i]]]])])
  ELSE To(t, [thread[t] EXCEPT !.at = "put", !.todo = r.keys])

(* storeAsset, which AssetStore models: the device of the query, or the    *)
(* first one.                                                              *)
AssetDevice(r) ==
  IF Word(r, "device") \in DOMAIN Devices THEN Word(r, "device") ELSE FirstDevice

httpRequest(t) ==
  LET r == Request(t)
  IN  /\ thread[t].at = "route"
      /\ IF ~MethodAccepted(r) THEN printError(t, "UNSUPPORTED")
         ELSE IF isFile(r) THEN Goes(t, "file")
         ELSE IF IsAsset(r) THEN Goes(t, "asset")
         ELSE IF Len(r.path) > 2 THEN printError(t, "UNSUPPORTED")
         ELSE IF r.method = "GET" THEN handleCall(t, Call(r), Device(r))
         ELSE handlePut(t, r)
      /\ UNCHANGED <<versions, present, m_fileCache, log, sent, stored, made>>

-----------------------------------------------------------------------------
(* handleCall for current and sample.  The first and the next sequence     *)
(* number are read without the lock, in the order the compiler chooses:    *)
(* observations come between.                                              *)

ReadWindow(t) ==
  /\ thread[t].at = "first"
  /\ \E read \in {[first |-> getFirstSequence], [next |-> m_sequence]} :
       To(t, [thread[t] EXCEPT !.at = "check", !.window = read])
  /\ UNCHANGED <<versions, present, m_fileCache, log, sent, stored, made>>

(* The data items of the device and the path: Devices and DeviceParser     *)
(* model getDataItems.                                                     *)
FilterEmpty(r) ==
  \/ Device(r) # "" /\ Device(r) \notin DOMAIN Devices
  \/ Word(r, "path") = "nothing"

Asked(r, window) ==
  LET first == IF "first" \in DOMAIN window THEN window.first ELSE getFirstSequence
      next  == IF "next" \in DOMAIN window THEN window.next ELSE m_sequence
  IN  IF Call(r) = "current" THEN CurrentParams(r.query, first, next)
      ELSE SampleParams(r.query, first, next)

CheckParams(t) ==
  LET asked == Asked(Request(t), thread[t].window)
  IN  /\ thread[t].at = "check"
      /\ IF "error" \in DOMAIN asked THEN printError(t, asked.error)
         ELSE IF FilterEmpty(Request(t)) THEN printError(t, "INVALID_XPATH")
         ELSE Answers(t, [is |-> "data", asked |-> asked, until |-> m_sequence])
      /\ UNCHANGED <<versions, present, m_fileCache, log, sent, stored, made>>

-----------------------------------------------------------------------------
(* handlePut: the parameters one by one, each addToBuffer and sendCommand  *)
(* under a lock of its own.                                                *)

Next1(t) == [thread[t] EXCEPT !.todo = Tail(@)]

Puts_Time(r, key) == key \in Devices[PutDevice(r)].items

Puts(r, key) == key # "time" /\ key \in Devices[PutDevice(r)].items

(* The entry is in the data set key of the device d after the first n      *)
(* observations: one of them has it, and none after that has another       *)
(* entry of its name or makes the data set unavailable.                    *)
Held(seq, n, d, key, entry) ==
  LET Shows(i) == seq[i].device = d /\ seq[i].key = key
  IN  \E i \in 1 .. n :
        /\ Shows(i) /\ entry \in seq[i].set
        /\ \A j \in i + 1 .. n :
             Shows(j) => ~ seq[j].unavailable /\ \A e \in seq[j].set : e.name # entry.name

(* dataSetDifference: the entries that change a data set.                  *)
Changes(d, key, entries) == {e \in entries : ~ Held(log, Len(log), d, key, e)}

(* addToBuffer leaves out a data set that would not change.                *)
Unchanged_AnySame(d, key, entries) ==
  key \in Devices[d].dataSets /\ Changes(d, key, entries) # entries

Unchanged(d, key, entries) ==
  key \in Devices[d].dataSets /\ entries # {} /\ Changes(d, key, entries) = {}

(* What addToBuffer adds for the text of a parameter.                      *)
Observation(id, d, key, text) ==
  [by |-> id, device |-> d, key |-> key, unavailable |-> text.word = "UNAVAILABLE",
   set |-> IF key \in Devices[d].dataSets THEN Changes(d, key, text.set) ELSE {}]

PutValue(t) ==
  LET r    == Request(t)
      key  == Head(thread[t].todo)
      text == r.query[key]
  IN  /\ thread[t].at = "put"
      /\ thread[t].todo # <<>>
      /\ To(t, Next1(t))
      /\ log' = IF Puts(r, key) /\ ~ Unchanged(PutDevice(r), key, text.set)
                THEN Append(log, Observation(thread[t].id, PutDevice(r), key, text))
                ELSE log
      /\ UNCHANGED <<versions, present, m_fileCache, sent, stored, made>>

(* Whether an adapter is connected and its socket takes the command is     *)
(* Connector's to say: here either happens.                                *)
SendCommand(t) ==
  LET command == Head(thread[t].todo)
  IN  /\ thread[t].at = "command"
      /\ thread[t].todo # <<>>
      /\ To(t, Next1(t))
      /\ \E written \in BOOLEAN :
           sent' = Append(sent, [by |-> thread[t].id, key |-> command.key,
                                 adapter |-> command.adapter, written |-> written])
      /\ UNCHANGED <<versions, present, m_fileCache, log, stored, made>>

PutEnds(t) ==
  /\ thread[t].at \in {"put", "command"}
  /\ thread[t].todo = <<>>
  /\ Answers(t, [is |-> "success"])
  /\ UNCHANGED <<versions, present, m_fileCache, log, sent, stored, made>>

(* storeAsset, which AssetStore models, may fail: always without an id.    *)
(* handleAssets: a ParameterError is no std::exception, and leaves         *)
(* httpRequest and on_connect.                                             *)
AssetCount(r) == checkAndGetParam(r.query, "count", 1, 1, FALSE, NO_VALUE32, TRUE)

Asset(t) ==
  LET r == Request(t)
  IN  /\ thread[t].at = "asset"
      /\ IF r.method # "GET"
         THEN \/ /\ Len(r.path) > 1
                 /\ stored' = Append(stored, [by |-> thread[t].id, method |-> r.method,
                                             device |-> AssetDevice(r)])
                 /\ Answers(t, [is |-> "success"])
              \/ /\ UNCHANGED stored
                 /\ Answers(t, [is |-> "failure"])
         ELSE /\ UNCHANGED stored
              /\ IF Len(r.path) = 1 /\ AssetCount(r).is # "value"
                 THEN Answers(t, [is |-> "escaped"])
                 ELSE Answers(t, [is |-> "assets"])
      /\ UNCHANGED <<versions, present, m_fileCache, log, sent, made>>

-----------------------------------------------------------------------------
(* handleFile: the cache, stat, open and read, with no lock.  A file that  *)
(* is missing or shorter than stat said is not found; of one that is       *)
(* longer, as many bytes as stat said are read.                            *)

OnDisk(f) == [version |-> Len(versions[f]), size |-> Last(versions[f])]

NotFound(t) == Answers(t, [is |-> "404"])

Serves(t, file) == Answers(t, [is |-> "200", file |-> file])

FindFile(t) ==
  LET path == Request(t).path
      f    == m_fileMap[path]
  IN  /\ thread[t].at = "file"
      /\ IF path \in DOMAIN m_fileCache THEN Serves(t, m_fileCache[path])
         ELSE IF f \notin present THEN NotFound(t)
         ELSE To(t, [thread[t] EXCEPT !.at = "read", !.file.size = OnDisk(f).size])
      /\ UNCHANGED <<versions, present, m_fileCache, log, sent, stored, made>>

TooShort_Never(bytes, size) == FALSE

TooShort(bytes, size) == bytes < size

ReadFile(t) ==
  LET f     == m_fileMap[Request(t).path]
      size  == thread[t].file.size
      bytes == IF f \in present THEN Min({size, OnDisk(f).size}) ELSE -1
  IN  /\ thread[t].at = "read"
      /\ IF TooShort(bytes, size) THEN NotFound(t)
         ELSE To(t, [thread[t] EXCEPT !.at = "cache",
                       !.file = [version |-> OnDisk(f).version, size |-> size, bytes |-> bytes]])
      /\ UNCHANGED <<versions, present, m_fileCache, log, sent, stored, made>>

(* m_fileCache.insert: a file that is cached stays.                        *)
Cached(path, file) ==
  [p \in DOMAIN m_fileCache \cup {path} |->
     IF p \in DOMAIN m_fileCache THEN m_fileCache[p] ELSE file]

CacheFile(t) ==
  LET file == thread[t].file
  IN  /\ thread[t].at = "cache"
      /\ m_fileCache' = IF file.bytes <= SMALL_FILE THEN Cached(Request(t).path, file)
                        ELSE m_fileCache
      /\ Serves(t, file)
      /\ UNCHANGED <<versions, present, log, sent, stored, made>>

-----------------------------------------------------------------------------
(* The thread takes another request, the adapters send, files change.      *)

Finish(t) ==
  /\ thread[t].at = "done"
  /\ To(t, Idle)
  /\ UNCHANGED <<versions, present, m_fileCache, log, sent, stored, made>>

(* An adapter sends a value of x, or its connection is lost and a data set *)
(* becomes unavailable.                                                    *)
Observe ==
  /\ Cardinality({i \in DOMAIN log : log[i].by = 0}) < MaxObservations
  /\ \E key \in {"x"} \cup Devices[FirstDevice].dataSets :
       log' = Append(log, [by |-> 0, device |-> FirstDevice, key |-> key, set |-> {},
                           unavailable |-> key # "x"])
  /\ UNCHANGED <<versions, present, m_fileCache, sent, stored, made, thread>>

WriteFile(f, size) ==
  /\ Len(versions[f]) < MaxVersions
  /\ versions' = [versions EXCEPT ![f] = Append(@, size)]
  /\ present' = present \cup {f}
  /\ UNCHANGED <<m_fileCache, log, sent, stored, made, thread>>

RemoveFile(f) ==
  /\ f \in present
  /\ present' = present \ {f}
  /\ UNCHANGED <<versions, m_fileCache, log, sent, stored, made, thread>>

Serve(t) ==
  \/ httpRequest(t)
  \/ ReadWindow(t) \/ CheckParams(t)
  \/ PutValue(t) \/ SendCommand(t) \/ PutEnds(t) \/ Asset(t)
  \/ FindFile(t) \/ ReadFile(t) \/ CacheFile(t)

Next ==
  \/ \E t \in Threads : Serve(t) \/ Finish(t) \/ \E r \in Requests : Make(t, r)
  \/ Observe
  \/ \E f \in Range(m_fileMap) : RemoveFile(f) \/ \E size \in Sizes : WriteFile(f, size)

Spec == Init /\ [][Next]_vars

-----------------------------------------------------------------------------
(* Properties.                                                             *)

TypeOK ==
  /\ \A f \in DOMAIN versions : ToSet(versions[f]) \subseteq Sizes
  /\ present \subseteq DOMAIN versions
  /\ DOMAIN m_fileCache \subseteq DOMAIN m_fileMap
  /\ made \in 0..MaxRequests
  /\ \A t \in Threads :
       thread[t] = Idle \/
         /\ thread[t].at \in {"route", "first", "check", "put", "command", "asset", "file",
                             "read", "cache", "done"}
         /\ thread[t].since \in 1..m_sequence

(* What the request id has added to a sequence.                            *)
Made(id, seq) == Subsequence(seq, {i \in DOMAIN seq : seq[i].by = id})

By(t, seq) == Made(thread[t].id, seq)

Keys(seq) == [i \in DOMAIN seq |-> seq[i].key]

(* A request that is not answered with success has changed nothing, and    *)
(* one that is came from an allowed host: httpRequest's checks stand       *)
(* before every handler that writes.                                       *)
OnlyAllowed(t) ==
  IF thread[t].answer.is = "success"
  THEN m_putEnabled /\ (m_putAllowedHosts # {} => Request(t).from \in m_putAllowedHosts)
  ELSE By(t, log) = <<>> /\ By(t, sent) = <<>> /\ By(t, stored) = <<>>

(* A command goes to the adapters one after the other, to each with every  *)
(* parameter.                                                              *)
ToEach(adapters, keys, commands) ==
  /\ Len(commands) = Len(adapters) * Len(keys)
  /\ \A i \in DOMAIN adapters : \A j \in DOMAIN keys :
       LET command == commands[(i - 1) * Len(keys) + j]
       IN  command.adapter = adapters[i] /\ command.key = keys[j]

(* The parameters of the put r that name an item, and those of them that   *)
(* name a data set.                                                        *)
Named(r) == {i \in DOMAIN r.keys : r.keys[i] \in Devices[PutDevice(r)].items \ {"time"}}

Sets(r) == {i \in Named(r) : r.keys[i] \in Devices[PutDevice(r)].dataSets}

(* The data set of the parameter i has had all of its entries at one       *)
(* moment since seq had begun observations.                                *)
Effective(seq, r, i, begun) ==
  \E n \in begun .. Len(seq) : \A e \in r.query[r.keys[i]].set :
    Held(seq, n, PutDevice(r), r.keys[i], e)

(* The put r, when it is answered with success, has added these            *)
(* observations and called sendCommand with these commands.                *)
Exact(r, added, commands) ==
  /\ \A i \in DOMAIN added : added[i].device = PutDevice(r)
  /\ IF Word(r, "_type") = "command"
     THEN added = <<>> /\ ToEach(Devices[PutDevice(r)].adapters, r.keys, commands)
     ELSE /\ \E left \in SUBSET Sets(r) : Keys(added) = Subsequence(r.keys, Named(r) \ left)
          /\ commands = <<>>

(* Only an allowed request changes anything.  A put that is answered with  *)
(* success has added one observation for every parameter that names an     *)
(* item of its device, in order, and none for the time, whatever other     *)
(* puts came between.  Only a data set may be left out, and each has had   *)
(* all the entries put at one moment between the request and its answer,   *)
(* though addToBuffer strips those that it had and others put other        *)
(* entries.  A command has been given to every adapter of the device once, *)
(* and to no other: the answer does not say whether it was written.        *)
PutIsExact ==
  \A t \in Threads :
    thread[t].at = "done" =>
      LET r == Request(t)
      IN  /\ OnlyAllowed(t)
          /\ thread[t].answer.is = "success" /\ ~ IsAsset(r) =>
               /\ Exact(r, By(t, log), By(t, sent))
               /\ Word(r, "_type") # "command" =>
                    \A i \in Sets(r) : Effective(log, r, i, thread[t].begun)

(* The state is well typed, and a file that is served has the bytes its    *)
(* Content-Length says, all of them of one version of the file, whatever   *)
(* was written or removed between stat and read.                           *)
ServedFileWhole ==
  /\ TypeOK
  /\ \A t \in Threads :
       thread[t].at = "done" /\ thread[t].answer.is = "200" =>
         LET file == thread[t].answer.file
         IN  /\ file.bytes = file.size
             /\ file.size <= versions[m_fileMap[Request(t).path]][file.version]

(* What is asked for, of the request r that came at the sequence number    *)
(* since and is answered at until.                                         *)
AskedInRange(r, since, asked, until) ==
  LET Given(param, value) == param \in DOMAIN r.query => r.query[param].n = value
  IN  /\ asked.start # NO_START => since <= asked.start /\ asked.start <= until
      /\ asked.heartbeat \in MinHeartbeat..MaxHeartbeat
      /\ asked.call = "current" =>
           /\ Given("at", asked.start)
           /\ asked.start # NO_START => asked.freq = NO_FREQ /\ asked.start < until
      /\ asked.call = "sample" =>
           /\ Given("from", asked.start)
           /\ "from" \notin DOMAIN r.query => Given("start", asked.start)
           /\ asked.count # 0 /\ Given("count", asked.count)
           /\ "count" \in DOMAIN r.query =>
                asked.count \in -m_slidingBufferSize..m_slidingBufferSize
           /\ asked.count < 0 => asked.freq = NO_FREQ

(* What a current or a sample is answered with was asked for: the sequence *)
(* number was in the buffer between the request and the check, a count is  *)
(* not 0 and not more than the buffer, and no two parameters exclude each  *)
(* other.                                                                  *)
AcceptedInRange ==
  \A t \in Threads :
    thread[t].at = "done" /\ thread[t].answer.is = "data" =>
      AskedInRange(Request(t), thread[t].since, thread[t].answer.asked, thread[t].answer.until)

-----------------------------------------------------------------------------
(* The inductive invariant of ServedFileWhole and AcceptedInRange.         *)

(* A file read for a path: whole, and of a version there has been.         *)
FileWhole(path, file) ==
  /\ path \in DOMAIN m_fileMap
  /\ file.bytes = file.size /\ file.size \in Nat
  /\ file.version \in DOMAIN versions[m_fileMap[path]]
  /\ file.size <= versions[m_fileMap[path]][file.version]

(* What handleCall has read of the window so far is not from before the    *)
(* request, and not ahead of the buffer.                                   *)
WindowInv(since, window) ==
  \/ /\ DOMAIN window = {"first"}
     /\ window.first \in since .. getFirstSequence
  \/ /\ DOMAIN window = {"next"}
     /\ window.next \in 1 .. m_sequence

Fields ==
  {"at", "id", "request", "format", "since", "begun", "window", "todo", "file", "answer"}

Steps ==
  {"route", "first", "check", "put", "command", "asset", "file", "read", "cache", "done"}

StepInv(step) ==
  /\ DOMAIN step = Fields
  /\ step.at \in Steps
  /\ step.request \in Requests
  /\ step.since \in 1 .. getFirstSequence
  /\ step.at = "check" => WindowInv(step.since, step.window)
  /\ step.at \in {"file", "read"} =>
       step.request.path \in DOMAIN m_fileMap /\ DOMAIN step.file = DOMAIN NoFile
  /\ step.at = "route" => step.file = NoFile
  /\ step.at = "read" => step.file.size \in Nat
  /\ step.at = "cache" => FileWhole(step.request.path, step.file)
  /\ step.at = "done" /\ step.answer.is = "200" => FileWhole(step.request.path, step.answer.file)
  /\ step.at = "done" /\ step.answer.is = "data" =>
       AskedInRange(step.request, step.since, step.answer.asked, step.answer.until)

FilesInv ==
  /\ versions \in [Range(m_fileMap) -> Seq(Sizes)]
  /\ \A f \in Range(m_fileMap) : versions[f] # <<>>
  /\ present \subseteq Range(m_fileMap)
  /\ \A path \in DOMAIN m_fileCache : FileWhole(path, m_fileCache[path])

IInv ==
  /\ FilesInv
  /\ log \in Seq(Range(log))
  /\ made \in 0 .. MaxRequests
  /\ DOMAIN thread = Threads
  /\ \A t \in Threads : thread[t] = Idle \/ StepInv(thread[t])

=============================================================================
