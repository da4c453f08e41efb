---------------------------- MODULE AdapterFeed ----------------------------
(***************************************************************************)
(* What the agent makes of the lines an adapter sends (adapter.cpp,        *)
(* adapter.hpp, data_item.cpp, data_item.hpp, and connected() and          *)
(* disconnected() of agent.cpp): which data item a pair is for, the        *)
(* duplicate and the minimum delta/period filters, units, relative time,   *)
(* multi-line assets, and the UNAVAILABLE that follows a lost connection.  *)
(*                                                                         *)
(* Every adapter has its own thread.  The filters are asked without a      *)
(* lock and before addToBuffer, which takes m_sequenceLock: they are       *)
(* separate steps.  A value is a number or a word; n is what stringToFloat *)
(* makes of it, 0 for a word.  Upper case, quoting and logging are left    *)
(* out.  A NAN is the empty set.                                           *)
(***************************************************************************)
EXTENDS Integers, Sequences, FiniteSets, SequencesExt

CONSTANTS
  Adapters,
  Devices,
  Items,
  Def,          \* item -> its attributes, see ItemDef
  DeviceItems,  \* device -> its items in the order of m_deviceDataItemsById
  Config,       \* adapter -> its settings, see AdapterConfig
  Lines,        \* adapter -> the lines its peer may send
  None,         \* no adapter, no device, no item
  MaxLines,     \* bound: adapter -> lines its peer sends
  MaxBreaks     \* bound: connections each adapter loses

Unavailable == "UNAVAILABLE"
Available   == "AVAILABLE"

(* What the agent posts for a condition that is lost.                      *)
ConditionUnavailable == "UNAVAILABLE|||"

Word(w)   == [text |-> w, n |-> 0, trigger |-> FALSE]
Number(n) == [text |-> "number", n |-> n, trigger |-> FALSE]

(* constraint: none, range (a minimum or maximum), values or constant.     *)
(* factor: 0 without nativeUnits, 1 if they need no conversion.            *)
(* initial: the InitialValue an item may have, a number.                   *)
ItemDef ==
  [id : STRING, name : STRING, source : STRING, type : STRING,
   category : {"SAMPLE", "EVENT", "CONDITION"},
   takesRest : BOOLEAN,           \* a condition, alarm, message or time series
   representation : {"VALUE", "OTHER"}, discrete : BOOLEAN, reset : BOOLEAN,
   initial : SUBSET Int, delta : Nat, period : Nat, factor : Nat,
   constraint : {"none", "range", "values", "constant"}]

AdapterConfig ==
  [device : Devices, allDevices : Seq(Devices), dupCheck : BOOLEAN,
   autoAvailable : BOOLEAN, relativeTime : BOOLEAN]

(* An adapter is given at least one device, and the constructor of Agent   *)
(* gives every device at least its availability.                           *)
ASSUME FeedAssumption ==
  /\ \A i \in Items : Def[i] \in ItemDef
  /\ \A a \in Adapters : Config[a] \in AdapterConfig /\ Config[a].allDevices # <<>>
  /\ \A d \in Devices : DeviceItems[d] \in Seq(Items) /\ DeviceItems[d] # <<>>
  /\ MaxLines \in [Adapters -> Nat] /\ MaxBreaks \in Nat
  /\ None \notin Adapters \cup Devices \cup Items

(* The text of a value is a number or a word, whose n is 0: what the peer  *)
(* sends, or one of the agent's own.  UNAVAILABLE comes without a trigger. *)
Text == {"number", "", Unavailable, ConditionUnavailable, Available} \cup STRING

Value ==
  {v \in [text : Text, n : Int, trigger : BOOLEAN] :
     (v.text # "number" => v.n = 0) /\ (v.trigger => v.text # Unavailable)}

(* The value of a first pair whose item takes the rest of the line has that *)
(* rest in its text.                                                       *)
Pair == [device : STRING \cup {None}, key : STRING, value : Value]

(* The lines of a multi-line asset: text up to the terminator.             *)
AssetLine == [kind : {"text"}] \cup [kind : {"end"}, id : STRING]

EndsWith(follow, id) ==
  /\ follow \in Seq(AssetLine) /\ follow # <<>>
  /\ \A k \in DOMAIN follow : follow[k].kind = "end" <=> k = Len(follow)
  /\ follow[Len(follow)].id = id

IsCommand(l) ==
  \/ l.command = "device"
  \/ l.command \in {"conversionRequired", "relativeTime"} /\ l.yes \in BOOLEAN
  \/ l.command = "calibration" /\ l.factor \in Nat \ {0}

(* The times a line may carry: a uint64_t, cut down.                       *)
TimeWidth == 65536

Timed(l) == l.kind \in {"data", "multiline"}

(* A peer sends data and multi-line assets with their time, and commands.  *)
ASSUME LineAssumption ==
  \A a \in Adapters : \A l \in Lines[a] :
    /\ Timed(l) \/ l.kind = "command"
    /\ Timed(l) => l.time.t \in 0 .. TimeWidth - 1
    /\ l.kind = "data" => l.pairs \in Seq(Pair) /\ l.pairs # <<>>
    /\ l.kind = "multiline" => EndsWith(l.follow, l.id)
    /\ l.kind = "command" => IsCommand(l)

VARIABLES
  up,         \* adapter -> is its socket connected
  conn,       \* history: adapter -> number of connections it has lost
  sent,       \* adapter -> lines received
  peer,       \* adapter -> lines of a multi-line asset its peer has still to send
  job,        \* adapter -> what its thread has still to do
  post,       \* adapter -> the observation its thread is about to add
  setting,    \* adapter -> m_device, m_conversionRequired, m_relativeTime
  clock,      \* adapter -> m_baseTime, m_baseOffset, m_parseTime
  gathering,  \* adapter -> the multi-line asset it gathers
  stored,     \* history: multi-line assets given to addAsset
  source,     \* item -> m_dataSource
  lastValue,  \* item -> m_lastValue
  lastSample, \* item -> m_lastSampleValue
  lastOffset, \* item -> m_lastTimeOffset
  conv,       \* item -> conversion flags and factor
  latest,     \* item -> its value in m_latest, and the connection it came over
  before,     \* history: item -> what latest replaced
  received,   \* history: item -> the last value received for it
  commanded,  \* history: adapters that have sent a protocol command
  timing      \* history: adapter -> times of the first and last line of the connection

feed    == <<up, conn, sent, peer, timing>>
adapter == <<setting, clock, gathering, stored, commanded>>
filters == <<lastValue, lastSample, lastOffset>>
item    == <<source, filters, conv>>
shown   == <<latest, before, received>>
vars    == <<feed, job, post, adapter, item, shown>>

-----------------------------------------------------------------------------
(* Looking up a key.                                                       *)

getDeviceDataItem(d, key) ==
  LET items   == IF d = None THEN {} ELSE ToSet(DeviceItems[d])
      sources == {i \in items : Def[i].source = key}
      names   == {i \in items : Def[i].name = key}
      ids     == {i \in items : Def[i].id = key}
      found   == IF sources # {} THEN sources ELSE IF names # {} THEN names ELSE ids
  IN  IF found = {} THEN None ELSE CHOOSE i \in found : TRUE

getDeviceByName(name) == IF name \in Devices THEN name ELSE None

-----------------------------------------------------------------------------
(* Units.                                                                  *)

NewConversion == [required |-> "unknown", factor |-> 0]

setDataSource(a, c) == IF setting[a].conversionRequired THEN c ELSE [c EXCEPT !.required = "no"]

conversionRequired(i, c) ==
  IF c.required # "unknown" THEN c
  ELSE [c EXCEPT !.required = IF Def[i].factor > 0 THEN "yes" ELSE "no"]

computeConversionFactors(i, c) ==
  IF c.required # "yes" \/ c.factor > 0 THEN c
  ELSE [required |-> IF Def[i].factor = 1 THEN "no" ELSE "yes", factor |-> Def[i].factor]

Settled(i, c) == computeConversionFactors(i, conversionRequired(i, c))

convertValue(c, n) == IF c.required = "yes" THEN n * c.factor ELSE n

setConversionFactor(c, f) ==
  IF f = 1 THEN [required |-> "no", factor |-> IF c.factor = 0 THEN 1 ELSE c.factor]
  ELSE [required |-> "yes", factor |-> f]

(* What an Observation makes of the text it is constructed with: a reset   *)
(* brings the InitialValue back, a condition is read for its level (words  *)
(* but these stand for texts that begin with one), the rest are converted. *)
IsCondition(i) == Def[i].category = "CONDITION"

AfterReset(i, v) ==
  IF v.trigger /\ Def[i].reset /\ Def[i].initial # {}
    THEN [text |-> "number", n |-> CHOOSE n \in Def[i].initial : TRUE, trigger |-> TRUE]
    ELSE v

NoLevel == {"number", "", Unavailable, ConditionUnavailable, Available}

Said(i, v) ==
  LET w == AfterReset(i, v)
  IN  IF IsCondition(i) /\ w.text \in NoLevel THEN Word(Unavailable) ELSE w

HasUnits(i, w) == ~ IsCondition(i) /\ w.text # Unavailable

Observed(i, c, v) ==
  LET w == Said(i, v)
  IN  IF HasUnits(i, w) /\ c.required = "yes"
        THEN [text |-> "number", n |-> convertValue(c, w.n), trigger |-> w.trigger /\ Def[i].reset]
        ELSE w

-----------------------------------------------------------------------------
(* The filters.                                                            *)

allowDups(i) == Def[i].discrete

isDuplicate_Forgets(i, v) ==
  [drop |-> Def[i].representation = "VALUE" /\ ~ Def[i].discrete /\ v = lastValue[i],
   value |-> lastValue[i], sample |-> lastSample[i], offset |-> lastOffset[i]]

isDuplicate(i, v) ==
  LET checks == Def[i].representation = "VALUE" /\ ~ Def[i].discrete
  IN  [drop |-> checks /\ v = lastValue[i],
       value |-> IF checks THEN v ELSE lastValue[i],
       sample |-> lastSample[i], offset |-> lastOffset[i]]

TimePassed(i, offset) == IF Def[i].period > 0 THEN offset ELSE lastOffset[i]

isFiltered(i, n, offset) ==
  LET measures == Def[i].delta > 0 /\ Def[i].category = "SAMPLE"
      near     == measures /\ \E s \in lastSample[i] : n > s - Def[i].delta /\ n < s + Def[i].delta
      early    == /\ ~ near
                  /\ Def[i].period > 0
                  /\ \E t \in lastOffset[i], o \in offset : o < t + Def[i].period
  IN  [drop   |-> near \/ early,
       value  |-> lastValue[i],
       sample |-> IF measures /\ ~ near THEN {n} ELSE lastSample[i],
       offset |-> IF near \/ early THEN lastOffset[i] ELSE TimePassed(i, offset)]

Passes(i) == [drop |-> FALSE, value |-> lastValue[i], sample |-> lastSample[i], offset |-> lastOffset[i]]

AdapterIsDuplicate(a, i, v, offset, c) ==
  CASE allowDups(i)                        -> Passes(i)
    [] ~ allowDups(i) /\ Def[i].delta + Def[i].period > 0 -> isFiltered(i, convertValue(c, v.n), offset)
    [] OTHER -> IF Config[a].dupCheck THEN isDuplicate(i, v) ELSE Passes(i)

(* The float convertValue of the filter settles the conversion.            *)
FilterSettles(i, c) == IF ~ allowDups(i) /\ Def[i].delta + Def[i].period > 0 THEN Settled(i, c) ELSE c

(* Ask the filter about v; what passes is posted by the next step.         *)
Ask(a, i, check, v, offset, c) ==
  LET settled == FilterSettles(i, c)
      answer  == AdapterIsDuplicate(a, i, check, offset, settled)
  IN  /\ lastValue'  = [lastValue EXCEPT ![i] = answer.value]
      /\ lastSample' = [lastSample EXCEPT ![i] = answer.sample]
      /\ lastOffset' = [lastOffset EXCEPT ![i] = answer.offset]
      /\ conv' = [conv EXCEPT ![i] = settled]
      /\ post' = [post EXCEPT ![a] = IF answer.drop THEN {} ELSE {[item |-> i, value |-> v]}]

-----------------------------------------------------------------------------
Doing(does, todo, first, offset) == [does |-> does, todo |-> todo, first |-> first, offset |-> offset]

Idle == Doing("idle", <<>>, FALSE, {})

Init ==
  /\ up = [a \in Adapters |-> FALSE]
  /\ conn = [a \in Adapters |-> 0]
  /\ sent = [a \in Adapters |-> 0]
  /\ peer = [a \in Adapters |-> <<>>]
  /\ job = [a \in Adapters |-> Idle]
  /\ post = [a \in Adapters |-> {}]
  /\ setting = [a \in Adapters |->
                  [device |-> Config[a].device, conversionRequired |-> TRUE,
                   relativeTime |-> Config[a].relativeTime]]
  /\ clock = [a \in Adapters |-> [base |-> FALSE, offset |-> 0, parse |-> FALSE]]
  /\ gathering = [a \in Adapters |-> {}]
  /\ stored = {}
  /\ source = [i \in Items |-> None]
  /\ lastValue = [i \in Items |-> Word("")]
  /\ lastSample = [i \in Items |-> {}]
  /\ lastOffset = [i \in Items |-> {}]
  /\ conv = [i \in Items |-> NewConversion]
  /\ latest = [i \in Items |-> [value |-> Word(Unavailable), by |-> None, conn |-> 0]]
  /\ before = latest
  /\ received = [i \in Items |-> Word(Unavailable)]
  /\ commanded = {}
  /\ timing = [a \in Adapters |-> [first |-> {}, last |-> {}]]

Free(a) == job[a].does = "idle" /\ post[a] = {}

(* connected(): with AutoAvailable every device's availability is posted.  *)
Connect(a) ==
  /\ Free(a)
  /\ ~ up[a]
  /\ up' = [up EXCEPT ![a] = TRUE]
  /\ job' = IF Config[a].autoAvailable
              THEN [job EXCEPT ![a] = Doing("connected", Config[a].allDevices, FALSE, {})]
              ELSE job
  /\ UNCHANGED <<conn, sent, peer, timing, post, adapter, item, shown>>

(* m_availability: of several, the one added last.                         *)
Availability(d) ==
  LET all == {i \in ToSet(DeviceItems[d]) : Def[i].type = "AVAILABILITY"}
  IN  IF all = {} THEN {} ELSE {CHOOSE i \in all : TRUE}

(* The rest of a job.                                                      *)
Advance(a) ==
  LET rest == Tail(job[a].todo)
      next == Doing(job[a].does, rest, FALSE, job[a].offset)
  IN  job' = [job EXCEPT ![a] = IF rest = <<>> THEN Idle ELSE next]

connected(a) ==
  /\ post[a] = {}
  /\ job[a].does = "connected"
  /\ Advance(a)
  /\ post' = [post EXCEPT ![a] = {[item |-> i, value |-> Word(Available)] : i \in Availability(Head(job[a].todo))}]
  /\ UNCHANGED <<feed, adapter, item, shown>>

(* A lost connection: the base time is forgotten, the gathered asset and   *)
(* m_parseTime are not; the items of m_allDevices follow one by one.       *)
ResetClock_Keeps(a) == clock

ResetClock(a) == [clock EXCEPT ![a].base = FALSE]

Disconnect(a) ==
  LET devices == Config[a].allDevices
      items   == FlattenSeq([k \in DOMAIN devices |-> DeviceItems[devices[k]]])
  IN  /\ Free(a)
      /\ up[a]
      /\ conn[a] < MaxBreaks
      /\ up' = [up EXCEPT ![a] = FALSE]
      /\ conn' = [conn EXCEPT ![a] = @ + 1]
      /\ peer' = [peer EXCEPT ![a] = <<>>]
      /\ timing' = [timing EXCEPT ![a] = [first |-> {}, last |-> {}]]
      /\ clock' = ResetClock(a)
      /\ job' = [job EXCEPT ![a] = Doing("disconnected", items, FALSE, {})]
      /\ UNCHANGED <<sent, post, setting, gathering, stored, commanded, item, shown>>

Owns(a, i) ==
  \/ source[i] = a
  \/ Config[a].autoAvailable /\ source[i] = None /\ Def[i].type = "AVAILABILITY"

MayBeLost(i) == IsCondition(i) \/ Def[i].constraint \in {"none", "values"}

Marks_Unowned(a, i) == latest[i].value.text # Unavailable /\ MayBeLost(i)

Marks(a, i) ==
  /\ Owns(a, i)
  /\ latest[i].value.text # Unavailable
  /\ MayBeLost(i)

(* The value posted for an item that is lost.                              *)
Down(i) == Word(IF IsCondition(i) THEN ConditionUnavailable ELSE Unavailable)

(* disconnected() asks the filters with NAN for the time.                  *)
DownOffset_Zero == {0}

DownOffset == {}

disconnected(a) ==
  LET i == Head(job[a].todo)
  IN  /\ post[a] = {}
      /\ job[a].does = "disconnected"
      /\ Advance(a)
      /\ IF Marks(a, i)
           THEN Ask(a, i, Down(i), Down(i), DownOffset, conv[i])
           ELSE UNCHANGED <<filters, conv, post>>
      /\ received' = IF source[i] = a THEN [received EXCEPT ![i] = Word(Unavailable)] ELSE received
      /\ UNCHANGED <<feed, adapter, source, latest, before>>

(* addToBuffer, under m_sequenceLock.                                      *)
addToBuffer(a) ==
  \E p \in post[a] :
    LET c == Settled(p.item, conv[p.item])
        v == Observed(p.item, c, p.value)
    IN  /\ conv' = IF HasUnits(p.item, Said(p.item, p.value)) THEN [conv EXCEPT ![p.item] = c] ELSE conv
        /\ before' = [before EXCEPT ![p.item] = latest[p.item]]
        /\ latest' = [latest EXCEPT ![p.item] = [value |-> v, by |-> a, conn |-> conn[a]]]
        /\ post' = [post EXCEPT ![a] = {}]
        /\ UNCHANGED <<feed, job, adapter, source, filters, received>>

-----------------------------------------------------------------------------
(* A line.                                                                 *)

Incoming(a) == IF peer[a] # <<>> THEN {Head(peer[a])} ELSE Lines[a]

Receives(a, l) ==
  /\ Free(a)
  /\ up[a]
  /\ sent[a] < MaxLines[a]
  /\ l \in Incoming(a)
  /\ sent' = [sent EXCEPT ![a] = @ + 1]
  /\ peer' = [peer EXCEPT ![a] = IF @ # <<>> THEN Tail(@) ELSE IF l.kind = "multiline" THEN l.follow ELSE <<>>]
  /\ timing' = IF Timed(l) /\ gathering[a] = {}
                 THEN [timing EXCEPT ![a] = [first |-> IF @.first = {} THEN {l.time.t} ELSE @.first,
                                             last |-> {l.time.t}]]
                 ELSE timing
  /\ UNCHANGED <<up, conn>>

Ends_AnyLine(g, l) == l.kind # "data"

Ends(g, l) == l.kind = "end" /\ l.id = g.id

(* While an asset is gathered every line but a command belongs to it.      *)
Gather(a, l) ==
  \E g \in gathering[a] :
    /\ Receives(a, l)
    /\ l.kind # "command"
    /\ IF Ends(g, l)
         THEN /\ stored' = stored \cup {[id |-> g.id, lines |-> g.lines, began |-> g.conn, ended |-> conn[a]]}
              /\ gathering' = [gathering EXCEPT ![a] = {}]
         ELSE /\ gathering' = [gathering EXCEPT ![a] = {[g EXCEPT !.lines = Append(@, l)]}]
              /\ UNCHANGED stored
    /\ UNCHANGED <<job, post, setting, clock, commanded, item, shown>>

(* A time is [form, t].  parseTimeMicro of a number is 0, and atof reads   *)
(* the year of a date.                                                     *)
Year == 2020

Reading(parse, time) ==
  IF parse = (time.form = "date") THEN time.t ELSE IF parse THEN 0 ELSE Year

Wrap(n) == n % TimeWidth

extractTime(a, time) ==
  LET first == ~ clock[a].base
      parse == IF first /\ time.form = "date" THEN TRUE ELSE clock[a].parse
      zero  == IF first THEN Reading(time.form = "date", time) ELSE clock[a].offset
  IN  IF setting[a].relativeTime
        THEN [clock  |-> [base |-> TRUE, offset |-> zero, parse |-> parse],
              offset |-> IF first THEN 0 ELSE Wrap(Reading(parse, time) - zero)]
        ELSE [clock |-> clock[a], offset |-> time.t]

processData(a, l) ==
  LET time == extractTime(a, l.time)
  IN  /\ l.kind = "data"
      /\ gathering[a] = {}
      /\ Receives(a, l)
      /\ clock' = [clock EXCEPT ![a] = time.clock]
      /\ job' = [job EXCEPT ![a] = Doing("line", l.pairs, TRUE, {time.offset})]
      /\ UNCHANGED <<post, setting, gathering, stored, commanded, item, shown>>

Plain(v) == [text |-> v.text, n |-> v.n, trigger |-> FALSE]

(* The reset trigger is left out of what the filters compare.              *)
Check(i, v) == IF Def[i].reset THEN Plain(v) ELSE v

processDataItem(a) ==
  LET p == Head(job[a].todo)
      d == IF p.device = None THEN setting[a].device ELSE getDeviceByName(p.device)
      i == getDeviceDataItem(d, p.key)
      taken == i # None /\ Def[i].constraint # "constant"
  IN  /\ post[a] = {}
      /\ job[a].does = "line"
      /\ IF taken /\ job[a].first /\ Def[i].takesRest
           THEN job' = [job EXCEPT ![a] = Idle]
           ELSE Advance(a)
      /\ IF taken
           THEN /\ source' = [source EXCEPT ![i] = a]
                /\ received' = [received EXCEPT ![i] = p.value]
                /\ Ask(a, i, Check(i, p.value), p.value, job[a].offset, setDataSource(a, conv[i]))
           ELSE UNCHANGED <<item, post, received>>
      /\ UNCHANGED <<feed, adapter, latest, before>>

(* @ASSET@ with a --multiline-- terminator.  The other asset lines call    *)
(* the operations of AssetStore and change nothing here.                   *)
processAsset(a, l) ==
  /\ l.kind = "multiline"
  /\ gathering[a] = {}
  /\ Receives(a, l)
  /\ gathering' = [gathering EXCEPT ![a] = {[id |-> l.id, lines |-> <<>>, conn |-> conn[a]]}]
  /\ clock' = [clock EXCEPT ![a] = extractTime(a, l.time).clock]
  /\ UNCHANGED <<job, post, setting, stored, commanded, item, shown>>

parseCalibration(a, l) ==
  LET i == getDeviceDataItem(setting[a].device, l.key)
  IN  conv' = IF i = None THEN conv ELSE [conv EXCEPT ![i] = setConversionFactor(@, l.factor)]

protocolCommand(a, l) ==
  /\ l.kind = "command"
  /\ Receives(a, l)
  /\ \/ /\ l.command = "device"
        /\ l.device \in Devices
        /\ setting' = [setting EXCEPT ![a].device = l.device]
        /\ UNCHANGED conv
     \/ /\ l.command \in {"conversionRequired", "relativeTime"}
        /\ setting' = [setting EXCEPT ![a][l.command] = l.yes]
        /\ UNCHANGED conv
     \/ /\ l.command = "calibration"
        /\ parseCalibration(a, l)
        /\ UNCHANGED setting
  /\ commanded' = commanded \cup {a}
  /\ UNCHANGED <<job, post, clock, gathering, stored, source, filters, shown>>

Next ==
  \E a \in Adapters :
    \/ Connect(a)
    \/ connected(a)
    \/ Disconnect(a)
    \/ disconnected(a)
    \/ addToBuffer(a)
    \/ processDataItem(a)
    \/ \E l \in Incoming(a) :
         \/ Gather(a, l)
         \/ processData(a, l)
         \/ processAsset(a, l)
         \/ protocolCommand(a, l)

Spec == Init /\ [][Next]_vars

-----------------------------------------------------------------------------
Steps(does) ==
  CASE does = "line" -> Seq(Pair) [] does = "connected" -> Seq(Devices) [] OTHER -> Seq(Items)

IsJob(j) ==
  /\ j = Doing(j.does, j.todo, j.first, j.offset)
  /\ j.does \in {"idle", "line", "connected", "disconnected"} /\ j.todo \in Steps(j.does)
  /\ j.first \in BOOLEAN /\ j.offset \subseteq Nat
  /\ j.does = "idle" <=> j.todo = <<>>

Posted == [item : Items, value : Value]

Gathered ==
  [id : STRING, lines : Seq(AssetLine \cup UNION {Lines[a] : a \in Adapters}), conn : 0 .. MaxBreaks]

Published == [value : Value, by : Adapters \cup {None}, conn : 0 .. MaxBreaks]

Setting == [device : Devices, conversionRequired : BOOLEAN, relativeTime : BOOLEAN]

Clock == [base : BOOLEAN, offset : Nat, parse : BOOLEAN]

Conversion == [required : {"unknown", "yes", "no"}, factor : Nat]

AtMostOne(S) == \A x, y \in S : x = y

ConnType == up \in [Adapters -> BOOLEAN] /\ conn \in [Adapters -> 0 .. MaxBreaks]

LineType ==
  /\ sent \in [Adapters -> Nat] /\ \A a \in Adapters : sent[a] <= MaxLines[a]
  /\ peer \in [Adapters -> Seq(AssetLine)]
  /\ timing \in [Adapters -> [first : SUBSET Nat, last : SUBSET Nat]]

JobType == job = [a \in Adapters |-> job[a]] /\ \A a \in Adapters : IsJob(job[a])

PostType == post \in [Adapters -> SUBSET Posted] /\ \A a \in Adapters : AtMostOne(post[a])

GatherType == gathering \in [Adapters -> SUBSET Gathered] /\ \A a \in Adapters : AtMostOne(gathering[a])

FilterType ==
  /\ lastValue \in [Items -> Value] /\ lastSample \in [Items -> SUBSET Int]
  /\ lastOffset \in [Items -> SUBSET Nat] /\ conv \in [Items -> Conversion]

(* Settings, jobs, filters and values keep their types.                    *)
TypeOK ==
  /\ ConnType /\ LineType /\ JobType /\ PostType
  /\ setting \in [Adapters -> Setting] /\ commanded \subseteq Adapters
  /\ clock \in [Adapters -> Clock] /\ GatherType
  /\ source \in [Items -> Adapters \cup {None}] /\ FilterType
  /\ latest \in [Items -> Published] /\ before \in [Items -> Published]
  /\ received \in [Items -> Value]

(* The value a client should see for what the adapter sent.                *)
Displayed(i, v) ==
  LET w == Said(i, v)
  IN  IF HasUnits(i, w) /\ Def[i].factor > 1 THEN Number(w.n * Def[i].factor) ELSE Plain(w)

Unfiltered(i) == Def[i].delta = 0 /\ Def[i].period = 0

(* AVAILABILITY is posted by connected() behind the back of the filter.    *)
Bypassed(a, i) == Config[a].autoAvailable /\ Def[i].type = "AVAILABILITY"

(* Items of m_allDevices.                                                  *)
Reached(a, i) == \E k \in DOMAIN Config[a].allDevices : i \in ToSet(DeviceItems[Config[a].allDevices[k]])

Names(key, i) == \E d \in Devices : getDeviceDataItem(d, key) = i

(* Constant, per adapter: the pairs its lines may bring, and the values    *)
(* for an item.                                                            *)
Pairs == [a \in Adapters |-> UNION {ToSet(l.pairs) : l \in {k \in Lines[a] : k.kind = "data"}}]

SentValues == [a \in Adapters |-> [i \in Items |-> {p.value : p \in {q \in Pairs[a] : Names(q.key, i)}}]]

(* Per item: the adapters that have to do with it.  Two adapters that feed *)
(* one item overwrite each other's values and share its filters.           *)
Feeders ==
  [i \in Items |-> {a \in Adapters :
    \/ \E p \in Pairs[a] : Names(p.key, i)
    \/ \E l \in Lines[a] : l.kind = "command" /\ l.command = "calibration" /\ Names(l.key, i)
    \/ Bypassed(a, i) /\ Reached(a, i)}]

(* No reset brings back an InitialValue the filters have not seen.         *)
SentAsShown(a, i) ==
  Def[i].reset /\ Def[i].initial # {} => \A v \in SentValues[a][i] : ~ v.trigger

Private(a, i) == Feeders[i] \subseteq {a}

(* The items whose UNAVAILABLE the agent takes care of: those of the       *)
(* adapter's devices, without a minimum delta, and with a set of values    *)
(* where there is a constraint.                                            *)
Covered(a, i) ==
  /\ Private(a, i) /\ Reached(a, i)
  /\ Def[i].delta = 0
  /\ Def[i].constraint \in {"none", "values"}
  /\ ~ (Config[a].dupCheck /\ Bypassed(a, i))

(* Dropping duplicates never hides a change, and units are converted once: *)
(* when an adapter's thread is idle, every item it feeds that has no       *)
(* minimum delta or period shows the last value received for it, or        *)
(* UNAVAILABLE after the connection was lost, and its InitialValue when    *)
(* that last value was a reset (processDataItem, isDuplicate,              *)
(* disconnected, convertValue).  An empty value alone may be held back,    *)
(* before any other was shown: m_lastValue starts out empty.  A filter     *)
(* that drops duplicates drops a reset that repeats the last number, so    *)
(* it is not for items with an InitialValue that are reset.                *)
LatestIsReceived ==
  \A a \in Adapters, i \in Items :
    /\ Free(a) /\ a \notin commanded
    /\ Unfiltered(i) /\ Covered(a, i) /\ ~ Bypassed(a, i)
    /\ Config[a].dupCheck => SentAsShown(a, i)
    => \/ Plain(latest[i].value) = Displayed(i, received[i])
       \/ received[i].text = "" /\ latest[i].by = None

(* A value that is not UNAVAILABLE came over the present connection: no    *)
(* value survives the loss of its connection, and neither filter holds     *)
(* back the first value of the next one.  In particular the end of one     *)
(* adapter's connection leaves the items of the others alone.              *)
NoStaleValue ==
  \A a \in Adapters, i \in Items :
    /\ Free(a) /\ Covered(a, i)
    => \/ latest[i].value.text = Unavailable
       \/ up[a] /\ latest[i].by = a /\ latest[i].conn = conn[a]

(* The value of a connected adapter's item is UNAVAILABLE only if its      *)
(* adapter has said nothing since it connected: the minimum period, whose  *)
(* m_lastTimeOffset the loss of the connection sets to NAN, never swallows *)
(* the first sample of the next connection.  An UNAVAILABLE the peer sends *)
(* by itself would: it starts the period.                                  *)
FirstSampleShown ==
  \A a \in Adapters, i \in Items :
    /\ Free(a) /\ Covered(a, i) /\ ~ Bypassed(a, i)
    /\ \A v \in SentValues[a][i] : v.text = "number"
    /\ Def[i].period > 0 /\ ~ IsCondition(i) /\ received[i].text = "number"
    => latest[i].value.text = "number"

(* With FilterDuplicates no value of a single-valued item is published     *)
(* twice in a row, across reconnections too.  The filter compares what is  *)
(* sent, so only numbers may be sent where units are converted, and only   *)
(* the trigger of an item that has one is left out, where it does not      *)
(* bring back an InitialValue.  A condition may be published as            *)
(* UNAVAILABLE twice: by disconnected() in a text of its own, and by its   *)
(* adapter in another once that is back.                                   *)
NoRepeat ==
  \A a \in Adapters, i \in Items :
    /\ latest[i].by = a /\ before[i].by = a /\ a \notin commanded
    /\ Config[a].dupCheck /\ ~ Bypassed(a, i) /\ Private(a, i) /\ SentAsShown(a, i)
    /\ \A v \in SentValues[a][i] :
         /\ v.trigger => Def[i].reset
         /\ Def[i].factor > 1 /\ ~ IsCondition(i) => v.text \in {"number", Unavailable}
    /\ Def[i].representation = "VALUE" /\ ~ Def[i].discrete /\ Unfiltered(i)
    => \/ Plain(latest[i].value) # Plain(before[i].value)
       \/ IsCondition(i) /\ latest[i].value.text = Unavailable

(* Two samples published in a row differ by the minimum delta, in the      *)
(* units of the item (a reset to an InitialValue aside).                   *)
DeltaRespected ==
  \A a \in Adapters, i \in Items :
    /\ Private(a, i) /\ ~ Bypassed(a, i) /\ a \notin commanded /\ SentAsShown(a, i)
    /\ Def[i].delta > 0 /\ Def[i].period = 0 /\ Def[i].category = "SAMPLE" /\ ~ Def[i].discrete
    /\ latest[i].value.text = "number" /\ before[i].value.text = "number"
    => latest[i].value.n - before[i].value.n \notin (1 - Def[i].delta) .. (Def[i].delta - 1)

(* The filters hold back what they are for, across connections, and never  *)
(* the first sample of a connection.                                       *)
FiltersHold == NoRepeat /\ DeltaRespected /\ FirstSampleShown

OneForm(a) == \A l, k \in Lines[a] : Timed(l) /\ Timed(k) => l.time.form = k.time.form

(* Relative times count from the first line of the present connection.     *)
RelativeToConnection ==
  \A a \in Adapters :
    /\ job[a].does = "line" /\ Config[a].relativeTime /\ a \notin commanded /\ OneForm(a)
    => \A t \in timing[a].last, z \in timing[a].first : t >= z => job[a].offset = {t - z}

(* The state is well typed, and a multi-line asset that was begun and      *)
(* ended on one connection is stored with exactly the lines its peer sent  *)
(* for it.                                                                 *)
AssetsWhole ==
  /\ TypeOK
  /\ \A s \in stored :
       s.began = s.ended =>
         \E a \in Adapters : \E l \in Lines[a] :
           l.kind = "multiline" /\ l.id = s.id /\ s.lines = Front(l.follow)

(* The log line of agent.cpp:826, "Disconnected from adapter, setting all  *)
(* values to UNAVAILABLE".                                                 *)
AllUnavailable ==
  \A a \in Adapters, i \in Items :
    /\ Free(a) /\ ~ up[a] /\ source[i] = a
    => latest[i].value.text = Unavailable

=============================================================================
