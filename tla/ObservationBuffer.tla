------------------------- MODULE ObservationBuffer -------------------------
(***************************************************************************)
(* The agent's sliding buffer of observations and its checkpoints          *)
(* (agent.cpp): writers append with addToBuffer, and request threads read  *)
(* the past with fetchCurrentData and fetchSampleData.                     *)
(*                                                                         *)
(* addToBuffer runs under m_sequenceLock and is one step.  A fetch holds   *)
(* the same lock for its whole loop; the loop is taken one iteration at a  *)
(* time, so that what it has collected so far is part of the state.  The   *)
(* range checks of handleCall come before, without the lock.               *)
(*                                                                         *)
(* log and states are history variables: every observation ever added, and *)
(* the checkpoint that results from adding the first s of them in order.   *)
(***************************************************************************)
EXTENDS Checkpoint, Subsequences

CONSTANTS
  Size,            \* m_slidingBufferSize
  CheckpointFreq,  \* m_checkpointFreq
  Readers,         \* threads that serve requests
  Filters,         \* the filter sets a request's path can resolve to
  Counts,          \* values of the parameter 'count'
  Null,            \* an empty slot
  MaxSequence      \* bound: the last sequence number the model assigns

Free    == "free"
NoStart == 0        \* NO_START: the parameter was not given

ASSUME BufferAssumption ==
  /\ Size \in Nat \ {0}
  /\ CheckpointFreq \in Nat \ {0}
  /\ Filters \subseteq SUBSET DataItems
  /\ Counts \subseteq Int \ {0}
  /\ MaxSequence \in Nat
  /\ Null \notin Observation
  /\ Free \notin Readers

VARIABLES
  m_sequence,       \* the next sequence number
  m_slidingBuffer,  \* slot -> observation
  m_latest,         \* checkpoint of everything added
  m_first,          \* checkpoint up to the oldest observation in the buffer
  m_checkpoints,    \* checkpoints taken every CheckpointFreq slots
  m_sequenceLock,   \* the reader that holds the lock, or Free
  request,          \* the local variables of each reader
  log,              \* history: all observations, by sequence number
  states            \* history: states[s] is the checkpoint after log[1..s]

agentVars == <<m_sequence, m_slidingBuffer, m_latest, m_first, m_checkpoints>>
history   == <<log, states>>
vars      == <<agentVars, m_sequenceLock, request, history>>

get_element_id(seq) == seq % Size

getFirstSequence_OffByOne == IF m_sequence > Size + 1 THEN m_sequence - Size - 1 ELSE 1
getFirstSequence_NoFloor  == m_sequence - Size

getFirstSequence == IF m_sequence > Size THEN m_sequence - Size ELSE 1

(* The constructor has given every data item its first observation.        *)
Constructed == \A i \in DataItems : m_latest[i] # <<>>

IdleRequest ==
  [pc |-> "idle", filter |-> {}, start |-> NoStart, count |-> 0,
   firstSeq |-> 1, seq |-> 1, pos |-> 0, index |-> 0,
   check |-> EmptyCheckpoint, results |-> <<>>]

-----------------------------------------------------------------------------
Init ==
  /\ m_sequence = 1
  /\ m_slidingBuffer = [k \in 0 .. Size - 1 |-> Null]
  /\ m_latest = EmptyCheckpoint
  /\ m_first = EmptyCheckpoint
  /\ m_checkpoints = [k \in 0 .. Size \div CheckpointFreq |-> EmptyCheckpoint]
  /\ m_sequenceLock = Free
  /\ request = [r \in Readers |-> IdleRequest]
  /\ log = <<>>
  /\ states = <<>>

(* m_first is primed with the first observation ever, and then follows the *)
(* window: it takes in the observation the next addToBuffer overwrites.    *)
AdvanceFirst_Unprimed(buffer, obs) ==
  LET oldest == buffer[get_element_id(obs.sequence + 1)]
  IN  IF oldest = Null THEN m_first ELSE addObservation(m_first, oldest)

AdvanceFirst(buffer, obs) ==
  LET primed == IF obs.sequence = 1 THEN addObservation(m_first, obs) ELSE m_first
      oldest == buffer[get_element_id(obs.sequence + 1)]
  IN  IF oldest = Null THEN primed ELSE addObservation(primed, oldest)

TakeCheckpoint(index, latest) ==
  IF index % CheckpointFreq = 0
    THEN [m_checkpoints EXCEPT ![index \div CheckpointFreq] = latest]
    ELSE m_checkpoints

(* An observation whose data set adds nothing is dropped: no step.         *)
addToBuffer(item, payload) ==
  LET obs    == MakeObservation(item, m_sequence, Stripped(m_latest, item, payload))
      index  == get_element_id(m_sequence)
      buffer == [m_slidingBuffer EXCEPT ![index] = obs]
      latest == addObservation(m_latest, obs)
  IN  /\ m_sequenceLock = Free
      /\ m_sequence <= MaxSequence
      /\ ~ AddsNothing(m_latest, item, payload)
      /\ m_sequence' = m_sequence + 1
      /\ m_slidingBuffer' = buffer
      /\ m_latest' = latest
      /\ m_first' = AdvanceFirst(buffer, obs)
      /\ m_checkpoints' = TakeCheckpoint(index, latest)
      /\ log' = Append(log, obs)
      /\ states' = Append(states, latest)
      /\ UNCHANGED <<m_sequenceLock, request>>

(* The constructor posts one observation for every data item: its only     *)
(* permitted value if it has one, UNAVAILABLE otherwise.                   *)
ConstructItem(item) ==
  /\ m_latest[item] = <<>>
  /\ \E p \in {PlainPayload(Unavailable)} \cup
              (IF item \in Events THEN {PlainPayload(v) : v \in Values} ELSE {}) :
       addToBuffer(item, p)

Post(item, payload) ==
  /\ Constructed
  /\ addToBuffer(item, payload)

-----------------------------------------------------------------------------
(* Requests.  handleCall checks the parameters against the window without  *)
(* the lock; a parameter out of range is answered with an error at once.   *)

CheckCurrent(r, filter, at) ==
  /\ Constructed
  /\ request[r].pc = "idle"
  /\ at = NoStart \/ at \in getFirstSequence .. m_sequence - 1
  /\ request' = [request EXCEPT ![r] =
                   [IdleRequest EXCEPT !.pc = "current", !.filter = filter, !.start = at]]
  /\ UNCHANGED <<agentVars, m_sequenceLock, history>>

CheckSample(r, filter, from, count) ==
  /\ Constructed
  /\ request[r].pc = "idle"
  /\ from = NoStart \/ from \in getFirstSequence .. m_sequence
  /\ request' = [request EXCEPT ![r] =
                   [IdleRequest EXCEPT !.pc = "sample", !.filter = filter,
                                       !.start = from, !.count = count]]
  /\ UNCHANGED <<agentVars, m_sequenceLock, history>>

(* fetchCurrentData without 'at': the latest state.                        *)
FetchLatest(r) ==
  /\ request[r].pc = "current"
  /\ request[r].start = NoStart
  /\ m_sequenceLock = Free
  /\ request' = [request EXCEPT ![r].pc = "currentDone",
                                ![r].firstSeq = getFirstSequence,
                                ![r].seq = m_sequence,
                                ![r].check = FilterCheckpoint(m_latest, request[r].filter)]
  /\ UNCHANGED <<agentVars, m_sequenceLock, history>>

(* The window begins between the closest checkpoint and the slot of 'at'.  *)
UseFirst_AnyPosition(first, closestCp, pos) == first > closestCp

UseFirst(first, closestCp, pos) == first > closestCp /\ pos >= first

(* fetchCurrentData with 'at': start from the closest checkpoint at or     *)
(* before the slot of 'at', or from m_first if the window begins in        *)
(* between.                                                                *)
FetchCurrentBegin(r) ==
  LET pos        == get_element_id(request[r].start)
      first      == get_element_id(getFirstSequence)
      checkIndex == pos \div CheckpointFreq
      closestCp  == checkIndex * CheckpointFreq
      useFirst   == UseFirst(first, closestCp, pos)
      ref        == IF useFirst THEN m_first ELSE m_checkpoints[checkIndex]
  IN  /\ request[r].pc = "current"
      /\ request[r].start # NoStart
      /\ m_sequenceLock = Free
      /\ m_sequenceLock' = r
      /\ request' = [request EXCEPT
                       ![r].pc = "rolling",
                       ![r].firstSeq = getFirstSequence,
                       ![r].seq = m_sequence,
                       ![r].pos = pos,
                       ![r].index = (IF useFirst THEN first ELSE closestCp) + 1,
                       ![r].check = FilterCheckpoint(ref, request[r].filter)]
      /\ UNCHANGED <<agentVars, history>>

RollForward(r) ==
  LET q == request[r]
  IN  /\ q.pc = "rolling"
      /\ q.index <= q.pos
      /\ request' = [request EXCEPT
                       ![r].check = addFiltered(@, q.filter, m_slidingBuffer[q.index]),
                       ![r].index = @ + 1]
      /\ UNCHANGED <<agentVars, m_sequenceLock, history>>

FetchCurrentEnd(r) ==
  /\ request[r].pc = "rolling"
  /\ request[r].index > request[r].pos
  /\ m_sequenceLock' = Free
  /\ request' = [request EXCEPT ![r].pc = "currentDone"]
  /\ UNCHANGED <<agentVars, history>>

(* fetchSampleData: a start outside the window is moved into it.           *)
ClampStart_PastEnd(start, count) ==
  IF count >= 0
    THEN IF start = NoStart \/ start <= getFirstSequence THEN getFirstSequence ELSE start
    ELSE IF start = NoStart \/ start >= m_sequence THEN m_sequence ELSE start

ClampStart(start, count) ==
  IF count >= 0
    THEN IF start = NoStart \/ start <= getFirstSequence THEN getFirstSequence ELSE start
    ELSE IF start = NoStart \/ start >= m_sequence THEN m_sequence - 1 ELSE start

FetchSampleBegin(r) ==
  LET q == request[r]
  IN  /\ q.pc = "sample"
      /\ m_sequenceLock = Free
      /\ m_sequenceLock' = r
      /\ request' = [request EXCEPT ![r].pc = "scanning",
                                    ![r].firstSeq = getFirstSequence,
                                    ![r].seq = m_sequence,
                                    ![r].start = ClampStart(q.start, q.count),
                                    ![r].index = ClampStart(q.start, q.count)]
      /\ UNCHANGED <<agentVars, history>>

ScanLimit(q) == IF q.count >= 0 THEN q.count ELSE - q.count

ScanContinues(q) ==
  /\ Len(q.results) < ScanLimit(q)
  /\ q.index < m_sequence
  /\ q.index >= q.firstSeq

ScanSample(r) ==
  LET q   == request[r]
      obs == m_slidingBuffer[get_element_id(q.index)]
  IN  /\ q.pc = "scanning"
      /\ ScanContinues(q)
      /\ request' = [request EXCEPT
                       ![r].results = IF obs.item \in q.filter THEN Append(@, obs) ELSE @,
                       ![r].index = IF q.count >= 0 THEN @ + 1 ELSE @ - 1]
      /\ UNCHANGED <<agentVars, m_sequenceLock, history>>

FetchSampleEnd(r) ==
  /\ request[r].pc = "scanning"
  /\ ~ ScanContinues(request[r])
  /\ m_sequenceLock' = Free
  /\ request' = [request EXCEPT ![r].pc = "sampleDone"]
  /\ UNCHANGED <<agentVars, history>>

(* The document is printed and sent; the thread takes the next request.    *)
Respond(r) ==
  /\ request[r].pc \in {"currentDone", "sampleDone"}
  /\ request' = [request EXCEPT ![r] = IdleRequest]
  /\ UNCHANGED <<agentVars, m_sequenceLock, history>>

-----------------------------------------------------------------------------
Write ==
  \/ \E i \in DataItems : ConstructItem(i)
  \/ \E i \in DataItems : \E p \in PayloadsOf(i) : Post(i, p)

Read(r) ==
  \/ \E f \in Filters, at \in 0 .. MaxSequence : CheckCurrent(r, f, at)
  \/ \E f \in Filters, from \in 0 .. MaxSequence + 1, c \in Counts : CheckSample(r, f, from, c)
  \/ FetchLatest(r)
  \/ FetchCurrentBegin(r)
  \/ RollForward(r)
  \/ FetchCurrentEnd(r)
  \/ FetchSampleBegin(r)
  \/ ScanSample(r)
  \/ FetchSampleEnd(r)
  \/ Respond(r)

Next == Write \/ \E r \in Readers : Read(r)

Spec == Init /\ [][Next]_vars

-----------------------------------------------------------------------------
(* Type invariant.                                                         *)
RequestType ==
  [pc : {"idle", "current", "rolling", "currentDone", "sample", "scanning", "sampleDone"},
   filter : SUBSET DataItems, start : Nat, count : Int,
   firstSeq : Nat \ {0}, seq : Nat \ {0}, pos : Nat, index : Nat,
   check : CheckpointType, results : Seq(Observation)]

TypeOK ==
  /\ m_sequence \in Nat \ {0}
  /\ m_slidingBuffer \in [0 .. Size - 1 -> Observation \cup {Null}]
  /\ m_latest \in CheckpointType
  /\ m_first \in CheckpointType
  /\ m_checkpoints \in [0 .. Size \div CheckpointFreq -> CheckpointType]
  /\ m_sequenceLock \in Readers \cup {Free}
  /\ request \in [Readers -> RequestType]
  /\ log \in Seq(Observation)
  /\ states \in Seq(CheckpointType)

-----------------------------------------------------------------------------
(* Reference definitions.                                                  *)

(* The observation that occupies seq's slot: the member of the window that *)
(* is congruent to seq.                                                    *)
Window(first, next) == first .. next - 1

Resident(seq, first, next) ==
  CHOOSE s \in Window(first, next) : get_element_id(s) = get_element_id(seq)

(* The state a finished current request has to answer with.                *)
AnswerIsReplay(q) ==
  LET s == IF q.start = NoStart THEN q.seq - 1 ELSE Resident(q.start, q.firstSeq, q.seq)
  IN  q.pc = "currentDone" =>
        /\ q.check = FilterCheckpoint(states[s], q.filter)
        /\ q.start \in Window(q.firstSeq, q.seq) => s = q.start

(* The sequence numbers a finished sample has passed over.                 *)
Scanned(q) == IF q.count >= 0 THEN q.start .. q.index - 1 ELSE q.index + 1 .. q.start

(* Positions in the log of the observations of item since it was last      *)
(* unavailable, reset or (a condition) declared normal as a whole.         *)
Clears(obs) ==
  \/ isUnavailable(obs)
  \/ obs.payload.reset
  \/ obs.payload.value = "NORMAL" /\ obs.payload.code = NoCode

Since(item) ==
  {s \in DOMAIN log :
     /\ log[s].item = item
     /\ \A t \in s + 1 .. Len(log) : log[t].item = item => ~ Clears(log[t])}

(* The active conditions: per native code the last observation, if it is a *)
(* warning or a fault.                                                     *)
ActiveConditions(item) ==
  {log[s] : s \in {s \in Since(item) :
     /\ isActive(log[s])
     /\ \A t \in Since(item) : t > s => log[t].payload.code # log[s].payload.code}}

ListsActive(chain, active) ==
  /\ active # {} => {chain[k] : k \in DOMAIN chain} = active
  /\ active = {} => Len(chain) = 1 /\ ~ isActive(chain[1])
  /\ \A j, k \in DOMAIN chain : j < k => chain[j].sequence > chain[k].sequence

(* The entries a client holds that applied every data set observation.     *)
Mentions(item, key) == {s \in Since(item) : key \in DOMAIN log[s].payload.set}

PresentEntries(item) ==
  {entry \in Keys \X EntryValues :
     \E s \in Mentions(item, entry[1]) :
       /\ log[s].payload.set[entry[1]] = entry[2]
       /\ \A t \in Mentions(item, entry[1]) : t <= s}

PresentIn(set) == {<<k, set[k]>> : k \in {k \in DOMAIN set : set[k] # Removed}}

-----------------------------------------------------------------------------
(* Properties.                                                             *)

(* The slots hold exactly the last Size observations, each in the slot of  *)
(* its sequence number (addToBuffer writes through the sliding buffer's    *)
(* index; fetchSampleData reads i from first to m_sequence without a test).*)
WindowIntact ==
  \A s \in Window(getFirstSequence, m_sequence) :
    m_slidingBuffer[get_element_id(s)] = log[s]

(* m_latest, m_first and every periodic checkpoint that the window still   *)
(* reaches are the states obtained by adding all observations in order up  *)
(* to their sequence number: addToBuffer keeps m_first one step behind the *)
(* observation it is about to overwrite.                                   *)
CheckpointsAreReplays ==
  m_sequence > 1 =>
    /\ m_latest = states[m_sequence - 1]
    /\ m_first = states[getFirstSequence]
    /\ \A s \in Window(getFirstSequence, m_sequence) :
         LET k == get_element_id(s)
         IN  k % CheckpointFreq = 0 => m_checkpoints[k \div CheckpointFreq] = states[s]

(* current?at answers with the state at 'at' as long as the window still   *)
(* reaches it when the lock is taken; otherwise with the state at the      *)
(* observation that has taken its slot.  Without 'at' the answer is the    *)
(* latest state (fetchCurrentData: checkpoint choice and roll forward).    *)
CurrentIsReplay == \A r \in Readers : AnswerIsReplay(request[r])

(* A sample is a gap-free run of the log: the filtered observations of     *)
(* exactly the sequence numbers it passed over, in order, never more than  *)
(* 'count', and fewer only where the window ends (fetchSampleData).         *)
SampleIsExact ==
  \A r \in Readers :
    LET q       == request[r]
        matches == {s \in Scanned(q) : log[s].item \in q.filter}
        nth(k)  == q.results[IF q.count >= 0 THEN k ELSE Len(q.results) + 1 - k]
    IN  q.pc = "sampleDone" =>
          /\ Scanned(q) \subseteq Window(q.firstSeq, q.seq)
          /\ Len(q.results) = Cardinality(matches)
          /\ Len(q.results) <= ScanLimit(q)
          /\ Len(q.results) < ScanLimit(q) =>
               IF q.count >= 0 THEN q.index = q.seq ELSE q.index < q.firstSeq
          /\ {q.results[k] : k \in DOMAIN q.results} = {log[s] : s \in matches}
          /\ \A j, k \in DOMAIN q.results : j < k => nth(j).sequence < nth(k).sequence

(* The chain of a condition is its set of active conditions, the latest    *)
(* first and one per native code; when none is active it is the single     *)
(* normal or unavailable observation (Checkpoint::addObservation).         *)
ChainIsActiveSet ==
  Constructed => \A i \in Conditions : ListsActive(m_latest[i], ActiveConditions(i))

(* The latest data set has exactly the entries a client has that applied   *)
(* every observation of the log since the last reset, although addToBuffer *)
(* strips the entries that did not change.                                 *)
DataSetIsMerge ==
  Constructed => \A i \in DataSets : PresentIn(m_latest[i][1].payload.set) = PresentEntries(i)

(* current?at answers with the state at 'at', whatever was added between   *)
(* the range check of handleCall and the fetch: what the error "must be    *)
(* greater than or equal to the first sequence" promises.                  *)
CurrentAtAnswersAt ==
  \A r \in Readers :
    LET q == request[r]
    IN  q.pc = "currentDone" /\ q.start # NoStart =>
          q.check = FilterCheckpoint(states[q.start], q.filter)

-----------------------------------------------------------------------------
(* The inductive invariant behind WindowIntact, CheckpointsAreReplays and  *)
(* CurrentIsReplay.                                                        *)

FirstOf(next) == IF next > Size THEN next - Size ELSE 1

StateAfter(s) == IF s = 0 THEN EmptyCheckpoint ELSE states[s]

HistoryInv ==
  /\ Len(log) = m_sequence - 1
  /\ Len(states) = m_sequence - 1
  /\ \A s \in 1 .. m_sequence - 1 :
       states[s] = addObservation(StateAfter(s - 1), log[s])
  /\ m_sequence > 1 => log[1].item \in Events \/ isUnavailable(log[1])

(* Until the buffer has filled up, the slots ahead are empty.              *)
SlotsInv ==
  /\ WindowIntact
  /\ \A s \in m_sequence .. Size : m_slidingBuffer[get_element_id(s)] = Null

CheckpointsInv ==
  /\ m_latest = StateAfter(m_sequence - 1)
  /\ m_first = (IF m_sequence = 1 THEN EmptyCheckpoint ELSE states[getFirstSequence])
  /\ \A s \in Window(getFirstSequence, m_sequence) :
       LET k == get_element_id(s)
       IN  k % CheckpointFreq = 0 => m_checkpoints[k \div CheckpointFreq] = states[s]

(* A reader inside a fetch holds the lock and has seen the current window; *)
(* one that rolls forward has reached the slot before index.               *)
Locked(r) ==
  /\ m_sequenceLock = r
  /\ request[r].seq = m_sequence
  /\ request[r].firstSeq = getFirstSequence

Rolled(q) == Resident(q.start, q.firstSeq, q.seq) - (q.pos + 1 - q.index)

RollingInv(r) ==
  LET q == request[r]
  IN  /\ Locked(r)
      /\ q.start # NoStart
      /\ q.pos = get_element_id(q.start)
      /\ q.index \in 1 .. q.pos + 1
      /\ Rolled(q) \in Window(q.firstSeq, q.seq)
      /\ q.check = FilterCheckpoint(states[Rolled(q)], q.filter)

RequestOK(r) ==
  LET q == request[r]
  IN  /\ q.pc \in {"current", "rolling", "currentDone"} =>
           m_sequence > 1 /\ q.start < m_sequence
      /\ q.pc = "rolling" => RollingInv(r)
      /\ q.pc = "scanning" => Locked(r)
      /\ q.pc = "currentDone" =>
           /\ q.seq \in 2 .. m_sequence
           /\ q.start < q.seq
           /\ q.firstSeq = FirstOf(q.seq)

RequestInv == \A r \in Readers : RequestOK(r)

IInv ==
  /\ TypeOK
  /\ HistoryInv
  /\ SlotsInv
  /\ CheckpointsInv
  /\ RequestInv
  /\ CurrentIsReplay

(* The invariant behind SampleIsExact, inductive together with IInv: a     *)
(* scan has collected what matches of the sequence numbers it has passed   *)
(* over, which lie in the window it saw.                                   *)
Collected(q) == Subsequence(log, {s \in Scanned(q) : log[s].item \in q.filter})

ScanInv(q) ==
  /\ q.seq <= m_sequence
  /\ q.firstSeq = FirstOf(q.seq)
  /\ q.count >= 0 =>
       /\ q.firstSeq <= q.start /\ q.start <= q.index /\ q.index <= q.seq
       /\ q.results = Collected(q)
  /\ q.count < 0 =>
       /\ q.start < q.seq /\ q.index <= q.start
       /\ q.index = q.start \/ q.firstSeq <= q.index + 1
       /\ q.results = Backward(Collected(q))
  /\ Len(q.results) <= ScanLimit(q)

SampleOK(q) ==
  /\ q.pc # "idle" => q.filter \in Filters
  /\ q.pc = "sample" => q.start <= m_sequence /\ q.results = <<>>
  /\ q.pc \in {"scanning", "sampleDone"} => ScanInv(q)
  /\ q.pc = "sampleDone" /\ Len(q.results) < ScanLimit(q) =>
       IF q.count >= 0 THEN q.index = q.seq ELSE q.index < q.firstSeq

SampleInv ==
  /\ \A s \in DOMAIN log : log[s].sequence = s
  /\ \A r \in Readers : SampleOK(request[r])

(* The invariant behind ChainIsActiveSet and DataSetIsMerge: what they say *)
(* holds of every item that has an observation, during construction too.   *)
ChainInv(i) ==
  IF m_latest[i] = <<>> THEN Since(i) = {} ELSE ListsActive(m_latest[i], ActiveConditions(i))

DataSetInv(i) ==
  IF m_latest[i] = <<>> THEN Since(i) = {}
  ELSE LET latest == m_latest[i][1]
       IN  /\ PresentIn(latest.payload.set) = PresentEntries(i)
           /\ isUnavailable(latest) => DOMAIN latest.payload.set = {}

MergeInv ==
  /\ \A s \in DOMAIN log : log[s].sequence = s
  /\ \A i \in Conditions : ChainInv(i)
  /\ \A i \in DataSets : DataSetInv(i)

-----------------------------------------------------------------------------
(* What the buffer promises: an append-only log with a window.             *)
Reply(q) ==
  CASE q.pc = "currentDone" -> [kind |-> "current", asked |-> q.start, body |-> q.check]
    [] q.pc = "sampleDone"  -> [kind |-> "sample", asked |-> q.start, body |-> q.results]
    [] OTHER                -> [kind |-> "none", asked |-> NoStart, body |-> <<>>]

Log == INSTANCE ObservationLog WITH reply <- [r \in Readers |-> Reply(request[r])]

(* Every behaviour of the sliding buffer, its checkpoints and its readers  *)
(* is a behaviour of the log: answers come from the window of one moment.  *)
ImplementsLog == Log!Spec
=============================================================================
