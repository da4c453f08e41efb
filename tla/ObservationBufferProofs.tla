---------------------- MODULE ObservationBufferProofs ----------------------
(***************************************************************************)
(* The sliding buffer and its checkpoints are right for every buffer size, *)
(* checkpoint frequency, set of data items and number of readers: IInv of  *)
(* ObservationBuffer is inductive, and the properties follow from it.      *)
(* First, facts about checkpoints: their operations keep observations      *)
(* well-formed, a filtered checkpoint follows the unfiltered one, and      *)
(* adding the constructor's observation a second time changes nothing.     *)
(***************************************************************************)
EXTENDS ObservationBuffer, BasicFacts

(* Dropping the observation with a code (Observation::deepCopyAndRemove)   *)
(* closes the chain over the place of the first one that has it.           *)
LEMMA RemoveCodeHit ==
  ASSUME NEW chain \in Seq(Observation), NEW c, HasCode(chain, c)
  PROVE  \E hit \in 1 .. Len(chain) :
           /\ chain[hit].payload.code = c
           /\ RemoveCode(chain, c) \in Seq(Observation)
           /\ Len(RemoveCode(chain, c)) = Len(chain) - 1
           /\ \A k \in 1 .. Len(chain) - 1 :
                RemoveCode(chain, c)[k] = IF k < hit THEN chain[k] ELSE chain[k + 1]
<1> DEFINE First(k) == /\ chain[k].payload.code = c
                       /\ \A j \in 1 .. k-1 : chain[j].payload.code # c
           hit  == CHOOSE k \in DOMAIN chain : First(k)
           hits == {k \in DOMAIN chain : chain[k].payload.code = c}
<1>1. RemoveCode(chain, c) = SubSeq(chain, 1, hit - 1) \o SubSeq(chain, hit + 1, Len(chain))
  BY DEF RemoveCode
<1>2. \E k \in DOMAIN chain : First(k)
  <2>1. hits \subseteq Nat /\ hits # {}
    BY DEF HasCode
  <2>2. PICK k \in hits : \A j \in hits : ~ (<<j, k>> \in OpToRel(<, Nat))
    BY <2>1, WFMin, NatLessThanWellFounded
  <2>3. \A j \in hits : ~ (j < k)
    BY <2>1, <2>2 DEF OpToRel
  <2>4. QED
    BY <2>3
<1>3. hit \in DOMAIN chain /\ chain[hit].payload.code = c
  BY <1>2
<1> HIDE DEF hit
<1> DEFINE n == Len(chain)
           a == SubSeq(chain, 1, hit - 1)
           b == SubSeq(chain, hit + 1, n)
<1>4. n \in Nat /\ hit \in 1 .. n
  BY <1>3
<1>5. a \in Seq(Observation) /\ Len(a) = hit - 1 /\ \A k \in 1 .. hit - 1 : a[k] = chain[k]
  BY <1>4
<1>6. b \in Seq(Observation) /\ Len(b) = n - hit /\ \A k \in 1 .. n - hit : b[k] = chain[hit + k]
  BY <1>4
<1> HIDE DEF a, b
<1>7. a \o b \in Seq(Observation) /\ Len(a \o b) = n - 1
  <2>1. Len(a \o b) = Len(a) + Len(b)
    BY <1>5, <1>6
  <2>2. QED
    BY <1>4, <1>5, <1>6, <2>1
<1>8. ASSUME NEW k \in 1 .. n - 1
      PROVE  (a \o b)[k] = IF k < hit THEN chain[k] ELSE chain[k + 1]
  <2>1. CASE k < hit
    BY <1>4, <1>5, <1>6, <2>1
  <2>2. CASE ~ (k < hit)
    <3>1. k - (hit - 1) \in 1 .. n - hit /\ hit + (k - (hit - 1)) = k + 1
      BY <1>4, <2>2
    <3>2. (a \o b)[k] = b[k - (hit - 1)]
      BY <1>4, <1>5, <1>6, <2>2, <3>1
    <3>3. QED
      BY <1>6, <2>2, <3>1, <3>2
  <2>3. QED
    BY <2>1, <2>2
<1>9. QED
  BY <1>1, <1>3, <1>4, <1>7, <1>8 DEF a, b

(* What is left is a chain of observations.                                *)
LEMMA RemoveCodeType ==
  ASSUME NEW chain \in Seq(Observation), NEW c
  PROVE  RemoveCode(chain, c) \in Seq(Observation)
<1>1. CASE HasCode(chain, c)
  BY <1>1, RemoveCodeHit
<1>2. CASE ~ HasCode(chain, c)
  BY <1>2 DEF RemoveCode
<1>3. QED
  BY <1>1, <1>2

(* One observation per native code, and the latest first.                  *)
OnePerCode(chain) ==
  \A j, k \in 1 .. Len(chain) : j # k => chain[j].payload.code # chain[k].payload.code

LatestFirst(chain) ==
  \A j, k \in 1 .. Len(chain) : j < k => chain[j].sequence > chain[k].sequence

(* rest has the observations of chain with another code.                   *)
HasOthers(rest, chain, c) ==
  /\ rest \in Seq(Observation)
  /\ \A k \in 1 .. Len(rest) : \E j \in 1 .. Len(chain) :
       rest[k] = chain[j] /\ chain[j].payload.code # c
  /\ \A j \in 1 .. Len(chain) : chain[j].payload.code # c =>
       \E k \in 1 .. Len(rest) : rest[k] = chain[j]

(* In a chain with one observation per code, the others stay, in order.    *)
LEMMA RemoveCodeOthers ==
  ASSUME NEW chain \in Seq(Observation), NEW c, OnePerCode(chain), LatestFirst(chain)
  PROVE  /\ HasOthers(RemoveCode(chain, c), chain, c)
         /\ LatestFirst(RemoveCode(chain, c))
<1>0. PICK rest : rest = RemoveCode(chain, c)
  OBVIOUS
<1> SUFFICES HasOthers(rest, chain, c) /\ LatestFirst(rest)
  BY <1>0
<1> USE DEF OnePerCode, LatestFirst, HasOthers
<1>1. CASE ~ HasCode(chain, c)
  <2>1. rest = chain
    BY <1>0, <1>1 DEF RemoveCode
  <2>2. \A j \in 1 .. Len(chain) : chain[j].payload.code # c
    BY <1>1 DEF HasCode
  <2>3. QED
    BY <2>1, <2>2
<1>2. CASE HasCode(chain, c)
  <2>1. PICK n, hit : /\ n = Len(chain) /\ n \in Nat /\ hit \in 1 .. n
                      /\ chain[hit].payload.code = c
                      /\ rest \in Seq(Observation) /\ Len(rest) = n - 1
                      /\ \A k \in 1 .. n - 1 : rest[k] = IF k < hit THEN chain[k] ELSE chain[k + 1]
    BY <1>0, <1>2, RemoveCodeHit
  <2>2. ASSUME NEW k \in 1 .. n - 1
        PROVE  \E j \in 1 .. n : rest[k] = chain[j] /\ chain[j].payload.code # c
    <3>1. CASE k < hit
      BY <2>1, <3>1
    <3>2. CASE ~ (k < hit)
      <4>1. k + 1 \in 1 .. n /\ k + 1 # hit /\ rest[k] = chain[k + 1]
        BY <2>1, <3>2
      <4>2. QED
        BY <2>1, <4>1
    <3>3. QED
      BY <3>1, <3>2
  <2>3. ASSUME NEW j \in 1 .. n, chain[j].payload.code # c
        PROVE  \E k \in 1 .. n - 1 : rest[k] = chain[j]
    <3>1. CASE j < hit
      BY <2>1, <3>1
    <3>2. CASE ~ (j < hit)
      <4>1. j - 1 \in 1 .. n - 1 /\ ~ (j - 1 < hit) /\ (j - 1) + 1 = j
        BY <2>1, <2>3, <3>2
      <4>2. QED
        BY <2>1, <4>1
    <3>3. QED
      BY <3>1, <3>2
  <2>4. ASSUME NEW j \in 1 .. n - 1, NEW k \in 1 .. n - 1, j < k
        PROVE  rest[j].sequence > rest[k].sequence
    <3>1. PICK x, y : /\ x = IF j < hit THEN j ELSE j + 1
                      /\ y = IF k < hit THEN k ELSE k + 1
      OBVIOUS
    <3>2. x \in 1 .. n /\ y \in 1 .. n /\ x < y /\ rest[j] = chain[x] /\ rest[k] = chain[y]
      BY <2>1, <2>4, <3>1
    <3>3. QED
      BY <2>1, <3>2
  <2>5. QED
    BY <2>1, <2>2, <2>3, <2>4
<1>3. QED
  BY <1>1, <1>2

(* The normal observation put in place of the last active condition.       *)
LEMMA ClearedNormalType ==
  ASSUME NEW obs \in Observation
  PROVE  ClearedNormal(obs) \in Observation
BY DEF ClearedNormal, Observation, Payload

(* Adding to the chain of a condition keeps it a chain of observations.    *)
LEMMA AddConditionType ==
  ASSUME NEW chain \in Seq(Observation), NEW obs \in Observation
  PROVE  AddCondition(chain, obs) \in Seq(Observation)
<1>1. RemoveCode(chain, obs.payload.code) \in Seq(Observation)
  BY RemoveCodeType
<1>2. ClearedNormal(obs) \in Observation
  BY ClearedNormalType
<1>3. QED
  BY <1>1, <1>2 DEF AddCondition

(* Merging two data sets gives a data set: at most one entry per key.      *)
LEMMA MergeSetType ==
  ASSUME NEW old \in DataSet, NEW new \in DataSet
  PROVE  MergeSet(old, new) \in DataSet
<1> DEFINE kept == {k \in DOMAIN old \cup DOMAIN new : k \in DOMAIN new => new[k] # Removed}
<1>1. kept \in SUBSET Keys
  BY DEF DataSet
<1>2. MergeSet(old, new) \in [kept -> EntryValues \cup {Removed}]
  BY DEF DataSet, MergeSet
<1>3. QED
  BY <1>1, <1>2 DEF DataSet

(* Adding a data set observation merges it into the one it replaces.       *)
LEMMA AddDataSetType ==
  ASSUME NEW chain \in Seq(Observation), chain # <<>>, NEW obs \in Observation
  PROVE  AddDataSet(chain, obs) \in Seq(Observation)
<1>1. chain[1] \in Observation
  OBVIOUS
<1>2. MergeSet(chain[1].payload.set, obs.payload.set) \in DataSet
  BY <1>1, MergeSetType DEF Observation, Payload
<1>3. [obs EXCEPT !.payload.set = MergeSet(chain[1].payload.set, obs.payload.set)] \in Observation
  BY <1>2 DEF Observation, Payload
<1>4. QED
  BY <1>3 DEF AddDataSet

(* The three kinds of data item together.                                  *)
LEMMA AddToChainType ==
  ASSUME NEW chain \in Seq(Observation), NEW obs \in Observation
  PROVE  AddToChain(chain, obs) \in Seq(Observation)
<1>1. chain # <<>> => AddDataSet(chain, obs) \in Seq(Observation)
  BY AddDataSetType
<1>2. AddCondition(chain, obs) \in Seq(Observation)
  BY AddConditionType
<1>3. QED
  BY <1>1, <1>2 DEF AddToChain

(* Checkpoint::addObservation keeps a checkpoint well-formed.              *)
LEMMA AddObservationType ==
  ASSUME NEW cp \in CheckpointType, NEW obs \in Observation
  PROVE  addObservation(cp, obs) \in CheckpointType
<1>1. obs.item \in DataItems
  BY DEF Observation
<1>2. AddToChain(cp[obs.item], obs) \in Seq(Observation)
  BY <1>1, AddToChainType DEF CheckpointType
<1>3. QED
  BY <1>2 DEF addObservation, CheckpointType

(* A new checkpoint has no entries.                                        *)
LEMMA EmptyCheckpointType == EmptyCheckpoint \in CheckpointType
BY DEF EmptyCheckpoint, CheckpointType

(* A filtered copy of a checkpoint is a checkpoint.                        *)
LEMMA FilterType ==
  ASSUME NEW cp \in CheckpointType, NEW f
  PROVE  FilterCheckpoint(cp, f) \in CheckpointType
BY DEF FilterCheckpoint, CheckpointType

(* Adding an observation to a filtered copy of a checkpoint is the same as *)
(* filtering the checkpoint it was added to: what lets fetchCurrentData    *)
(* roll a filtered copy forward.                                           *)
LEMMA FilterCommutes ==
  ASSUME NEW cp \in CheckpointType, NEW obs \in Observation, NEW f
  PROVE  addFiltered(FilterCheckpoint(cp, f), f, obs) = FilterCheckpoint(addObservation(cp, obs), f)
<1>1. obs.item \in DataItems
  BY DEF Observation
<1>2. QED
  BY <1>1 DEF addFiltered, FilterCheckpoint, addObservation, CheckpointType

(* The constructor's first observation, which addToBuffer adds to m_first  *)
(* once when it is posted and once more when the buffer is full, is        *)
(* absorbed the second time.                                               *)
LEMMA AddTwice ==
  ASSUME NEW obs \in Observation, obs.item \in Events \/ isUnavailable(obs)
  PROVE  addObservation(addObservation(EmptyCheckpoint, obs), obs)
           = addObservation(EmptyCheckpoint, obs)
<1>1. obs.item \in DataItems
  BY DEF Observation
<1>2. AddToChain(<<>>, obs) = <<obs>>
  BY DEF AddToChain
<1>3. addObservation(EmptyCheckpoint, obs) = [EmptyCheckpoint EXCEPT ![obs.item] = <<obs>>]
  BY <1>1, <1>2 DEF addObservation, EmptyCheckpoint
<1>4. AddToChain(<<obs>>, obs) = <<obs>>
  <2>1. CASE obs.item \in Events
    <3>1. obs.item \notin Conditions /\ obs.item \notin DataSets
      BY <2>1, ItemsAssumption
    <3>2. QED
      BY <3>1 DEF AddToChain
  <2>2. CASE isUnavailable(obs)
    <3>1. AddCondition(<<obs>>, obs) = <<obs>>
      BY <2>2 DEF AddCondition, isUnavailable, isActive, Unavailable
    <3>2. AddDataSet(<<obs>>, obs) = <<obs>>
      BY <2>2 DEF AddDataSet
    <3>3. QED
      BY <3>1, <3>2 DEF AddToChain
  <2>3. QED
    BY <2>1, <2>2
<1>5. QED
  BY <1>1, <1>3, <1>4 DEF addObservation, EmptyCheckpoint

(* addToBuffer's stripping of unchanged entries keeps a payload            *)
(* well-formed.                                                            *)
LEMMA StrippedType ==
  ASSUME NEW cp \in CheckpointType, NEW item \in DataItems, NEW p \in Payload
  PROVE  Stripped(cp, item, p) \in Payload
<1>1. SetDifference(cp, item, p) \in DataSet
  <2> DEFINE new == p.set
             old == cp[item][1].payload.set
             differs == {k \in DOMAIN new : ~ (k \in DOMAIN old /\ old[k] = new[k])}
  <2>1. new \in DataSet
    BY DEF Payload
  <2>2. differs \in SUBSET Keys
    BY <2>1 DEF DataSet
  <2>3. [k \in differs |-> new[k]] \in [differs -> EntryValues \cup {Removed}]
    BY <2>1 DEF DataSet
  <2>4. [k \in differs |-> new[k]] \in DataSet
    BY <2>2, <2>3 DEF DataSet
  <2>5. QED
    BY <2>1, <2>4 DEF SetDifference
<1>2. QED
  BY <1>1 DEF Stripped, Payload

(* Stripping does not touch the value of a payload.                        *)
LEMMA StrippedValue ==
  ASSUME NEW cp, NEW item, NEW p \in Payload
  PROVE  Stripped(cp, item, p).value = p.value
BY DEF Stripped, Payload

(* The payload of a value or of UNAVAILABLE is well-formed.                *)
LEMMA PlainPayloadType ==
  ASSUME NEW v \in Values \cup Levels
  PROVE  PlainPayload(v) \in Payload
<1>1. NoSet \in [{} -> EntryValues \cup {Removed}]
  BY DEF NoSet
<1>2. NoSet \in DataSet
  BY <1>1 DEF DataSet
<1>3. QED
  BY <1>2 DEF PlainPayload, Payload

(* Everything a source can deliver for an item is well-formed.             *)
LEMMA PayloadsOfType ==
  ASSUME NEW item \in DataItems, NEW p \in PayloadsOf(item)
  PROVE  p \in Payload
<1>1. NoSet \in DataSet
  <2>1. NoSet \in [{} -> EntryValues \cup {Removed}]
    BY DEF NoSet
  <2>2. QED
    BY <2>1 DEF DataSet
<1>2. CASE p = PlainPayload(Unavailable)
  BY <1>2, PlainPayloadType DEF Levels
<1>3. CASE item \in Conditions /\ \E l \in Levels, c \in Codes \cup {NoCode} : p = ConditionPayload(l, c)
  BY <1>1, <1>3 DEF ConditionPayload, Payload
<1>4. CASE item \in DataSets /\ \E s \in DataSet, r \in BOOLEAN : p = SetPayload(s, r)
  BY <1>4 DEF SetPayload, Payload
<1>5. CASE \E v \in Values : p = PlainPayload(v)
  BY <1>5, PlainPayloadType
<1>6. QED
  BY <1>2, <1>3, <1>4, <1>5 DEF PayloadsOf, DataItems

(* The Observation constructor makes an observation.                       *)
LEMMA MakeObservationType ==
  ASSUME NEW item \in DataItems, NEW seq \in Nat \ {0}, NEW p \in Payload
  PROVE  MakeObservation(item, seq, p) \in Observation
BY DEF MakeObservation, Observation

(* What is posted for a condition has a level and never resets; what is    *)
(* posted for a data set has entries or is unavailable.                    *)
LEMMA StrippedSource ==
  ASSUME NEW cp, NEW item, NEW p \in PayloadsOf(item), NEW q, q = Stripped(cp, item, p)
  PROVE  /\ item \in Conditions => q.reset = FALSE /\ q.value \in Levels
         /\ item \in DataSets => /\ q.value # "NORMAL"
                                 /\ q.value = Unavailable => DOMAIN q.set = {}
<1>1. CASE item \in Conditions
  <2>1. item \notin DataSets /\ q = p
    BY <1>1, ItemsAssumption DEF Stripped
  <2>2. \/ p = PlainPayload(Unavailable)
        \/ \E l \in Levels, c \in Codes \cup {NoCode} : p = ConditionPayload(l, c)
    <3>1. item \notin DataSets
      BY <1>1, ItemsAssumption
    <3>2. PayloadsOf(item) = {PlainPayload(Unavailable)} \cup
                               {ConditionPayload(l, c) : l \in Levels \ {Unavailable}, c \in Codes \cup {NoCode}}
      BY <1>1, <3>1 DEF PayloadsOf
    <3>3. QED
      BY <3>2
  <2>3. QED
    BY <2>1, <2>2 DEF PlainPayload, ConditionPayload, Levels
<1>2. CASE item \in DataSets
  <2>1. \/ p = PlainPayload(Unavailable)
        \/ \E s \in DataSet, r \in BOOLEAN : p = SetPayload(s, r)
    <3>1. item \notin Conditions
      BY <1>2, ItemsAssumption
    <3>2. PayloadsOf(item) = {PlainPayload(Unavailable)} \cup {SetPayload(s, r) : s \in DataSet, r \in BOOLEAN}
      BY <1>2, <3>1 DEF PayloadsOf
    <3>3. QED
      BY <3>2
  <2>2. q = p \/ q = [p EXCEPT !.set = SetDifference(cp, item, p)]
    BY DEF Stripped
  <2>3. CASE p = PlainPayload(Unavailable)
    <3>1. p.value = Unavailable /\ DOMAIN p.set = {}
      BY <2>3 DEF PlainPayload, NoSet
    <3>2. SetDifference(cp, item, p) = p.set
      BY <3>1 DEF SetDifference
    <3>3. q.value = Unavailable /\ q.set = p.set
      BY <2>2, <2>3, <3>1, <3>2 DEF PlainPayload
    <3>4. QED
      BY <1>2, <3>1, <3>3, ItemsAssumption DEF Unavailable
  <2>4. CASE \E s \in DataSet, r \in BOOLEAN : p = SetPayload(s, r)
    <3>1. q.value = NoValue
      BY <2>2, <2>4 DEF SetPayload
    <3>2. QED
      BY <1>2, <3>1, ItemsAssumption DEF NoValue, Unavailable
  <2>5. QED
    BY <2>1, <2>3, <2>4
<1>3. QED
  BY <1>1, <1>2, ItemsAssumption

-----------------------------------------------------------------------------
(* The buffer.                                                            *)

(* The first sequence number lies in the window of the buffer.             *)
LEMMA FirstFacts ==
  ASSUME NEW n \in Nat \ {0}
  PROVE  /\ FirstOf(n) \in 1 .. n
         /\ n > 1 => FirstOf(n) < n
         /\ n - FirstOf(n) <= Size
         /\ FirstOf(n + 1) >= FirstOf(n)
         /\ \A s \in Window(FirstOf(n), n) : s \in Nat \ {0} /\ s < n /\ n - s <= Size
BY BufferAssumption DEF FirstOf, Window

(* Every sequence number has a slot.                                       *)
LEMMA SlotRange ==
  ASSUME NEW s \in Nat
  PROVE  get_element_id(s) \in 0 .. Size - 1
BY BufferAssumption, ModRange DEF get_element_id

(* Two sequence numbers less than Size apart never share a slot.           *)
LEMMA SlotInjective ==
  ASSUME NEW s \in Nat, NEW t \in Nat, s # t, s - t < Size, t - s < Size
  PROVE  get_element_id(s) # get_element_id(t)
<1>1. CASE s < t
  BY <1>1, BufferAssumption, ModInjective DEF get_element_id
<1>2. CASE t < s
  BY <1>2, BufferAssumption, ModInjective DEF get_element_id
<1>3. QED
  BY <1>1, <1>2

(* A sequence number that was assigned has a resident in the window, the   *)
(* only one in its slot, and itself if the window still reaches it.        *)
LEMMA ResidentFacts ==
  ASSUME NEW n \in Nat \ {0}, NEW s \in Nat \ {0}, s < n
  PROVE  /\ Resident(s, FirstOf(n), n) \in Window(FirstOf(n), n)
         /\ get_element_id(Resident(s, FirstOf(n), n)) = get_element_id(s)
         /\ s \in Window(FirstOf(n), n) => Resident(s, FirstOf(n), n) = s
<1> DEFINE W == Window(FirstOf(n), n)
           R == Resident(s, FirstOf(n), n)
<1>1. \E u \in W : get_element_id(u) = get_element_id(s)
  <2>1. CASE n <= Size
    BY <2>1, BufferAssumption DEF FirstOf, Window
  <2>2. CASE n > Size
    <3> DEFINE t == n - 1
    <3>1. t \in Nat /\ s <= t /\ Size \in Nat \ {0}
      BY BufferAssumption
    <3> HIDE DEF t
    <3>2. PICK u \in t - Size + 1 .. t : u >= s /\ u % Size = s % Size
      BY <3>1, ModCovers
    <3>3. u \in W
      BY <2>2, <3>1, <3>2 DEF FirstOf, Window, t
    <3>4. QED
      BY <3>2, <3>3 DEF get_element_id
  <2>3. QED
    BY <2>1, <2>2, BufferAssumption
<1>2. R \in W /\ get_element_id(R) = get_element_id(s)
  BY <1>1 DEF Resident
<1>3. ASSUME s \in W
      PROVE  R = s
  <2>1. R \in Nat /\ R - s < Size /\ s - R < Size
    BY <1>2, <1>3, BufferAssumption, FirstFacts DEF Window, FirstOf
  <2>2. QED
    BY <1>2, <2>1, SlotInjective
<1>4. QED
  BY <1>2, <1>3

(* getFirstSequence is FirstOf the next sequence number.                   *)
LEMMA FirstSequence ==
  /\ getFirstSequence = FirstOf(m_sequence)
  /\ getFirstSequence' = FirstOf(m_sequence')
BY DEF getFirstSequence, FirstOf

-----------------------------------------------------------------------------
(* Initially the buffer, the checkpoints and the history are empty.        *)
LEMMA InitIInv == Init => IInv
<1> SUFFICES ASSUME Init
             PROVE  IInv
  OBVIOUS
<1> USE DEF Init
<1>1. IdleRequest \in RequestType
  BY EmptyCheckpointType DEF IdleRequest, RequestType, NoStart
<1>2. TypeOK
  BY <1>1, EmptyCheckpointType DEF TypeOK
<1>3. Window(getFirstSequence, m_sequence) = {}
  BY BufferAssumption DEF Window, getFirstSequence
<1>4. HistoryInv
  BY DEF HistoryInv
<1>5. SlotsInv
  <2>1. \A s \in m_sequence .. Size : m_slidingBuffer[get_element_id(s)] = Null
    BY SlotRange, BufferAssumption
  <2>2. QED
    BY <1>3, <2>1 DEF SlotsInv, WindowIntact
<1>6. CheckpointsInv
  BY <1>3 DEF CheckpointsInv, StateAfter
<1>7. RequestInv /\ CurrentIsReplay
  BY DEF RequestInv, RequestOK, CurrentIsReplay, AnswerIsReplay, IdleRequest
<1>8. QED
  BY <1>2, <1>4, <1>5, <1>6, <1>7 DEF IInv

-----------------------------------------------------------------------------
(* What addToBuffer does, in terms of the observation it makes.            *)
Adds(obs) ==
  /\ obs \in Observation
  /\ obs.sequence = m_sequence
  /\ m_sequence = 1 => obs.item \in Events \/ isUnavailable(obs)
  /\ m_sequenceLock = Free
  /\ m_sequence' = m_sequence + 1
  /\ m_slidingBuffer' = [m_slidingBuffer EXCEPT ![get_element_id(m_sequence)] = obs]
  /\ m_latest' = addObservation(m_latest, obs)
  /\ m_first' = AdvanceFirst(m_slidingBuffer', obs)
  /\ m_checkpoints' = TakeCheckpoint(get_element_id(m_sequence), m_latest')
  /\ log' = Append(log, obs)
  /\ states' = Append(states, m_latest')
  /\ m_sequenceLock' = m_sequenceLock
  /\ request' = request

(* What an observation of a condition can be.                              *)
ConditionObservation(obs) ==
  /\ obs \in Observation
  /\ obs.payload.reset = FALSE
  /\ obs.payload.value \in Levels

(* What an observation of a data set can be.                               *)
DataSetObservation(obs) ==
  /\ obs \in Observation
  /\ obs.payload.value # "NORMAL"
  /\ isUnavailable(obs) => DOMAIN obs.payload.set = {}

Sourced(obs) ==
  /\ obs.item \in Conditions => ConditionObservation(obs)
  /\ obs.item \in DataSets => DataSetObservation(obs)

(* Both ways of calling addToBuffer add a well-formed observation, and the *)
(* first one ever is the constructor's.                                    *)
LEMMA WriteAdds ==
  ASSUME IInv, Write
  PROVE  \E obs : Adds(obs) /\ Sourced(obs)
<1> USE DEF IInv, TypeOK
<1>1. ASSUME NEW item \in DataItems, NEW p \in PayloadsOf(item), addToBuffer(item, p),
             m_sequence = 1 => item \in Events \/ p.value = Unavailable
      PROVE  \E obs : Adds(obs) /\ Sourced(obs)
  <2> DEFINE q == Stripped(m_latest, item, p)
             obs == MakeObservation(item, m_sequence, q)
  <2>1. p \in Payload /\ q \in Payload /\ q.value = p.value
    BY PayloadsOfType, StrippedType, StrippedValue
  <2>2. obs \in Observation
    BY <2>1, MakeObservationType
  <2>3. obs.sequence = m_sequence /\ obs.item = item /\ obs.payload = q
    BY DEF MakeObservation
  <2>4. m_sequence = 1 => obs.item \in Events \/ isUnavailable(obs)
    BY <1>1, <2>1, <2>3 DEF isUnavailable
  <2>5. Adds(obs)
    BY <1>1, <2>2, <2>3, <2>4 DEF addToBuffer, Adds
  <2>6. /\ item \in Conditions => q.reset = FALSE /\ q.value \in Levels
        /\ item \in DataSets => /\ q.value # "NORMAL"
                                /\ q.value = Unavailable => DOMAIN q.set = {}
    BY StrippedSource
  <2> HIDE DEF obs, q
  <2>7. Sourced(obs)
    BY <2>2, <2>3, <2>6 DEF Sourced, ConditionObservation, DataSetObservation, isUnavailable
  <2>8. QED
    BY <2>5, <2>7
<1>2. ASSUME NEW item \in DataItems, ConstructItem(item)
      PROVE  \E obs : Adds(obs) /\ Sourced(obs)
  <2>1. PICK p : /\ \/ p = PlainPayload(Unavailable)
                    \/ item \in Events /\ (\E v \in Values : p = PlainPayload(v))
                 /\ addToBuffer(item, p)
    BY <1>2 DEF ConstructItem
  <2>2. p \in PayloadsOf(item)
    <3>1. CASE p = PlainPayload(Unavailable)
      BY <3>1 DEF PayloadsOf
    <3>2. CASE item \in Events /\ (\E v \in Values : p = PlainPayload(v))
      <4>1. item \notin Conditions /\ item \notin DataSets
        BY <3>2, ItemsAssumption
      <4>2. PayloadsOf(item) = {PlainPayload(Unavailable)} \cup {PlainPayload(v) : v \in Values}
        BY <4>1 DEF PayloadsOf
      <4>3. QED
        BY <3>2, <4>2
    <3>3. QED
      BY <2>1, <3>1, <3>2
  <2>3. item \in Events \/ p.value = Unavailable
    BY <2>1 DEF PlainPayload
  <2>4. QED
    BY <1>1, <2>1, <2>2, <2>3
<1>3. ASSUME NEW item \in DataItems, NEW p \in PayloadsOf(item), Post(item, p)
      PROVE  \E obs : Adds(obs) /\ Sourced(obs)
  <2>1. m_sequence # 1
    BY <1>3 DEF Post, Constructed, CheckpointsInv, StateAfter, EmptyCheckpoint
  <2>2. QED
    BY <1>1, <1>3, <2>1 DEF Post
<1>4. QED
  BY <1>2, <1>3 DEF Write

-----------------------------------------------------------------------------
(* addToBuffer leaves the history's past alone and extends it by one.      *)
LEMMA AddHistory ==
  ASSUME IInv, NEW obs, Adds(obs)
  PROVE  /\ m_sequence \in Nat \ {0}
         /\ m_latest' \in CheckpointType
         /\ \A s \in 1 .. m_sequence - 1 : log'[s] = log[s] /\ states'[s] = states[s]
         /\ log'[m_sequence] = obs
         /\ states'[m_sequence] = m_latest'
         /\ HistoryInv'
<1> USE DEF IInv, TypeOK, Adds
<1>1. m_sequence \in Nat \ {0} /\ m_latest' \in CheckpointType
  BY AddObservationType
<1>2. /\ Len(log') = m_sequence
      /\ Len(states') = m_sequence
      /\ \A s \in 1 .. m_sequence - 1 : log'[s] = log[s] /\ states'[s] = states[s]
      /\ log'[m_sequence] = obs
      /\ states'[m_sequence] = m_latest'
  BY <1>1 DEF HistoryInv
<1>3. ASSUME NEW s \in 1 .. m_sequence
      PROVE  states'[s] = addObservation(StateAfter(s - 1)', log'[s])
  <2>0. s = m_sequence \/ s < m_sequence
    BY <1>1
  <2>1. StateAfter(s - 1)' = StateAfter(s - 1)
    BY <1>1, <1>2 DEF StateAfter
  <2>2. CASE s = m_sequence
    <3>1. m_latest' = addObservation(m_latest, obs)
      OBVIOUS
    <3>2. m_latest = StateAfter(m_sequence - 1)
      BY DEF CheckpointsInv
    <3>3. QED
      BY <1>2, <2>1, <2>2, <3>1, <3>2
  <2>3. CASE s < m_sequence
    <3>1. s \in 1 .. m_sequence - 1
      BY <1>1, <2>3
    <3>2. states[s] = addObservation(StateAfter(s - 1), log[s])
      BY <3>1 DEF HistoryInv
    <3>3. QED
      BY <1>2, <2>1, <3>1, <3>2
  <2>4. QED
    BY <2>0, <2>2, <2>3
<1>4. log'[1].item \in Events \/ isUnavailable(log'[1])
  <2>1. CASE m_sequence = 1
    BY <1>2, <2>1
  <2>2. CASE m_sequence > 1
    BY <1>1, <1>2, <2>2 DEF HistoryInv
  <2>3. QED
    BY <1>1, <2>1, <2>2
<1>5. HistoryInv'
  BY <1>1, <1>2, <1>3, <1>4 DEF HistoryInv
<1>6. QED
  BY <1>1, <1>2, <1>5

(* Inside the new window, only the slot of the new observation changes.    *)
LEMMA AddWindow ==
  ASSUME IInv, NEW obs, Adds(obs), NEW s \in Window(getFirstSequence', m_sequence)
  PROVE  /\ s \in Window(getFirstSequence, m_sequence)
         /\ get_element_id(s) # get_element_id(m_sequence)
         /\ m_slidingBuffer'[get_element_id(s)] = log[s]
<1> USE DEF IInv, TypeOK, Adds
<1>1. s \in Nat \ {0} /\ s < m_sequence /\ m_sequence - s < Size
  BY FirstSequence, BufferAssumption DEF Window, FirstOf
<1>2. s \in Window(getFirstSequence, m_sequence)
  BY <1>1, FirstSequence, BufferAssumption DEF Window, FirstOf
<1>3. get_element_id(s) # get_element_id(m_sequence)
  BY <1>1, SlotInjective, BufferAssumption
<1>4. get_element_id(s) \in 0 .. Size - 1
  BY <1>1, SlotRange
<1>5. QED
  BY <1>2, <1>3, <1>4 DEF SlotsInv, WindowIntact

(* addToBuffer keeps the slots right.                                      *)
LEMMA AddSlots ==
  ASSUME IInv, NEW obs, Adds(obs)
  PROVE  SlotsInv'
<1> USE DEF IInv, TypeOK, Adds
<1>1. get_element_id(m_sequence) \in 0 .. Size - 1
  BY SlotRange
<1>2. ASSUME NEW s \in Window(getFirstSequence', m_sequence')
      PROVE  m_slidingBuffer'[get_element_id(s)] = log'[s]
  <2>1. CASE s = m_sequence
    BY <1>1, <2>1, AddHistory
  <2>2. CASE s # m_sequence
    <3>1. s \in Window(getFirstSequence', m_sequence)
      BY <2>2, FirstSequence, FirstFacts DEF Window
    <3>2. s \in 1 .. m_sequence - 1
      BY <3>1, FirstSequence, FirstFacts DEF Window
    <3>3. QED
      BY <3>1, <3>2, AddWindow, AddHistory
  <2>3. QED
    BY <2>1, <2>2
<1>3. ASSUME NEW s \in m_sequence' .. Size
      PROVE  m_slidingBuffer'[get_element_id(s)] = Null
  <2>1. s \in m_sequence .. Size /\ s # m_sequence /\ s - m_sequence < Size /\ s \in Nat
    BY BufferAssumption
  <2>2. get_element_id(s) # get_element_id(m_sequence)
    BY <2>1, SlotInjective, BufferAssumption
  <2>3. get_element_id(s) \in 0 .. Size - 1
    BY <2>1, SlotRange
  <2>4. m_slidingBuffer[get_element_id(s)] = Null
    BY <2>1 DEF SlotsInv
  <2>5. QED
    BY <2>2, <2>3, <2>4
<1>4. QED
  BY <1>2, <1>3 DEF SlotsInv, WindowIntact, get_element_id

(* addToBuffer moves m_first along with the window.                        *)
LEMMA AddFirst ==
  ASSUME IInv, NEW obs, Adds(obs)
  PROVE  m_first' = states'[getFirstSequence']
<1> DEFINE n == m_sequence
           u == FirstOf(n + 1)
           oldest == m_slidingBuffer'[get_element_id(n + 1)]
           primed == IF n = 1 THEN addObservation(m_first, obs) ELSE m_first
<1>1. /\ n \in Nat \ {0} /\ Size \in Nat \ {0}
      /\ obs \in Observation /\ obs.sequence = n
      /\ n = 1 => obs.item \in Events \/ isUnavailable(obs)
  BY BufferAssumption DEF IInv, TypeOK, Adds
<1>2. m_first' = IF oldest = Null THEN primed ELSE addObservation(primed, oldest)
  BY <1>1 DEF Adds, AdvanceFirst
<1>3. /\ \A s \in 1 .. n - 1 : log'[s] = log[s] /\ states'[s] = states[s]
      /\ log'[n] = obs
      /\ states'[n] = addObservation(m_latest, obs)
  BY AddHistory DEF Adds
<1>4. /\ n = 1 => m_first = EmptyCheckpoint /\ m_latest = EmptyCheckpoint
      /\ n > 1 => m_first = states[FirstOf(n)] /\ m_latest = states[n - 1]
  BY <1>1, FirstSequence DEF IInv, CheckpointsInv, StateAfter
<1>5. getFirstSequence' = u
  BY FirstSequence DEF Adds
<1>6. CASE n + 1 <= Size
  <2>1. u = 1 /\ FirstOf(n) = 1
    BY <1>1, <1>6 DEF FirstOf
  <2>2. oldest = Null
    <3>1. get_element_id(n + 1) # get_element_id(n)
      BY <1>1, <1>6, SlotInjective
    <3>2. get_element_id(n + 1) \in 0 .. Size - 1
      BY <1>1, SlotRange
    <3>3. m_slidingBuffer[get_element_id(n + 1)] = Null
      BY <1>1, <1>6 DEF IInv, SlotsInv
    <3>4. QED
      BY <3>1, <3>2, <3>3 DEF Adds, IInv, TypeOK
  <2>3. CASE n = 1
    BY <1>2, <1>3, <1>4, <1>5, <2>1, <2>2, <2>3
  <2>4. CASE n > 1
    BY <1>1, <1>2, <1>3, <1>4, <1>5, <2>1, <2>2, <2>4
  <2>5. QED
    BY <1>1, <2>3, <2>4
<1>7. CASE n + 1 > Size
  <2>1. u = n + 1 - Size /\ u \in 1 .. n
    BY <1>1, <1>7 DEF FirstOf
  <2>2. get_element_id(n + 1) = get_element_id(u)
    <3>1. u \in Nat /\ n + 1 = u + Size * 1 /\ 1 \in Nat
      BY <1>1, <2>1
    <3>2. (u + Size * 1) % Size = u % Size
      BY <1>1, <3>1, ModLaps
    <3>3. QED
      BY <3>1, <3>2 DEF get_element_id
  <2>3. CASE u = n
    <3>1. oldest = obs /\ oldest # Null
      BY <1>1, <2>2, <2>3, SlotRange, BufferAssumption DEF Adds, IInv, TypeOK
    <3>2. CASE n = 1
      <4>1. addObservation(addObservation(EmptyCheckpoint, obs), obs) = addObservation(EmptyCheckpoint, obs)
        BY <1>1, <3>2, AddTwice
      <4>2. QED
        BY <1>2, <1>3, <1>4, <1>5, <2>3, <3>1, <3>2, <4>1
    <3>3. CASE n > 1
      <4>1. FirstOf(n) = n - 1
        BY <1>1, <2>1, <2>3, <3>3 DEF FirstOf
      <4>2. QED
        BY <1>1, <1>2, <1>3, <1>4, <1>5, <2>3, <3>1, <3>3, <4>1
    <3>4. QED
      BY <1>1, <3>2, <3>3
  <2>4. CASE u < n
    <3>1. u \in Window(getFirstSequence', m_sequence) /\ n > 1
      BY <1>1, <1>5, <2>1, <2>4 DEF Window
    <3>2. oldest = log[u] /\ log[u] \in Observation /\ oldest # Null
      <4>1. oldest = log[u]
        BY <2>2, <3>1, AddWindow
      <4>2. log[u] \in Observation
        BY <1>1, <2>1, <2>4 DEF IInv, TypeOK, HistoryInv
      <4>3. QED
        BY <4>1, <4>2, BufferAssumption
    <3>3. states'[u] = states[u]
      BY <1>1, <1>3, <2>1, <2>4
    <3>4. CASE n > Size
      <4>1. FirstOf(n) = u - 1 /\ u - 1 # 0 /\ u \in 1 .. n - 1
        BY <1>1, <2>1, <2>4, <3>4 DEF FirstOf
      <4>2. states[u] = addObservation(StateAfter(u - 1), log[u])
        BY <4>1 DEF IInv, HistoryInv
      <4>3. StateAfter(u - 1) = states[u - 1]
        BY <4>1 DEF StateAfter
      <4>4. QED
        BY <1>2, <1>4, <1>5, <3>1, <3>2, <3>3, <4>1, <4>2, <4>3
    <3>5. CASE n = Size
      <4>1. FirstOf(n) = 1 /\ u = 1
        BY <1>1, <2>1, <3>5 DEF FirstOf
      <4>2. states[1] = addObservation(EmptyCheckpoint, log[1])
        BY <1>1, <3>1 DEF IInv, HistoryInv, StateAfter
      <4>3. log[1].item \in Events \/ isUnavailable(log[1])
        BY <3>1 DEF IInv, HistoryInv
      <4>4. addObservation(states[1], log[1]) = states[1]
        BY <3>2, <4>1, <4>2, <4>3, AddTwice
      <4>5. QED
        BY <1>2, <1>4, <1>5, <3>1, <3>2, <3>3, <4>1, <4>4
    <3>6. QED
      BY <1>1, <1>7, <3>4, <3>5
  <2>5. QED
    BY <1>1, <2>1, <2>3, <2>4
<1>8. QED
  BY <1>1, <1>6, <1>7

(* The slot of a checkpoint has a place among the checkpoints.             *)
LEMMA CheckpointPlace ==
  ASSUME NEW k \in 0 .. Size - 1
  PROVE  k \div CheckpointFreq \in 0 .. Size \div CheckpointFreq
BY BufferAssumption, DivMonotone

(* addToBuffer takes a checkpoint of the latest state where one is due,    *)
(* and overwrites no other checkpoint of the window.                       *)
LEMMA AddCheckpoints ==
  ASSUME IInv, NEW obs, Adds(obs)
  PROVE  CheckpointsInv'
<1> DEFINE n == m_sequence
           here == get_element_id(n)
<1>1. n \in Nat \ {0} /\ m_sequence' = n + 1 /\ here \in 0 .. Size - 1
  BY SlotRange DEF IInv, TypeOK, Adds
<1>2. m_latest' = StateAfter(m_sequence - 1)'
  BY <1>1, AddHistory DEF StateAfter
<1>3. m_first' = (IF m_sequence' = 1 THEN EmptyCheckpoint ELSE states'[getFirstSequence'])
  BY <1>1, AddFirst
<1>4. ASSUME NEW s \in Window(getFirstSequence', m_sequence'), get_element_id(s) % CheckpointFreq = 0
      PROVE  m_checkpoints'[get_element_id(s) \div CheckpointFreq] = states'[s]
  <2> DEFINE k == get_element_id(s)
  <2>1. m_checkpoints' = IF here % CheckpointFreq = 0
                           THEN [m_checkpoints EXCEPT ![here \div CheckpointFreq] = m_latest']
                           ELSE m_checkpoints
    BY DEF Adds, TakeCheckpoint
  <2>2. m_checkpoints \in [0 .. Size \div CheckpointFreq -> CheckpointType]
    BY DEF IInv, TypeOK
  <2>3. CASE s = n
    <3>1. here \div CheckpointFreq \in 0 .. Size \div CheckpointFreq
      BY <1>1, CheckpointPlace
    <3>2. states'[n] = m_latest'
      BY AddHistory
    <3>3. QED
      BY <1>4, <2>1, <2>2, <2>3, <3>1, <3>2
  <2>4. CASE s # n
    <3>1. s \in Window(getFirstSequence', n) /\ s \in 1 .. n - 1
      BY <1>1, <2>4, FirstSequence, FirstFacts DEF Window
    <3>2. s \in Window(getFirstSequence, n) /\ k # here
      BY <3>1, AddWindow
    <3>3. k \in 0 .. Size - 1
      BY <3>1, SlotRange
    <3>4. m_checkpoints[k \div CheckpointFreq] = states[s]
      BY <1>4, <3>2 DEF IInv, CheckpointsInv
    <3>5. states'[s] = states[s]
      BY <3>1, AddHistory
    <3>6. here % CheckpointFreq = 0 => here \div CheckpointFreq # k \div CheckpointFreq
      BY <1>1, <1>4, <3>2, <3>3, MultipleInjective, BufferAssumption
    <3>7. k \div CheckpointFreq \in 0 .. Size \div CheckpointFreq
      BY <3>3, CheckpointPlace
    <3>8. QED
      BY <2>1, <2>2, <3>4, <3>5, <3>6, <3>7
  <2>5. QED
    BY <2>3, <2>4
<1>5. QED
  BY <1>2, <1>3, <1>4 DEF CheckpointsInv, get_element_id

(* addToBuffer keeps every variable in its type.                           *)
LEMMA AddType ==
  ASSUME IInv, NEW obs, Adds(obs)
  PROVE  TypeOK'
<1>1. TypeOK /\ m_latest' \in CheckpointType /\ obs \in Observation
  BY AddHistory DEF IInv, Adds
<1>2. m_sequence' \in Nat \ {0} /\ m_sequenceLock' \in Readers \cup {Free} /\ request' \in [Readers -> RequestType]
  BY <1>1 DEF TypeOK, Adds
<1>3. m_slidingBuffer' \in [0 .. Size - 1 -> Observation \cup {Null}]
  BY <1>1 DEF TypeOK, Adds
<1>4. log' \in Seq(Observation) /\ states' \in Seq(CheckpointType)
  BY <1>1 DEF TypeOK, Adds
<1>5. m_first' \in CheckpointType
  <2>1. getFirstSequence' \in 1 .. m_sequence
    BY <1>1, FirstSequence, BufferAssumption DEF FirstOf, Adds, TypeOK
  <2>2. Len(states') = m_sequence
    BY <1>1 DEF Adds, IInv, HistoryInv, TypeOK
  <2>3. QED
    BY <1>4, <2>1, <2>2, AddFirst
<1>6. m_checkpoints' \in [0 .. Size \div CheckpointFreq -> CheckpointType]
  BY <1>1 DEF TypeOK, Adds, TakeCheckpoint
<1>7. QED
  BY <1>1, <1>2, <1>3, <1>4, <1>5, <1>6 DEF TypeOK

(* A writer runs only when no reader is inside a fetch; finished answers   *)
(* refer to states that stay.                                              *)
LEMMA AddRequests ==
  ASSUME IInv, NEW obs, Adds(obs)
  PROVE  RequestInv' /\ CurrentIsReplay'
<1>1. /\ m_sequence \in Nat \ {0}
      /\ m_sequence' = m_sequence + 1
      /\ m_sequenceLock = Free
      /\ request' = request
      /\ request \in [Readers -> RequestType]
  BY DEF IInv, TypeOK, Adds
<1>2. ASSUME NEW r \in Readers
      PROVE  request[r].pc \notin {"rolling", "scanning"}
  BY <1>1, BufferAssumption DEF IInv, RequestInv, RequestOK, RollingInv, Locked
<1>3. RequestInv'
  <2> SUFFICES ASSUME NEW r \in Readers
               PROVE  /\ request[r].pc \in {"current", "currentDone"} =>
                           m_sequence' > 1 /\ request[r].start < m_sequence'
                      /\ request[r].pc = "currentDone" =>
                           /\ request[r].seq \in 2 .. m_sequence'
                           /\ request[r].start < request[r].seq
                           /\ request[r].firstSeq = FirstOf(request[r].seq)
    BY <1>1, <1>2 DEF RequestInv, RequestOK, FirstOf
  <2>1. request[r].start \in Nat /\ request[r].seq \in Nat
    BY <1>1 DEF RequestType
  <2>2. QED
    BY <1>1, <2>1 DEF IInv, RequestInv, RequestOK
<1>4. CurrentIsReplay'
  <2> SUFFICES ASSUME NEW r \in Readers, request[r].pc = "currentDone"
               PROVE  LET q == request[r]
                          s == IF q.start = NoStart THEN q.seq - 1 ELSE Resident(q.start, q.firstSeq, q.seq)
                      IN  /\ q.check = FilterCheckpoint(states'[s], q.filter)
                          /\ q.start \in Window(q.firstSeq, q.seq) => s = q.start
    BY <1>1 DEF CurrentIsReplay, AnswerIsReplay, Resident, Window, get_element_id
  <2> DEFINE q == request[r]
             s == IF q.start = NoStart THEN q.seq - 1 ELSE Resident(q.start, q.firstSeq, q.seq)
  <2>1. /\ q.seq \in 2 .. m_sequence /\ q.start < q.seq /\ q.firstSeq = FirstOf(q.seq)
        /\ q.start \in Nat
    BY <1>1 DEF IInv, RequestInv, RequestOK, RequestType
  <2>2. s \in 1 .. m_sequence - 1
    <3>1. CASE q.start = NoStart
      BY <1>1, <2>1, <3>1
    <3>2. CASE q.start # NoStart
      <4>1. s \in Window(FirstOf(q.seq), q.seq)
        BY <2>1, <3>2, ResidentFacts DEF NoStart
      <4>2. q.seq \in Nat \ {0}
        BY <1>1, <2>1
      <4>3. FirstOf(q.seq) \in 1 .. q.seq
        BY <4>2, BufferAssumption DEF FirstOf
      <4>4. QED
        BY <1>1, <2>1, <4>1, <4>3 DEF Window
    <3>3. QED
      BY <3>1, <3>2
  <2>3. states'[s] = states[s]
    BY <2>2, AddHistory
  <2>4. /\ q.check = FilterCheckpoint(states[s], q.filter)
        /\ q.start \in Window(q.firstSeq, q.seq) => s = q.start
    BY DEF IInv, CurrentIsReplay, AnswerIsReplay
  <2>5. QED
    BY <2>3, <2>4
<1>5. QED
  BY <1>3, <1>4

(* addToBuffer preserves the invariant.                                    *)
LEMMA WriteIInv ==
  ASSUME IInv, Write
  PROVE  IInv'
<1>1. PICK obs : Adds(obs)
  BY WriteAdds
<1>2. QED
  BY <1>1, AddType, AddHistory, AddSlots, AddCheckpoints, AddRequests DEF IInv

-----------------------------------------------------------------------------
(* What a step of reader r does: it writes its own locals, and touches the *)
(* lock only when it is free or its own.                                   *)
Reads(r, q) ==
  /\ q \in RequestType
  /\ request' = [request EXCEPT ![r] = q]
  /\ UNCHANGED <<agentVars, history>>
  /\ m_sequenceLock' \in Readers \cup {Free}
  /\ m_sequenceLock' = m_sequenceLock \/ m_sequenceLock \in {Free, r}

(* A reader's step preserves the invariant if its own request stays right. *)
LEMMA ReadFrame ==
  ASSUME IInv, NEW r \in Readers, NEW q, Reads(r, q), RequestOK(r)', AnswerIsReplay(q)'
  PROVE  IInv'
<1>1. TypeOK' /\ request'[r] = q
  BY DEF IInv, TypeOK, Reads, agentVars, history
<1>2. /\ m_sequence' = m_sequence /\ m_slidingBuffer' = m_slidingBuffer
      /\ m_latest' = m_latest /\ m_first' = m_first /\ m_checkpoints' = m_checkpoints
      /\ log' = log /\ states' = states
  BY DEF Reads, agentVars, history
<1>3. HistoryInv'
  BY <1>2 DEF IInv, HistoryInv, StateAfter
<1>4. SlotsInv'
  BY <1>2 DEF IInv, SlotsInv, WindowIntact, getFirstSequence
<1>5. CheckpointsInv'
  BY <1>2 DEF IInv, CheckpointsInv, StateAfter, getFirstSequence
<1>6. ASSUME NEW t \in Readers, t # r
      PROVE  RequestOK(t)' /\ AnswerIsReplay(request[t])'
  <2>1. request'[t] = request[t]
    BY <1>6 DEF IInv, TypeOK, Reads
  <2>2. request[t].pc \in {"rolling", "scanning"} => m_sequenceLock = t /\ m_sequenceLock' = t
    BY <1>6, BufferAssumption DEF IInv, RequestInv, RequestOK, RollingInv, Locked, Reads
  <2>3. RequestOK(t)'
    BY <1>2, <2>1, <2>2 DEF IInv, RequestInv, RequestOK, RollingInv, Locked, getFirstSequence
  <2>4. AnswerIsReplay(request[t])'
    BY <1>2, <2>1 DEF IInv, CurrentIsReplay, AnswerIsReplay
  <2>5. QED
    BY <2>3, <2>4
<1>7. RequestInv'
  BY <1>6 DEF RequestInv
<1>8. CurrentIsReplay'
  BY <1>1, <1>6 DEF CurrentIsReplay
<1>9. QED
  BY <1>1, <1>3, <1>4, <1>5, <1>7, <1>8 DEF IInv

(* Requests are accepted only after the constructor has posted something.  *)
LEMMA ConstructedPosts ==
  ASSUME IInv, Constructed
  PROVE  m_sequence > 1
<1>1. m_sequence \in Nat \ {0} /\ (m_sequence = 1 => m_latest = EmptyCheckpoint)
  BY DEF IInv, TypeOK, CheckpointsInv, StateAfter
<1>2. m_latest # EmptyCheckpoint
  BY ItemsAssumption DEF Constructed, EmptyCheckpoint
<1>3. QED
  BY <1>1, <1>2

(* The locals of an idle reader are well-formed.                           *)
LEMMA IdleType == IdleRequest \in RequestType
BY EmptyCheckpointType DEF IdleRequest, RequestType, NoStart

(* handleCall's range check of a current request.                          *)
LEMMA CheckCurrentIInv ==
  ASSUME IInv, NEW r \in Readers, NEW f \in Filters, NEW at \in Nat, CheckCurrent(r, f, at)
  PROVE  IInv'
<1> DEFINE q == [IdleRequest EXCEPT !.pc = "current", !.filter = f, !.start = at]
<1>1. m_sequence > 1 /\ m_sequence \in Nat
  BY ConstructedPosts DEF CheckCurrent, IInv, TypeOK
<1>2. q \in RequestType
  BY IdleType, BufferAssumption DEF RequestType
<1>3. q.pc = "current" /\ q.start = at
  BY DEF IdleRequest
<1>4. Reads(r, q) /\ request'[r] = q /\ m_sequence' = m_sequence
  BY <1>2 DEF CheckCurrent, Reads, IInv, TypeOK, agentVars
<1>5. at < m_sequence
  BY <1>1 DEF CheckCurrent, NoStart
<1> HIDE DEF q
<1>6. RequestOK(r)' /\ AnswerIsReplay(q)'
  BY <1>1, <1>3, <1>4, <1>5 DEF RequestOK, AnswerIsReplay
<1>7. QED
  BY <1>4, <1>6, ReadFrame

(* handleCall's range check of a sample request.                           *)
LEMMA CheckSampleIInv ==
  ASSUME IInv, NEW r \in Readers, NEW f \in Filters, NEW from \in Nat, NEW c \in Counts,
         CheckSample(r, f, from, c)
  PROVE  IInv'
<1> DEFINE q == [IdleRequest EXCEPT !.pc = "sample", !.filter = f, !.start = from, !.count = c]
<1>1. q \in RequestType
  BY IdleType, BufferAssumption DEF RequestType
<1>2. q.pc = "sample"
  BY DEF IdleRequest
<1>3. Reads(r, q) /\ request'[r] = q
  BY <1>1 DEF CheckSample, Reads, IInv, TypeOK
<1> HIDE DEF q
<1>4. RequestOK(r)' /\ AnswerIsReplay(q)'
  BY <1>2, <1>3 DEF RequestOK, AnswerIsReplay
<1>5. QED
  BY <1>3, <1>4, ReadFrame

(* The response is sent and the reader is idle again.                      *)
LEMMA RespondIInv ==
  ASSUME IInv, NEW r \in Readers, Respond(r)
  PROVE  IInv'
<1>1. Reads(r, IdleRequest) /\ request'[r] = IdleRequest /\ IdleRequest.pc = "idle"
  BY IdleType DEF Respond, Reads, IInv, TypeOK, IdleRequest
<1>2. RequestOK(r)' /\ AnswerIsReplay(IdleRequest)'
  BY <1>1 DEF RequestOK, AnswerIsReplay
<1>3. QED
  BY <1>1, <1>2, ReadFrame

(* fetchCurrentData without 'at' answers with the last state.              *)
LEMMA FetchLatestIInv ==
  ASSUME IInv, NEW r \in Readers, FetchLatest(r)
  PROVE  IInv'
<1> DEFINE p == request[r]
<1>1. p \in RequestType /\ p.start = NoStart /\ p.pc = "current" /\ m_sequence \in Nat \ {0}
  BY DEF IInv, TypeOK, FetchLatest
<1>2. m_sequence > 1
  BY <1>1 DEF IInv, RequestInv, RequestOK
<1>3. /\ getFirstSequence = FirstOf(m_sequence)
      /\ FirstOf(m_sequence) \in 1 .. m_sequence
      /\ FirstOf(m_sequence) \in Nat \ {0}
  BY <1>1, FirstSequence, BufferAssumption DEF FirstOf
<1>4. FilterCheckpoint(m_latest, p.filter) \in CheckpointType
  BY FilterType DEF IInv, TypeOK
<1>5. PICK q : q = [p EXCEPT !.pc = "currentDone", !.firstSeq = FirstOf(m_sequence),
                             !.seq = m_sequence, !.check = FilterCheckpoint(m_latest, p.filter)]
  OBVIOUS
<1>6. q \in RequestType
  BY <1>1, <1>3, <1>4, <1>5 DEF RequestType
<1>7. /\ q.pc = "currentDone" /\ q.firstSeq = FirstOf(m_sequence) /\ q.seq = m_sequence
      /\ q.check = FilterCheckpoint(m_latest, q.filter) /\ q.start = NoStart
  BY <1>1, <1>5 DEF RequestType
<1>8. /\ Reads(r, q) /\ request'[r] = q
      /\ m_sequence' = m_sequence /\ states' = states
  BY <1>3, <1>5, <1>6 DEF FetchLatest, Reads, IInv, TypeOK, agentVars, history
<1>9. m_latest = states[m_sequence - 1]
  BY <1>1, <1>2 DEF IInv, CheckpointsInv, StateAfter
<1>10. RequestOK(r)'
  BY <1>1, <1>2, <1>7, <1>8 DEF RequestOK, NoStart, FirstOf
<1>11. q.start \notin Window(q.firstSeq, q.seq)
  BY <1>1, <1>3, <1>7 DEF Window, NoStart
<1>12. AnswerIsReplay(q)'
  BY <1>7, <1>8, <1>9, <1>11 DEF AnswerIsReplay, Window
<1>13. QED
  BY <1>8, <1>10, <1>12, ReadFrame

(* fetchCurrentData with 'at' starts from the state at a member of the     *)
(* window, as many observations before the resident of at's slot as there  *)
(* are slots between them: m_first if the window begins inside the stretch *)
(* from the closest checkpoint, and that checkpoint otherwise.             *)
LEMMA RollStart ==
  ASSUME IInv, NEW at \in Nat \ {0}, at < m_sequence,
         NEW pos, NEW first, NEW closest, NEW base,
         pos = get_element_id(at),
         first = get_element_id(FirstOf(m_sequence)),
         closest = (pos \div CheckpointFreq) * CheckpointFreq,
         base = IF UseFirst(first, closest, pos) THEN first ELSE closest
  PROVE  LET s == Resident(at, FirstOf(m_sequence), m_sequence) - (pos - base)
         IN  /\ base \in 0 .. pos
             /\ s \in Window(FirstOf(m_sequence), m_sequence)
             /\ states[s] = IF UseFirst(first, closest, pos)
                              THEN m_first ELSE m_checkpoints[pos \div CheckpointFreq]
<1> DEFINE n == m_sequence
           f == FirstOf(n)
           R == Resident(at, f, n)
<1>1. n \in Nat \ {0} /\ Size \in Nat \ {0} /\ CheckpointFreq \in Nat \ {0}
  BY BufferAssumption DEF IInv, TypeOK
<1>2. f \in Nat \ {0} /\ f < n /\ n - f <= Size
  BY <1>1 DEF FirstOf
<1>3. R \in f .. n - 1 /\ get_element_id(R) = pos
  BY <1>1, ResidentFacts DEF Window
<1>4. pos \in 0 .. Size - 1 /\ first \in 0 .. Size - 1
  BY <1>2, SlotRange
<1>5. /\ closest \in 0 .. pos
      /\ closest % CheckpointFreq = 0
      /\ closest \div CheckpointFreq = pos \div CheckpointFreq
  <2>1. pos \in Nat
    BY <1>1, <1>4
  <2>2. QED
    BY <1>1, <2>1, ClosestMultiple, Zenon
<1>6. base \in 0 .. pos
  BY <1>4, <1>5 DEF UseFirst
<1> HIDE DEF R, f
<1>7. ASSUME NEW e \in 0 .. pos
      PROVE  get_element_id(R - e) = pos - e
  <2>1. R \in Nat /\ e \in Nat /\ R % Size = pos /\ e <= R % Size
    BY <1>1, <1>2, <1>3, <1>4, <1>7 DEF get_element_id
  <2>2. (R - e) % Size = (R % Size) - e
    BY <1>1, <2>1, ModBack
  <2>3. QED
    BY <2>1, <2>2 DEF get_element_id
<1>8. CASE UseFirst(first, closest, pos)
  <2> DEFINE d == pos - first
  <2>1. d \in 0 .. pos /\ base = first
    BY <1>4, <1>8 DEF UseFirst
  <2>2. get_element_id(R - d) = first
    BY <1>4, <1>7, <2>1
  <2>3. R - d \in Nat /\ R - d - f < Size /\ f - (R - d) < Size
    <3>1. pos <= R
      BY <1>1, <1>2, <1>3 DEF get_element_id
    <3>2. QED
      BY <1>1, <1>2, <1>3, <1>4, <2>1, <3>1
  <2>4. R - d = f
    BY <1>2, <2>2, <2>3, SlotInjective DEF f
  <2>5. m_first = states[f]
    BY <1>1, <1>2, FirstSequence DEF IInv, CheckpointsInv, f
  <2>6. QED
    BY <1>1, <1>2, <1>3, <1>6, <1>8, <2>1, <2>4, <2>5 DEF Window, R, f
<1>9. CASE ~ UseFirst(first, closest, pos)
  <2> DEFINE d == pos - closest
  <2>1. d \in 0 .. pos /\ base = closest
    BY <1>4, <1>5, <1>9
  <2>2. get_element_id(R - d) = closest
    BY <1>4, <1>5, <1>7, <2>1
  <2>3. R - d >= f
    <3> SUFFICES ASSUME R - d < f
                 PROVE  FALSE
      BY <1>2, <1>3, <1>4, <2>1
    <3> DEFINE e == R - f
    <3>1. e \in 0 .. pos /\ e < d
      BY <1>2, <1>3, <1>4, <2>1
    <3>2. R - e = f
      BY <1>2, <1>3
    <3>3. first = pos - e
      BY <1>7, <3>1, <3>2 DEF f
    <3>4. QED
      BY <1>4, <1>5, <1>9, <2>1, <3>1, <3>3 DEF UseFirst
  <2>4. R - d \in Window(f, n)
    BY <1>1, <1>2, <1>3, <1>4, <2>1, <2>3 DEF Window
  <2>5. m_checkpoints[closest \div CheckpointFreq] = states[R - d]
    BY <1>5, <2>2, <2>4, FirstSequence DEF IInv, CheckpointsInv, f
  <2>6. QED
    BY <1>5, <1>6, <1>9, <2>1, <2>4, <2>5 DEF R, f
<1>10. QED
  BY <1>8, <1>9

(* fetchCurrentData takes the lock and starts from that state.             *)
LEMMA FetchCurrentBeginIInv ==
  ASSUME IInv, NEW r \in Readers, FetchCurrentBegin(r)
  PROVE  IInv'
<1> DEFINE p == request[r]
<1>1. /\ p \in RequestType /\ p.start # NoStart /\ p.pc = "current"
      /\ m_sequence \in Nat \ {0} /\ m_sequenceLock = Free
  BY DEF IInv, TypeOK, FetchCurrentBegin
<1>2. p.start \in Nat \ {0} /\ p.start < m_sequence /\ m_sequence > 1
  BY <1>1 DEF IInv, RequestInv, RequestOK, RequestType, NoStart
<1>3. /\ getFirstSequence = FirstOf(m_sequence)
      /\ FirstOf(m_sequence) \in Nat \ {0}
  BY <1>1, FirstSequence, BufferAssumption DEF FirstOf
<1>4. PICK pos, first, closest, base :
        /\ pos = get_element_id(p.start)
        /\ first = get_element_id(FirstOf(m_sequence))
        /\ closest = (pos \div CheckpointFreq) * CheckpointFreq
        /\ base = IF UseFirst(first, closest, pos) THEN first ELSE closest
  OBVIOUS
<1>5. PICK ref : ref = IF UseFirst(first, closest, pos)
                         THEN m_first ELSE m_checkpoints[pos \div CheckpointFreq]
  OBVIOUS
<1>6. pos \in 0 .. Size - 1
  BY <1>2, <1>4, SlotRange
<1>7. ref \in CheckpointType
  <2>1. pos \div CheckpointFreq \in 0 .. Size \div CheckpointFreq
    BY <1>6, CheckpointPlace
  <2>2. QED
    BY <1>5, <2>1 DEF IInv, TypeOK
<1>8. PICK s : s = Resident(p.start, FirstOf(m_sequence), m_sequence) - (pos - base)
  OBVIOUS
<1>9. base \in 0 .. pos /\ s \in Window(FirstOf(m_sequence), m_sequence) /\ states[s] = ref
  BY <1>2, <1>4, <1>5, <1>8, RollStart
<1>10. FilterCheckpoint(ref, p.filter) \in CheckpointType
  BY <1>7, FilterType
<1>11. PICK q : q = [p EXCEPT !.pc = "rolling", !.firstSeq = FirstOf(m_sequence),
                              !.seq = m_sequence, !.pos = pos, !.index = base + 1,
                              !.check = FilterCheckpoint(ref, p.filter)]
  OBVIOUS
<1>12. pos \in Nat /\ base + 1 \in Nat /\ base \in Int /\ base + 1 \in 1 .. pos + 1
  BY <1>6, <1>9, BufferAssumption
<1>13. q \in RequestType
  BY <1>1, <1>3, <1>10, <1>11, <1>12 DEF RequestType
<1>14. /\ q.pc = "rolling" /\ q.firstSeq = FirstOf(m_sequence) /\ q.seq = m_sequence
       /\ q.pos = pos /\ q.index = base + 1 /\ q.start = p.start
       /\ q.check = FilterCheckpoint(ref, q.filter)
  BY <1>1, <1>11 DEF RequestType
<1>15. request' = [request EXCEPT ![r] = q] /\ m_sequenceLock' = r
  BY <1>3, <1>4, <1>5, <1>11 DEF FetchCurrentBegin
<1>16. UNCHANGED <<agentVars, history>>
  BY DEF FetchCurrentBegin
<1>17. Reads(r, q) /\ request'[r] = q
  BY <1>1, <1>13, <1>15, <1>16 DEF Reads, IInv, TypeOK
<1>18. m_sequence' = m_sequence /\ states' = states
  BY <1>16 DEF agentVars, history
<1>19. Rolled(q) = s
  BY <1>6, <1>8, <1>12, <1>14 DEF Rolled
<1>20. RollingInv(r)'
  <2>1. Locked(r)'
    BY <1>14, <1>15, <1>17, <1>18, FirstSequence DEF Locked
  <2>2. Rolled(request[r])' = s
    BY <1>17, <1>19 DEF Rolled, Resident, Window, get_element_id
  <2>3. /\ q.pos = get_element_id(q.start)
        /\ s \in Window(q.firstSeq, q.seq)
        /\ q.check = FilterCheckpoint(states[s], q.filter)
        /\ q.index \in 1 .. q.pos + 1
        /\ q.start # NoStart
    BY <1>1, <1>4, <1>9, <1>12, <1>14
  <2>4. QED
    BY <1>17, <1>18, <2>1, <2>2, <2>3 DEF RollingInv, get_element_id, Window
<1>21. RequestOK(r)' /\ AnswerIsReplay(q)'
  BY <1>2, <1>14, <1>17, <1>18, <1>20 DEF RequestOK, AnswerIsReplay
<1>22. QED
  BY <1>17, <1>21, ReadFrame

(* One iteration of fetchCurrentData's loop moves the answer from the      *)
(* state at one observation to the state at the next.                      *)
LEMMA RollForwardIInv ==
  ASSUME IInv, NEW r \in Readers, RollForward(r)
  PROVE  IInv'
<1> DEFINE p == request[r]
           n == m_sequence
<1>1. p \in RequestType /\ p.pc = "rolling" /\ p.index <= p.pos /\ n \in Nat \ {0}
  BY DEF IInv, TypeOK, RollForward
<1>2. RollingInv(r) /\ n > 1 /\ p.start < n
  BY <1>1 DEF IInv, RequestInv, RequestOK
<1>3. /\ p.start \in Nat \ {0} /\ p.pos \in Nat /\ p.index \in Nat
      /\ p.firstSeq = FirstOf(n) /\ p.seq = n
      /\ p.pos = get_element_id(p.start)
      /\ p.index \in 1 .. p.pos + 1
      /\ m_sequenceLock = r
  BY <1>1, <1>2, FirstSequence DEF RollingInv, Locked, RequestType, NoStart
<1>4. FirstOf(n) \in Nat \ {0} /\ Size \in Nat \ {0}
  BY <1>1, BufferAssumption DEF FirstOf
<1>5. PICK R : R = Resident(p.start, FirstOf(n), n)
  OBVIOUS
<1>6. R \in FirstOf(n) .. n - 1 /\ get_element_id(R) = p.pos
  BY <1>1, <1>2, <1>3, <1>5, ResidentFacts DEF Window
<1>7. PICK s : s = R - (p.pos + 1 - p.index)
  OBVIOUS
<1>8. s \in FirstOf(n) .. n - 1 /\ p.check = FilterCheckpoint(states[s], p.filter)
  BY <1>2, <1>3, <1>5, <1>7 DEF RollingInv, Rolled, Window
<1>9. s + 1 \in FirstOf(n) .. n - 1 /\ s \in Nat \ {0} /\ s + 1 = R - (p.pos - p.index)
  BY <1>1, <1>3, <1>4, <1>6, <1>7, <1>8
<1>10. get_element_id(s + 1) = p.index
  <2>1. R \in Nat /\ p.pos - p.index \in Nat /\ R % Size = p.pos /\ p.pos - p.index <= R % Size
    BY <1>1, <1>3, <1>4, <1>6 DEF get_element_id
  <2>2. (R - (p.pos - p.index)) % Size = (R % Size) - (p.pos - p.index)
    BY <1>4, <2>1, ModBack
  <2>3. QED
    BY <1>3, <1>9, <2>1, <2>2 DEF get_element_id
<1>11. m_slidingBuffer[p.index] = log[s + 1]
  BY <1>9, <1>10, FirstSequence DEF IInv, SlotsInv, WindowIntact, Window
<1>12. s + 1 \in 1 .. n - 1 /\ s \in 1 .. n - 1
  BY <1>1, <1>4, <1>8, <1>9
<1>13. log[s + 1] \in Observation /\ states[s] \in CheckpointType /\ states[s + 1] \in CheckpointType
  BY <1>12 DEF IInv, TypeOK, HistoryInv
<1>14. states[s + 1] = addObservation(states[s], log[s + 1])
  <2>1. states[s + 1] = addObservation(StateAfter(s + 1 - 1), log[s + 1])
    BY <1>12 DEF IInv, HistoryInv
  <2>2. StateAfter(s + 1 - 1) = states[s]
    BY <1>9 DEF StateAfter
  <2>3. QED
    BY <2>1, <2>2
<1>15. PICK c : c = FilterCheckpoint(states[s + 1], p.filter)
  OBVIOUS
<1>16. c = addFiltered(p.check, p.filter, m_slidingBuffer[p.index]) /\ c \in CheckpointType
  BY <1>8, <1>11, <1>13, <1>14, <1>15, FilterCommutes, FilterType
<1>17. PICK q : q = [p EXCEPT !.check = c, !.index = p.index + 1]
  OBVIOUS
<1>18. p.index + 1 \in Nat
  BY <1>3
<1>19. q \in RequestType
  BY <1>1, <1>16, <1>17, <1>18 DEF RequestType
<1>20. /\ q.pc = "rolling" /\ q.firstSeq = FirstOf(n) /\ q.seq = n
       /\ q.pos = p.pos /\ q.index = p.index + 1 /\ q.start = p.start
       /\ q.check = FilterCheckpoint(states[s + 1], q.filter)
  BY <1>1, <1>3, <1>15, <1>17 DEF RequestType
<1>21. request' = [request EXCEPT ![r] = q] /\ m_sequenceLock' = m_sequenceLock
  BY <1>16, <1>17 DEF RollForward
<1>22. UNCHANGED <<agentVars, history>>
  BY DEF RollForward
<1>23. Reads(r, q) /\ request'[r] = q
  BY <1>1, <1>19, <1>21, <1>22 DEF Reads, IInv, TypeOK
<1>24. m_sequence' = m_sequence /\ states' = states
  BY <1>22 DEF agentVars, history
<1>25. Rolled(q) = s + 1
  <2>1. Rolled(q) = R - (p.pos + 1 - (p.index + 1))
    BY <1>5, <1>20 DEF Rolled
  <2>2. QED
    BY <1>3, <1>6, <1>9, <2>1
<1>26. RollingInv(r)'
  <2>1. Locked(r)'
    BY <1>3, <1>20, <1>21, <1>23, <1>24, FirstSequence DEF Locked
  <2>2. Rolled(request[r])' = s + 1
    BY <1>23, <1>25 DEF Rolled, Resident, Window, get_element_id
  <2>3. q.index \in 1 .. q.pos + 1
    BY <1>1, <1>3, <1>20
  <2>4. /\ q.pos = get_element_id(q.start)
        /\ s + 1 \in Window(q.firstSeq, q.seq)
        /\ q.check = FilterCheckpoint(states[s + 1], q.filter)
        /\ q.start # NoStart
    BY <1>3, <1>9, <1>20 DEF Window, NoStart
  <2>5. QED
    BY <1>23, <1>24, <2>1, <2>2, <2>3, <2>4 DEF RollingInv, get_element_id, Window
<1>27. RequestOK(r)' /\ AnswerIsReplay(q)'
  BY <1>2, <1>20, <1>23, <1>24, <1>26 DEF RequestOK, AnswerIsReplay
<1>28. QED
  BY <1>23, <1>27, ReadFrame

(* When the loop ends, the answer is the state at the resident of at's     *)
(* slot, and at itself if the window reaches it.                           *)
LEMMA FetchCurrentEndIInv ==
  ASSUME IInv, NEW r \in Readers, FetchCurrentEnd(r)
  PROVE  IInv'
<1> DEFINE p == request[r]
           n == m_sequence
<1>1. p \in RequestType /\ p.pc = "rolling" /\ p.index > p.pos /\ n \in Nat \ {0}
  BY DEF IInv, TypeOK, FetchCurrentEnd
<1>2. RollingInv(r) /\ n > 1 /\ p.start < n
  BY <1>1 DEF IInv, RequestInv, RequestOK
<1>3. /\ p.start \in Nat \ {0} /\ p.pos \in Nat
      /\ p.firstSeq = FirstOf(n) /\ p.seq = n
      /\ p.index \in 1 .. p.pos + 1
      /\ m_sequenceLock = r
  BY <1>1, <1>2, FirstSequence DEF RollingInv, Locked, RequestType, NoStart
<1>4. PICK R : R = Resident(p.start, FirstOf(n), n)
  OBVIOUS
<1>5. /\ R \in Window(FirstOf(n), n)
      /\ p.start \in Window(FirstOf(n), n) => R = p.start
  BY <1>1, <1>2, <1>3, <1>4, ResidentFacts
<1>6. p.check = FilterCheckpoint(states[R], p.filter)
  <2>1. p.index = p.pos + 1
    BY <1>1, <1>3
  <2>2. R \in Int
    BY <1>1, <1>5, BufferAssumption DEF Window, FirstOf
  <2>3. Rolled(p) = R
    BY <1>3, <1>4, <2>1, <2>2 DEF Rolled
  <2>4. QED
    BY <1>2, <2>3 DEF RollingInv
<1>7. PICK q : q = [p EXCEPT !.pc = "currentDone"]
  OBVIOUS
<1>8. q \in RequestType
  BY <1>1, <1>7 DEF RequestType
<1>9. /\ q.pc = "currentDone" /\ q.firstSeq = FirstOf(n) /\ q.seq = n
      /\ q.start = p.start /\ q.check = p.check /\ q.filter = p.filter
  BY <1>1, <1>3, <1>7 DEF RequestType
<1>10. Reads(r, q) /\ request'[r] = q /\ m_sequence' = m_sequence /\ states' = states
  BY <1>3, <1>7, <1>8 DEF FetchCurrentEnd, Reads, IInv, TypeOK, agentVars, history
<1>11. RequestOK(r)'
  BY <1>1, <1>2, <1>9, <1>10 DEF RequestOK, FirstOf
<1>12. q.start # NoStart
  BY <1>3, <1>9 DEF NoStart
<1>13. /\ q.check = FilterCheckpoint(states[Resident(q.start, q.firstSeq, q.seq)], q.filter)
       /\ q.start \in Window(q.firstSeq, q.seq) => Resident(q.start, q.firstSeq, q.seq) = q.start
  BY <1>4, <1>5, <1>6, <1>9
<1>14. AnswerIsReplay(q)'
  BY <1>10, <1>12, <1>13 DEF AnswerIsReplay, Resident, Window, get_element_id
<1>15. QED
  BY <1>10, <1>11, <1>14, ReadFrame

(* fetchSampleData takes the lock and a start in the numbers.              *)
LEMMA FetchSampleBeginIInv ==
  ASSUME IInv, NEW r \in Readers, FetchSampleBegin(r)
  PROVE  IInv'
<1> DEFINE p == request[r]
<1>1. /\ p \in RequestType /\ p.pc = "sample"
      /\ m_sequence \in Nat \ {0} /\ m_sequenceLock = Free
  BY DEF IInv, TypeOK, FetchSampleBegin
<1>2. getFirstSequence = FirstOf(m_sequence) /\ FirstOf(m_sequence) \in Nat \ {0}
  BY <1>1, FirstSequence, BufferAssumption DEF FirstOf
<1>3. p.start \in Nat
  BY <1>1 DEF RequestType
<1>4. ClampStart(p.start, p.count) \in Nat
  BY <1>1, <1>2, <1>3 DEF ClampStart
<1>5. PICK q : q = [p EXCEPT !.pc = "scanning", !.firstSeq = FirstOf(m_sequence), !.seq = m_sequence,
                             !.start = ClampStart(p.start, p.count),
                             !.index = ClampStart(p.start, p.count)]
  OBVIOUS
<1>6. q \in RequestType
  BY <1>1, <1>2, <1>4, <1>5 DEF RequestType
<1>7. q.pc = "scanning" /\ q.firstSeq = FirstOf(m_sequence) /\ q.seq = m_sequence
  BY <1>1, <1>5 DEF RequestType
<1>8. request' = [request EXCEPT ![r] = q] /\ m_sequenceLock' = r
  BY <1>2, <1>5 DEF FetchSampleBegin
<1>9. UNCHANGED <<agentVars, history>>
  BY DEF FetchSampleBegin
<1>10. Reads(r, q) /\ request'[r] = q
  BY <1>1, <1>6, <1>8, <1>9 DEF Reads, IInv, TypeOK
<1>11. m_sequence' = m_sequence
  BY <1>9 DEF agentVars
<1>12. RequestOK(r)' /\ AnswerIsReplay(q)'
  BY <1>7, <1>8, <1>10, <1>11, FirstSequence DEF RequestOK, Locked, AnswerIsReplay
<1>13. QED
  BY <1>10, <1>12, ReadFrame

(* One iteration of fetchSampleData's loop reads a slot of the window,     *)
(* which is never empty.                                                   *)
LEMMA ScanSampleIInv ==
  ASSUME IInv, NEW r \in Readers, ScanSample(r)
  PROVE  IInv'
<1> DEFINE p == request[r]
           obs == m_slidingBuffer[get_element_id(p.index)]
<1>1. p \in RequestType /\ p.pc = "scanning" /\ ScanContinues(p) /\ m_sequence \in Nat \ {0}
  BY DEF IInv, TypeOK, ScanSample
<1>2. Locked(r)
  BY <1>1 DEF IInv, RequestInv, RequestOK
<1>3. /\ p.index \in Nat /\ p.count \in Int /\ p.results \in Seq(Observation)
      /\ p.firstSeq = FirstOf(m_sequence) /\ p.seq = m_sequence /\ m_sequenceLock = r
  BY <1>1, <1>2, FirstSequence DEF Locked, RequestType
<1>4. FirstOf(m_sequence) \in Nat \ {0}
  BY <1>1, BufferAssumption DEF FirstOf
<1>5. p.index \in Window(FirstOf(m_sequence), m_sequence) /\ p.index \in 1 .. m_sequence - 1
  BY <1>1, <1>3, <1>4 DEF ScanContinues, Window
<1>6. obs \in Observation
  <2>1. obs = log[p.index]
    BY <1>5, FirstSequence DEF IInv, SlotsInv, WindowIntact
  <2>2. log[p.index] \in Observation
    BY <1>5 DEF IInv, TypeOK, HistoryInv
  <2>3. QED
    BY <2>1, <2>2
<1>7. PICK res, idx : /\ res = IF obs.item \in p.filter THEN Append(p.results, obs) ELSE p.results
                      /\ idx = IF p.count >= 0 THEN p.index + 1 ELSE p.index - 1
  OBVIOUS
<1>8. res \in Seq(Observation) /\ idx \in Nat
  BY <1>3, <1>5, <1>6, <1>7
<1>9. PICK q : q = [p EXCEPT !.results = res, !.index = idx]
  OBVIOUS
<1>10. q \in RequestType
  BY <1>1, <1>8, <1>9 DEF RequestType
<1>11. q.pc = "scanning" /\ q.firstSeq = FirstOf(m_sequence) /\ q.seq = m_sequence
  BY <1>1, <1>3, <1>9 DEF RequestType
<1>12. request' = [request EXCEPT ![r] = q] /\ m_sequenceLock' = m_sequenceLock
  BY <1>7, <1>9 DEF ScanSample
<1>13. UNCHANGED <<agentVars, history>>
  BY DEF ScanSample
<1>14. Reads(r, q) /\ request'[r] = q
  BY <1>1, <1>10, <1>12, <1>13 DEF Reads, IInv, TypeOK
<1>15. m_sequence' = m_sequence
  BY <1>13 DEF agentVars
<1>16. RequestOK(r)' /\ AnswerIsReplay(q)'
  BY <1>3, <1>11, <1>12, <1>14, <1>15, FirstSequence DEF RequestOK, Locked, AnswerIsReplay
<1>17. QED
  BY <1>14, <1>16, ReadFrame

(* fetchSampleData gives the lock back.                                    *)
LEMMA FetchSampleEndIInv ==
  ASSUME IInv, NEW r \in Readers, FetchSampleEnd(r)
  PROVE  IInv'
<1> DEFINE p == request[r]
<1>1. p \in RequestType /\ p.pc = "scanning"
  BY DEF IInv, TypeOK, FetchSampleEnd
<1>2. m_sequenceLock = r
  BY <1>1 DEF IInv, RequestInv, RequestOK, Locked
<1>3. PICK q : q = [p EXCEPT !.pc = "sampleDone"]
  OBVIOUS
<1>4. q \in RequestType /\ q.pc = "sampleDone"
  BY <1>1, <1>3 DEF RequestType
<1>5. Reads(r, q) /\ request'[r] = q
  BY <1>2, <1>3, <1>4 DEF FetchSampleEnd, Reads, IInv, TypeOK
<1>6. RequestOK(r)' /\ AnswerIsReplay(q)'
  BY <1>4, <1>5 DEF RequestOK, AnswerIsReplay
<1>7. QED
  BY <1>5, <1>6, ReadFrame

-----------------------------------------------------------------------------
(* IInv is inductive: one lemma per action.                                *)
LEMMA NextIInv == IInv /\ [Next]_vars => IInv'
<1> SUFFICES ASSUME IInv, [Next]_vars
             PROVE  IInv'
  OBVIOUS
<1>1. CASE Write
  BY <1>1, WriteIInv
<1>2. ASSUME NEW r \in Readers, Read(r)
      PROVE  IInv'
  <2>1. ASSUME NEW f \in Filters, NEW at \in 0 .. MaxSequence, CheckCurrent(r, f, at)
        PROVE  IInv'
    BY <2>1, CheckCurrentIInv, BufferAssumption
  <2>2. ASSUME NEW f \in Filters, NEW from \in 0 .. MaxSequence + 1, NEW c \in Counts,
               CheckSample(r, f, from, c)
        PROVE  IInv'
    BY <2>2, CheckSampleIInv, BufferAssumption
  <2>3. QED
    BY <1>2, <2>1, <2>2, FetchLatestIInv, FetchCurrentBeginIInv, RollForwardIInv,
       FetchCurrentEndIInv, FetchSampleBeginIInv, ScanSampleIInv, FetchSampleEndIInv,
       RespondIInv DEF Read
<1>3. CASE UNCHANGED vars
  BY <1>3 DEF vars, agentVars, history, IInv, TypeOK, HistoryInv, StateAfter, SlotsInv,
              WindowIntact, CheckpointsInv, getFirstSequence, RequestInv, RequestOK,
              RollingInv, Locked, CurrentIsReplay, AnswerIsReplay
<1>4. QED
  BY <1>1, <1>2, <1>3 DEF Next

(* The inductive invariant holds in every reachable state, for every       *)
(* buffer size, checkpoint frequency and number of request threads.        *)
THEOREM Invariance == Spec => []IInv
<1>1. Init => IInv
  BY InitIInv
<1>2. IInv /\ [Next]_vars => IInv'
  BY NextIInv
<1>3. QED
  BY <1>1, <1>2, PTL DEF Spec

(* Type correctness of the buffer, the checkpoints and the readers: among  *)
(* others, fetchSampleData never reads an empty slot.                      *)
THEOREM TypeCorrect == Spec => []TypeOK
<1>1. IInv => TypeOK
  BY DEF IInv
<1>2. QED
  BY <1>1, Invariance, PTL

(* The slots always hold exactly the last Size observations.               *)
THEOREM WindowCorrect == Spec => []WindowIntact
<1>1. IInv => WindowIntact
  BY DEF IInv, SlotsInv
<1>2. QED
  BY <1>1, Invariance, PTL

(* m_latest, m_first and the periodic checkpoints inside the window are    *)
(* always replays of the log.                                              *)
THEOREM CheckpointsCorrect == Spec => []CheckpointsAreReplays
<1>1. IInv => CheckpointsAreReplays
  <2> SUFFICES ASSUME IInv, m_sequence > 1
               PROVE  /\ m_latest = states[m_sequence - 1]
                      /\ m_first = states[getFirstSequence]
                      /\ \A s \in Window(getFirstSequence, m_sequence) :
                           LET k == get_element_id(s)
                           IN  k % CheckpointFreq = 0 => m_checkpoints[k \div CheckpointFreq] = states[s]
    BY DEF CheckpointsAreReplays
  <2>1. m_sequence \in Nat \ {0}
    BY DEF IInv, TypeOK
  <2>2. QED
    BY <2>1 DEF IInv, CheckpointsInv, StateAfter
<1>2. QED
  BY <1>1, Invariance, PTL

(* Every answer of fetchCurrentData is the replay of the log up to the     *)
(* observation it stands for.                                              *)
THEOREM CurrentCorrect == Spec => []CurrentIsReplay
<1>1. IInv => CurrentIsReplay
  BY DEF IInv
<1>2. QED
  BY <1>1, Invariance, PTL

-----------------------------------------------------------------------------
(* Samples: SampleInv is inductive together with IInv.                     *)

(* A reader's step preserves SampleInv if its own request stays right.     *)
LEMMA SampleFrame ==
  ASSUME IInv, SampleInv, NEW r \in Readers, NEW q, Reads(r, q), SampleOK(q)
  PROVE  SampleInv'
<1>1. log' = log /\ m_sequence' = m_sequence
  BY DEF Reads, agentVars, history
<1>2. ASSUME NEW t \in Readers
      PROVE  SampleOK(request[t])'
  <2>1. SampleOK(request'[t])
    BY DEF Reads, IInv, TypeOK, SampleInv
  <2>2. QED
    BY <1>1, <2>1 DEF SampleOK, ScanInv, Collected
<1>3. QED
  BY <1>1, <1>2 DEF SampleInv

(* The numbers a scan has passed over lie in the window it saw.            *)
LEMMA ScannedWindow ==
  ASSUME IInv, NEW q \in RequestType, ScanInv(q)
  PROVE  /\ Scanned(q) \subseteq Window(q.firstSeq, q.seq)
         /\ Scanned(q) \subseteq 1 .. Len(log)
         /\ q.firstSeq \in 1 .. q.seq /\ q.seq - q.firstSeq <= Size
<1>1. /\ q.firstSeq \in Nat \ {0} /\ q.seq \in Nat \ {0} /\ q.index \in Nat /\ q.start \in Nat
      /\ q.count \in Int
      /\ m_sequence \in Nat \ {0} /\ Len(log) = m_sequence - 1
  BY DEF RequestType, IInv, TypeOK, HistoryInv
<1>2. q.firstSeq \in 1 .. q.seq /\ q.seq - q.firstSeq <= Size /\ q.seq <= m_sequence
  BY <1>1, FirstFacts DEF ScanInv
<1>3. Scanned(q) \subseteq Window(q.firstSeq, q.seq)
  <2>1. CASE q.count >= 0
    BY <1>1, <1>2, <2>1 DEF ScanInv, Scanned, Window
  <2>2. CASE q.count < 0
    BY <1>1, <1>2, <2>2 DEF ScanInv, Scanned, Window
  <2>3. QED
    BY <1>1, <2>1, <2>2
<1>4. Window(q.firstSeq, q.seq) \subseteq 1 .. Len(log)
  BY <1>1, <1>2 DEF Window
<1>5. QED
  BY <1>2, <1>3, <1>4

(* Adding to the log changes nothing a scan has collected.                 *)
LEMMA AddSample ==
  ASSUME IInv, SampleInv, NEW obs, Adds(obs)
  PROVE  SampleInv'
<1>1. /\ log \in Seq(Observation) /\ obs \in Observation /\ obs.sequence = m_sequence
      /\ log' = Append(log, obs) /\ request' = request /\ m_sequence' = m_sequence + 1
      /\ Len(log) = m_sequence - 1 /\ m_sequence \in Nat \ {0}
      /\ request \in [Readers -> RequestType]
  BY DEF Adds, IInv, TypeOK, HistoryInv
<1>2. ASSUME NEW s \in DOMAIN log'
      PROVE  log'[s].sequence = s
  <2>1. CASE s = m_sequence
    BY <1>1, <2>1
  <2>2. CASE s # m_sequence
    BY <1>1, <2>2 DEF SampleInv
  <2>3. QED
    BY <2>1, <2>2
<1>3. ASSUME NEW r \in Readers
      PROVE  SampleOK(request[r])'
  <2>1. PICK q : q = request[r]
    OBVIOUS
  <2>2. q \in RequestType /\ SampleOK(q) /\ q.start \in Nat /\ q.seq \in Nat
    BY <1>1, <2>1 DEF SampleInv, RequestType
  <2>3. ASSUME ScanInv(q)
        PROVE  ScanInv(q)'
    <3> DEFINE K == {s \in Scanned(q) : log[s].item \in q.filter}
               L == {s \in Scanned(q) : log'[s].item \in q.filter}
    <3>1. Scanned(q) \subseteq 1 .. Len(log)
      BY <2>2, <2>3, ScannedWindow
    <3>2. K = L
      BY <1>1, <3>1
    <3>3. K \in SUBSET (1 .. Len(log))
      BY <3>1
    <3> HIDE DEF K
    <3>4. Subsequence(log', K) = Subsequence(log, K)
      BY <1>1, <3>3, SubsequenceOfAppend
    <3>5. Subsequence(log', L) = Subsequence(log, K)
      BY <3>2, <3>4
    <3>6. Collected(q)' = Collected(q)
      BY <3>5 DEF Collected, K, Scanned
    <3>7. q.seq <= m_sequence'
      BY <1>1, <2>2, <2>3 DEF ScanInv
    <3>8. QED
      BY <2>3, <3>6, <3>7 DEF ScanInv, FirstOf, ScanLimit
  <2>4. q.start <= m_sequence => q.start <= m_sequence'
    BY <1>1, <2>2
  <2>5. SampleOK(q)'
    BY <2>2, <2>3, <2>4 DEF SampleOK, ScanLimit
  <2>6. QED
    BY <1>1, <2>1, <2>5
<1>4. QED
  BY <1>2, <1>3 DEF SampleInv

(* A request is accepted: a sample starts with nothing collected.          *)
LEMMA CheckSampleStep ==
  ASSUME IInv, SampleInv, NEW r \in Readers, NEW f \in Filters, NEW from \in Nat, NEW c \in Counts,
         CheckSample(r, f, from, c)
  PROVE  SampleInv'
<1>1. m_sequence \in Nat \ {0} /\ getFirstSequence = FirstOf(m_sequence) /\ FirstOf(m_sequence) \in Nat
  BY FirstSequence, FirstFacts DEF IInv, TypeOK
<1>2. PICK q : q = [IdleRequest EXCEPT !.pc = "sample", !.filter = f, !.start = from, !.count = c]
  OBVIOUS
<1>3. q \in RequestType
  BY <1>2, IdleType, BufferAssumption DEF RequestType
<1>4. q.pc = "sample" /\ q.filter = f /\ q.start = from /\ q.results = <<>>
  BY <1>2 DEF IdleRequest
<1>5. Reads(r, q)
  BY <1>2, <1>3 DEF CheckSample, Reads, IInv, TypeOK
<1>6. from <= m_sequence
  BY <1>1 DEF CheckSample, NoStart
<1>7. SampleOK(q)
  BY <1>4, <1>6 DEF SampleOK
<1>8. QED
  BY <1>5, <1>7, SampleFrame

(* So does a current, of which a sample has nothing to say.                *)
LEMMA CheckCurrentStep ==
  ASSUME IInv, SampleInv, NEW r \in Readers, NEW f \in Filters, NEW at \in Nat, CheckCurrent(r, f, at)
  PROVE  SampleInv'
<1>1. PICK q : q = [IdleRequest EXCEPT !.pc = "current", !.filter = f, !.start = at]
  OBVIOUS
<1>2. q \in RequestType
  BY <1>1, IdleType, BufferAssumption DEF RequestType
<1>3. q.pc = "current" /\ q.filter = f
  BY <1>1 DEF IdleRequest
<1>4. Reads(r, q)
  BY <1>1, <1>2 DEF CheckCurrent, Reads, IInv, TypeOK
<1>5. SampleOK(q)
  BY <1>3 DEF SampleOK
<1>6. QED
  BY <1>4, <1>5, SampleFrame

(* The loop of a current keeps the reader's filter.                        *)
LEMMA RollSteps ==
  ASSUME IInv, NEW r \in Readers, FetchCurrentBegin(r) \/ RollForward(r)
  PROVE  /\ request[r].pc \in {"current", "rolling"}
         /\ request'[r].pc = "rolling" /\ request'[r].filter = request[r].filter
         /\ request' = [request EXCEPT ![r] = request'[r]]
<1>1. request \in [Readers -> RequestType]
  BY DEF IInv, TypeOK
<1>2. PICK p : p = request[r] /\ p \in RequestType
  BY <1>1
<1>3. CASE FetchCurrentBegin(r)
  <2>1. PICK first, pos, closest, index, ref :
          /\ first = getFirstSequence
          /\ pos = get_element_id(p.start)
          /\ closest = (pos \div CheckpointFreq) * CheckpointFreq
          /\ index = (IF UseFirst(get_element_id(first), closest, pos)
                        THEN get_element_id(first) ELSE closest) + 1
          /\ ref = IF UseFirst(get_element_id(first), closest, pos)
                     THEN m_first ELSE m_checkpoints[pos \div CheckpointFreq]
    OBVIOUS
  <2>2. PICK q : q = [p EXCEPT !.pc = "rolling", !.firstSeq = first, !.seq = m_sequence, !.pos = pos,
                               !.index = index, !.check = FilterCheckpoint(ref, p.filter)]
    OBVIOUS
  <2>3. request' = [request EXCEPT ![r] = q] /\ p.pc = "current"
    BY <1>2, <1>3, <2>1, <2>2 DEF FetchCurrentBegin
  <2>4. q.pc = "rolling" /\ q.filter = p.filter
    BY <1>2, <2>2 DEF RequestType
  <2>5. QED
    BY <1>1, <1>2, <2>3, <2>4
<1>4. CASE RollForward(r)
  <2>1. PICK q : q = [p EXCEPT !.check = addFiltered(@, p.filter, m_slidingBuffer[p.index]),
                               !.index = @ + 1]
    OBVIOUS
  <2>2. request' = [request EXCEPT ![r] = q] /\ p.pc = "rolling"
    BY <1>2, <1>4, <2>1 DEF RollForward
  <2>3. q.pc = "rolling" /\ q.filter = p.filter
    BY <1>2, <2>1, <2>2 DEF RequestType
  <2>4. QED
    BY <1>1, <1>2, <2>2, <2>3
<1>5. QED
  BY <1>3, <1>4

(* The steps of a current keep its filter; the response forgets it.        *)
LEMMA CurrentStep ==
  ASSUME IInv, SampleInv, IInv', NEW r \in Readers,
         \/ FetchLatest(r) \/ FetchCurrentBegin(r) \/ RollForward(r)
         \/ FetchCurrentEnd(r) \/ Respond(r)
  PROVE  SampleInv'
<1>1. request \in [Readers -> RequestType] /\ request' \in [Readers -> RequestType]
  BY DEF IInv, TypeOK
<1>2. PICK q : q = request'[r]
  OBVIOUS
<1>3. /\ request' = [request EXCEPT ![r] = q]
      /\ q.pc \notin {"sample", "scanning", "sampleDone"}
      /\ q.pc # "idle" => q.filter = request[r].filter /\ request[r].pc # "idle"
  <2>1. CASE FetchLatest(r)
    BY <1>1, <1>2, <2>1 DEF FetchLatest, RequestType
  <2>2. CASE FetchCurrentBegin(r) \/ RollForward(r)
    BY <1>2, <2>2, RollSteps
  <2>3. CASE FetchCurrentEnd(r)
    BY <1>1, <1>2, <2>3 DEF FetchCurrentEnd, RequestType
  <2>4. CASE Respond(r)
    BY <1>1, <1>2, <2>4 DEF Respond, IdleRequest
  <2>5. QED
    BY <2>1, <2>2, <2>3, <2>4
<1>4. UNCHANGED <<agentVars, history>> /\ m_sequenceLock' \in Readers \cup {Free}
  BY DEF FetchLatest, FetchCurrentBegin, RollForward, FetchCurrentEnd, Respond, IInv, TypeOK
<1>5. m_sequenceLock' = m_sequenceLock \/ m_sequenceLock \in {Free, r}
  BY DEF FetchLatest, FetchCurrentBegin, RollForward, FetchCurrentEnd, Respond, IInv,
         RequestInv, RequestOK, RollingInv, Locked
<1>6. Reads(r, q)
  BY <1>1, <1>2, <1>3, <1>4, <1>5 DEF Reads
<1>7. SampleOK(q)
  BY <1>3 DEF SampleOK, SampleInv
<1>8. QED
  BY <1>6, <1>7, SampleFrame

(* The start is moved into the window; nothing has been passed over.       *)
LEMMA FetchSampleBeginStep ==
  ASSUME IInv, SampleInv, NEW r \in Readers, FetchSampleBegin(r)
  PROVE  SampleInv'
<1>1. PICK p, c : p = request[r] /\ c = ClampStart(p.start, p.count)
  OBVIOUS
<1>2. /\ p \in RequestType /\ p.pc = "sample" /\ SampleOK(p)
      /\ m_sequence \in Nat \ {0} /\ m_sequenceLock = Free
  BY <1>1 DEF IInv, TypeOK, FetchSampleBegin, SampleInv
<1>3. PICK n, first : n = m_sequence /\ first = FirstOf(n)
  OBVIOUS
<1>4. getFirstSequence = first /\ first \in 1 .. n /\ first \in Nat \ {0} /\ n \in Nat \ {0}
  BY <1>2, <1>3, FirstSequence, FirstFacts
<1>5. p.start \in Nat /\ p.count \in Int /\ p.start <= n /\ p.results = <<>> /\ p.filter \in Filters
  BY <1>2, <1>3 DEF RequestType, SampleOK
<1>6. /\ c \in Nat
      /\ p.count >= 0 => first <= c /\ c <= n
      /\ p.count < 0 => c < n
  BY <1>1, <1>3, <1>4, <1>5 DEF ClampStart, NoStart
<1>7. PICK q : q = [p EXCEPT !.pc = "scanning", !.firstSeq = first, !.seq = n, !.start = c, !.index = c]
  OBVIOUS
<1>8. q \in RequestType
  BY <1>2, <1>4, <1>6, <1>7 DEF RequestType
<1>9. /\ q.pc = "scanning" /\ q.firstSeq = first /\ q.seq = n /\ q.start = c /\ q.index = c
      /\ q.count = p.count /\ q.results = <<>> /\ q.filter = p.filter
  BY <1>2, <1>5, <1>7 DEF RequestType
<1>10. request' = [request EXCEPT ![r] = q] /\ m_sequenceLock' = r
  BY <1>1, <1>3, <1>4, <1>7 DEF FetchSampleBegin
<1>11. Reads(r, q)
  BY <1>2, <1>8, <1>10 DEF Reads, FetchSampleBegin
<1>12. Collected(q) = <<>>
  <2>1. Scanned(q) = {}
    BY <1>6, <1>9 DEF Scanned
  <2>2. {s \in Scanned(q) : log[s].item \in q.filter} = {}
    BY <2>1
  <2>3. QED
    BY <2>2, SubsequenceEmpty DEF Collected, IInv, TypeOK
<1>13. Backward(Collected(q)) = <<>>
  BY <1>12 DEF Backward
<1>14. Len(q.results) <= ScanLimit(q)
  BY <1>5, <1>9 DEF ScanLimit
<1>15. ScanInv(q)
  BY <1>3, <1>4, <1>5, <1>6, <1>9, <1>12, <1>13, <1>14 DEF ScanInv
<1>16. SampleOK(q)
  BY <1>5, <1>9, <1>15 DEF SampleOK
<1>17. QED
  BY <1>11, <1>16, SampleFrame

(* One iteration passes over the next sequence number and collects its     *)
(* observation if it matches.                                              *)
LEMMA ScanSampleStep ==
  ASSUME IInv, SampleInv, NEW r \in Readers, ScanSample(r)
  PROVE  SampleInv'
<1>1. PICK p, obs : p = request[r] /\ obs = m_slidingBuffer[get_element_id(p.index)]
  OBVIOUS
<1>2. p \in RequestType /\ p.pc = "scanning" /\ ScanContinues(p) /\ m_sequence \in Nat \ {0}
  BY <1>1 DEF IInv, TypeOK, ScanSample
<1>3. Locked(r) /\ SampleOK(p) /\ ScanInv(p)
  BY <1>1, <1>2 DEF IInv, RequestInv, RequestOK, SampleInv, SampleOK
<1>4. /\ p.index \in Nat /\ p.start \in Nat /\ p.count \in Int /\ p.results \in Seq(Observation)
      /\ p.seq \in Nat \ {0} /\ p.firstSeq \in Nat \ {0} /\ p.filter \in Filters
      /\ p.firstSeq = FirstOf(m_sequence) /\ p.seq = m_sequence /\ m_sequenceLock = r
  BY <1>1, <1>2, <1>3, FirstSequence DEF Locked, RequestType, SampleOK
<1>5. Len(log) = m_sequence - 1 /\ log \in Seq(Observation)
  BY DEF IInv, TypeOK, HistoryInv
<1>6. p.index \in Window(p.firstSeq, p.seq) /\ p.index \in 1 .. Len(log)
  BY <1>2, <1>4, <1>5 DEF ScanContinues, Window
<1>7. obs = log[p.index] /\ obs \in Observation
  <2>1. obs = log[p.index]
    BY <1>1, <1>4, <1>6, FirstSequence DEF IInv, SlotsInv, WindowIntact
  <2>2. QED
    BY <1>5, <1>6, <2>1
<1>8. PICK res, idx : /\ res = IF obs.item \in p.filter THEN Append(p.results, obs) ELSE p.results
                      /\ idx = IF p.count >= 0 THEN p.index + 1 ELSE p.index - 1
  OBVIOUS
<1>9. res \in Seq(Observation) /\ idx \in Nat
  BY <1>4, <1>6, <1>7, <1>8
<1>10. PICK q : q = [p EXCEPT !.results = res, !.index = idx]
  OBVIOUS
<1>11. q \in RequestType
  BY <1>2, <1>9, <1>10 DEF RequestType
<1>12. /\ q.pc = "scanning" /\ q.firstSeq = p.firstSeq /\ q.seq = p.seq /\ q.start = p.start
       /\ q.count = p.count /\ q.filter = p.filter /\ q.results = res /\ q.index = idx
  BY <1>2, <1>10 DEF RequestType
<1>13. request' = [request EXCEPT ![r] = q] /\ m_sequenceLock' = m_sequenceLock
  BY <1>1, <1>8, <1>10 DEF ScanSample
<1>14. Reads(r, q)
  BY <1>4, <1>11, <1>13 DEF Reads, ScanSample
<1>15. PICK K, L : /\ K = {s \in Scanned(p) : log[s].item \in p.filter}
                   /\ L = {s \in Scanned(q) : log[s].item \in q.filter}
  OBVIOUS
<1>16. K \in SUBSET (1 .. Len(log)) /\ Subsequence(log, K) \in Seq(Observation)
  BY <1>2, <1>3, <1>5, <1>15, ScannedWindow, SubsequenceSelects
<1>17. L = IF obs.item \in p.filter THEN K \cup {p.index} ELSE K
  <2>1. Scanned(q) = Scanned(p) \cup {p.index}
    <3>1. CASE p.count >= 0
      BY <1>3, <1>4, <1>8, <1>12, <3>1 DEF Scanned, ScanInv
    <3>2. CASE p.count < 0
      BY <1>3, <1>4, <1>6, <1>8, <1>12, <3>2 DEF Scanned, ScanInv
    <3>3. QED
      BY <1>4, <3>1, <3>2
  <2>2. QED
    BY <1>7, <1>12, <1>15, <2>1
<1>18. ASSUME p.count >= 0
       PROVE  /\ q.firstSeq <= q.start /\ q.start <= q.index /\ q.index <= q.seq
              /\ q.results = Collected(q)
  <2>1. p.results = Subsequence(log, K)
    BY <1>3, <1>15, <1>18 DEF ScanInv, Collected
  <2>2. \A j \in K : j < p.index
    BY <1>4, <1>15, <1>18 DEF Scanned
  <2>3. Subsequence(log, K \cup {p.index}) = Append(Subsequence(log, K), log[p.index])
    BY <1>5, <1>6, <1>16, <2>2, SubsequenceAppend
  <2>4. res = Subsequence(log, L)
    BY <1>7, <1>8, <1>17, <2>1, <2>3
  <2>5. q.results = Collected(q)
    BY <1>12, <1>15, <2>4 DEF Collected
  <2>6. p.firstSeq <= p.start /\ p.start <= p.index /\ p.index < p.seq /\ idx = p.index + 1
    BY <1>3, <1>4, <1>6, <1>8, <1>18 DEF ScanInv, Window
  <2>7. QED
    BY <1>4, <1>12, <2>5, <2>6
<1>19. ASSUME p.count < 0
       PROVE  /\ q.start < q.seq /\ q.index <= q.start
              /\ q.index = q.start \/ q.firstSeq <= q.index + 1
              /\ q.results = Backward(Collected(q))
  <2>1. p.results = Backward(Subsequence(log, K))
    BY <1>3, <1>15, <1>19 DEF ScanInv, Collected
  <2>2. \A j \in K : p.index < j
    BY <1>4, <1>15, <1>19 DEF Scanned
  <2>3. res = Backward(Subsequence(log, L))
    <3>1. CASE obs.item \in p.filter
      <4>1. Subsequence(log, L) = <<obs>> \o Subsequence(log, K)
        BY <1>5, <1>6, <1>7, <1>16, <1>17, <2>2, <3>1, SubsequencePrepend
      <4>2. PICK t : t = Subsequence(log, K)
        OBVIOUS
      <4>3. t \in Seq(Observation) /\ Append(Backward(t), obs) = Backward(<<obs>> \o t)
        BY <1>7, <1>16, <4>2, BackwardPrepend
      <4>4. QED
        BY <1>8, <2>1, <3>1, <4>1, <4>2, <4>3
    <3>2. CASE obs.item \notin p.filter
      BY <1>8, <1>17, <2>1, <3>2
    <3>3. QED
      BY <3>1, <3>2
  <2>4. q.results = Backward(Collected(q))
    BY <1>12, <1>15, <2>3 DEF Collected
  <2>5. p.start < p.seq /\ p.index <= p.start /\ p.firstSeq <= p.index /\ idx = p.index - 1
    BY <1>3, <1>4, <1>6, <1>8, <1>19 DEF ScanInv, Window
  <2>6. QED
    BY <1>4, <1>12, <2>4, <2>5
<1>20. Len(q.results) <= ScanLimit(q)
  <2>1. Len(p.results) \in Nat /\ ScanLimit(p) \in Int /\ ScanLimit(q) = ScanLimit(p) /\ Len(p.results) < ScanLimit(p)
    BY <1>2, <1>4, <1>12 DEF ScanLimit, ScanContinues
  <2>2. Len(res) <= Len(p.results) + 1 /\ Len(res) \in Nat
    BY <1>4, <1>7, <1>8, <1>9
  <2>3. QED
    BY <1>12, <2>1, <2>2
<1>21. ScanInv(q)
  BY <1>3, <1>4, <1>12, <1>18, <1>19, <1>20 DEF ScanInv
<1>22. SampleOK(q)
  BY <1>4, <1>12, <1>21 DEF SampleOK
<1>23. QED
  BY <1>14, <1>22, SampleFrame

(* The loop ends at 'count' or at the end of the window.                   *)
LEMMA FetchSampleEndStep ==
  ASSUME IInv, SampleInv, NEW r \in Readers, FetchSampleEnd(r)
  PROVE  SampleInv'
<1>1. PICK p : p = request[r]
  OBVIOUS
<1>2. p \in RequestType /\ p.pc = "scanning" /\ ~ ScanContinues(p)
  BY <1>1 DEF IInv, TypeOK, FetchSampleEnd
<1>3. Locked(r) /\ SampleOK(p) /\ ScanInv(p)
  BY <1>1, <1>2 DEF IInv, RequestInv, RequestOK, SampleInv, SampleOK
<1>4. /\ p.index \in Nat /\ p.start \in Nat /\ p.count \in Int
      /\ p.seq \in Nat \ {0} /\ p.firstSeq \in Nat \ {0} /\ p.filter \in Filters
      /\ p.seq = m_sequence /\ m_sequenceLock = r
  BY <1>1, <1>2, <1>3 DEF Locked, RequestType, SampleOK
<1>5. PICK q : q = [p EXCEPT !.pc = "sampleDone"]
  OBVIOUS
<1>6. q \in RequestType
  BY <1>2, <1>5 DEF RequestType
<1>7. /\ q.pc = "sampleDone" /\ q.firstSeq = p.firstSeq /\ q.seq = p.seq /\ q.start = p.start
      /\ q.count = p.count /\ q.filter = p.filter /\ q.results = p.results /\ q.index = p.index
  BY <1>2, <1>5 DEF RequestType
<1>8. Reads(r, q)
  BY <1>1, <1>4, <1>5, <1>6 DEF FetchSampleEnd, Reads
<1>9. ScanLimit(q) = ScanLimit(p) /\ Scanned(q) = Scanned(p)
  BY <1>7 DEF ScanLimit, Scanned
<1>10. ScanInv(q)
  BY <1>3, <1>7, <1>9 DEF ScanInv, Collected
<1>11. ASSUME Len(p.results) < ScanLimit(p)
       PROVE  IF p.count >= 0 THEN p.index = p.seq ELSE p.index < p.firstSeq
  <2>1. p.index >= p.seq \/ p.index < p.firstSeq
    BY <1>2, <1>4, <1>11 DEF ScanContinues
  <2>2. CASE p.count >= 0
    BY <1>3, <1>4, <2>1, <2>2 DEF ScanInv
  <2>3. CASE p.count < 0
    BY <1>3, <1>4, <2>1, <2>3 DEF ScanInv
  <2>4. QED
    BY <1>4, <2>2, <2>3
<1>12. SampleOK(q)
  BY <1>4, <1>7, <1>9, <1>10, <1>11 DEF SampleOK
<1>13. QED
  BY <1>8, <1>12, SampleFrame

(* SampleInv is inductive together with IInv.                              *)
LEMMA NextSample == IInv /\ IInv' /\ SampleInv /\ [Next]_vars => SampleInv'
<1> SUFFICES ASSUME IInv, IInv', SampleInv, [Next]_vars
             PROVE  SampleInv'
  OBVIOUS
<1>1. CASE Write
  BY <1>1, WriteAdds, AddSample
<1>2. ASSUME NEW r \in Readers, Read(r)
      PROVE  SampleInv'
  <2>1. ASSUME NEW f \in Filters, NEW at \in 0 .. MaxSequence, CheckCurrent(r, f, at)
        PROVE  SampleInv'
    BY <2>1, CheckCurrentStep, BufferAssumption
  <2>2. ASSUME NEW f \in Filters, NEW from \in 0 .. MaxSequence + 1, NEW c \in Counts,
               CheckSample(r, f, from, c)
        PROVE  SampleInv'
    BY <2>2, CheckSampleStep, BufferAssumption
  <2>3. QED
    BY <1>2, <2>1, <2>2, CurrentStep, FetchSampleBeginStep, ScanSampleStep, FetchSampleEndStep
       DEF Read
<1>3. CASE UNCHANGED vars
  BY <1>3 DEF vars, agentVars, history, SampleInv, SampleOK, ScanInv, Collected
<1>4. QED
  BY <1>1, <1>2, <1>3 DEF Next

(* No one has asked for anything yet.                                      *)
LEMMA InitSample == Init => SampleInv
BY DEF Init, SampleInv, SampleOK, IdleRequest

(* What a scan collects holds in every reachable state.                    *)
THEOREM SampleInvariance == Spec => []SampleInv
<1>1. Init => SampleInv
  BY InitSample
<1>2. IInv /\ IInv' /\ SampleInv /\ [Next]_vars => SampleInv'
  BY NextSample
<1>3. QED
  BY <1>1, <1>2, Invariance, PTL DEF Spec

(* A finished sample has the matches of the numbers it passed over, each   *)
(* once and in order.                                                      *)
LEMMA SampleExact ==
  ASSUME IInv, SampleInv
  PROVE  SampleIsExact
<1> SUFFICES ASSUME NEW r \in Readers, request[r].pc = "sampleDone"
             PROVE  LET q       == request[r]
                        matches == {s \in Scanned(q) : log[s].item \in q.filter}
                        nth(k)  == q.results[IF q.count >= 0 THEN k ELSE Len(q.results) + 1 - k]
                    IN  /\ Scanned(q) \subseteq Window(q.firstSeq, q.seq)
                        /\ Len(q.results) = Cardinality(matches)
                        /\ Len(q.results) <= ScanLimit(q)
                        /\ Len(q.results) < ScanLimit(q) =>
                             IF q.count >= 0 THEN q.index = q.seq ELSE q.index < q.firstSeq
                        /\ {q.results[k] : k \in DOMAIN q.results} = {log[s] : s \in matches}
                        /\ \A j, k \in DOMAIN q.results : j < k => nth(j).sequence < nth(k).sequence
  BY DEF SampleIsExact
<1>1. PICK q, K : q = request[r] /\ K = {s \in Scanned(q) : log[s].item \in q.filter}
  OBVIOUS
<1>2. q \in RequestType /\ SampleOK(q) /\ ScanInv(q) /\ q.pc = "sampleDone"
  BY <1>1 DEF SampleInv, SampleOK, IInv, TypeOK
<1>3. log \in Seq(Observation) /\ K \in SUBSET (1 .. Len(log)) /\ K \in SUBSET Nat
  BY <1>1, <1>2, ScannedWindow DEF IInv, TypeOK
<1>4. PICK t, n : t = Subsequence(log, K) /\ n = Len(t)
  OBVIOUS
<1>5. t \in Seq(Observation)
  BY <1>3, <1>4, SubsequenceSelects
<1>6. PICK h : Selects(t, log, K, h)
  BY <1>3, <1>4, SubsequenceSelects
<1>7. /\ n \in Nat /\ n = Cardinality(K)
      /\ \A i \in 1 .. n : h[i] \in K /\ t[i] = log[h[i]] /\ t[i].sequence = h[i] /\ h[i] \in Nat
      /\ \A i, j \in 1 .. n : i < j => h[i] < h[j]
      /\ \A k \in K : \E i \in 1 .. n : h[i] = k
  <2>1. n \in Nat /\ n = Cardinality(K)
    BY <1>3, <1>4, <1>5, <1>6, SelectsCardinality
  <2>2. /\ \A i \in 1 .. n : h[i] \in K /\ t[i] = log[h[i]]
        /\ \A i, j \in 1 .. n : i < j => h[i] < h[j]
        /\ \A k \in K : \E i \in 1 .. n : h[i] = k
    BY <1>4, <1>6 DEF Selects
  <2>3. ASSUME NEW i \in 1 .. n
        PROVE  t[i].sequence = h[i] /\ h[i] \in Nat
    <3>1. t[i] = log[h[i]] /\ h[i] \in 1 .. Len(log) /\ h[i] \in Nat
      BY <1>3, <2>2
    <3>2. h[i] \in DOMAIN log
      BY <1>3, <3>1
    <3>3. QED
      BY <3>1, <3>2 DEF SampleInv
  <2>4. QED
    BY <2>1, <2>2, <2>3
<1>8. q.count \in Int
  BY <1>2 DEF RequestType
<1>9. /\ Len(q.results) = n /\ DOMAIN q.results = 1 .. n
      /\ \A k \in 1 .. n : q.results[k] = t[IF q.count >= 0 THEN k ELSE n + 1 - k]
  <2>1. CASE q.count >= 0
    <3>1. q.results = t
      BY <1>1, <1>2, <1>4, <2>1 DEF ScanInv, Collected
    <3>2. QED
      BY <1>4, <1>5, <2>1, <3>1
  <2>2. CASE q.count < 0
    <3>1. q.results = Backward(t)
      BY <1>1, <1>2, <1>4, <2>2 DEF ScanInv, Collected
    <3>2. q.results = [k \in 1 .. n |-> t[n + 1 - k]] /\ q.results \in Seq(Observation)
      BY <1>2, <1>4, <3>1 DEF Backward, RequestType
    <3>3. Len(q.results) = n /\ DOMAIN q.results = 1 .. n
      BY <1>7, <3>2
    <3>4. ASSUME NEW k \in 1 .. n
          PROVE  q.results[k] = t[n + 1 - k]
      BY <3>2
    <3>5. ~ (q.count >= 0)
      BY <1>8, <2>2
    <3>6. QED
      BY <3>3, <3>4, <3>5
  <2>3. QED
    BY <1>8, <2>1, <2>2
<1>10. {q.results[k] : k \in DOMAIN q.results} = {log[s] : s \in K}
  <2>1. ASSUME NEW k \in 1 .. n
        PROVE  \E s \in K : q.results[k] = log[s]
    <3>1. PICK i : i = IF q.count >= 0 THEN k ELSE n + 1 - k
      OBVIOUS
    <3>2. i \in 1 .. n /\ q.results[k] = t[i]
      BY <1>7, <1>9, <3>1
    <3>3. QED
      BY <1>7, <3>2
  <2>2. ASSUME NEW s \in K
        PROVE  \E k \in 1 .. n : q.results[k] = log[s]
    <3>1. PICK i \in 1 .. n : h[i] = s /\ t[i] = log[s]
      BY <1>7
    <3>2. PICK k : k = IF q.count >= 0 THEN i ELSE n + 1 - i
      OBVIOUS
    <3>3. k \in 1 .. n /\ (IF q.count >= 0 THEN k ELSE n + 1 - k) = i
      BY <1>7, <3>1, <3>2
    <3>4. QED
      BY <1>9, <3>1, <3>3
  <2>3. DOMAIN q.results = 1 .. n
    BY <1>9
  <2>4. PICK R, D : R = q.results /\ D = DOMAIN R
    OBVIOUS
  <2>5. /\ \A k \in D : \E s \in K : R[k] = log[s]
        /\ \A s \in K : \E k \in D : R[k] = log[s]
    BY <2>1, <2>2, <2>3, <2>4
  <2>6. {R[k] : k \in D} = {log[s] : s \in K}
    BY <2>5
  <2>7. QED
    BY <2>4, <2>6
<1>11. ASSUME NEW k \in 1 .. n
       PROVE  q.results[IF q.count >= 0 THEN k ELSE Len(q.results) + 1 - k] = t[k]
  <2>1. PICK j : j = IF q.count >= 0 THEN k ELSE Len(q.results) + 1 - k
    OBVIOUS
  <2>2. j \in 1 .. n /\ (IF q.count >= 0 THEN j ELSE n + 1 - j) = k
    BY <1>7, <1>9, <2>1
  <2>3. QED
    BY <1>9, <2>1, <2>2
<1>12. ASSUME NEW j \in 1 .. n, NEW k \in 1 .. n, j < k
       PROVE  q.results[IF q.count >= 0 THEN j ELSE Len(q.results) + 1 - j].sequence
                < q.results[IF q.count >= 0 THEN k ELSE Len(q.results) + 1 - k].sequence
  <2>1. t[j].sequence < t[k].sequence
    BY <1>7, <1>12
  <2>2. QED
    BY <1>11, <2>1
<1>13. Scanned(q) \subseteq Window(q.firstSeq, q.seq)
  BY <1>2, ScannedWindow
<1>14. /\ Len(q.results) <= ScanLimit(q)
       /\ Len(q.results) < ScanLimit(q) =>
            IF q.count >= 0 THEN q.index = q.seq ELSE q.index < q.firstSeq
  BY <1>2 DEF SampleOK, ScanInv
<1>15. /\ Len(q.results) = Cardinality(K)
       /\ \A j, k \in DOMAIN q.results : j < k =>
            q.results[IF q.count >= 0 THEN j ELSE Len(q.results) + 1 - j].sequence
              < q.results[IF q.count >= 0 THEN k ELSE Len(q.results) + 1 - k].sequence
  BY <1>7, <1>9, <1>12
<1>16. QED
  BY <1>1, <1>10, <1>13, <1>14, <1>15, Zenon

(* A sample is always a gap-free run of the log: exactly the matches among *)
(* the numbers fetchSampleData passed over, whatever the buffer size, the  *)
(* filter, the count and the writers in between.                           *)
THEOREM SampleCorrect == Spec => []SampleIsExact
<1>1. IInv /\ SampleInv => SampleIsExact
  BY SampleExact
<1>2. QED
  BY <1>1, Invariance, SampleInvariance, PTL

-----------------------------------------------------------------------------
(* The refinement: the buffer implements the log.                          *)

(* The log's checkpoints are the buffer's checkpoints: both modules take   *)
(* their operators from Checkpoint.                                        *)
LEMMA SameCheckpoints ==
  /\ Log!DataItems = DataItems
  /\ Log!Payload = Payload
  /\ Log!EmptyCheckpoint = EmptyCheckpoint
  /\ \A cp, obs : Log!addObservation(cp, obs) = addObservation(cp, obs)
  /\ \A cp, f : Log!FilterCheckpoint(cp, f) = FilterCheckpoint(cp, f)
  /\ \A i, s, p : Log!MakeObservation(i, s, p) = MakeObservation(i, s, p)
<1>1. Log!DataItems = DataItems
  BY DEF Log!DataItems, DataItems
<1>2. Log!Payload = Payload
  BY DEF Log!Payload, Payload, Log!Levels, Levels, Log!NoValue, NoValue, Log!NoCode, NoCode,
         Log!DataSet, DataSet, Log!Removed, Removed, Log!Unavailable, Unavailable
<1>3. Log!EmptyCheckpoint = EmptyCheckpoint
  BY <1>1 DEF Log!EmptyCheckpoint, EmptyCheckpoint
<1>4. ASSUME NEW cp, NEW obs
      PROVE  Log!addObservation(cp, obs) = addObservation(cp, obs)
  BY DEF Log!addObservation, addObservation, Log!AddToChain, AddToChain, Log!AddCondition, AddCondition,
         Log!AddDataSet, AddDataSet, Log!MergeSet, MergeSet, Log!RemoveCode, RemoveCode,
         Log!HasCode, HasCode, Log!ClearedNormal, ClearedNormal, Log!isActive, isActive,
         Log!isUnavailable, isUnavailable, Log!NoCode, NoCode, Log!Removed, Removed,
         Log!Unavailable, Unavailable
<1>5. \A cp, f : Log!FilterCheckpoint(cp, f) = FilterCheckpoint(cp, f)
  BY <1>1 DEF Log!FilterCheckpoint, FilterCheckpoint
<1>6. \A i, s, p : Log!MakeObservation(i, s, p) = MakeObservation(i, s, p)
  BY DEF Log!MakeObservation, MakeObservation
<1>7. QED
  BY <1>1, <1>2, <1>3, <1>4, <1>5, <1>6

(* So are the parts of the log an answer is made of.                       *)
LEMMA SameSubsequences ==
  /\ \A s, K : Log!Subsequence(s, K) = Subsequence(s, K)
  /\ \A s : Log!Backward(s) = Backward(s)
<1>1. ASSUME NEW s, NEW K
      PROVE Log!Subsequence(s, K) = Subsequence(s, K)
  BY DEF Log!Subsequence, Subsequence
<1>2. \A s : Log!Backward(s) = Backward(s)
  BY DEF Log!Backward, Backward
<1>3. QED
  BY <1>1, <1>2
(* What the readers were answered: the log's variable reply.               *)
Replies == [r \in Readers |-> Reply(request[r])]

(* An observation added to the history is added to the log.                *)
LEMMA LogAdd ==
  ASSUME NEW obs \in Observation, obs.sequence = Len(log) + 1, log' = Append(log, obs),
         states' = Append(states, addObservation(IF states = <<>> THEN EmptyCheckpoint
                                                 ELSE states[Len(states)], obs)),
         Replies' = Replies
  PROVE  Log!Next
<1>1. obs.item \in Log!DataItems /\ obs.payload \in Log!Payload
  BY SameCheckpoints DEF Observation
<1>2. Log!MakeObservation(obs.item, Len(log) + 1, obs.payload) = obs
  BY SameCheckpoints DEF MakeObservation, Observation
<1>3. Log!Add(obs)
  BY SameCheckpoints DEF Log!Add, Log!LatestState, Replies
<1>4. QED
  BY <1>1, <1>2, <1>3 DEF Log!Next


(* A step of reader r changes at most its own reply.                       *)
LEMMA ReplyChanges ==
  ASSUME IInv, NEW r \in Readers, request' = [request EXCEPT ![r] = request'[r]]
  PROVE  /\ Replies' = [Replies EXCEPT ![r] = Reply(request'[r])]
         /\ Replies[r] = Reply(request[r])
<1>1. request \in [Readers -> RequestType]
  BY DEF IInv, TypeOK
<1>2. ASSUME NEW t \in Readers
      PROVE  Replies'[t] = [Replies EXCEPT ![r] = Reply(request'[r])][t]
  <2>1. Replies'[t] = Reply(request'[t])
    BY DEF Replies, Reply
  <2>2. CASE t = r
    BY <2>1, <2>2 DEF Replies
  <2>3. CASE t # r
    BY <1>1, <2>1, <2>3 DEF Replies
  <2>4. QED
    BY <2>2, <2>3
<1>3. QED
  BY <1>2 DEF Replies

(* The log's window is the buffer's.                                       *)
LEMMA LogWindow ==
  ASSUME IInv
  PROVE  /\ Len(log) = m_sequence - 1 /\ m_sequence \in Nat \ {0} /\ Len(log) \in Nat
         /\ Log!Window = FirstOf(m_sequence) .. Len(log)
<1>1. Len(log) = m_sequence - 1 /\ m_sequence \in Nat \ {0} /\ Len(log) \in Nat
  BY DEF IInv, TypeOK, HistoryInv
<1>2. QED
  BY <1>1, BufferAssumption DEF Log!Window, Log!First, FirstOf

(* A write adds to the log.                                                *)
LEMMA WriteLog ==
  ASSUME IInv, Write
  PROVE  Log!Next
<1>1. PICK obs : Adds(obs)
  BY WriteAdds
<1>2. obs \in Observation /\ obs.sequence = Len(log) + 1 /\ log' = Append(log, obs)
  BY <1>1, LogWindow DEF Adds
<1>3. m_latest = IF states = <<>> THEN EmptyCheckpoint ELSE states[Len(states)]
  <2>1. m_sequence \in Nat \ {0} /\ Len(states) = m_sequence - 1 /\ states \in Seq(CheckpointType)
    BY DEF IInv, TypeOK, HistoryInv
  <2>2. states = <<>> <=> m_sequence - 1 = 0
    BY <2>1
  <2>3. QED
    BY <2>1, <2>2 DEF IInv, CheckpointsInv, StateAfter
<1>4. Replies' = Replies
  BY <1>1 DEF Adds, Replies, Reply
<1>5. states' = Append(states, addObservation(m_latest, obs))
  BY <1>1 DEF Adds
<1>6. QED
  BY <1>2, <1>3, <1>4, <1>5, LogAdd

(* A finished current answers from the window.                             *)
LEMMA CurrentLog ==
  ASSUME IInv, SampleInv, IInv', NEW r \in Readers, FetchLatest(r) \/ FetchCurrentEnd(r)
  PROVE  Log!Next
<1>1. PICK p, q : p = request[r] /\ q = request'[r] /\ p \in RequestType /\ q \in RequestType
  BY DEF IInv, TypeOK
<1>2. request \in [Readers -> RequestType]
  BY DEF IInv, TypeOK
<1>3. /\ UNCHANGED <<log, states>> /\ m_sequence' = m_sequence
      /\ p.pc \in {"current", "rolling"}
  BY <1>1 DEF FetchLatest, FetchCurrentEnd, history, agentVars
<1>4. /\ request' = [request EXCEPT ![r] = q]
      /\ q.pc = "currentDone" /\ q.filter = p.filter /\ q.start = p.start
      /\ q.seq = m_sequence /\ q.firstSeq = FirstOf(m_sequence)
  <2>1. CASE FetchLatest(r)
    BY <1>1, <1>2, <2>1, FirstSequence DEF FetchLatest, RequestType
  <2>2. CASE FetchCurrentEnd(r)
    <3>1. p.seq = m_sequence /\ p.firstSeq = FirstOf(m_sequence)
      BY <1>1, <2>2, FirstSequence DEF FetchCurrentEnd, IInv, RequestInv, RequestOK, RollingInv, Locked
    <3>2. QED
      BY <1>1, <1>2, <2>2, <3>1 DEF FetchCurrentEnd, RequestType
  <2>3. QED
    BY <2>1, <2>2
<1>5. PICK s : s = IF q.start = NoStart THEN q.seq - 1 ELSE Resident(q.start, q.firstSeq, q.seq)
  OBVIOUS
<1>6. m_sequence > 1 /\ q.start < m_sequence /\ q.start \in Nat /\ p.filter \in Filters
  BY <1>1, <1>3, <1>4 DEF IInv, RequestInv, RequestOK, SampleInv, SampleOK, RequestType
<1>7. /\ q.check = FilterCheckpoint(states[s], q.filter)
      /\ q.start \in Window(q.firstSeq, q.seq) => s = q.start
  <2>1. AnswerIsReplay(request[r])'
    BY DEF IInv, CurrentIsReplay
  <2>2. QED
    BY <1>1, <1>3, <1>4, <1>5, <2>1 DEF AnswerIsReplay, Resident, Window, get_element_id
<1>8. /\ s \in Log!Window
      /\ q.start = 0 => s = Len(log)
      /\ q.start \in Log!Window => s = q.start
  <2>1. FirstOf(m_sequence) \in 1 .. m_sequence - 1
    BY <1>6, LogWindow, FirstFacts
  <2>2. CASE q.start = NoStart
    BY <1>4, <1>5, <2>1, <2>2, LogWindow DEF NoStart
  <2>3. CASE q.start # NoStart
    <3>1. s \in Window(FirstOf(m_sequence), m_sequence)
      BY <1>4, <1>5, <1>6, <2>3, LogWindow, ResidentFacts DEF NoStart
    <3>2. Window(FirstOf(m_sequence), m_sequence) = Log!Window
      BY LogWindow DEF Window
    <3>3. QED
      BY <1>4, <1>7, <2>3, <3>1, <3>2 DEF NoStart
  <2>4. QED
    BY <2>2, <2>3
<1>9. Reply(p) = Log!NoReply
  BY <1>3 DEF Reply, Log!NoReply, NoStart
<1>10. Reply(q) = [kind |-> "current", asked |-> q.start,
                   body |-> Log!FilterCheckpoint(states[s], p.filter)]
  BY <1>4, <1>7, SameCheckpoints DEF Reply
<1>11. Log!Answer(r, Reply(q))
  BY <1>1, <1>3, <1>4, <1>9, ReplyChanges DEF Log!Answer, Replies
<1>12. q.start \in 0 .. Len(log)
  BY <1>6, LogWindow
<1>13. Log!AnswerCurrent(r)
  BY <1>6, <1>8, <1>10, <1>11, <1>12 DEF Log!AnswerCurrent
<1>14. QED
  BY <1>13 DEF Log!Next

(* A finished sample is a run of the window.                               *)
LEMMA SampleLog ==
  ASSUME IInv, SampleInv, SampleInv', IInv', NEW r \in Readers, FetchSampleEnd(r)
  PROVE  Log!Next
<1>1. PICK p, q : p = request[r] /\ q = request'[r] /\ p \in RequestType /\ q \in RequestType
  BY DEF IInv, TypeOK
<1>2. request \in [Readers -> RequestType]
  BY DEF IInv, TypeOK
<1>3. /\ UNCHANGED <<log, states>> /\ m_sequence' = m_sequence
      /\ p.pc = "scanning"
  BY <1>1 DEF FetchSampleEnd, history, agentVars
<1>4. request' = [request EXCEPT ![r] = q] /\ q.pc = "sampleDone" /\ q.filter = p.filter /\ q.seq = p.seq
  BY <1>1, <1>2 DEF FetchSampleEnd, RequestType
<1>5. q.seq = m_sequence /\ q.filter \in Filters
  BY <1>1, <1>3, <1>4 DEF IInv, RequestInv, RequestOK, Locked, SampleInv, SampleOK
<1>6. ScanInv(q)
  <2>1. SampleOK(request[r])'
    BY DEF SampleInv
  <2>2. QED
    BY <1>1, <1>3, <1>4, <2>1 DEF SampleOK, ScanInv, Collected
<1>7. PICK lo, hi : lo = FirstOf(m_sequence) /\ hi = Len(log)
  OBVIOUS
<1>8. /\ q.start \in Nat /\ q.index \in Nat /\ q.count \in Int
      /\ lo \in 1 .. m_sequence /\ hi \in Nat /\ m_sequence - lo <= Size /\ m_sequence = hi + 1
      /\ Size \in Nat /\ m_sequence \in Nat
  <2>1. q.start \in Nat /\ q.index \in Nat /\ q.count \in Int
    BY <1>1 DEF RequestType
  <2>2. m_sequence \in Nat \ {0} /\ hi \in Nat /\ hi = m_sequence - 1 /\ Size \in Nat
    BY <1>7, LogWindow, BufferAssumption
  <2>3. lo \in 1 .. m_sequence /\ m_sequence - lo <= Size
    BY <1>7, <2>2, FirstFacts
  <2>4. QED
    BY <2>1, <2>2, <2>3
<1>9. /\ q.firstSeq = lo
      /\ q.count >= 0 =>
           /\ lo <= q.start /\ q.start <= q.index /\ q.index <= hi + 1
           /\ q.results = Collected(q)
      /\ q.count < 0 =>
           /\ q.start < hi + 1 /\ q.index <= q.start
           /\ q.index = q.start \/ lo <= q.index + 1
           /\ q.results = Backward(Collected(q))
  BY <1>5, <1>6, <1>7, <1>8 DEF ScanInv
<1>10. Reply(p) = Log!NoReply
  BY <1>3 DEF Reply, Log!NoReply, NoStart
<1>11. Reply(q) = [kind |-> "sample", asked |-> q.start, body |-> q.results]
  BY <1>4 DEF Reply
<1>12. Log!Answer(r, Reply(q))
  BY <1>1, <1>3, <1>4, <1>10, ReplyChanges DEF Log!Answer, Replies
<1>13. Log!Window = lo .. hi
  BY <1>7, LogWindow
<1>14. CASE q.count >= 0
  <2>1. PICK n : n = q.index - q.start
    OBVIOUS
  <2>2. /\ n \in 0 .. Size /\ q.start \in 0 .. hi + 1 /\ q.start + n - 1 = q.index - 1
        /\ n > 0 => q.start \in lo .. hi /\ q.start + n - 1 \in lo .. hi
    BY <1>8, <1>9, <1>14, <2>1
  <2>3. Scanned(q) = q.start .. q.start + n - 1
    BY <1>14, <2>2 DEF Scanned
  <2>4. q.results = Log!Run(q.start, q.start + n - 1, q.filter)
    BY <1>9, <1>14, <2>3, SameSubsequences DEF Log!Run, Collected
  <2>5. Log!AnswerSample(r)
    BY <1>5, <1>7, <1>11, <1>12, <1>13, <2>2, <2>4 DEF Log!AnswerSample
  <2>6. QED
    BY <2>5 DEF Log!Next
<1>15. CASE q.count < 0
  <2>1. PICK n : n = q.start - q.index
    OBVIOUS
  <2>2. /\ n \in 0 .. Size /\ q.start \in 0 .. hi + 1 /\ q.start - n + 1 = q.index + 1
        /\ n > 0 => q.start \in lo .. hi /\ q.start - n + 1 \in lo .. hi
    BY <1>8, <1>9, <1>15, <2>1
  <2>3. Scanned(q) = q.start - n + 1 .. q.start
    BY <1>8, <1>15, <2>2 DEF Scanned
  <2>4. q.results = Log!Backward(Log!Run(q.start - n + 1, q.start, q.filter))
    BY <1>9, <1>15, <2>3, SameSubsequences DEF Log!Run, Collected
  <2>5. Log!AnswerSample(r)
    BY <1>5, <1>7, <1>11, <1>12, <1>13, <2>2, <2>4 DEF Log!AnswerSample
  <2>6. QED
    BY <2>5 DEF Log!Next
<1>16. QED
  BY <1>8, <1>14, <1>15

(* A step that leaves the reader's reply alone is none of the log's.       *)
LEMMA SilentLog ==
  ASSUME IInv, NEW r \in Readers, UNCHANGED <<log, states>>,
         request' = [request EXCEPT ![r] = request'[r]],
         Reply(request'[r]) = Reply(request[r])
  PROVE  UNCHANGED Log!vars
<1>1. Replies' = Replies
  BY ReplyChanges DEF Replies
<1>2. QED
  BY <1>1 DEF Log!vars, Replies

(* The response is sent and forgotten.                                     *)
LEMMA ForgetLog ==
  ASSUME IInv, NEW r \in Readers, Respond(r)
  PROVE  Log!Next
<1>1. request' = [request EXCEPT ![r] = IdleRequest] /\ UNCHANGED <<log, states>>
  BY DEF Respond, history
<1>2. request'[r] = IdleRequest
  BY <1>1 DEF IInv, TypeOK
<1>3. Reply(IdleRequest) = Log!NoReply
  BY DEF Reply, Log!NoReply, IdleRequest, NoStart
<1>4. Log!Forget(r)
  BY <1>1, <1>2, <1>3, ReplyChanges DEF Log!Forget, Replies
<1>5. QED
  BY <1>4 DEF Log!Next

(* Every step of the buffer is a step of the log or none.                  *)
LEMMA StepLog == IInv /\ IInv' /\ SampleInv /\ SampleInv' /\ [Next]_vars => [Log!Next]_(Log!vars)
<1> SUFFICES ASSUME IInv, IInv', SampleInv, SampleInv', [Next]_vars
             PROVE  Log!Next \/ UNCHANGED Log!vars
  OBVIOUS
<1>1. request \in [Readers -> RequestType]
  BY DEF IInv, TypeOK
<1>2. CASE Write
  BY <1>2, WriteLog
<1>3. ASSUME NEW r \in Readers, Read(r)
      PROVE  Log!Next \/ UNCHANGED Log!vars
  <2> DEFINE done == {"currentDone", "sampleDone"}
  <2>1. ASSUME request[r].pc \notin done, request'[r].pc \notin done, UNCHANGED <<log, states>>,
               request' = [request EXCEPT ![r] = request'[r]]
        PROVE  UNCHANGED Log!vars
    <3>1. Reply(request'[r]) = Reply(request[r])
      BY <2>1 DEF Reply
    <3>2. QED
      BY <2>1, <3>1, SilentLog
  <2>2. ASSUME NEW f \in Filters, NEW at \in 0 .. MaxSequence, CheckCurrent(r, f, at)
        PROVE  UNCHANGED Log!vars
    BY <1>1, <2>1, <2>2 DEF CheckCurrent, IdleRequest, history
  <2>3. ASSUME NEW f \in Filters, NEW from \in 0 .. MaxSequence + 1, NEW c \in Counts,
               CheckSample(r, f, from, c)
        PROVE  UNCHANGED Log!vars
    BY <1>1, <2>1, <2>3 DEF CheckSample, IdleRequest, history
  <2>4. CASE FetchCurrentBegin(r) \/ RollForward(r)
    BY <2>1, <2>4, RollSteps DEF FetchCurrentBegin, RollForward, history
  <2>5. CASE FetchSampleBegin(r)
    BY <1>1, <2>1, <2>5 DEF FetchSampleBegin, RequestType, history
  <2>6. CASE ScanSample(r)
    BY <1>1, <2>1, <2>6 DEF ScanSample, RequestType, history
  <2>7. QED
    BY <1>3, <2>2, <2>3, <2>4, <2>5, <2>6, CurrentLog, SampleLog, ForgetLog DEF Read
<1>4. CASE UNCHANGED vars
  BY <1>4 DEF vars, history, Log!vars, Reply
<1>5. QED
  BY <1>2, <1>3, <1>4 DEF Next

(* The empty buffer is the empty log.                                      *)
LEMMA InitLog == Init => Log!Init
<1> SUFFICES ASSUME Init
             PROVE  Log!Init
  OBVIOUS
<1>1. Reply(IdleRequest) = Log!NoReply
  BY DEF Reply, Log!NoReply, IdleRequest, NoStart
<1>2. QED
  BY <1>1 DEF Init, Log!Init

(* Every behaviour of the sliding buffer, its checkpoints and its readers  *)
(* is a behaviour of the log.                                              *)
THEOREM Refinement == Spec => ImplementsLog
<1>1. IInv /\ IInv' /\ SampleInv /\ SampleInv' /\ [Next]_vars => [Log!Next]_(Log!vars)
  BY StepLog
<1>2. Init => Log!Init
  BY InitLog
<1>3. QED
  BY <1>1, <1>2, Invariance, SampleInvariance, PTL DEF Spec, ImplementsLog, Log!Spec

-----------------------------------------------------------------------------
(* A chain lists the conditions that are active and a data set holds the   *)
(* merge of its changes, in m_latest and in every checkpoint.              *)

(* How the positions since an item was last cleared grow with the log.     *)
LEMMA SinceGrows ==
  ASSUME log \in Seq(Observation), NEW obs \in Observation, log' = Append(log, obs), NEW i,
         NEW n, n = Len(log) + 1
  PROVE  /\ n \in Nat /\ log'[n] = obs
         /\ \A s \in Since(i) : s \in 1 .. n - 1 /\ log'[s] = log[s] /\ log[s] \in Observation
         /\ Since(i)' = IF obs.item # i THEN Since(i)
                        ELSE IF Clears(obs) THEN {n} ELSE Since(i) \cup {n}
<1>1. /\ n \in Nat \ {0} /\ Len(log') = n /\ Len(log) = n - 1
      /\ DOMAIN log = 1 .. n - 1 /\ DOMAIN log' = 1 .. n
      /\ log'[n] = obs
      /\ \A s \in 1 .. n - 1 : log'[s] = log[s] /\ log[s] \in Observation
  OBVIOUS
<1>2. Since(i) = {s \in 1 .. n - 1 : log[s].item = i
                    /\ \A t \in s + 1 .. n - 1 : log[t].item = i => ~ Clears(log[t])}
  BY <1>1 DEF Since
<1>3. Since(i)' = {s \in 1 .. n : log'[s].item = i
                    /\ \A t \in s + 1 .. n : log'[t].item = i => ~ Clears(log'[t])}
  BY <1>1 DEF Since, Clears, isUnavailable
<1>4. PICK A, B : A = Since(i) /\ B = Since(i)'
  OBVIOUS
<1>5. ASSUME NEW s
      PROVE  s \in B <=> \/ s = n /\ obs.item = i
                         \/ s \in A /\ (obs.item = i => ~ Clears(obs))
  <2>1. CASE s = n
    <3>1. n \notin A
      BY <1>1, <1>2, <1>4
    <3>2. n \in B <=> obs.item = i
      BY <1>1, <1>3, <1>4
    <3>3. QED
      BY <2>1, <3>1, <3>2
  <2>2. CASE s # n /\ s \in 1 .. n - 1
    <3>1. s \in B <=> /\ log[s].item = i
                      /\ \A t \in s + 1 .. n : log'[t].item = i => ~ Clears(log'[t])
      BY <1>1, <1>3, <1>4, <2>2
    <3>2. n \in s + 1 .. n /\ \A t \in s + 1 .. n : t = n \/ t \in s + 1 .. n - 1
      BY <1>1, <2>2
    <3>3. \A t \in s + 1 .. n - 1 : t \in s + 1 .. n /\ log'[t] = log[t]
      BY <1>1, <2>2
    <3>4. (\A t \in s + 1 .. n : log'[t].item = i => ~ Clears(log'[t]))
            <=> /\ obs.item = i => ~ Clears(obs)
                /\ \A t \in s + 1 .. n - 1 : log[t].item = i => ~ Clears(log[t])
      BY <1>1, <3>2, <3>3, Zenon
    <3>5. s \in A <=> /\ log[s].item = i
                      /\ \A t \in s + 1 .. n - 1 : log[t].item = i => ~ Clears(log[t])
      BY <1>2, <1>4, <2>2
    <3>6. QED
      BY <2>2, <3>1, <3>4, <3>5, Zenon
  <2>3. CASE s # n /\ s \notin 1 .. n - 1
    <3>1. s \notin A
      BY <1>2, <1>4, <2>3
    <3>2. s \notin B
      BY <1>1, <1>3, <1>4, <2>3
    <3>3. QED
      BY <2>3, <3>1, <3>2
  <2>4. QED
    BY <2>1, <2>2, <2>3
<1>6. B = IF obs.item # i THEN A ELSE IF Clears(obs) THEN {n} ELSE A \cup {n}
  <2>1. CASE obs.item # i
    BY <1>5, <2>1
  <2>2. CASE obs.item = i /\ Clears(obs)
    BY <1>5, <2>2
  <2>3. CASE obs.item = i /\ ~ Clears(obs)
    BY <1>5, <2>3
  <2>4. QED
    BY <2>1, <2>2, <2>3
<1>7. \A s \in A : s \in 1 .. n - 1
  BY <1>2, <1>4
<1>8. QED
  BY <1>1, <1>4, <1>6, <1>7

(* How the active conditions follow: an observation takes the place of the *)
(* one with its native code, or of all of them.                            *)
LEMMA ActiveGrows ==
  ASSUME log \in Seq(Observation), NEW obs \in Observation, log' = Append(log, obs), NEW i
  PROVE  ActiveConditions(i)' =
           IF obs.item # i THEN ActiveConditions(i)
           ELSE {x \in ActiveConditions(i) : ~ Clears(obs) /\ x.payload.code # obs.payload.code}
                  \cup {x \in {obs} : isActive(x)}
<1>1. PICK n, A, B, code : /\ n = Len(log) + 1 /\ A = Since(i) /\ B = Since(i)'
                           /\ code = obs.payload.code
  OBVIOUS
<1>2. /\ n \in Nat /\ log'[n] = obs
      /\ \A s \in A : s \in 1 .. n - 1 /\ log'[s] = log[s]
      /\ B = IF obs.item # i THEN A ELSE IF Clears(obs) THEN {n} ELSE A \cup {n}
  BY <1>1, SinceGrows
<1>3. PICK P, Q : /\ P = {s \in A : /\ isActive(log[s])
                                    /\ \A t \in A : t > s => log[t].payload.code # log[s].payload.code}
                  /\ Q = {s \in B : /\ isActive(log'[s])
                                    /\ \A t \in B : t > s => log'[t].payload.code # log'[s].payload.code}
  OBVIOUS
<1>4. ActiveConditions(i) = {log[s] : s \in P} /\ ActiveConditions(i)' = {log'[s] : s \in Q}
  <2>1. ActiveConditions(i) = {log[s] : s \in P}
    BY <1>1, <1>3 DEF ActiveConditions
  <2>2. ActiveConditions(i)' = {log'[s] : s \in Q}
    BY <1>1, <1>3 DEF ActiveConditions, isActive
  <2>3. QED
    BY <2>1, <2>2
<1>5. CASE obs.item # i
  <2>1. P = Q
    <3>1. A = B /\ \A s \in A : log'[s] = log[s]
      BY <1>2, <1>5
    <3>2. ASSUME NEW s \in A
          PROVE  s \in P <=> s \in Q
      BY <1>3, <3>1, Zenon
    <3>3. P \subseteq A /\ Q \subseteq A
      BY <1>3, <3>1
    <3>4. QED
      BY <3>2, <3>3
  <2>2. \A s \in P : log'[s] = log[s]
    BY <1>2, <1>3
  <2>3. {log'[s] : s \in Q} = {log[s] : s \in P}
    BY <2>1, <2>2
  <2>4. QED
    BY <1>4, <1>5, <2>3
<1>6. CASE obs.item = i /\ Clears(obs)
  <2>1. Q = {s \in {n} : isActive(obs)}
    <3>1. B = {n} /\ log'[n] = obs /\ ~ (n > n)
      BY <1>2, <1>6
    <3>2. QED
      BY <1>3, <3>1
  <2>2. {log'[s] : s \in Q} = {x \in {obs} : isActive(x)}
    BY <1>2, <2>1
  <2>3. QED
    BY <1>4, <1>6, <2>2
<1>7. CASE obs.item = i /\ ~ Clears(obs)
  <2>1. Q = {s \in P : log[s].payload.code # code} \cup {s \in {n} : isActive(obs)}
    <3>1. B = A \cup {n}
      BY <1>2, <1>7
    <3>2. n \in Q <=> isActive(obs)
      <4>1. \A t \in B : ~ (t > n)
        BY <1>2, <3>1
      <4>2. n \in B /\ log'[n] = obs
        BY <1>2, <3>1
      <4>3. QED
        BY <1>3, <4>1, <4>2
    <3>3. ASSUME NEW s \in A
          PROVE  s \in Q <=> s \in P /\ log[s].payload.code # code
      <4>0. s \in 1 .. n - 1 /\ log'[s] = log[s] /\ n \in Nat
        BY <1>2
      <4>1. s \in 1 .. n - 1 /\ n > s /\ s \in B /\ log'[s] = log[s]
        BY <3>1, <4>0
      <4>2. (\A t \in B : t > s => log'[t].payload.code # log'[s].payload.code)
              <=> /\ code # log[s].payload.code
                  /\ \A t \in A : t > s => log[t].payload.code # log[s].payload.code
        <5>1. \A t \in A : t \in B /\ log'[t] = log[t]
          BY <1>2, <3>1
        <5>2. \A t \in B : t \in A \/ t = n
          BY <3>1
        <5>3. n \in B /\ log'[n].payload.code = code /\ n > s
          BY <1>1, <1>2, <3>1, <4>1
        <5>4. QED
          BY <4>1, <5>1, <5>2, <5>3, Zenon
      <4>3. QED
        BY <1>3, <4>1, <4>2
    <3>4. Q \subseteq A \cup {n} /\ P \subseteq A
      BY <1>3, <3>1
    <3>5. QED
      BY <3>2, <3>3, <3>4
  <2>2. \A s \in P : log'[s] = log[s]
    BY <1>2, <1>3
  <2>3. {log'[s] : s \in Q} = {x \in {log[s] : s \in P} : x.payload.code # code} \cup {x \in {obs} : isActive(x)}
    <3>1. ASSUME NEW s \in Q
          PROVE  log'[s] \in {x \in {log[u] : u \in P} : x.payload.code # code} \cup {x \in {obs} : isActive(x)}
      BY <1>2, <2>1, <2>2
    <3>2. ASSUME NEW s \in P, log[s].payload.code # code
          PROVE  log[s] \in {log'[u] : u \in Q}
      BY <2>1, <2>2, <3>2
    <3>3. ASSUME isActive(obs)
          PROVE  obs \in {log'[u] : u \in Q}
      BY <1>2, <2>1, <3>3
    <3>4. QED
      BY <3>1, <3>2, <3>3
  <2>4. QED
    BY <1>1, <1>4, <1>7, <2>3
<1>8. QED
  BY <1>5, <1>6, <1>7

(* The active conditions of an item have different native codes, and all   *)
(* of them came before the next observation.                               *)
LEMMA ActiveFacts ==
  ASSUME log \in Seq(Observation), \A s \in DOMAIN log : log[s].sequence = s, NEW i
  PROVE  /\ \A x \in ActiveConditions(i) :
              x \in Observation /\ isActive(x) /\ x.sequence < Len(log) + 1
         /\ \A x, y \in ActiveConditions(i) : x.payload.code = y.payload.code => x = y
<1>1. PICK A : A = Since(i)
  OBVIOUS
<1>2. PICK P : P = {s \in A : /\ isActive(log[s])
                              /\ \A t \in A : t > s => log[t].payload.code # log[s].payload.code}
  OBVIOUS
<1>3. ActiveConditions(i) = {log[s] : s \in P}
  BY <1>1, <1>2 DEF ActiveConditions
<1>4. A \subseteq 1 .. Len(log)
  BY <1>1 DEF Since
<1>5. ASSUME NEW s \in P
      PROVE  s \in 1 .. Len(log) /\ log[s] \in Observation /\ isActive(log[s]) /\ log[s].sequence < Len(log) + 1
  <2>1. s \in 1 .. Len(log) /\ isActive(log[s])
    BY <1>2, <1>4
  <2>2. log[s] \in Observation /\ log[s].sequence = s
    BY <2>1
  <2>3. QED
    BY <2>1, <2>2
<1>6. ASSUME NEW s \in P, NEW t \in P, log[s].payload.code = log[t].payload.code
      PROVE  s = t
  <2>1. ~ (t > s) /\ ~ (s > t)
    BY <1>2, <1>6
  <2>2. QED
    BY <1>5, <2>1
<1>7. QED
  BY <1>3, <1>5, <1>6

(* Checkpoint::addObservation on the chain of a condition: the active      *)
(* conditions are those that stay, with the new one in front.              *)
LEMMA AddConditionLists ==
  ASSUME NEW chain \in Seq(Observation), chain # <<>>, NEW obs, ConditionObservation(obs),
         NEW active, ListsActive(chain, active),
         \A x \in active : x \in Observation /\ isActive(x) /\ x.sequence < obs.sequence,
         \A x, y \in active : x.payload.code = y.payload.code => x = y,
         NEW next,
         next = {x \in active : ~ Clears(obs) /\ x.payload.code # obs.payload.code}
                  \cup {x \in {obs} : isActive(x)}
  PROVE  ListsActive(AddCondition(chain, obs), next)
<1>1. PICK n, code, rest : n = Len(chain) /\ code = obs.payload.code /\ rest = RemoveCode(chain, code)
  OBVIOUS
<1>2. /\ n \in Nat \ {0} /\ DOMAIN chain = 1 .. n
      /\ \A k \in 1 .. n : chain[k] \in Observation /\ chain[k].sequence \in Nat
      /\ obs \in Observation /\ obs.sequence \in Nat
  <2>1. n \in Nat \ {0} /\ DOMAIN chain = 1 .. n /\ \A k \in 1 .. n : chain[k] \in Observation
    BY <1>1
  <2>2. \A x \in Observation : x.sequence \in Nat
    BY DEF Observation
  <2>3. QED
    BY <2>1, <2>2 DEF ConditionObservation
<1>3. /\ active # {} => \A x : x \in active <=> \E k \in 1 .. n : x = chain[k]
      /\ active = {} => n = 1 /\ ~ isActive(chain[1])
      /\ \A j, k \in 1 .. n : j < k => chain[j].sequence > chain[k].sequence
  BY <1>1, <1>2 DEF ListsActive
<1>4. \A j, k \in 1 .. n : j # k => chain[j].payload.code # chain[k].payload.code
  <2>1. CASE active = {}
    BY <1>3, <2>1
  <2>2. CASE active # {}
    <3> SUFFICES ASSUME NEW j \in 1 .. n, NEW k \in 1 .. n, j # k,
                        chain[j].payload.code = chain[k].payload.code
                 PROVE  FALSE
      OBVIOUS
    <3>1. chain[j] \in active /\ chain[k] \in active
      BY <1>3, <2>2
    <3>2. chain[j] = chain[k]
      BY <3>1
    <3>3. j < k \/ k < j
      BY <1>2
    <3>4. QED
      BY <1>2, <1>3, <3>2, <3>3
  <2>3. QED
    BY <2>1, <2>2
<1>5. PICK m : /\ m = Len(rest) /\ m \in Nat /\ DOMAIN rest = 1 .. m
               /\ rest \in Seq(Observation)
               /\ \A k \in 1 .. m : \E j \in 1 .. n : rest[k] = chain[j] /\ chain[j].payload.code # code
               /\ \A j \in 1 .. n : chain[j].payload.code # code => \E k \in 1 .. m : rest[k] = chain[j]
               /\ \A j, k \in 1 .. m : j < k => rest[j].sequence > rest[k].sequence
  <2>1. OnePerCode(chain) /\ LatestFirst(chain)
    BY <1>1, <1>3, <1>4 DEF OnePerCode, LatestFirst
  <2>2. HasOthers(rest, chain, code) /\ LatestFirst(rest)
    BY <1>1, <2>1, RemoveCodeOthers
  <2>3. Len(rest) \in Nat /\ DOMAIN rest = 1 .. Len(rest)
    BY <2>2 DEF HasOthers
  <2>4. QED
    BY <1>1, <2>2, <2>3, Zenon DEF HasOthers, LatestFirst
<1>6. isActive(chain[1]) <=> active # {}
  <2>1. 1 \in 1 .. n
    BY <1>2
  <2>2. QED
    BY <1>3, <2>1
<1>7. PICK res : res = AddCondition(chain, obs)
  OBVIOUS
<1>8. CASE isActive(obs)
  <2>1. ~ Clears(obs)
    BY <1>8 DEF Clears, isActive, isUnavailable, Unavailable, ConditionObservation
  <2>2. CASE active # {}
    <3>1. res = <<obs>> \o rest
      BY <1>1, <1>6, <1>7, <1>8, <2>2 DEF AddCondition
    <3>2. /\ Len(res) = m + 1 /\ DOMAIN res = 1 .. m + 1 /\ res[1] = obs
          /\ \A k \in 2 .. m + 1 : res[k] = rest[k - 1]
      BY <1>2, <1>5, <3>1
    <3>3. \A k \in 1 .. m : rest[k] \in next /\ rest[k].sequence < obs.sequence
      BY <1>1, <1>3, <1>5, <2>1, <2>2
    <3>4. obs \in next /\ next # {}
      BY <1>8
    <3>5. ASSUME NEW x \in next
          PROVE  \E k \in 1 .. m + 1 : res[k] = x
      <4>1. CASE x = obs
        BY <1>5, <3>2, <4>1
      <4>2. CASE x # obs
        <5>1. x \in active /\ x.payload.code # code
          BY <1>1, <4>2
        <5>0. PICK j \in 1 .. n : x = chain[j]
          BY <1>3, <2>2, <5>1
        <5>2. PICK k \in 1 .. m : rest[k] = x
          BY <1>5, <5>0, <5>1
        <5>3. k + 1 \in 2 .. m + 1 /\ (k + 1) - 1 = k /\ k + 1 \in 1 .. m + 1
          BY <1>5
        <5>4. QED
          BY <3>2, <5>2, <5>3
      <4>3. QED
        BY <4>1, <4>2
    <3>6. ASSUME NEW k \in 1 .. m + 1
          PROVE  res[k] \in next
      <4>1. CASE k = 1
        BY <3>2, <3>4, <4>1
      <4>2. CASE k # 1
        <5>1. k \in 2 .. m + 1 /\ k - 1 \in 1 .. m
          BY <1>5, <4>2
        <5>2. QED
          BY <3>2, <3>3, <5>1
      <4>3. QED
        BY <4>1, <4>2
    <3>7. ASSUME NEW j \in 1 .. m + 1, NEW k \in 1 .. m + 1, j < k
          PROVE  res[j].sequence > res[k].sequence
      <4>1. k \in 2 .. m + 1 /\ k - 1 \in 1 .. m
        BY <1>5, <3>7
      <4>2. CASE j = 1
        <5>1. rest[k - 1].sequence < obs.sequence /\ rest[k - 1].sequence \in Nat
          <6>1. rest[k - 1] \in Observation
            BY <1>5, <4>1
          <6>2. QED
            BY <3>3, <4>1, <6>1 DEF Observation
        <5>2. QED
          BY <1>2, <3>2, <4>1, <4>2, <5>1
      <4>3. CASE j # 1
        <5>1. j \in 2 .. m + 1 /\ j - 1 \in 1 .. m /\ j - 1 < k - 1
          BY <1>5, <3>7, <4>3
        <5>2. QED
          BY <1>5, <3>2, <4>1, <5>1
      <4>4. QED
        BY <4>2, <4>3
    <3>8. {res[k] : k \in 1 .. m + 1} = next
      BY <3>5, <3>6
    <3>9. QED
      <4>1. {res[k] : k \in DOMAIN res} = next
        BY <3>2, <3>8
      <4>2. \A j, k \in DOMAIN res : j < k => res[j].sequence > res[k].sequence
        BY <3>2, <3>7
      <4>3. QED
        BY <1>7, <3>4, <4>1, <4>2 DEF ListsActive
  <2>3. CASE active = {}
    <3>1. res = <<obs>>
      BY <1>6, <1>7, <1>8, <2>3 DEF AddCondition, isActive
    <3>2. next = {obs} /\ next # {}
      BY <1>8, <2>3
    <3>3. QED
      BY <1>7, <3>1, <3>2 DEF ListsActive
  <2>4. QED
    BY <2>2, <2>3
<1>9. CASE ~ isActive(obs) /\ Clears(obs)
  <2>1. next = {}
    BY <1>9
  <2>2. res = <<obs>>
    BY <1>7, <1>9 DEF AddCondition, Clears, isUnavailable, Unavailable, ConditionObservation
  <2>3. QED
    BY <1>7, <1>9, <2>1, <2>2 DEF ListsActive
<1>10. CASE ~ isActive(obs) /\ ~ Clears(obs)
  <2>1. obs.payload.value = "NORMAL" /\ code # NoCode
    BY <1>1, <1>10 DEF Clears, isActive, isUnavailable, ConditionObservation, Levels
  <2>2. next = {x \in active : x.payload.code # code}
    BY <1>1, <1>10
  <2>3. CASE ~ HasCode(chain, code)
    <3>1. res = chain
      BY <1>1, <1>7, <1>10, <2>1, <2>3 DEF AddCondition
    <3>2. \A k \in 1 .. n : chain[k].payload.code # code
      BY <1>2, <2>3 DEF HasCode
    <3>3. next = active
      BY <1>3, <2>2, <3>2
    <3>4. QED
      BY <1>7, <3>1, <3>3
  <2>4. CASE HasCode(chain, code) /\ rest # <<>>
    <3>1. res = rest
      BY <1>1, <1>7, <1>10, <2>1, <2>4 DEF AddCondition
    <3>2. m \in Nat \ {0} /\ 1 \in 1 .. m
      BY <1>5, <2>4
    <3>3. active # {}
      <4>1. PICK j \in 1 .. n : chain[j].payload.code # code
        BY <1>5, <3>2
      <4>2. PICK k \in 1 .. n : chain[k].payload.code = code
        BY <1>2, <2>4 DEF HasCode
      <4>3. n # 1
        BY <4>1, <4>2
      <4>4. QED
        BY <1>3, <4>3
    <3>4. ASSUME NEW k \in 1 .. m
          PROVE  rest[k] \in next
      <4>1. PICK j \in 1 .. n : rest[k] = chain[j] /\ chain[j].payload.code # code
        BY <1>5
      <4>2. QED
        BY <1>3, <2>2, <3>3, <4>1
    <3>5. ASSUME NEW x \in next
          PROVE  \E k \in 1 .. m : rest[k] = x
      <4>1. PICK j \in 1 .. n : x = chain[j]
        BY <1>3, <2>2, <3>3
      <4>2. QED
        BY <1>5, <2>2, <4>1
    <3>6. next # {} /\ {rest[k] : k \in 1 .. m} = next
      BY <3>2, <3>4, <3>5
    <3>7. QED
      <4>1. {res[k] : k \in DOMAIN res} = next
        BY <1>5, <3>1, <3>6
      <4>2. \A j, k \in DOMAIN res : j < k => res[j].sequence > res[k].sequence
        BY <1>5, <3>1
      <4>3. QED
        BY <1>7, <3>6, <4>1, <4>2 DEF ListsActive
  <2>5. CASE HasCode(chain, code) /\ rest = <<>>
    <3>1. res = <<ClearedNormal(obs)>>
      BY <1>1, <1>7, <1>10, <2>1, <2>5 DEF AddCondition
    <3>2. m = 0
      BY <1>5, <2>5
    <3>3. next = {}
      <4>1. \A j \in 1 .. n : chain[j].payload.code = code
        BY <1>5, <3>2
      <4>2. QED
        BY <1>3, <2>2, <4>1
    <3>4. ClearedNormal(obs).payload.value = "NORMAL"
      BY <1>2, <2>1 DEF ClearedNormal, Observation, Payload
    <3>5. QED
      BY <1>7, <3>1, <3>3, <3>4 DEF ListsActive, isActive
  <2>6. QED
    BY <2>3, <2>4, <2>5
<1>11. QED
  BY <1>8, <1>9, <1>10

(* The entries present after an observation: it takes the place of those   *)
(* with its keys, or of all of them.                                       *)
EntriesAfter(present, obs) ==
  {e \in present : ~ Clears(obs) /\ e[1] \notin DOMAIN obs.payload.set}
    \cup PresentIn(obs.payload.set)

(* The entries a client holds follow.                                      *)
LEMMA PresentGrows ==
  ASSUME log \in Seq(Observation), NEW obs \in Observation, log' = Append(log, obs), NEW i
  PROVE  PresentEntries(i)' =
           IF obs.item # i THEN PresentEntries(i) ELSE EntriesAfter(PresentEntries(i), obs)
<1>1. PICK n, A, B, S : /\ n = Len(log) + 1 /\ A = Since(i) /\ B = Since(i)'
                        /\ S = obs.payload.set
  OBVIOUS
<1>2. /\ n \in Nat /\ log'[n] = obs
      /\ \A s \in A : s \in 1 .. n - 1 /\ log'[s] = log[s]
      /\ B = IF obs.item # i THEN A ELSE IF Clears(obs) THEN {n} ELSE A \cup {n}
  BY <1>1, SinceGrows
<1>0. n \in Nat \ {0}
  BY <1>1
<1>3. S \in DataSet
  BY <1>1 DEF Observation, Payload
<1> DEFINE M(k) == {s \in A : k \in DOMAIN log[s].payload.set}
           N(k) == {s \in B : k \in DOMAIN log'[s].payload.set}
           Holds(k, v) == \E s \in M(k) : log[s].payload.set[k] = v /\ \A t \in M(k) : t <= s
           HoldsNow(k, v) == \E s \in N(k) : log'[s].payload.set[k] = v /\ \A t \in N(k) : t <= s
<1>4. PresentEntries(i) = {e \in Keys \X EntryValues : Holds(e[1], e[2])}
  BY <1>1 DEF PresentEntries, Mentions
<1>5. PresentEntries(i)' = {e \in Keys \X EntryValues : HoldsNow(e[1], e[2])}
  BY <1>1 DEF PresentEntries, Mentions
<1>6. ASSUME obs.item # i, NEW k, NEW v
      PROVE  HoldsNow(k, v) <=> Holds(k, v)
  <2>1. A = B
    BY <1>2, <1>6
  <2>2. M(k) = N(k) /\ \A s \in M(k) : log'[s] = log[s]
    BY <1>2, <2>1
  <2>3. QED
    BY <2>2, Zenon
<1>7. ASSUME obs.item = i, NEW k, NEW v, k \in DOMAIN S
      PROVE  HoldsNow(k, v) <=> S[k] = v
  <2>0. B = {n} \/ B = A \cup {n}
    BY <1>2, <1>7
  <2>1. n \in B /\ \A s \in B : s \in 1 .. n
    BY <1>0, <1>2, <2>0
  <2>2. n \in N(k) /\ \A s \in N(k) : s \in 1 .. n
    BY <1>1, <1>2, <1>7, <2>1
  <2>3. log'[n].payload.set[k] = S[k]
    BY <1>1, <1>2
  <2> HIDE DEF N
  <2>4. ASSUME HoldsNow(k, v)
        PROVE  S[k] = v
    <3>1. PICK s \in N(k) : log'[s].payload.set[k] = v /\ \A t \in N(k) : t <= s
      BY <2>4
    <3>2. s \in 1 .. n /\ n <= s
      BY <2>2, <3>1
    <3>3. s = n
      BY <1>0, <3>2
    <3>4. QED
      BY <2>3, <3>1, <3>3
  <2>5. ASSUME S[k] = v
        PROVE  HoldsNow(k, v)
    <3>1. \A t \in N(k) : t <= n
      BY <1>2, <2>2
    <3>2. QED
      BY <2>2, <2>3, <2>5, <3>1
  <2>6. QED
    BY <2>4, <2>5
<1>8. ASSUME obs.item = i, NEW k, NEW v, k \notin DOMAIN S
      PROVE  HoldsNow(k, v) <=> ~ Clears(obs) /\ Holds(k, v)
  <2>1. CASE Clears(obs)
    <3>1. N(k) = {}
      BY <1>1, <1>2, <1>8, <2>1
    <3>2. QED
      BY <2>1, <3>1
  <2>2. CASE ~ Clears(obs)
    <3>1. B = A \cup {n} /\ n \notin N(k)
      BY <1>1, <1>2, <1>8, <2>2
    <3>2. \A s \in A : log'[s] = log[s]
      BY <1>2
    <3>3. M(k) = N(k) /\ \A s \in M(k) : log'[s] = log[s]
      BY <3>1, <3>2
    <3>4. QED
      BY <2>2, <3>3, Zenon
  <2>3. QED
    BY <2>1, <2>2
<1> HIDE DEF M, N, Holds, HoldsNow
<1>9. CASE obs.item # i
  BY <1>4, <1>5, <1>6, <1>9
<1>10. CASE obs.item = i
  <2>1. ASSUME NEW k, NEW v
        PROVE  <<k, v>> \in PresentIn(S) <=>
                 k \in Keys /\ v \in EntryValues /\ k \in DOMAIN S /\ S[k] = v
    BY <1>3, ItemsAssumption DEF PresentIn, DataSet
  <2>2. ASSUME NEW e \in PresentIn(S)
        PROVE  e \in Keys \X EntryValues
    BY <1>3, ItemsAssumption DEF PresentIn, DataSet
  <2>3. ASSUME NEW e \in Keys \X EntryValues
        PROVE  e \in PresentEntries(i)' <=>
                 e \in {x \in PresentEntries(i) : ~ Clears(obs) /\ x[1] \notin DOMAIN S} \cup PresentIn(S)
    <3>1. PICK k \in Keys, v \in EntryValues : e = <<k, v>> /\ e[1] = k /\ e[2] = v
      OBVIOUS
    <3>2. e \in PresentEntries(i)' <=> HoldsNow(k, v)
      BY <1>5, <3>1
    <3>3. e \in PresentEntries(i) <=> Holds(k, v)
      BY <1>4, <3>1
    <3>4. e \in PresentIn(S) <=> k \in DOMAIN S /\ S[k] = v
      BY <2>1, <3>1
    <3>5. CASE k \in DOMAIN S
      BY <1>7, <1>10, <3>1, <3>2, <3>4, <3>5
    <3>6. CASE k \notin DOMAIN S
      BY <1>8, <1>10, <3>1, <3>2, <3>3, <3>4, <3>6
    <3>7. QED
      BY <3>5, <3>6
  <2>4. PresentEntries(i) \subseteq Keys \X EntryValues /\ PresentEntries(i)' \subseteq Keys \X EntryValues
    BY <1>4, <1>5
  <2>5. PresentEntries(i)' = {x \in PresentEntries(i) : ~ Clears(obs) /\ x[1] \notin DOMAIN S} \cup PresentIn(S)
    BY <2>2, <2>3, <2>4
  <2>6. QED
    BY <1>1, <1>10, <2>5 DEF EntriesAfter
<1>11. QED
  BY <1>9, <1>10

(* Checkpoint::addObservation on a data set: the entries with other keys   *)
(* stay.                                                                   *)
LEMMA AddDataSetMerges ==
  ASSUME NEW chain \in Seq(Observation), chain # <<>>, NEW obs, DataSetObservation(obs),
         isUnavailable(chain[1]) => DOMAIN chain[1].payload.set = {},
         NEW latest, latest = AddDataSet(chain, obs)[1]
  PROVE  /\ PresentIn(latest.payload.set) = EntriesAfter(PresentIn(chain[1].payload.set), obs)
         /\ isUnavailable(latest) => DOMAIN latest.payload.set = {}
<1>1. PICK old, S, T : old = chain[1] /\ S = obs.payload.set /\ T = old.payload.set
  OBVIOUS
<1>2. old \in Observation /\ obs \in Observation /\ S \in DataSet /\ T \in DataSet
  <2>1. old \in Observation /\ obs \in Observation
    BY <1>1 DEF DataSetObservation
  <2>2. QED
    BY <1>1, <2>1 DEF Observation, Payload
<1>3. Clears(obs) <=> isUnavailable(obs) \/ obs.payload.reset
  BY DEF Clears, DataSetObservation
<1>4. CASE Clears(obs)
  <2>1. latest = obs
    BY <1>1, <1>3, <1>4 DEF AddDataSet
  <2>2. QED
    BY <1>1, <1>4, <2>1 DEF DataSetObservation, EntriesAfter
<1>5. CASE ~ Clears(obs) /\ isUnavailable(old)
  <2>1. latest = obs
    BY <1>1, <1>5 DEF AddDataSet
  <2>2. PresentIn(T) = {}
    BY <1>1, <1>5 DEF PresentIn
  <2>3. QED
    BY <1>1, <1>5, <2>1, <2>2 DEF DataSetObservation, EntriesAfter
<1>6. CASE ~ Clears(obs) /\ ~ isUnavailable(old)
  <2>1. latest = [obs EXCEPT !.payload.set = MergeSet(T, S)]
    BY <1>1, <1>3, <1>6 DEF AddDataSet
  <2>2. latest.payload.set = MergeSet(T, S) /\ latest.payload.value = obs.payload.value
    BY <1>2, <2>1 DEF Observation, Payload
  <2>3. ~ isUnavailable(latest)
    BY <1>3, <1>6, <2>2 DEF isUnavailable
  <2>4. PICK U : /\ U = MergeSet(T, S)
                 /\ \A k : k \in DOMAIN U <=> /\ k \in DOMAIN T \cup DOMAIN S
                                              /\ k \in DOMAIN S => S[k] # Removed
                 /\ \A k \in DOMAIN U : U[k] = IF k \in DOMAIN S THEN S[k] ELSE T[k]
    <3> DEFINE kept == {k \in DOMAIN T \cup DOMAIN S : k \in DOMAIN S => S[k] # Removed}
               V == [k \in kept |-> IF k \in DOMAIN S THEN S[k] ELSE T[k]]
    <3>1. MergeSet(T, S) = V
      BY DEF MergeSet
    <3>2. DOMAIN V = kept /\ \A k \in kept : V[k] = IF k \in DOMAIN S THEN S[k] ELSE T[k]
      OBVIOUS
    <3> HIDE DEF V
    <3>3. QED
      BY <3>1, <3>2
  <2>5. PresentIn(U) = {e \in PresentIn(T) : e[1] \notin DOMAIN S} \cup PresentIn(S)
    <3>1. ASSUME NEW k \in DOMAIN U, U[k] # Removed
          PROVE  <<k, U[k]>> \in {e \in PresentIn(T) : e[1] \notin DOMAIN S} \cup PresentIn(S)
      <4>1. CASE k \in DOMAIN S
        BY <2>4, <3>1, <4>1 DEF PresentIn
      <4>2. CASE k \notin DOMAIN S
        BY <2>4, <3>1, <4>2 DEF PresentIn
      <4>3. QED
        BY <4>1, <4>2
    <3>2. ASSUME NEW k \in DOMAIN T, T[k] # Removed, k \notin DOMAIN S
          PROVE  <<k, T[k]>> \in PresentIn(U)
      <4>1. k \in DOMAIN U /\ U[k] = T[k]
        BY <2>4, <3>2
      <4>2. QED
        BY <3>2, <4>1 DEF PresentIn
    <3>3. ASSUME NEW k \in DOMAIN S, S[k] # Removed
          PROVE  <<k, S[k]>> \in PresentIn(U)
      <4>1. k \in DOMAIN U /\ U[k] = S[k]
        BY <2>4, <3>3
      <4>2. QED
        BY <3>3, <4>1 DEF PresentIn
    <3>4. PresentIn(U) \subseteq {e \in PresentIn(T) : e[1] \notin DOMAIN S} \cup PresentIn(S)
      BY <3>1 DEF PresentIn
    <3>5. ASSUME NEW e \in PresentIn(T), e[1] \notin DOMAIN S
          PROVE  e \in PresentIn(U)
      <4>1. PICK k \in DOMAIN T : T[k] # Removed /\ e = <<k, T[k]>>
        BY DEF PresentIn
      <4>2. QED
        BY <3>2, <3>5, <4>1
    <3>6. PresentIn(S) \subseteq PresentIn(U)
      <4>1. ASSUME NEW e \in PresentIn(S)
            PROVE  e \in PresentIn(U)
        <5>1. PICK k \in DOMAIN S : S[k] # Removed /\ e = <<k, S[k]>>
          BY DEF PresentIn
        <5>2. QED
          BY <3>3, <5>1
      <4>2. QED
        BY <4>1
    <3>7. QED
      BY <3>4, <3>5, <3>6
  <2>6. QED
    BY <1>1, <1>6, <2>2, <2>3, <2>4, <2>5 DEF EntriesAfter
<1>7. QED
  BY <1>4, <1>5, <1>6

(* addToBuffer keeps the chain of every condition.                         *)
LEMMA AddChain ==
  ASSUME IInv, MergeInv, NEW obs, Adds(obs), Sourced(obs), NEW i \in Conditions
  PROVE  ChainInv(i)'
<1>1. /\ log \in Seq(Observation) /\ obs \in Observation /\ log' = Append(log, obs)
      /\ obs.sequence = Len(log) + 1
      /\ m_latest \in CheckpointType /\ m_latest' = addObservation(m_latest, obs)
      /\ i \in DataItems
  BY DEF IInv, TypeOK, HistoryInv, Adds, DataItems
<1>2. PICK chain, active, next :
        chain = m_latest[i] /\ active = ActiveConditions(i) /\ next = ActiveConditions(i)'
  OBVIOUS
<1>3. chain \in Seq(Observation) /\ ChainInv(i)
  BY <1>1, <1>2 DEF CheckpointType, MergeInv
<1>4. CASE obs.item # i
  <2>1. m_latest'[i] = chain
    BY <1>1, <1>2, <1>4 DEF addObservation, CheckpointType
  <2>2. Since(i)' = Since(i) /\ next = active
    BY <1>1, <1>2, <1>4, SinceGrows, ActiveGrows
  <2>3. QED
    BY <1>2, <1>3, <2>1, <2>2 DEF ChainInv, ListsActive, isActive
<1>5. CASE obs.item = i
  <2>1. ConditionObservation(obs)
    BY <1>5 DEF Sourced
  <2>2. m_latest'[i] = AddToChain(chain, obs)
    BY <1>1, <1>2, <1>5 DEF addObservation, CheckpointType
  <2>3. next = {x \in active : ~ Clears(obs) /\ x.payload.code # obs.payload.code}
                 \cup {x \in {obs} : isActive(x)}
    BY <1>1, <1>2, <1>5, ActiveGrows
  <2>4. m_latest'[i] # <<>> /\ ListsActive(m_latest'[i], next)
    <3>1. CASE chain = <<>>
      <4>1. active = {}
        BY <1>2, <1>3, <3>1 DEF ChainInv, ActiveConditions
      <4>2. m_latest'[i] = <<obs>>
        BY <2>2, <3>1 DEF AddToChain
      <4>3. next = {x \in {obs} : isActive(x)}
        BY <2>3, <4>1
      <4>4. QED
        BY <4>2, <4>3 DEF ListsActive
    <3>2. CASE chain # <<>>
      <4>1. ListsActive(chain, active)
        BY <1>2, <1>3, <3>2 DEF ChainInv
      <4>2. m_latest'[i] = AddCondition(chain, obs)
        BY <1>5, <2>2, <3>2 DEF AddToChain
      <4>3. /\ \A x \in active : x \in Observation /\ isActive(x) /\ x.sequence < obs.sequence
            /\ \A x, y \in active : x.payload.code = y.payload.code => x = y
        BY <1>1, <1>2, ActiveFacts DEF MergeInv
      <4>4. ListsActive(AddCondition(chain, obs), next)
        BY <1>3, <2>1, <2>3, <3>2, <4>1, <4>3, AddConditionLists
      <4>5. AddCondition(chain, obs) # <<>>
        <5>1. PICK rest : rest = RemoveCode(chain, obs.payload.code) /\ rest \in Seq(Observation)
          BY <1>3, RemoveCodeType
        <5>2. <<obs>> \o rest # <<>>
          BY <1>1, <5>1
        <5>3. QED
          BY <3>2, <5>1, <5>2 DEF AddCondition
      <4>6. QED
        BY <4>2, <4>4, <4>5
    <3>3. QED
      BY <3>1, <3>2
  <2>5. QED
    BY <1>2, <2>4 DEF ChainInv, ListsActive, isActive
<1>6. QED
  BY <1>4, <1>5

(* addToBuffer keeps every data set.                                       *)
LEMMA AddSet ==
  ASSUME IInv, MergeInv, NEW obs, Adds(obs), Sourced(obs), NEW i \in DataSets
  PROVE  DataSetInv(i)'
<1>1. /\ log \in Seq(Observation) /\ obs \in Observation /\ log' = Append(log, obs)
      /\ m_latest \in CheckpointType /\ m_latest' = addObservation(m_latest, obs)
      /\ i \in DataItems
  BY DEF IInv, TypeOK, Adds, DataItems
<1>2. PICK chain, present, next :
        chain = m_latest[i] /\ present = PresentEntries(i) /\ next = PresentEntries(i)'
  OBVIOUS
<1>3. chain \in Seq(Observation) /\ DataSetInv(i)
  BY <1>1, <1>2 DEF CheckpointType, MergeInv
<1>4. CASE obs.item # i
  <2>1. m_latest'[i] = chain
    BY <1>1, <1>2, <1>4 DEF addObservation, CheckpointType
  <2>2. Since(i)' = Since(i) /\ next = present
    BY <1>1, <1>2, <1>4, SinceGrows, PresentGrows
  <2>3. QED
    BY <1>2, <1>3, <2>1, <2>2 DEF DataSetInv, PresentIn, isUnavailable
<1>5. CASE obs.item = i
  <2>1. DataSetObservation(obs)
    BY <1>5 DEF Sourced
  <2>2. m_latest'[i] = AddToChain(chain, obs)
    BY <1>1, <1>2, <1>5 DEF addObservation, CheckpointType
  <2>3. next = EntriesAfter(present, obs)
    BY <1>1, <1>2, <1>5, PresentGrows
  <2>4. PICK latest : latest = m_latest'[i][1]
    OBVIOUS
  <2>5. /\ m_latest'[i] # <<>>
        /\ PresentIn(latest.payload.set) = next
        /\ isUnavailable(latest) => DOMAIN latest.payload.set = {}
    <3>1. CASE chain = <<>>
      <4>1. present = {}
        <5>1. Since(i) = {}
          BY <1>2, <1>3, <3>1 DEF DataSetInv
        <5>2. QED
          BY <1>2, <5>1 DEF PresentEntries, Mentions
      <4>2. m_latest'[i] = <<obs>> /\ latest = obs
        BY <2>2, <2>4, <3>1 DEF AddToChain
      <4>3. next = PresentIn(obs.payload.set)
        BY <2>3, <4>1 DEF EntriesAfter
      <4>4. QED
        BY <2>1, <4>2, <4>3 DEF DataSetObservation
    <3>2. CASE chain # <<>>
      <4>1. /\ PresentIn(chain[1].payload.set) = present
            /\ isUnavailable(chain[1]) => DOMAIN chain[1].payload.set = {}
        BY <1>2, <1>3, <3>2 DEF DataSetInv
      <4>2. m_latest'[i] = AddDataSet(chain, obs)
        BY <1>5, <2>2, <3>2, ItemsAssumption DEF AddToChain
      <4>3. AddDataSet(chain, obs) # <<>>
        BY DEF AddDataSet
      <4>4. latest = AddDataSet(chain, obs)[1]
        BY <2>4, <4>2
      <4>5. /\ PresentIn(latest.payload.set) = EntriesAfter(PresentIn(chain[1].payload.set), obs)
            /\ isUnavailable(latest) => DOMAIN latest.payload.set = {}
        BY <1>3, <2>1, <3>2, <4>1, <4>4, AddDataSetMerges
      <4>6. PresentIn(latest.payload.set) = next
        BY <2>3, <4>1, <4>5
      <4>7. QED
        BY <4>2, <4>3, <4>5, <4>6
    <3>3. QED
      BY <3>1, <3>2
  <2>6. QED
    BY <1>2, <2>4, <2>5 DEF DataSetInv, PresentIn, isUnavailable
<1>6. QED
  BY <1>4, <1>5

(* MergeInv is inductive together with IInv: readers do not touch what it  *)
(* is about.                                                               *)
LEMMA NextMerge == IInv /\ MergeInv /\ [Next]_vars => MergeInv'
<1> SUFFICES ASSUME IInv, MergeInv, [Next]_vars
             PROVE  MergeInv'
  OBVIOUS
<1>1. CASE Write
  <2>1. PICK obs : Adds(obs) /\ Sourced(obs)
    BY <1>1, WriteAdds
  <2>2. ASSUME NEW s \in DOMAIN log'
        PROVE  log'[s].sequence = s
    <3>1. /\ log \in Seq(Observation) /\ obs \in Observation /\ obs.sequence = Len(log) + 1
          /\ log' = Append(log, obs)
      BY <2>1 DEF Adds, IInv, TypeOK, HistoryInv
    <3>2. CASE s = Len(log) + 1
      BY <3>1, <3>2
    <3>3. CASE s # Len(log) + 1
      BY <3>1, <3>3 DEF MergeInv
    <3>4. QED
      BY <3>2, <3>3
  <2>3. QED
    BY <2>1, <2>2, AddChain, AddSet DEF MergeInv
<1>2. ASSUME log' = log, m_latest' = m_latest
      PROVE  MergeInv'
  <2>1. \A i : Since(i)' = Since(i) /\ ActiveConditions(i)' = ActiveConditions(i)
    BY <1>2 DEF Since, ActiveConditions
  <2>2. \A i : PresentEntries(i)' = PresentEntries(i)
    BY <1>2, <2>1 DEF PresentEntries, Mentions
  <2>3. \A i \in Conditions : ChainInv(i)'
    BY <1>2, <2>1 DEF MergeInv, ChainInv
  <2>4. \A i \in DataSets : DataSetInv(i)'
    BY <1>2, <2>1, <2>2 DEF MergeInv, DataSetInv
  <2>5. QED
    BY <1>2, <2>3, <2>4 DEF MergeInv
<1>3. ASSUME NEW r \in Readers, Read(r)
      PROVE  log' = log /\ m_latest' = m_latest
  BY <1>3 DEF Read, CheckCurrent, CheckSample, FetchLatest, FetchCurrentBegin, RollForward,
              FetchCurrentEnd, FetchSampleBegin, ScanSample, FetchSampleEnd, Respond,
              agentVars, history
<1>4. CASE UNCHANGED vars
  BY <1>2, <1>4 DEF vars, agentVars, history
<1>5. QED
  BY <1>1, <1>2, <1>3, <1>4 DEF Next

(* Nothing has been observed yet.                                          *)
LEMMA InitMerge == Init => MergeInv
BY DEF Init, MergeInv, ChainInv, DataSetInv, Since, EmptyCheckpoint, DataItems

(* What the chains and the data sets hold is right in every reachable      *)
(* state.                                                                  *)
THEOREM MergeInvariance == Spec => []MergeInv
<1>1. Init => MergeInv
  BY InitMerge
<1>2. IInv /\ MergeInv /\ [Next]_vars => MergeInv'
  BY NextMerge
<1>3. QED
  BY <1>1, <1>2, Invariance, PTL DEF Spec

(* The chain of a condition is always its set of active conditions, for    *)
(* every set of native codes and every history of levels.                  *)
THEOREM ChainCorrect == Spec => []ChainIsActiveSet
<1>1. MergeInv => ChainIsActiveSet
  BY DEF MergeInv, ChainInv, ChainIsActiveSet, Constructed, DataItems
<1>2. QED
  BY <1>1, MergeInvariance, PTL

(* The latest data set always has exactly the entries a client has that    *)
(* applied every observation, although unchanged entries are stripped.     *)
THEOREM DataSetCorrect == Spec => []DataSetIsMerge
<1>1. MergeInv => DataSetIsMerge
  BY DEF MergeInv, DataSetInv, DataSetIsMerge, Constructed, DataItems
<1>2. QED
  BY <1>1, MergeInvariance, PTL
=============================================================================
