----------------------------- MODULE Checkpoint -----------------------------
(***************************************************************************)
(* Observations and checkpoints (observation.cpp, checkpoint.cpp).         *)
(*                                                                         *)
(* A checkpoint maps every data item to the chain of observations that is  *)
(* its current state.  For events and data sets the chain is one long; for *)
(* a condition it lists the active conditions, the latest first            *)
(* (Observation::m_prev).  The empty chain stands for "no entry in         *)
(* m_events".                                                              *)
(*                                                                         *)
(* Observations are values here.  In the code a chain is linked through    *)
(* Observation objects that the sliding buffer and several checkpoints     *)
(* share, and adding an observation to a second checkpoint relinks it      *)
(* (appendTo).  The link is replaced by one to a chain of equal contents   *)
(* as long as both checkpoints are replays of the same observations, which *)
(* is what CheckpointsAreReplays of ObservationBuffer says.                *)
(***************************************************************************)
EXTENDS Naturals, Sequences, FiniteSets

CONSTANTS
  Events,         \* ids of plain data items (one value at a time)
  Conditions,     \* ids of data items of category CONDITION
  DataSets,       \* ids of data items with representation DATA_SET or TABLE
  DiscreteSets,   \* the data sets for which DataItem::allowDups() holds
  Values,         \* values of plain data items
  Codes,          \* native codes of conditions
  Keys,           \* keys of data set entries
  EntryValues     \* values of data set entries

Unavailable == "UNAVAILABLE"
NoCode      == ""
NoValue     == ""
Removed     == "m_removed"
NoSet       == [k \in {} |-> Removed]

DataItems == Events \cup Conditions \cup DataSets

ASSUME ItemsAssumption ==
  /\ Events \cap Conditions = {}
  /\ Events \cap DataSets = {}
  /\ Conditions \cap DataSets = {}
  /\ DataItems # {}
  /\ DiscreteSets \subseteq DataSets
  /\ Unavailable \notin Values
  /\ NoCode \notin Codes
  /\ Removed \notin EntryValues

Levels == {"NORMAL", "WARNING", "FAULT", Unavailable}

(* A data set holds at most one entry per key; an entry that was given     *)
(* without "=value" is marked removed.                                     *)
DataSet == UNION {[ks -> EntryValues \cup {Removed}] : ks \in SUBSET Keys}

(* What a source delivers for an item, once parsed: the Observation        *)
(* constructor splits off the reset trigger, the condition's level and     *)
(* native code and the data set's entries.                                 *)
Payload == [value : Values \cup Levels \cup {NoValue},
            code  : Codes \cup {NoCode},
            reset : BOOLEAN,
            set   : DataSet]

Observation == [item : DataItems, sequence : Nat \ {0}, payload : Payload]

MakeObservation(item, seq, payload) ==
  [item |-> item, sequence |-> seq, payload |-> payload]

PlainPayload(v)        == [value |-> v, code |-> NoCode, reset |-> FALSE, set |-> NoSet]
ConditionPayload(l, c) == [value |-> l, code |-> c, reset |-> FALSE, set |-> NoSet]
SetPayload(s, r)       == [value |-> NoValue, code |-> NoCode, reset |-> r, set |-> s]

(* The payloads a data item can be given.                                  *)
PayloadsOf(item) ==
  {PlainPayload(Unavailable)} \cup
  CASE item \in Conditions -> {ConditionPayload(l, c) : l \in Levels \ {Unavailable}, c \in Codes \cup {NoCode}}
    [] item \in DataSets   -> {SetPayload(s, r) : s \in DataSet, r \in BOOLEAN}
    [] OTHER               -> {PlainPayload(v) : v \in Values}

isUnavailable(obs) == obs.payload.value = Unavailable

-----------------------------------------------------------------------------
(* Condition chains.                                                       *)

isActive(obs) == obs.payload.value \in {"WARNING", "FAULT"}

HasCode(chain, c) == \E k \in DOMAIN chain : chain[k].payload.code = c

(* Observation::find and deepCopyAndRemove: the first observation of the   *)
(* chain with this native code is left out of the copy.                    *)
RemoveCode(chain, c) ==
  IF HasCode(chain, c)
    THEN LET hit == CHOOSE k \in DOMAIN chain :
                      /\ chain[k].payload.code = c
                      /\ \A j \in 1 .. k-1 : chain[j].payload.code # c
         IN  SubSeq(chain, 1, hit - 1) \o SubSeq(chain, hit + 1, Len(chain))
    ELSE chain

(* Observation::normal on a copy of the event.                             *)
ClearedNormal(obs) == [obs EXCEPT !.payload.code = NoCode]

AddCondition_NoReplace(chain, obs) ==
  LET code == obs.payload.code
      rest == RemoveCode(chain, code)
  IN  IF isActive(chain[1]) /\ isActive(obs)
        THEN <<obs>> \o chain
      ELSE IF obs.payload.value = "NORMAL" /\ code # NoCode
        THEN IF ~ HasCode(chain, code) THEN chain
             ELSE IF rest # <<>>       THEN rest
             ELSE <<ClearedNormal(obs)>>
      ELSE <<obs>>

AddCondition(chain, obs) ==
  LET code == obs.payload.code
      rest == RemoveCode(chain, code)
  IN  IF isActive(chain[1]) /\ isActive(obs)
        THEN <<obs>> \o rest
      ELSE IF obs.payload.value = "NORMAL" /\ code # NoCode
        THEN IF ~ HasCode(chain, code) THEN chain
             ELSE IF rest # <<>>       THEN rest
             ELSE <<ClearedNormal(obs)>>
      ELSE <<obs>>

-----------------------------------------------------------------------------
(* Data sets.                                                              *)

MergeSet_KeepRemoved(old, new) ==
  [k \in DOMAIN old \cup DOMAIN new |->
     IF k \in DOMAIN new /\ new[k] # Removed THEN new[k]
     ELSE IF k \in DOMAIN old THEN old[k] ELSE Removed]

MergeSet(old, new) ==
  LET kept == {k \in DOMAIN old \cup DOMAIN new : k \in DOMAIN new => new[k] # Removed}
  IN  [k \in kept |-> IF k \in DOMAIN new THEN new[k] ELSE old[k]]

AddDataSet(chain, obs) ==
  LET old == chain[1]
  IN  IF isUnavailable(obs) \/ isUnavailable(old) \/ obs.payload.reset
        THEN <<obs>>
        ELSE <<[obs EXCEPT !.payload.set = MergeSet(old.payload.set, @)]>>

-----------------------------------------------------------------------------
(* Checkpoint operations.                                                  *)

CheckpointType == [DataItems -> Seq(Observation)]

EmptyCheckpoint == [i \in DataItems |-> <<>>]

AddToChain(chain, obs) ==
  IF chain = <<>> THEN <<obs>>
  ELSE IF obs.item \in Conditions THEN AddCondition(chain, obs)
  ELSE IF obs.item \in DataSets   THEN AddDataSet(chain, obs)
  ELSE <<obs>>

addObservation(cp, obs) == [cp EXCEPT ![obs.item] = AddToChain(@, obs)]

(* Checkpoint(checkpoint, &filterSet): the filtered copy, and adding to it. *)
FilterCheckpoint(cp, filter) == [i \in DataItems |-> IF i \in filter THEN cp[i] ELSE <<>>]

addFiltered(cp, filter, obs) ==
  IF obs.item \in filter THEN addObservation(cp, obs) ELSE cp

(* Checkpoint::dataSetDifference: the entries of the payload that the      *)
(* checkpoint does not already hold.  An empty set, a reset and an item    *)
(* without an entry are passed through.                                    *)
SetDifference(cp, item, payload) ==
  LET new == payload.set
      old == cp[item][1].payload.set
      differs == {k \in DOMAIN new : ~ (k \in DOMAIN old /\ old[k] = new[k])}
  IN  IF DOMAIN new = {} \/ payload.reset \/ cp[item] = <<>>
        THEN new
        ELSE [k \in differs |-> new[k]]

(* addToBuffer drops an observation whose data set adds nothing.           *)
AddsNothing(cp, item, payload) ==
  /\ item \in DataSets \ DiscreteSets
  /\ DOMAIN payload.set # {}
  /\ DOMAIN SetDifference(cp, item, payload) = {}

Stripped(cp, item, payload) ==
  IF item \in DataSets \ DiscreteSets
    THEN [payload EXCEPT !.set = SetDifference(cp, item, payload)]
    ELSE payload
=============================================================================
