----------------------------- MODULE AssetStore -----------------------------
(***************************************************************************)
(* The agent's assets (agent.cpp: addAsset, updateAsset, removeAsset,      *)
(* removeAllAssets, handleAssets).                                         *)
(*                                                                         *)
(* m_assets is a list of pointers to entries of m_assetMap, the most       *)
(* recently stored last.  An operation holds m_assetLock while it changes  *)
(* them; addAsset, updateAsset and removeAsset post their event after they *)
(* have released it, which is a step of its own.  removeAsset and          *)
(* removeAllAssets look at the latest AssetChanged first, and other        *)
(* threads may post between the look and what follows from it.             *)
(*                                                                         *)
(* The contents of an asset are left out, and so is m_assetIndices, which  *)
(* is written and never read.  An absent entry and one that operator[] has *)
(* created empty are the same.                                             *)
(***************************************************************************)
EXTENDS Subsequences, FiniteSets

CONSTANTS
  Ids,        \* asset ids
  Types,      \* asset types
  ToolTypes,  \* the types updateAsset accepts
  Documents,  \* what addAsset is given, once parsed: type and removed flag
  MaxAssets,  \* m_maxAssets
  Devices,
  Threads,    \* adapters and request threads
  Frames,     \* addresses the local variable of updateAsset can have
  Null,       \* no asset
  MaxCount    \* bound: the model stops where a count would leave -MaxCount .. MaxCount

Unavailable == "UNAVAILABLE"
Free        == "free"

Asset == [type : Types, removed : BOOLEAN]

ASSUME AssetAssumption ==
  /\ IsFiniteSet(Ids)
  /\ ToolTypes \subseteq Types
  /\ Documents \subseteq Asset
  /\ MaxAssets \in Nat \ {0}
  /\ MaxCount \in Nat
  /\ Unavailable \notin Ids
  /\ Free \notin Threads
  /\ Null \notin Asset

VARIABLES
  m_assets,       \* list of pointers
  m_assetMap,     \* id -> asset
  m_assetCounts,  \* type -> number
  m_assetLock,    \* the thread that holds the lock, or Free
  assetChanged,   \* device -> the latest AssetChanged in m_latest
  assetRemoved,   \* device -> the latest AssetRemoved in m_latest
  op,             \* what each thread still has to do
  status,         \* "running", or "undefined" after an invalid access
  recency         \* history: ids in the order in which they were last stored

store  == <<m_assets, m_assetMap, m_assetCounts, recency>>
events == <<assetChanged, assetRemoved>>
vars   == <<store, m_assetLock, events, op, status>>

(* Pointers: to the map's entry of an id, or to a local variable.          *)
Entry(id) == [to |-> "entry", at |-> id]
Local(a)  == [to |-> "local", at |-> a]

Idle == [pc |-> "idle"]
Posts(kind, device, id) == [pc |-> "posting", kind |-> kind, device |-> device, id |-> id]

Without(list, x) == Subsequence(list, {k \in DOMAIN list : list[k] # x})

Ready(t) == status = "running" /\ op[t].pc = "idle" /\ m_assetLock = Free

-----------------------------------------------------------------------------
Init ==
  /\ m_assets = <<>>
  /\ m_assetMap = [id \in Ids |-> Null]
  /\ m_assetCounts = [y \in Types |-> 0]
  /\ m_assetLock = Free
  /\ assetChanged = [d \in Devices |-> Unavailable]
  /\ assetRemoved = [d \in Devices |-> Unavailable]
  /\ op = [t \in Threads |-> Idle]
  /\ status = "running"
  /\ recency = <<>>

Undefined ==
  /\ status' = "undefined"
  /\ UNCHANGED <<store, m_assetLock, events, op>>

(* addAsset takes a known asset off the list, unless the document says it  *)
(* is removed; then the oldest makes room.                                 *)
Unlist_KeepOld(id, doc) == m_assets

Unlist(id, doc) == IF doc.removed THEN m_assets ELSE Without(m_assets, Entry(id))

Counted(id, doc) ==
  IF ~ doc.removed /\ m_assetMap[id] = Null
    THEN [m_assetCounts EXCEPT ![doc.type] = @ + 1] ELSE m_assetCounts

Overflows(list) == Len(list) >= MaxAssets

(* The list, map and counts after the oldest asset has been dropped.       *)
DropOldest(list, counts) ==
  LET id == Head(list).at
  IN  [list   |-> Tail(list),
       map    |-> [m_assetMap EXCEPT ![id] = Null],
       counts |-> [counts EXCEPT ![m_assetMap[id].type] = @ - 1]]

Enlist_First(list, id, doc) == IF doc.removed THEN list ELSE <<Entry(id)>> \o list

Enlist(list, id, doc) == IF doc.removed THEN list ELSE Append(list, Entry(id))

addAsset(t, d, id, doc) ==
  LET list   == Unlist(id, doc)
      counts == Counted(id, doc)
      lost   == Overflows(list) /\ Head(list).to = "local"
      room   == IF Overflows(list) /\ ~ lost THEN DropOldest(list, counts)
                ELSE [list |-> list, map |-> m_assetMap, counts |-> counts]
  IN  /\ Ready(t)
      /\ doc.removed => m_assetMap[id] # Null
      /\ \A y \in Types : room.counts[y] \in -MaxCount .. MaxCount
      /\ IF lost
           THEN Undefined
           ELSE /\ m_assetMap' = [room.map EXCEPT ![id] = doc]
                /\ m_assets' = Enlist(room.list, id, doc)
                /\ m_assetCounts' = room.counts
                /\ recency' = IF doc.removed THEN recency ELSE Append(Without(recency, id), id)
                /\ op' = [op EXCEPT ![t] = Posts(IF doc.removed THEN "removed" ELSE "changed", d, id)]
                /\ UNCHANGED <<m_assetLock, events, status>>

(* updateAsset enlists the address of its local variable.                  *)
updateAsset(t, d, id, a) ==
  /\ Ready(t)
  /\ m_assetMap[id] # Null
  /\ m_assetMap[id].type \in ToolTypes
  /\ m_assets' = Append(Without(m_assets, Local(a)), Local(a))
  /\ op' = [op EXCEPT ![t] = Posts("changed", d, id)]
  /\ UNCHANGED <<m_assetMap, m_assetCounts, recency, m_assetLock, events, status>>

(* removeAsset marks the asset; if it is the one AssetChanged names, the   *)
(* event is taken back before the lock is released.                        *)
Revokes(latest, id) == latest = id

removeAsset(t, d, id) ==
  /\ Ready(t)
  /\ m_assetMap[id] # Null
  /\ m_assetMap' = [m_assetMap EXCEPT ![id].removed = TRUE]
  /\ IF Revokes(assetChanged[d], id)
       THEN /\ m_assetLock' = t
            /\ op' = [op EXCEPT ![t] = [pc |-> "revoking", device |-> d, id |-> id]]
       ELSE /\ op' = [op EXCEPT ![t] = Posts("removed", d, id)]
            /\ UNCHANGED m_assetLock
  /\ UNCHANGED <<m_assets, m_assetCounts, recency, events, status>>

Revoke(t) ==
  /\ op[t].pc = "revoking"
  /\ assetChanged' = [assetChanged EXCEPT ![op[t].device] = Unavailable]
  /\ m_assetLock' = Free
  /\ op' = [op EXCEPT ![t] = Posts("removed", op[t].device, op[t].id)]
  /\ UNCHANGED <<store, assetRemoved, status>>

(* removeAllAssets reads AssetChanged once, then walks the list from its   *)
(* end and posts as it goes, all under m_assetLock.                        *)
removeAllAssets(t, d, type) ==
  /\ Ready(t)
  /\ m_assetLock' = t
  /\ op' = [op EXCEPT ![t] = [pc |-> "walking", device |-> d, type |-> type,
                              index |-> Len(m_assets), changedId |-> assetChanged[d]]]
  /\ UNCHANGED <<store, events, status>>

RemoveNext(t) ==
  LET o  == op[t]
      id == m_assets[o.index].at
  IN  /\ o.pc = "walking"
      /\ status = "running"
      /\ o.index > 0
      /\ IF m_assets[o.index].to = "local"
           THEN Undefined
           ELSE /\ IF m_assetMap[id].type = o.type /\ ~ m_assetMap[id].removed
                     THEN /\ m_assetMap' = [m_assetMap EXCEPT ![id].removed = TRUE]
                          /\ assetRemoved' = [assetRemoved EXCEPT ![o.device] = id]
                          /\ assetChanged' = IF Revokes(o.changedId, id)
                                               THEN [assetChanged EXCEPT ![o.device] = Unavailable]
                                               ELSE assetChanged
                     ELSE UNCHANGED <<m_assetMap, events>>
                /\ op' = [op EXCEPT ![t].index = @ - 1]
                /\ UNCHANGED <<m_assets, m_assetCounts, recency, m_assetLock, status>>

RemovedAll(t) ==
  /\ op[t].pc = "walking"
  /\ op[t].index = 0
  /\ m_assetLock' = Free
  /\ op' = [op EXCEPT ![t] = Idle]
  /\ UNCHANGED <<store, events, status>>

(* The event of addAsset, updateAsset and removeAsset, after the lock.     *)
PostEvent(t) ==
  LET o == op[t]
  IN  /\ o.pc = "posting"
      /\ IF o.kind = "changed"
           THEN assetChanged' = [assetChanged EXCEPT ![o.device] = o.id] /\ UNCHANGED assetRemoved
           ELSE assetRemoved' = [assetRemoved EXCEPT ![o.device] = o.id] /\ UNCHANGED assetChanged
      /\ op' = [op EXCEPT ![t] = Idle]
      /\ UNCHANGED <<store, m_assetLock, status>>

(* A request for all assets looks through every pointer of the list.       *)
handleAssets(t) ==
  /\ Ready(t)
  /\ IF \E k \in DOMAIN m_assets : m_assets[k].to = "local"
       THEN Undefined
       ELSE UNCHANGED vars

-----------------------------------------------------------------------------
Next ==
  \E t \in Threads :
    \/ \E d \in Devices, id \in Ids, doc \in Documents : addAsset(t, d, id, doc)
    \/ \E d \in Devices, id \in Ids, a \in Frames : updateAsset(t, d, id, a)
    \/ \E d \in Devices, id \in Ids : removeAsset(t, d, id)
    \/ \E d \in Devices, type \in Types : removeAllAssets(t, d, type)
    \/ Revoke(t)
    \/ RemoveNext(t)
    \/ RemovedAll(t)
    \/ PostEvent(t)
    \/ handleAssets(t)

Spec == Init /\ [][Next]_vars

-----------------------------------------------------------------------------
(* Type invariant.                                                         *)
Pointer == [to : {"entry"}, at : Ids] \cup [to : {"local"}, at : Frames]

Operation ==
  {Idle}
  \cup [pc : {"posting"}, kind : {"changed", "removed"}, device : Devices, id : Ids]
  \cup [pc : {"revoking"}, device : Devices, id : Ids]
  \cup [pc : {"walking"}, device : Devices, type : Types, index : Nat, changedId : Ids \cup {Unavailable}]

TypeOK ==
  /\ m_assets \in Seq(Pointer)
  /\ m_assetMap \in [Ids -> Asset \cup {Null}]
  /\ m_assetCounts \in [Types -> Int]
  /\ m_assetLock \in Threads \cup {Free}
  /\ assetChanged \in [Devices -> Ids \cup {Unavailable}]
  /\ assetRemoved \in [Devices -> Ids \cup {Unavailable}]
  /\ op \in [Threads -> Operation]
  /\ status \in {"running", "undefined"}
  /\ recency \in Seq(Ids)

Quiescent == \A t \in Threads : op[t] = Idle

Lists(list, id) == \E k \in DOMAIN list : list[k] = Entry(id)

Listed == {id \in Ids : Lists(m_assets, id)}

Entries == Subsequence(m_assets, {k \in DOMAIN m_assets : m_assets[k].to = "entry"})

(* Every pointer into the map leads to an asset, and no asset is listed    *)
(* twice: addAsset erases an entry only together with its pointer.         *)
ListLive ==
  /\ \A id \in Listed : m_assetMap[id] # Null
  /\ \A j, k \in DOMAIN Entries : Entries[j] = Entries[k] => j = k

(* The list holds the most recently stored assets, oldest first: what is   *)
(* dropped is always the least recently stored one ("use the circular      *)
(* buffer as an LRU"), also when documents that only remove an asset make  *)
(* room.                                                                   *)
ListIsMostRecent ==
  LET n == Len(Entries)
  IN  /\ n <= Len(recency)
      /\ \A k \in 1 .. n : Entries[k] = Entry(recency[Len(recency) - n + k])

(* An asset that is not removed can be found both by its id and in the     *)
(* list of all assets.                                                     *)
PresentIsListed ==
  \A id \in Ids : m_assetMap[id] # Null /\ ~ m_assetMap[id].removed => id \in Listed

(* No more than MaxAssets assets are listed, also when documents that only *)
(* remove an asset and updates in place come in between.                   *)
ListBounded == Len(Entries) <= MaxAssets

(* List and map agree after every operation: the state is well typed, what *)
(* is listed is stored once, what is stored and not removed is listed, and *)
(* the list keeps its bound.                                               *)
ListMatchesMap == TypeOK /\ ListLive /\ PresentIsListed /\ ListBounded

(* Between operations, AssetChanged names an asset that can be fetched:    *)
(* removing the asset it names takes the event back.                       *)
ChangedIsPresent ==
  Quiescent =>
    \A d \in Devices :
      assetChanged[d] # Unavailable =>
        /\ m_assetMap[assetChanged[d]] # Null
        /\ ~ m_assetMap[assetChanged[d]].removed

(* The list is never followed to a variable that is gone: updateAsset      *)
(* means to move the asset's own pointer to the end of the list.           *)
NoInvalidAccess == status = "running"

-----------------------------------------------------------------------------
(* The inductive invariant.                                                *)

(* A thread that is in the middle of a removal holds the lock, so the list *)
(* it walks keeps its length.                                              *)
LockInv ==
  \A t \in Threads :
    /\ op[t].pc \in {"revoking", "walking"} => m_assetLock = t
    /\ op[t].pc = "walking" => op[t].index <= Len(m_assets)

(* The pointers of a list to the map follow an order of ids: each id is    *)
(* there once, what is listed has a place in the order, the list goes      *)
(* through the order upwards, and it leaves out nothing that comes after   *)
(* an id it lists.                                                         *)
Follows(list, order) ==
  /\ \A j, k \in DOMAIN list : list[j].to = "entry" /\ list[j] = list[k] => j = k
  /\ \A p, q \in DOMAIN order : order[p] = order[q] => p = q
  /\ \A id \in Ids : Lists(list, id) => \E p \in DOMAIN order : order[p] = id
  /\ \A j, k \in DOMAIN list, p, q \in DOMAIN order :
       j < k /\ list[j] = Entry(order[p]) /\ list[k] = Entry(order[q]) => p < q
  /\ \A p, q \in DOMAIN order : p < q /\ Lists(list, order[p]) => Lists(list, order[q])

IInv ==
  /\ TypeOK
  /\ LockInv
  /\ Follows(m_assets, recency)
  /\ \A id \in Listed : m_assetMap[id] # Null
  /\ PresentIsListed
  /\ Cardinality(Listed) <= MaxAssets
=============================================================================
