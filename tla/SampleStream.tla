---------------------------- MODULE SampleStream ----------------------------
(***************************************************************************)
(* A sample request with an interval (Agent::streamData, agent.cpp) and    *)
(* the observer it waits on (change_observer.hpp, change_observer.cpp).    *)
(*                                                                         *)
(* A writer appends an observation and signals the observers registered    *)
(* for its data item, all under m_sequenceLock; m_sequence itself is read  *)
(* without the lock by the stream's range checks, so the two are separate  *)
(* steps.  fetchSampleData and the choice of the next start are one step   *)
(* each, because they hold the lock throughout.                            *)
(*                                                                         *)
(* The slots of the buffer are left out: ObservationBuffer shows that the  *)
(* slots of the window hold the log.  A stream of "current" documents has  *)
(* no start and waits on nothing; it is fetchCurrentData repeated.         *)
(***************************************************************************)
EXTENDS Integers, Sequences, FiniteSets

CONSTANTS
  Items,        \* data items
  Size,         \* m_slidingBufferSize
  Streams,      \* threads that serve a stream
  Filters,      \* the filter sets a request's path can resolve to
  Counts,       \* values of the parameter 'count'
  MaxSequence   \* bound: the last sequence number the model assigns

ASSUME StreamAssumption ==
  /\ IsFiniteSet(Items) /\ Items # {}
  /\ Size \in Nat \ {0}
  /\ Filters \subseteq SUBSET Items
  /\ Counts \subseteq Nat \ {0}
  /\ MaxSequence \in Nat
  /\ Cardinality(Items) <= MaxSequence

VARIABLES
  m_sequence,  \* the next sequence number
  log,         \* the data items of all observations, by sequence number
  adding,      \* an addToBuffer holds m_sequenceLock and has not signalled yet
  m_observers, \* data item -> the streams whose observer is registered
  observer,    \* the m_sequence of each stream's ChangeObserver
  stream       \* the local variables of each stream; history: the observations
               \* of earlier chunks, of the last chunk, and those it missed

vars == <<m_sequence, log, adding, m_observers, observer, stream>>

UINT64_MAX == MaxSequence + 2   \* larger than every sequence number
NoStart    == 0

getFirstSequence == IF m_sequence > Size THEN m_sequence - Size ELSE 1

Idle ==
  [pc |-> "idle", filter |-> {}, count |-> 0, from |-> NoStart,
   begin |-> 1, start |-> 1, end |-> 1, endOfBuffer |-> FALSE,
   sent |-> {}, chunk |-> {}, missed |-> {}]

(* Sequence numbers of lo .. hi - 1 that the filter lets through.          *)
Matches(filter, lo, hi) == {s \in lo .. hi - 1 : log[s] \in filter}

-----------------------------------------------------------------------------
(* The constructor has posted one observation for every data item.         *)
Init ==
  /\ m_sequence = Cardinality(Items) + 1
  /\ log \in [1 .. Cardinality(Items) -> Items]
  /\ \A i \in Items : \E s \in DOMAIN log : log[s] = i
  /\ adding = FALSE
  /\ m_observers = [i \in Items |-> {}]
  /\ observer = [r \in Streams |-> UINT64_MAX]
  /\ stream = [r \in Streams |-> Idle]

(* addToBuffer, up to the call of signalObservers.                         *)
addToBuffer(item) ==
  /\ ~ adding
  /\ m_sequence <= MaxSequence
  /\ adding' = TRUE
  /\ m_sequence' = m_sequence + 1
  /\ log' = Append(log, item)
  /\ UNCHANGED <<m_observers, observer, stream>>

(* ChangeObserver::signal keeps the earliest sequence number.              *)
signal_Latest(old, sequence) == sequence

signal(old, sequence) == IF old > sequence /\ sequence # 0 THEN sequence ELSE old

signalObservers_OnlyWaiting ==
  /\ adding
  /\ adding' = FALSE
  /\ observer' = [r \in Streams |->
                    IF r \in m_observers[log[m_sequence - 1]] /\ stream[r].pc = "waiting"
                      THEN signal(observer[r], m_sequence - 1) ELSE observer[r]]
  /\ UNCHANGED <<m_sequence, log, m_observers, stream>>

signalObservers ==
  /\ adding
  /\ adding' = FALSE
  /\ observer' = [r \in Streams |->
                    IF r \in m_observers[log[m_sequence - 1]]
                      THEN signal(observer[r], m_sequence - 1) ELSE observer[r]]
  /\ UNCHANGED <<m_sequence, log, m_observers, stream>>

-----------------------------------------------------------------------------
(* handleCall checks 'from' against the window, without the lock.          *)
Request(r, filter, from, count) ==
  /\ stream[r].pc = "idle"
  /\ from = NoStart \/ from \in getFirstSequence .. m_sequence
  /\ stream' = [stream EXCEPT ![r] = [Idle EXCEPT !.pc = "registering", !.filter = filter,
                                                  !.count = count, !.from = from]]
  /\ observer' = [observer EXCEPT ![r] = UINT64_MAX]
  /\ UNCHANGED <<m_sequence, log, adding, m_observers>>

addObserver(r, item) ==
  /\ stream[r].pc = "registering"
  /\ item \in stream[r].filter
  /\ r \notin m_observers[item]
  /\ m_observers' = [m_observers EXCEPT ![item] = @ \cup {r}]
  /\ UNCHANGED <<m_sequence, log, adding, observer, stream>>

(* A start before the window is moved to its beginning.                    *)
BeginStream(r) ==
  LET q     == stream[r]
      start == IF q.from = NoStart \/ q.from < getFirstSequence
                 THEN getFirstSequence ELSE q.from
  IN  /\ q.pc = "registering"
      /\ \A i \in q.filter : r \in m_observers[i]
      /\ stream' = [stream EXCEPT ![r].pc = "looking", ![r].begin = start, ![r].start = start]
      /\ UNCHANGED <<m_sequence, log, adding, m_observers, observer>>

(* The top of the loop: the client has fallen behind (an error is sent and *)
(* the stream ends), or the fetch goes ahead.  The check takes no lock.    *)
Behind(r) ==
  /\ stream[r].pc = "looking"
  /\ stream[r].start < getFirstSequence
  /\ stream' = [stream EXCEPT ![r].pc = "leaving"]
  /\ UNCHANGED <<m_sequence, log, adding, m_observers, observer>>

KeepsUp(r) ==
  /\ stream[r].pc = "looking"
  /\ stream[r].start >= getFirstSequence
  /\ stream' = [stream EXCEPT ![r].pc = "fetching"]
  /\ UNCHANGED <<m_sequence, log, adding, m_observers, observer>>

(* fetchSampleData: up to 'count' observations from the start, which is    *)
(* moved into the window again; then the observer is reset.  The loop ends *)
(* after the last observation it may take, or at the end of the buffer.    *)
ScanEnds(q, start) ==
  LET taken(e) == Cardinality(Matches(q.filter, start, e))
  IN  {e \in start .. m_sequence :
         /\ e = m_sequence \/ taken(e) = q.count
         /\ \A d \in start .. e - 1 : taken(d) # q.count}

reset_Forgotten(r) == observer

reset(r) == [observer EXCEPT ![r] = UINT64_MAX]

fetchSampleData(r) ==
  LET q     == stream[r]
      start == IF q.start <= getFirstSequence THEN getFirstSequence ELSE q.start
  IN  /\ q.pc = "fetching"
      /\ ~ adding
      /\ \E end \in ScanEnds(q, start) :
           stream' = [stream EXCEPT
                        ![r].pc = "sent",
                        ![r].end = end,
                        ![r].endOfBuffer = (end >= m_sequence),
                        ![r].sent = q.sent \cup q.chunk,
                        ![r].chunk = Matches(q.filter, start, end),
                        ![r].missed = q.missed \cup Matches(q.filter, q.start, start)]
      /\ observer' = reset(r)
      /\ UNCHANGED <<m_sequence, log, adding, m_observers>>

(* Not at the end of the buffer: go on from where the fetch stopped.       *)
Replay(r) ==
  /\ stream[r].pc = "sent"
  /\ ~ stream[r].endOfBuffer
  /\ stream' = [stream EXCEPT ![r].pc = "looking", ![r].start = stream[r].end]
  /\ UNCHANGED <<m_sequence, log, adding, m_observers, observer>>

Wait(r) ==
  /\ stream[r].pc = "sent"
  /\ stream[r].endOfBuffer
  /\ stream' = [stream EXCEPT ![r].pc = "waiting"]
  /\ UNCHANGED <<m_sequence, log, adding, m_observers, observer>>

(* ChangeObserver::wait returns: the observer was signalled, or the        *)
(* heartbeat has elapsed.                                                  *)
Wake(r) ==
  /\ stream[r].pc = "waiting"
  /\ observer[r] # UINT64_MAX
  /\ stream' = [stream EXCEPT ![r].pc = "woken"]
  /\ UNCHANGED <<m_sequence, log, adding, m_observers, observer>>

Heartbeat(r) ==
  /\ stream[r].pc = "waiting"
  /\ stream' = [stream EXCEPT ![r].pc = "woken"]
  /\ UNCHANGED <<m_sequence, log, adding, m_observers, observer>>

(* Under the lock: the next start is the earliest signalled observation,   *)
(* or the next sequence number if there is none.                           *)
Restart(r) ==
  /\ stream[r].pc = "woken"
  /\ ~ adding
  /\ stream' = [stream EXCEPT ![r].pc = "looking",
                              ![r].start = IF observer[r] = UINT64_MAX THEN m_sequence ELSE observer[r]]
  /\ UNCHANGED <<m_sequence, log, adding, m_observers, observer>>

(* The client has closed the connection: out is no longer good.            *)
Disconnect(r) ==
  /\ stream[r].pc = "looking"
  /\ stream' = [stream EXCEPT ![r].pc = "leaving"]
  /\ UNCHANGED <<m_sequence, log, adding, m_observers, observer>>

(* ~ChangeObserver                                                         *)
removeObserver(r, item) ==
  /\ stream[r].pc = "leaving"
  /\ r \in m_observers[item]
  /\ m_observers' = [m_observers EXCEPT ![item] = @ \ {r}]
  /\ UNCHANGED <<m_sequence, log, adding, observer, stream>>

Finish(r) ==
  /\ stream[r].pc = "leaving"
  /\ \A i \in Items : r \notin m_observers[i]
  /\ stream' = [stream EXCEPT ![r] = Idle]
  /\ UNCHANGED <<m_sequence, log, adding, m_observers, observer>>

-----------------------------------------------------------------------------
(* The steps a stream's thread takes by itself.                            *)
Proceed(r) ==
  \/ \E i \in Items : addObserver(r, i) \/ removeObserver(r, i)
  \/ BeginStream(r)
  \/ Behind(r)
  \/ KeepsUp(r)
  \/ fetchSampleData(r)
  \/ Replay(r)
  \/ Wait(r)
  \/ Wake(r)
  \/ Restart(r)
  \/ Finish(r)

(* What comes from outside: requests, time and the client.                 *)
Outside(r) ==
  \/ \E f \in Filters, from \in 0 .. MaxSequence + 1, c \in Counts : Request(r, f, from, c)
  \/ Heartbeat(r)
  \/ Disconnect(r)

Next ==
  \/ \E i \in Items : addToBuffer(i)
  \/ signalObservers
  \/ \E r \in Streams : Proceed(r) \/ Outside(r)

Spec == Init /\ [][Next]_vars

(* A writer inside addToBuffer finishes it, and a stream's thread runs and *)
(* gets the lock in the end.  Nothing is assumed about the heartbeat.      *)
Fairness == WF_vars(signalObservers) /\ \A r \in Streams : WF_vars(Proceed(r))

FairSpec == Spec /\ Fairness

-----------------------------------------------------------------------------
(* Type invariant.                                                         *)
StreamType ==
  [pc : {"idle", "registering", "looking", "fetching", "sent", "waiting", "woken", "leaving"},
   filter : SUBSET Items, count : Nat, from : Nat,
   begin : Nat \ {0}, start : Nat \ {0}, end : Nat \ {0}, endOfBuffer : BOOLEAN,
   sent : SUBSET Nat, chunk : SUBSET Nat, missed : SUBSET Nat]

TypeOK ==
  /\ m_sequence \in Nat \ {0}
  /\ log \in Seq(Items)
  /\ Len(log) = m_sequence - 1
  /\ adding \in BOOLEAN
  /\ m_observers \in [Items -> SUBSET Streams]
  /\ observer \in [Streams -> Nat]
  /\ stream \in [Streams -> StreamType]

Streaming(q) == q.pc \in {"looking", "fetching", "sent", "waiting", "woken"}

(* The observations a stream still has to send.                            *)
Owed(q) == Matches(q.filter, q.begin, m_sequence) \ (q.sent \cup q.chunk \cup q.missed)

(* An observation whose addToBuffer has not signalled yet.                 *)
InFlight(s) == adding /\ s = m_sequence - 1

AtEnd(q) == q.pc \in {"waiting", "woken"} \/ (q.pc = "sent" /\ q.endOfBuffer)

Replaying(q) == q.pc = "sent" /\ ~ q.endOfBuffer

SkipsNothing(r) ==
  LET q == stream[r]
  IN  \A s \in Owed(q) :
        /\ q.pc \in {"looking", "fetching"} => s >= q.start
        /\ Replaying(q) => s >= q.end
        /\ AtEnd(q) => s >= observer[r] \/ InFlight(s)

(* What a stream still owes lies ahead of it: at or after its next start   *)
(* while it is on its way to a fetch; signalled to its observer, or about  *)
(* to be, while it waits.  Nothing falls between the fetch, the wait and   *)
(* the choice of the next start, whatever the heartbeat does (streamData,  *)
(* "signaled sequence numbers can only decrease").                         *)
NothingSkipped == \A r \in Streams : SkipsNothing(r)

(* No observation is sent twice or out of order on one stream: a chunk     *)
(* holds only observations after those of all earlier chunks, although the *)
(* next start comes from the observer and not from the last chunk.         *)
SentOnceInOrder ==
  \A r \in Streams : \A s \in stream[r].chunk, t \in stream[r].sent : t < s

(* A stream that is never told it fell behind misses nothing: the check at *)
(* the top of the loop is there to report it ("Client can't keep up with   *)
(* event stream, disconnecting").                                          *)
NoSilentLoss == \A r \in Streams : Streaming(stream[r]) => stream[r].missed = {}

(* Every matching observation reaches the client, is lost to the window or *)
(* the stream ends: no signal is lost, even if no heartbeat ever elapses.  *)
EventuallySent ==
  \A r \in Streams, s \in 1 .. MaxSequence :
    Streaming(stream[r]) /\ s \in Owed(stream[r])
      ~> ~ (Streaming(stream[r]) /\ s \in Owed(stream[r]))

-----------------------------------------------------------------------------
(* The inductive invariant behind NothingSkipped and SentOnceInOrder: a    *)
(* streaming thread is registered for its whole filter, its observer holds *)
(* a sequence number that was assigned, and everything it has sent lies    *)
(* before the place it goes on from.                                       *)
Sent(q) == q.sent \cup q.chunk

Settled == IF adding THEN m_sequence - 1 ELSE m_sequence

Placed(r) ==
  LET q == stream[r]
  IN  /\ Streaming(q) => \A i \in q.filter : r \in m_observers[i]
      /\ observer[r] = UINT64_MAX \/ observer[r] \in 1 .. m_sequence - 1
      /\ q.pc \in {"idle", "registering"} => Sent(q) = {}
      /\ q.pc = "registering" => q.from <= m_sequence
      /\ \A t \in Sent(q) : t < Settled
      /\ q.pc \in {"looking", "fetching"} =>
           q.start <= m_sequence /\ \A t \in Sent(q) : t < q.start
      /\ Replaying(q) => q.end <= m_sequence /\ \A t \in Sent(q) : t < q.end
      /\ AtEnd(q) => \A t \in Sent(q) : t < observer[r]

StreamInv ==
  /\ TypeOK
  /\ m_sequence <= MaxSequence + 1
  /\ NothingSkipped
  /\ SentOnceInOrder
  /\ \A r \in Streams : Placed(r)
=============================================================================
