------------------------- MODULE SampleStreamProofs -------------------------
(***************************************************************************)
(* A stream skips nothing and sends nothing twice, for every buffer size,  *)
(* number of streams, filter and count: StreamInv of SampleStream is       *)
(* inductive.                                                              *)
(***************************************************************************)
EXTENDS SampleStream, FiniteSetTheorems, TLAPS

InOrder(r) == \A s \in stream[r].chunk, t \in stream[r].sent : t < s

(* Initially no stream is open.                                            *)
LEMMA InitStreamInv == Init => StreamInv
<1> SUFFICES ASSUME Init
             PROVE  StreamInv
  OBVIOUS
<1>1. Cardinality(Items) \in Nat
  BY StreamAssumption, FS_CardinalityType
<1>2. UINT64_MAX \in Nat
  BY StreamAssumption DEF UINT64_MAX
<1>3. Idle \in StreamType
  BY DEF Idle, StreamType, NoStart
<1>4. log \in Seq(Items) /\ Len(log) = m_sequence - 1
  BY <1>1 DEF Init
<1>5. TypeOK
  <2>1. m_sequence \in Nat \ {0}
    BY <1>1 DEF Init
  <2>5. adding \in BOOLEAN
    BY DEF Init
  <2>2. m_observers \in [Items -> SUBSET Streams]
    BY DEF Init
  <2>3. observer \in [Streams -> Nat] /\ stream \in [Streams -> StreamType]
    BY <1>2, <1>3 DEF Init
  <2>4. QED
    BY <1>4, <2>1, <2>2, <2>3, <2>5 DEF TypeOK
<1>6. m_sequence <= MaxSequence + 1
  BY <1>1, StreamAssumption DEF Init
<1>7. ASSUME NEW r \in Streams
      PROVE  Placed(r) /\ SkipsNothing(r) /\ InOrder(r)
  <2>1. stream[r] = Idle /\ observer[r] = UINT64_MAX
    BY DEF Init
  <2>2. QED
    BY <2>1 DEF Placed, SkipsNothing, InOrder, Idle, Streaming, Replaying, AtEnd, Sent
<1>8. QED
  BY <1>5, <1>6, <1>7 DEF StreamInv, NothingSkipped, SentOnceInOrder, InOrder

(* A step of stream r leaves the other streams, their observers and their  *)
(* registrations alone, so only r has to be looked at.                     *)
LEMMA StreamFrame ==
  ASSUME StreamInv, NEW r \in Streams, TypeOK', Placed(r)', SkipsNothing(r)', InOrder(r)',
         m_sequence' = m_sequence, log' = log, adding' = adding,
         \A t \in Streams \ {r} : /\ stream'[t] = stream[t]
                                  /\ observer'[t] = observer[t]
                                  /\ \A i \in Items : t \in m_observers[i] => t \in m_observers'[i]
  PROVE  StreamInv'
<1>1. ASSUME NEW t \in Streams, t # r
      PROVE  Placed(t)' /\ SkipsNothing(t)' /\ InOrder(t)'
  <2>1. /\ stream'[t] = stream[t] /\ observer'[t] = observer[t]
        /\ \A i \in Items : t \in m_observers[i] => t \in m_observers'[i]
    BY <1>1
  <2>2. stream[t].filter \subseteq Items
    BY DEF StreamInv, TypeOK, StreamType
  <2>3. Placed(t)'
    BY <2>1, <2>2 DEF StreamInv, Placed, Settled
  <2>4. SkipsNothing(t)'
    BY <2>1 DEF StreamInv, NothingSkipped, SkipsNothing, Owed, Matches, InFlight
  <2>5. InOrder(t)'
    BY <2>1 DEF StreamInv, SentOnceInOrder, InOrder
  <2>6. QED
    BY <2>3, <2>4, <2>5
<1>2. \A t \in Streams : Placed(t)' /\ SkipsNothing(t)' /\ InOrder(t)'
  BY <1>1
<1>3. QED
  BY <1>2 DEF StreamInv, NothingSkipped, SentOnceInOrder, InOrder

(* A new observation is ahead of every stream.                             *)
LEMMA AddStreamInv ==
  ASSUME StreamInv, NEW item \in Items, addToBuffer(item)
  PROVE  StreamInv'
<1>1. /\ m_sequence \in Nat \ {0} /\ m_sequence' = m_sequence + 1 /\ m_sequence <= MaxSequence
      /\ log \in Seq(Items) /\ log' = Append(log, item) /\ Len(log) = m_sequence - 1
      /\ adding = FALSE /\ adding' = TRUE
      /\ m_observers' = m_observers /\ observer' = observer /\ stream' = stream
      /\ stream \in [Streams -> StreamType]
      /\ MaxSequence \in Nat
  BY StreamAssumption DEF StreamInv, TypeOK, addToBuffer
<1>2. TypeOK'
  BY <1>1 DEF StreamInv, TypeOK
<1>3. \A s \in 1 .. m_sequence - 1 : log'[s] = log[s]
  BY <1>1
<1>4. ASSUME NEW r \in Streams
      PROVE  Placed(r)' /\ SkipsNothing(r)' /\ InOrder(r)'
  <2> DEFINE q == stream[r]
  <2>1. /\ q.begin \in Nat \ {0} /\ q.start \in Nat /\ q.end \in Nat /\ q.from \in Nat
        /\ q.sent \subseteq Nat /\ q.chunk \subseteq Nat
    BY <1>1 DEF StreamType
  <2>2. Placed(r) /\ SkipsNothing(r) /\ InOrder(r)
    BY DEF StreamInv, NothingSkipped, SentOnceInOrder, InOrder
  <2>3. Placed(r)'
    <3>1. \A t \in Sent(q) : t \in Nat /\ t < m_sequence
      BY <1>1, <2>1, <2>2 DEF Placed, Settled, Sent
    <3>2. observer[r] = UINT64_MAX \/ observer[r] \in 1 .. m_sequence
      BY <1>1, <2>2 DEF Placed
    <3>3. Settled' = m_sequence
      BY <1>1 DEF Settled
    <3>4. QED
      BY <1>1, <2>1, <2>2, <3>1, <3>2, <3>3 DEF Placed, Streaming, Sent, Replaying, AtEnd, UINT64_MAX
  <2>4. SkipsNothing(r)'
    <3> SUFFICES ASSUME NEW s \in Owed(q)'
                 PROVE  /\ q.pc \in {"looking", "fetching"} => s >= q.start
                        /\ Replaying(q) => s >= q.end
                        /\ AtEnd(q) => s >= observer[r] \/ InFlight(s)'
      BY <1>1 DEF SkipsNothing, Replaying, AtEnd
    <3>1. s \in q.begin .. m_sequence /\ log'[s] \in q.filter
          /\ s \notin q.sent \cup q.chunk \cup q.missed
      BY <1>1, <2>1 DEF Owed, Matches
    <3>2. CASE s = m_sequence
      BY <1>1, <2>1, <2>2, <3>2 DEF Placed, InFlight
    <3>3. CASE s # m_sequence
      <4>1. s \in q.begin .. m_sequence - 1 /\ s \in 1 .. m_sequence - 1
        BY <1>1, <2>1, <3>1, <3>3
      <4>2. s \in Owed(q)
        BY <1>3, <3>1, <4>1 DEF Owed, Matches
      <4>3. ~ InFlight(s)
        BY <1>1 DEF InFlight
      <4>4. QED
        BY <2>2, <4>2, <4>3 DEF SkipsNothing
    <3>4. QED
      BY <3>2, <3>3
  <2>5. InOrder(r)'
    BY <1>1, <2>2 DEF InOrder
  <2>6. QED
    BY <2>3, <2>4, <2>5
<1>5. m_sequence' <= MaxSequence + 1
  BY <1>1
<1>6. QED
  BY <1>2, <1>4, <1>5 DEF StreamInv, NothingSkipped, SentOnceInOrder, InOrder

(* Signalling turns an observation in flight into one the observer knows   *)
(* of; the observer only moves to smaller sequence numbers.                *)
LEMMA SignalStreamInv ==
  ASSUME StreamInv, signalObservers
  PROVE  StreamInv'
<1> DEFINE n == m_sequence - 1
<1>1. /\ m_sequence \in Nat \ {0} /\ m_sequence <= MaxSequence + 1 /\ MaxSequence \in Nat
      /\ m_sequence' = m_sequence /\ log' = log
      /\ adding = TRUE /\ adding' = FALSE
      /\ m_observers' = m_observers /\ stream' = stream
      /\ stream \in [Streams -> StreamType] /\ observer \in [Streams -> Nat]
      /\ observer' = [r \in Streams |-> IF r \in m_observers[log[n]]
                                          THEN signal(observer[r], n) ELSE observer[r]]
  BY StreamAssumption DEF StreamInv, TypeOK, signalObservers
<1>2. n \in Nat
  BY <1>1
<1>3. \A r \in Streams : /\ observer'[r] \in {observer[r], n}
                         /\ observer'[r] <= observer[r]
                         /\ observer'[r] # observer[r] => n # 0
  BY <1>1, <1>2 DEF signal
<1>4. observer' \in [Streams -> Nat]
  BY <1>1, <1>2, <1>3
<1>5. TypeOK'
  BY <1>1, <1>4 DEF StreamInv, TypeOK
<1> HIDE DEF n
<1>6. ASSUME NEW r \in Streams
      PROVE  Placed(r)' /\ SkipsNothing(r)' /\ InOrder(r)'
  <2> DEFINE q == stream[r]
  <2>1. /\ q.sent \subseteq Nat /\ q.chunk \subseteq Nat /\ q.begin \in Nat \ {0}
    BY <1>1 DEF StreamType
  <2>2. Placed(r) /\ SkipsNothing(r) /\ InOrder(r)
    BY DEF StreamInv, NothingSkipped, SentOnceInOrder, InOrder
  <2>3. Placed(r)'
    <3>1. \A t \in Sent(q) : t \in Nat /\ t < n /\ t < m_sequence
      BY <1>1, <2>1, <2>2 DEF Placed, Settled, Sent, n
    <3>2. observer'[r] = UINT64_MAX \/ observer'[r] \in 1 .. m_sequence - 1
      BY <1>1, <1>2, <1>3, <2>2 DEF Placed, n
    <3>3. AtEnd(q) => \A t \in Sent(q) : t < observer'[r]
      BY <1>3, <2>2, <3>1 DEF Placed
    <3>4. \A t \in Sent(q) : t < Settled'
      BY <1>1, <3>1 DEF Settled
    <3>5. QED
      BY <1>1, <2>2, <3>2, <3>3, <3>4 DEF Placed, Streaming, Sent, Replaying, AtEnd, UINT64_MAX
  <2>4. SkipsNothing(r)'
    <3> SUFFICES ASSUME NEW s \in Owed(q)
                 PROVE  /\ q.pc \in {"looking", "fetching"} => s >= q.start
                        /\ Replaying(q) => s >= q.end
                        /\ AtEnd(q) => s >= observer'[r]
      BY <1>1 DEF SkipsNothing, Replaying, AtEnd, Owed, Matches
    <3>1. s \in q.begin .. m_sequence - 1 /\ log[s] \in q.filter /\ s \in Int
      BY <1>1, <2>1 DEF Owed, Matches
    <3>2. AtEnd(q) => s >= observer'[r]
      <4> SUFFICES ASSUME AtEnd(q)
                   PROVE  s >= observer'[r]
        OBVIOUS
      <4>1. CASE s >= observer[r]
        BY <1>1, <1>3, <1>4, <3>1, <4>1
      <4>2. CASE InFlight(s)
        <5>1. s = n /\ n # 0
          BY <1>1, <2>1, <3>1, <4>2 DEF InFlight, n
        <5>2. r \in m_observers[log[n]]
          BY <2>2, <3>1, <5>1 DEF Placed, Streaming, AtEnd
        <5>3. observer'[r] = signal(observer[r], n)
          BY <1>1, <5>2
        <5>4. QED
          BY <1>1, <1>2, <5>1, <5>3 DEF signal
      <4>3. QED
        BY <2>2, <4>1, <4>2 DEF SkipsNothing
    <3>3. QED
      BY <2>2, <3>2 DEF SkipsNothing
  <2>5. InOrder(r)'
    BY <1>1, <2>2 DEF InOrder
  <2>6. QED
    BY <2>3, <2>4, <2>5
<1>7. QED
  BY <1>1, <1>5, <1>6 DEF StreamInv, NothingSkipped, SentOnceInOrder, InOrder

-----------------------------------------------------------------------------
(* A step that writes only the locals of stream r.                         *)
Locally(r, q) ==
  /\ q \in StreamType
  /\ stream' = [stream EXCEPT ![r] = q]
  /\ UNCHANGED <<m_sequence, log, adding, m_observers, observer>>

(* Such a step keeps the invariant if the new locals do.                   *)
LEMMA LocalStep ==
  ASSUME StreamInv, NEW r \in Streams, NEW q, Locally(r, q),
         Streaming(q) => \A i \in q.filter : r \in m_observers[i],
         q.pc \in {"idle", "registering"} => Sent(q) = {},
         q.pc = "registering" => q.from <= m_sequence,
         \A t \in Sent(q) : t < Settled,
         q.pc \in {"looking", "fetching"} =>
           q.start <= m_sequence /\ \A t \in Sent(q) : t < q.start,
         Replaying(q) => q.end <= m_sequence /\ \A t \in Sent(q) : t < q.end,
         AtEnd(q) => \A t \in Sent(q) : t < observer[r],
         \A s \in Owed(q) : /\ q.pc \in {"looking", "fetching"} => s >= q.start
                            /\ Replaying(q) => s >= q.end
                            /\ AtEnd(q) => s >= observer[r] \/ InFlight(s),
         \A s \in q.chunk, t \in q.sent : t < s
  PROVE  StreamInv'
<1>1. /\ stream'[r] = q /\ observer' = observer /\ m_observers' = m_observers
      /\ m_sequence' = m_sequence /\ log' = log /\ adding' = adding
      /\ \A t \in Streams \ {r} : stream'[t] = stream[t]
  BY DEF StreamInv, TypeOK, Locally
<1>2. TypeOK'
  BY DEF StreamInv, TypeOK, Locally
<1>3. observer[r] = UINT64_MAX \/ observer[r] \in 1 .. m_sequence - 1
  BY DEF StreamInv, Placed
<1>4. Placed(r)'
  BY <1>1, <1>3 DEF Placed, Streaming, Sent, Settled, Replaying, AtEnd, UINT64_MAX
<1>5. SkipsNothing(r)'
  BY <1>1 DEF SkipsNothing, Owed, Matches, Replaying, AtEnd, InFlight
<1>6. InOrder(r)'
  BY <1>1 DEF InOrder
<1>7. QED
  BY <1>1, <1>2, <1>4, <1>5, <1>6, StreamFrame

(* The facts about stream r that its steps start from.                     *)
LEMMA StreamFacts ==
  ASSUME StreamInv, NEW r \in Streams
  PROVE  /\ stream[r] \in StreamType
         /\ Placed(r) /\ SkipsNothing(r) /\ InOrder(r)
         /\ m_sequence \in Nat \ {0} /\ m_sequence <= MaxSequence + 1 /\ MaxSequence \in Nat
         /\ getFirstSequence \in Nat \ {0} /\ getFirstSequence <= m_sequence
         /\ observer[r] \in Nat
         /\ \A s \in Owed(stream[r]) : s \in Nat /\ s < m_sequence /\ s < UINT64_MAX
<1>1. /\ stream[r] \in StreamType
      /\ Placed(r) /\ SkipsNothing(r) /\ InOrder(r) /\ observer[r] \in Nat
  BY DEF StreamInv, TypeOK, NothingSkipped, SentOnceInOrder, InOrder
<1>2. m_sequence \in Nat \ {0} /\ m_sequence <= MaxSequence + 1 /\ MaxSequence \in Nat
  BY StreamAssumption DEF StreamInv, TypeOK
<1>3. getFirstSequence \in Nat \ {0} /\ getFirstSequence <= m_sequence
  BY <1>2, StreamAssumption DEF getFirstSequence
<1>4. stream[r].begin \in Nat
  BY <1>1 DEF StreamType
<1>5. \A s \in Owed(stream[r]) : s \in Nat /\ s < m_sequence /\ s < UINT64_MAX
  BY <1>2, <1>4 DEF Owed, Matches, UINT64_MAX
<1>6. QED
  BY <1>1, <1>2, <1>3, <1>5

(* The stream's position is the beginning of what it owes.                 *)
LEMMA BeginStreamInv ==
  ASSUME StreamInv, NEW r \in Streams, BeginStream(r)
  PROVE  StreamInv'
<1> DEFINE p == stream[r]
<1> USE StreamFacts
<1>1. PICK start : start = IF p.from = NoStart \/ p.from < getFirstSequence
                             THEN getFirstSequence ELSE p.from
  OBVIOUS
<1>2. p.pc = "registering" /\ p.from \in Nat /\ p.from <= m_sequence /\ Sent(p) = {}
  BY DEF BeginStream, StreamType, Placed
<1>3. start \in Nat \ {0} /\ start <= m_sequence
  BY <1>1, <1>2 DEF NoStart
<1>4. PICK q : q = [p EXCEPT !.pc = "looking", !.begin = start, !.start = start]
  OBVIOUS
<1>5. /\ q \in StreamType /\ q.pc = "looking" /\ q.begin = start /\ q.start = start
      /\ q.sent = p.sent /\ q.chunk = p.chunk /\ q.filter = p.filter
  BY <1>3, <1>4 DEF StreamType
<1>6. Locally(r, q)
  BY <1>1, <1>4, <1>5 DEF BeginStream, Locally
<1>7. \A i \in q.filter : r \in m_observers[i]
  BY <1>5 DEF BeginStream
<1>8. q.sent = {} /\ q.chunk = {} /\ Sent(q) = {}
  BY <1>2, <1>5 DEF Sent
<1>9. \A s \in Owed(q) : s >= q.start
  BY <1>3, <1>5 DEF Owed, Matches
<1>10. ~ Replaying(q) /\ ~ AtEnd(q)
  BY <1>5 DEF Replaying, AtEnd
<1>11. QED
  BY <1>3, <1>5, <1>6, <1>7, <1>8, <1>9, <1>10, LocalStep

(* A stream that ends, by an error or by its client, owes nothing more.    *)
LEMMA LeaveStreamInv ==
  ASSUME StreamInv, NEW r \in Streams, Behind(r) \/ Disconnect(r)
  PROVE  StreamInv'
<1> DEFINE p == stream[r]
<1> USE StreamFacts
<1>1. PICK q : q = [p EXCEPT !.pc = "leaving"]
  OBVIOUS
<1>2. q \in StreamType /\ q.pc = "leaving" /\ q.sent = p.sent /\ q.chunk = p.chunk
  BY <1>1 DEF StreamType
<1>3. Locally(r, q)
  BY <1>1, <1>2 DEF Behind, Disconnect, Locally
<1>4. Sent(q) = Sent(p) /\ ~ Replaying(q) /\ ~ AtEnd(q) /\ ~ Streaming(q)
  BY <1>2 DEF Sent, Replaying, AtEnd, Streaming
<1>5. \A t \in Sent(q) : t < Settled
  BY <1>4 DEF Placed
<1>6. \A s \in q.chunk, t \in q.sent : t < s
  BY <1>2 DEF InOrder
<1>7. QED
  BY <1>2, <1>3, <1>4, <1>5, <1>6, LocalStep

(* The range check changes no position.                                    *)
LEMMA KeepsUpStreamInv ==
  ASSUME StreamInv, NEW r \in Streams, KeepsUp(r)
  PROVE  StreamInv'
<1> DEFINE p == stream[r]
<1> USE StreamFacts
<1>1. PICK q : q = [p EXCEPT !.pc = "fetching"]
  OBVIOUS
<1>2. /\ q \in StreamType /\ q.pc = "fetching" /\ p.pc = "looking"
      /\ q.sent = p.sent /\ q.chunk = p.chunk /\ q.missed = p.missed
      /\ q.start = p.start /\ q.begin = p.begin /\ q.filter = p.filter
  BY <1>1 DEF StreamType, KeepsUp
<1>3. Locally(r, q)
  BY <1>1, <1>2 DEF KeepsUp, Locally
<1>4. Sent(q) = Sent(p) /\ Owed(q) = Owed(p) /\ ~ Replaying(q) /\ ~ AtEnd(q)
  BY <1>2 DEF Sent, Owed, Replaying, AtEnd
<1>5. /\ \A i \in q.filter : r \in m_observers[i]
      /\ \A t \in Sent(q) : t < Settled /\ t < q.start
      /\ q.start <= m_sequence
  BY <1>2, <1>4 DEF Placed, Streaming
<1>6. /\ \A s \in Owed(q) : s >= q.start
      /\ \A s \in q.chunk, t \in q.sent : t < s
  BY <1>2, <1>4 DEF SkipsNothing, InOrder
<1>7. QED
  BY <1>2, <1>3, <1>4, <1>5, <1>6, LocalStep

(* Short of the end of the buffer the stream goes on where the fetch ended. *)
LEMMA ReplayStreamInv ==
  ASSUME StreamInv, NEW r \in Streams, Replay(r)
  PROVE  StreamInv'
<1> DEFINE p == stream[r]
<1> USE StreamFacts
<1>1. PICK q : q = [p EXCEPT !.pc = "looking", !.start = p.end]
  OBVIOUS
<1>2. /\ q \in StreamType /\ q.pc = "looking" /\ Replaying(p) /\ p.pc = "sent"
      /\ q.sent = p.sent /\ q.chunk = p.chunk /\ q.missed = p.missed
      /\ q.start = p.end /\ q.begin = p.begin /\ q.filter = p.filter
  BY <1>1 DEF StreamType, Replay, Replaying
<1>3. Locally(r, q)
  BY <1>1, <1>2 DEF Replay, Locally
<1>4. Sent(q) = Sent(p) /\ Owed(q) = Owed(p) /\ ~ Replaying(q) /\ ~ AtEnd(q)
  BY <1>2 DEF Sent, Owed, Replaying, AtEnd
<1>5. /\ \A i \in q.filter : r \in m_observers[i]
      /\ \A t \in Sent(q) : t < Settled /\ t < q.start
      /\ q.start <= m_sequence
  BY <1>2, <1>4 DEF Placed, Streaming
<1>6. /\ \A s \in Owed(q) : s >= q.start
      /\ \A s \in q.chunk, t \in q.sent : t < s
  BY <1>2, <1>4 DEF SkipsNothing, InOrder
<1>7. QED
  BY <1>2, <1>3, <1>4, <1>5, <1>6, LocalStep

(* Waiting, and returning from the wait by a signal or by the heartbeat.   *)
LEMMA WaitStreamInv ==
  ASSUME StreamInv, NEW r \in Streams, Wait(r) \/ Wake(r) \/ Heartbeat(r)
  PROVE  StreamInv'
<1> DEFINE p == stream[r]
<1> USE StreamFacts
<1>1. PICK q : /\ q = [p EXCEPT !.pc = "waiting"] \/ q = [p EXCEPT !.pc = "woken"]
               /\ stream' = [stream EXCEPT ![r] = q]
  BY DEF Wait, Wake, Heartbeat
<1>2. /\ q \in StreamType /\ q.pc \in {"waiting", "woken"} /\ AtEnd(p) /\ p.pc \in {"sent", "waiting"}
      /\ q.sent = p.sent /\ q.chunk = p.chunk /\ q.missed = p.missed
      /\ q.begin = p.begin /\ q.filter = p.filter
  BY <1>1 DEF StreamType, Wait, Wake, Heartbeat, AtEnd
<1>3. Locally(r, q)
  BY <1>1, <1>2 DEF Wait, Wake, Heartbeat, Locally
<1>4. Sent(q) = Sent(p) /\ Owed(q) = Owed(p) /\ ~ Replaying(q)
  BY <1>2 DEF Sent, Owed, Replaying
<1>5. /\ \A i \in q.filter : r \in m_observers[i]
      /\ \A t \in Sent(q) : t < Settled /\ t < observer[r]
  BY <1>2, <1>4 DEF Placed, Streaming
<1>6. /\ \A s \in Owed(q) : s >= observer[r] \/ InFlight(s)
      /\ \A s \in q.chunk, t \in q.sent : t < s
  BY <1>2, <1>4 DEF SkipsNothing, InOrder
<1>7. QED
  BY <1>2, <1>3, <1>4, <1>5, <1>6, LocalStep

(* Under the lock nothing is in flight: what is owed has been signalled.   *)
LEMMA RestartStreamInv ==
  ASSUME StreamInv, NEW r \in Streams, Restart(r)
  PROVE  StreamInv'
<1> DEFINE p == stream[r]
<1> USE StreamFacts
<1>1. PICK start : start = IF observer[r] = UINT64_MAX THEN m_sequence ELSE observer[r]
  OBVIOUS
<1>2. PICK q : q = [p EXCEPT !.pc = "looking", !.start = start]
  OBVIOUS
<1>3. start \in Nat \ {0} /\ start <= m_sequence
  BY <1>1 DEF Placed
<1>4. /\ q \in StreamType /\ q.pc = "looking" /\ p.pc = "woken" /\ AtEnd(p)
      /\ q.sent = p.sent /\ q.chunk = p.chunk /\ q.missed = p.missed
      /\ q.start = start /\ q.begin = p.begin /\ q.filter = p.filter
  BY <1>2, <1>3 DEF StreamType, Restart, AtEnd
<1>5. Locally(r, q)
  BY <1>1, <1>2, <1>4 DEF Restart, Locally
<1>6. Sent(q) = Sent(p) /\ Owed(q) = Owed(p) /\ ~ Replaying(q) /\ ~ AtEnd(q)
  BY <1>4 DEF Sent, Owed, Replaying, AtEnd
<1>7. adding = FALSE
  BY DEF Restart, StreamInv, TypeOK
<1>8. /\ \A i \in q.filter : r \in m_observers[i]
      /\ \A t \in Sent(q) : t < Settled /\ t < q.start
  BY <1>1, <1>4, <1>6, <1>7 DEF Placed, Streaming, Settled
<1>9. \A s \in Owed(q) : s >= q.start
  <2> SUFFICES ASSUME NEW s \in Owed(p)
               PROVE  s >= start
    BY <1>4, <1>6
  <2>1. s >= observer[r] /\ s < UINT64_MAX /\ s \in Nat
    BY <1>4, <1>7 DEF SkipsNothing, InFlight
  <2>2. observer[r] # UINT64_MAX
    BY <2>1
  <2>3. QED
    BY <1>1, <2>1, <2>2
<1>10. \A s \in q.chunk, t \in q.sent : t < s
  BY <1>4 DEF InOrder
<1>11. QED
  BY <1>3, <1>4, <1>5, <1>6, <1>8, <1>9, <1>10, LocalStep

(* The fetch sends or records as missed everything from the old start to   *)
(* its end; at the end of the buffer nothing is left to send.              *)
LEMMA FetchStreamInv ==
  ASSUME StreamInv, NEW r \in Streams, fetchSampleData(r)
  PROVE  StreamInv'
<1> DEFINE p == stream[r]
<1> USE StreamFacts
<1>1. PICK start : start = IF p.start <= getFirstSequence THEN getFirstSequence ELSE p.start
  OBVIOUS
<1>2. PICK end, q :
        /\ end \in ScanEnds(p, start)
        /\ q = [p EXCEPT !.pc = "sent", !.end = end, !.endOfBuffer = (end >= m_sequence),
                         !.sent = p.sent \cup p.chunk,
                         !.chunk = Matches(p.filter, start, end),
                         !.missed = p.missed \cup Matches(p.filter, p.start, start)]
        /\ stream' = [stream EXCEPT ![r] = q]
  <2>1. PICK e \in ScanEnds(p, start) :
          stream' = [stream EXCEPT ![r].pc = "sent", ![r].end = e,
                                   ![r].endOfBuffer = (e >= m_sequence),
                                   ![r].sent = p.sent \cup p.chunk,
                                   ![r].chunk = Matches(p.filter, start, e),
                                   ![r].missed = p.missed \cup Matches(p.filter, p.start, start)]
    BY <1>1, Zenon DEF fetchSampleData
  <2>2. stream' = [stream EXCEPT ![r] =
                     [p EXCEPT !.pc = "sent", !.end = e, !.endOfBuffer = (e >= m_sequence),
                               !.sent = p.sent \cup p.chunk,
                               !.chunk = Matches(p.filter, start, e),
                               !.missed = p.missed \cup Matches(p.filter, p.start, start)]]
    BY <2>1
  <2>3. QED
    BY <2>2
<1>3. /\ p.pc = "fetching" /\ p.start \in Nat \ {0} /\ p.start <= m_sequence
      /\ p.begin \in Nat \ {0} /\ adding = FALSE
  BY DEF fetchSampleData, StreamType, Placed, StreamInv, TypeOK
<1>4. start \in Nat \ {0} /\ start <= m_sequence /\ p.start <= start
  BY <1>1, <1>3
<1>5. end \in start .. m_sequence /\ end \in Nat \ {0}
  BY <1>2, <1>4 DEF ScanEnds
<1>6. Matches(p.filter, start, end) \subseteq Nat /\ Matches(p.filter, p.start, start) \subseteq Nat
  BY <1>3, <1>4, <1>5 DEF Matches
<1>7. (end >= m_sequence) \in BOOLEAN
  OBVIOUS
<1>8. q \in StreamType
  BY <1>2, <1>5, <1>6, <1>7 DEF StreamType
<1>9. /\ q.pc = "sent" /\ q.end = end /\ q.endOfBuffer = (end >= m_sequence)
      /\ q.sent = p.sent \cup p.chunk /\ q.chunk = Matches(p.filter, start, end)
      /\ q.missed = p.missed \cup Matches(p.filter, p.start, start)
      /\ q.begin = p.begin /\ q.filter = p.filter
  BY <1>2 DEF StreamType
<1>10. /\ stream'[r] = q /\ observer'[r] = UINT64_MAX /\ m_observers' = m_observers
       /\ m_sequence' = m_sequence /\ log' = log /\ adding' = adding
       /\ \A t \in Streams \ {r} : stream'[t] = stream[t] /\ observer'[t] = observer[t]
  BY <1>2 DEF fetchSampleData, reset, StreamInv, TypeOK
<1>11. TypeOK'
  <2>1. UINT64_MAX \in Nat
    BY StreamAssumption DEF UINT64_MAX
  <2>2. stream' \in [Streams -> StreamType]
    BY <1>2, <1>8 DEF StreamInv, TypeOK
  <2>3. observer' \in [Streams -> Nat]
    BY <2>1 DEF fetchSampleData, reset, StreamInv, TypeOK
  <2>4. QED
    BY <1>10, <2>2, <2>3 DEF StreamInv, TypeOK
<1>12. \A t \in Sent(p) : t \in Nat /\ t < p.start
  BY <1>3 DEF Placed, Sent, StreamType
<1>13. \A s \in q.chunk : s \in start .. end - 1
  BY <1>9 DEF Matches
<1>14. InOrder(r)'
  <2>1. \A s \in q.chunk, t \in q.sent : t < s
    BY <1>3, <1>4, <1>5, <1>9, <1>12, <1>13 DEF Sent
  <2>2. QED
    BY <1>10, <2>1 DEF InOrder
<1>15. \A t \in Sent(q) : t \in Nat /\ t < end
  <2>1. \A t \in q.sent : t \in Nat /\ t < end
    BY <1>3, <1>4, <1>5, <1>9, <1>12 DEF Sent
  <2>2. \A t \in q.chunk : t \in Nat /\ t < end
    BY <1>4, <1>5, <1>13
  <2>3. QED
    BY <2>1, <2>2 DEF Sent
<1>16. Placed(r)'
  <2>1. \A i \in q.filter : r \in m_observers[i]
    BY <1>3, <1>9 DEF Placed, Streaming
  <2>2. \A t \in Sent(q) : t < Settled'
    BY <1>3, <1>5, <1>10, <1>15 DEF Settled
  <2>3. \A t \in Sent(q) : t < UINT64_MAX
    BY <1>5, <1>15 DEF UINT64_MAX
  <2>4. QED
    BY <1>5, <1>9, <1>10, <1>15, <2>1, <2>2, <2>3
       DEF Placed, Streaming, Sent, Replaying, AtEnd, UINT64_MAX
<1>17. SkipsNothing(r)'
  <2> SUFFICES ASSUME NEW s \in Owed(q)
               PROVE  s >= end /\ end < m_sequence
    <3>1. Owed(q)' = Owed(q)
      BY <1>10 DEF Owed, Matches
    <3>2. end < m_sequence => ~ AtEnd(q)
      <4> SUFFICES ASSUME end < m_sequence
                   PROVE  ~ AtEnd(q)
        OBVIOUS
      <4>1. ~ (end >= m_sequence)
        BY <1>5
      <4>2. ~ q.endOfBuffer
        BY <1>9, <4>1, Zenon
      <4>3. QED
        BY <1>9, <4>2 DEF AtEnd
    <3>3. q.pc = "sent" /\ q.end = end /\ stream'[r] = q
      BY <1>9, <1>10
    <3>4. QED
      BY <3>1, <3>2, <3>3 DEF SkipsNothing, Replaying, AtEnd
  <2>1. /\ s \in p.begin .. m_sequence - 1 /\ log[s] \in p.filter /\ s \in Nat
        /\ s \notin p.sent \cup p.chunk \cup p.missed
        /\ s \notin Matches(p.filter, p.start, start)
        /\ s \notin Matches(p.filter, start, end)
    BY <1>3, <1>9 DEF Owed, Matches
  <2>2. s \in Owed(p)
    BY <2>1 DEF Owed, Matches
  <2>3. s >= p.start
    BY <1>3, <2>2 DEF SkipsNothing
  <2>4. s >= start
    BY <1>3, <1>4, <2>1, <2>3 DEF Matches
  <2>5. s >= end
    BY <1>4, <1>5, <2>1, <2>4 DEF Matches
  <2>6. QED
    BY <1>5, <2>1, <2>5
<1>18. QED
  BY <1>10, <1>11, <1>14, <1>16, <1>17, StreamFrame

(* A new stream starts with a fresh observer and nothing sent.             *)
LEMMA RequestStreamInv ==
  ASSUME StreamInv, NEW r \in Streams, NEW f \in Filters, NEW from \in Nat, NEW c \in Counts,
         Request(r, f, from, c)
  PROVE  StreamInv'
<1> USE StreamFacts
<1>1. PICK q : q = [Idle EXCEPT !.pc = "registering", !.filter = f, !.count = c, !.from = from]
  OBVIOUS
<1>2. q \in StreamType /\ q.pc = "registering" /\ q.from = from /\ q.sent = {} /\ q.chunk = {}
  <2>1. Idle \in StreamType
    BY DEF Idle, StreamType, NoStart
  <2>2. f \in SUBSET Items /\ c \in Nat
    BY StreamAssumption
  <2>3. q \in StreamType
    BY <1>1, <2>1, <2>2 DEF StreamType
  <2>4. q.pc = "registering" /\ q.from = from /\ q.sent = {} /\ q.chunk = {}
    BY <1>1 DEF Idle
  <2>5. QED
    BY <2>3, <2>4
<1>3. /\ stream'[r] = q /\ observer'[r] = UINT64_MAX /\ m_observers' = m_observers
      /\ m_sequence' = m_sequence /\ log' = log /\ adding' = adding
      /\ \A t \in Streams \ {r} : stream'[t] = stream[t] /\ observer'[t] = observer[t]
  BY <1>1 DEF Request, StreamInv, TypeOK
<1>4. TypeOK'
  <2>1. UINT64_MAX \in Nat
    BY StreamAssumption DEF UINT64_MAX
  <2>2. stream' \in [Streams -> StreamType] /\ observer' \in [Streams -> Nat]
    BY <1>1, <1>2, <2>1 DEF Request, StreamInv, TypeOK
  <2>3. QED
    BY <1>3, <2>2 DEF StreamInv, TypeOK
<1>5. from <= m_sequence
  BY DEF Request, NoStart
<1>6. Placed(r)' /\ SkipsNothing(r)' /\ InOrder(r)'
  BY <1>2, <1>3, <1>5 DEF Placed, Streaming, Sent, Replaying, AtEnd, UINT64_MAX, SkipsNothing, InOrder
<1>7. QED
  BY <1>3, <1>4, <1>6, StreamFrame

(* Registration and its removal touch only the stream's own entries.       *)
LEMMA RegisterStreamInv ==
  ASSUME StreamInv, NEW r \in Streams, NEW item \in Items,
         addObserver(r, item) \/ removeObserver(r, item)
  PROVE  StreamInv'
<1> USE StreamFacts
<1>1. /\ stream' = stream /\ observer' = observer
      /\ m_sequence' = m_sequence /\ log' = log /\ adding' = adding
      /\ stream[r].pc \in {"registering", "leaving"}
  BY DEF addObserver, removeObserver
<1>2. m_observers' \in [Items -> SUBSET Streams]
  <2>1. m_observers \in [Items -> SUBSET Streams]
    BY DEF StreamInv, TypeOK
  <2>2. m_observers[item] \cup {r} \in SUBSET Streams /\ m_observers[item] \ {r} \in SUBSET Streams
    BY <2>1
  <2>3. \/ m_observers' = [m_observers EXCEPT ![item] = m_observers[item] \cup {r}]
        \/ m_observers' = [m_observers EXCEPT ![item] = m_observers[item] \ {r}]
    BY DEF addObserver, removeObserver
  <2>4. QED
    BY <2>1, <2>2, <2>3
<1>3. \A t \in Streams \ {r} : \A i \in Items : t \in m_observers[i] => t \in m_observers'[i]
  BY DEF addObserver, removeObserver, StreamInv, TypeOK
<1>4. TypeOK'
  BY <1>1, <1>2 DEF StreamInv, TypeOK
<1>5. Placed(r)' /\ SkipsNothing(r)' /\ InOrder(r)'
  BY <1>1 DEF Placed, Streaming, Sent, Settled, Replaying, AtEnd, SkipsNothing, InOrder
<1>6. QED
  BY <1>1, <1>3, <1>4, <1>5, StreamFrame

(* The thread is idle again.                                               *)
LEMMA FinishStreamInv ==
  ASSUME StreamInv, NEW r \in Streams, Finish(r)
  PROVE  StreamInv'
<1> USE StreamFacts
<1>1. Idle \in StreamType /\ Idle.pc = "idle" /\ Idle.sent = {} /\ Idle.chunk = {} /\ Sent(Idle) = {}
  BY DEF Idle, StreamType, NoStart, Sent
<1>2. Locally(r, Idle)
  BY <1>1 DEF Finish, Locally
<1>3. QED
  BY <1>1, <1>2, LocalStep DEF Streaming, Replaying, AtEnd

-----------------------------------------------------------------------------
(* StreamInv is inductive: one lemma per kind of action.                   *)
LEMMA NextStreamInv == StreamInv /\ [Next]_vars => StreamInv'
<1> SUFFICES ASSUME StreamInv, [Next]_vars
             PROVE  StreamInv'
  OBVIOUS
<1>1. ASSUME NEW i \in Items, addToBuffer(i)
      PROVE  StreamInv'
  BY <1>1, AddStreamInv
<1>2. CASE signalObservers
  BY <1>2, SignalStreamInv
<1>3. ASSUME NEW r \in Streams, Proceed(r)
      PROVE  StreamInv'
  BY <1>3, RegisterStreamInv, BeginStreamInv, LeaveStreamInv, KeepsUpStreamInv, FetchStreamInv,
     ReplayStreamInv, WaitStreamInv, RestartStreamInv, FinishStreamInv DEF Proceed
<1>4. ASSUME NEW r \in Streams, Outside(r)
      PROVE  StreamInv'
  <2>1. ASSUME NEW f \in Filters, NEW from \in 0 .. MaxSequence + 1, NEW c \in Counts,
               Request(r, f, from, c)
        PROVE  StreamInv'
    BY <2>1, RequestStreamInv, StreamAssumption
  <2>2. QED
    BY <1>4, <2>1, WaitStreamInv, LeaveStreamInv DEF Outside
<1>5. CASE UNCHANGED vars
  BY <1>5 DEF vars, StreamInv, TypeOK, NothingSkipped, SkipsNothing, Owed, Matches, InFlight,
              SentOnceInOrder, Placed, Settled
<1>6. QED
  BY <1>1, <1>2, <1>3, <1>4, <1>5 DEF Next

(* The inductive invariant holds in every reachable state.                 *)
THEOREM StreamInvariance == Spec => []StreamInv
<1>1. Init => StreamInv
  BY InitStreamInv
<1>2. StreamInv /\ [Next]_vars => StreamInv'
  BY NextStreamInv
<1>3. QED
  BY <1>1, <1>2, PTL DEF Spec

(* streamData skips no observation of its filter, except those the buffer  *)
(* has already overwritten when it fetches, whatever the interleaving of   *)
(* writers, waits and heartbeats.                                          *)
THEOREM NothingSkippedCorrect == Spec => []NothingSkipped
<1>1. StreamInv => NothingSkipped
  BY DEF StreamInv
<1>2. QED
  BY <1>1, StreamInvariance, PTL

(* streamData sends no observation twice, and all in order.                *)
THEOREM SentOnceCorrect == Spec => []SentOnceInOrder
<1>1. StreamInv => SentOnceInOrder
  BY DEF StreamInv
<1>2. QED
  BY <1>1, StreamInvariance, PTL
=============================================================================
