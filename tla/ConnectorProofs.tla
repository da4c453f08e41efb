-------------------------- MODULE ConnectorProofs ---------------------------
(***************************************************************************)
(* Theorems about the connection of an adapter: for every set of heartbeat *)
(* frequencies and every timeout, the connection is never destroyed under  *)
(* a thread that uses it, the agent hears connected() and disconnected()   *)
(* in turn, and heartbeats are sent and missed in time.                    *)
(*                                                                         *)
(* All three follow from IInv of module Connector, which each action       *)
(* preserves; the four conjuncts have a lemma each.                        *)
(***************************************************************************)
EXTENDS Connector, TLAPS

(* A step keeps the types.  The timeout of a read is positive because a    *)
(* PING that was due has been sent before the loop comes round again.      *)
LEMMA TypeStep ==
  ASSUME IInv, Next
  PROVE  TypeOK'
<1> USE ConnectorAssumption DEF IInv, TypeOK, HeartbeatInv, flags, heartbeat
<1>1. CASE Top
  BY <1>1 DEF Top
<1>2. CASE Dial
  BY <1>2 DEF Dial
<1>3. CASE Greet
  BY <1>3 DEF Greet
<1>4. CASE Enter
  BY <1>4 DEF Enter
<1>5. CASE BeginRead
  BY <1>5 DEF BeginRead
<1>6. CASE ReadClosed
  BY <1>6 DEF ReadClosed
<1>7. CASE Parsed
  BY <1>7 DEF Parsed
<1>8. CASE ReadTimeout
  BY <1>8 DEF ReadTimeout
<1>9. CASE CheckHeartbeats
  BY <1>9 DEF CheckHeartbeats, HeartbeatLost, PingDue
<1>10. CASE Exit
  BY <1>10 DEF Exit
<1>11. CASE close
  BY <1>11 DEF close, Shut
<1>12. CASE Leave
  BY <1>12 DEF Leave
<1>13. CASE closeAgain
  BY <1>13 DEF closeAgain, Shut
<1>14. CASE Sleep
  BY <1>14 DEF Sleep
<1>15. CASE Reconnect
  BY <1>15 DEF Reconnect
<1>16. CASE ReadData
  BY <1>16 DEF ReadData
<1>17. ASSUME NEW f \in Frequencies, ParsePong(f)
      PROVE  TypeOK'
  <2>1. CASE m_heartbeats
    BY <1>17, <2>1 DEF ParsePong
  <2>2. CASE ~ m_heartbeats
    BY <1>17, <2>2 DEF ParsePong, startHeartbeats
  <2> QED
    BY <2>1, <2>2
<1>18. CASE ParseUnknownDevice
  BY <1>18 DEF ParseUnknownDevice
<1>19. CASE ReadError
  BY <1>19 DEF ReadError
<1>20. CASE stop
  BY <1>20 DEF stop
<1>21. CASE stopClose
  <2>1. CASE m_connected /\ connection # "none" /\ m_connectActive
    BY <1>21, <2>1 DEF stopClose
  <2>2. CASE m_connected /\ connection # "none" /\ ~ m_connectActive
    BY <1>21, <2>2 DEF stopClose
  <2>3. CASE ~ (m_connected /\ connection # "none")
    BY <1>21, <2>3 DEF stopClose
  <2> QED
    BY <2>1, <2>2, <2>3
<1>22. CASE stopResume
  BY <1>22 DEF stopResume
<1>23. CASE stopJoin
  BY <1>23 DEF stopJoin
<1>24. CASE sendCommand
  BY <1>24 DEF sendCommand
<1>25. CASE writeCommand
  BY <1>25 DEF writeCommand
<1>26. CASE Tick
  BY <1>26 DEF Tick, Older
<1> QED
  BY <1>1, <1>2, <1>3, <1>4, <1>5, <1>6, <1>7, <1>8, <1>9, <1>10, <1>11, <1>12, <1>13, <1>14, <1>15, <1>16, <1>17, <1>18, <1>19, <1>20, <1>21, <1>22, <1>23, <1>24, <1>25, <1>26 DEF Next, ThreadStep, PeerStep, StopStep

(* A step keeps each thread where the other expects it.                    *)
LEMMA ThreadsStep ==
  ASSUME IInv, Next
  PROVE  ThreadsInv'
<1> USE ConnectorAssumption DEF IInv, TypeOK, ThreadsInv, ConnectionInv, InLoop, flags, heartbeat
<1>1. CASE Top
  BY <1>1 DEF Top
<1>2. CASE Dial
  BY <1>2 DEF Dial
<1>3. CASE Greet
  BY <1>3 DEF Greet
<1>4. CASE Enter
  BY <1>4 DEF Enter
<1>5. CASE BeginRead
  BY <1>5 DEF BeginRead
<1>6. CASE ReadClosed
  BY <1>6 DEF ReadClosed
<1>7. CASE Parsed
  BY <1>7 DEF Parsed
<1>8. CASE ReadTimeout
  BY <1>8 DEF ReadTimeout
<1>9. CASE CheckHeartbeats
  BY <1>9 DEF CheckHeartbeats, HeartbeatLost, PingDue
<1>10. CASE Exit
  BY <1>10 DEF Exit
<1>11. CASE close
  BY <1>11 DEF close, Shut
<1>12. CASE Leave
  BY <1>12 DEF Leave
<1>13. CASE closeAgain
  BY <1>13 DEF closeAgain, Shut
<1>14. CASE Sleep
  BY <1>14 DEF Sleep
<1>15. CASE Reconnect
  BY <1>15 DEF Reconnect
<1>16. CASE ReadData
  BY <1>16 DEF ReadData
<1>17. ASSUME NEW f \in Frequencies, ParsePong(f)
      PROVE  ThreadsInv'
  BY <1>17 DEF ParsePong, startHeartbeats
<1>18. CASE ParseUnknownDevice
  BY <1>18 DEF ParseUnknownDevice
<1>19. CASE ReadError
  BY <1>19 DEF ReadError
<1>20. CASE stop
  BY <1>20 DEF stop
<1>21. CASE stopClose
  BY <1>21 DEF stopClose
<1>22. CASE stopResume
  BY <1>22 DEF stopResume
<1>23. CASE stopJoin
  BY <1>23 DEF stopJoin
<1>24. CASE sendCommand
  BY <1>24 DEF sendCommand
<1>25. CASE writeCommand
  BY <1>25 DEF writeCommand
<1>26. CASE Tick
  BY <1>26 DEF Tick, Older
<1> QED
  BY <1>1, <1>2, <1>3, <1>4, <1>5, <1>6, <1>7, <1>8, <1>9, <1>10, <1>11, <1>12, <1>13, <1>14, <1>15, <1>16, <1>17, <1>18, <1>19, <1>20, <1>21, <1>22, <1>23, <1>24, <1>25, <1>26 DEF Next, ThreadStep, PeerStep, StopStep

(* A step keeps the connection and what the agent was told in agreement.   *)
LEMMA ConnectionStep ==
  ASSUME IInv, Next
  PROVE  ConnectionInv'
<1> USE ConnectorAssumption DEF IInv, TypeOK, ThreadsInv, ConnectionInv, InLoop, flags, heartbeat
<1>1. CASE Top
  BY <1>1 DEF Top
<1>2. CASE Dial
  BY <1>2 DEF Dial
<1>3. CASE Greet
  BY <1>3 DEF Greet
<1>4. CASE Enter
  BY <1>4 DEF Enter
<1>5. CASE BeginRead
  BY <1>5 DEF BeginRead
<1>6. CASE ReadClosed
  BY <1>6 DEF ReadClosed
<1>7. CASE Parsed
  BY <1>7 DEF Parsed
<1>8. CASE ReadTimeout
  BY <1>8 DEF ReadTimeout
<1>9. CASE CheckHeartbeats
  BY <1>9 DEF CheckHeartbeats, HeartbeatLost, PingDue
<1>10. CASE Exit
  BY <1>10 DEF Exit
<1>11. CASE close
  BY <1>11 DEF close, Shut
<1>12. CASE Leave
  BY <1>12 DEF Leave
<1>13. CASE closeAgain
  BY <1>13 DEF closeAgain, Shut
<1>14. CASE Sleep
  BY <1>14 DEF Sleep
<1>15. CASE Reconnect
  BY <1>15 DEF Reconnect
<1>16. CASE ReadData
  BY <1>16 DEF ReadData
<1>17. ASSUME NEW f \in Frequencies, ParsePong(f)
      PROVE  ConnectionInv'
  BY <1>17 DEF ParsePong, startHeartbeats
<1>18. CASE ParseUnknownDevice
  BY <1>18 DEF ParseUnknownDevice
<1>19. CASE ReadError
  BY <1>19 DEF ReadError
<1>20. CASE stop
  BY <1>20 DEF stop
<1>21. CASE stopClose
  BY <1>21 DEF stopClose
<1>22. CASE stopResume
  BY <1>22 DEF stopResume
<1>23. CASE stopJoin
  BY <1>23 DEF stopJoin
<1>24. CASE sendCommand
  BY <1>24 DEF sendCommand
<1>25. CASE writeCommand
  BY <1>25 DEF writeCommand
<1>26. CASE Tick
  BY <1>26 DEF Tick, Older
<1> QED
  BY <1>1, <1>2, <1>3, <1>4, <1>5, <1>6, <1>7, <1>8, <1>9, <1>10, <1>11, <1>12, <1>13, <1>14, <1>15, <1>16, <1>17, <1>18, <1>19, <1>20, <1>21, <1>22, <1>23, <1>24, <1>25, <1>26 DEF Next, ThreadStep, PeerStep, StopStep

(* A step keeps the read within the period of the heartbeat.               *)
LEMMA HeartbeatStep ==
  ASSUME IInv, Next
  PROVE  HeartbeatInv'
<1> USE ConnectorAssumption DEF IInv, TypeOK, HeartbeatInv, flags, heartbeat
<1>1. CASE Top
  BY <1>1 DEF Top
<1>2. CASE Dial
  BY <1>2 DEF Dial
<1>3. CASE Greet
  BY <1>3 DEF Greet
<1>4. CASE Enter
  BY <1>4 DEF Enter
<1>5. CASE BeginRead
  BY <1>5 DEF BeginRead
<1>6. CASE ReadClosed
  BY <1>6 DEF ReadClosed
<1>7. CASE Parsed
  BY <1>7 DEF Parsed
<1>8. CASE ReadTimeout
  BY <1>8 DEF ReadTimeout
<1>9. CASE CheckHeartbeats
  BY <1>9 DEF CheckHeartbeats, HeartbeatLost, PingDue
<1>10. CASE Exit
  BY <1>10 DEF Exit
<1>11. CASE close
  BY <1>11 DEF close, Shut
<1>12. CASE Leave
  BY <1>12 DEF Leave
<1>13. CASE closeAgain
  BY <1>13 DEF closeAgain, Shut
<1>14. CASE Sleep
  BY <1>14 DEF Sleep
<1>15. CASE Reconnect
  BY <1>15 DEF Reconnect
<1>16. CASE ReadData
  BY <1>16 DEF ReadData
<1>17. ASSUME NEW f \in Frequencies, ParsePong(f)
      PROVE  HeartbeatInv'
  BY <1>17 DEF ParsePong, startHeartbeats
<1>18. CASE ParseUnknownDevice
  BY <1>18 DEF ParseUnknownDevice
<1>19. CASE ReadError
  BY <1>19 DEF ReadError
<1>20. CASE stop
  BY <1>20 DEF stop
<1>21. CASE stopClose
  BY <1>21 DEF stopClose
<1>22. CASE stopResume
  BY <1>22 DEF stopResume
<1>23. CASE stopJoin
  BY <1>23 DEF stopJoin
<1>24. CASE sendCommand
  BY <1>24 DEF sendCommand
<1>25. CASE writeCommand
  BY <1>25 DEF writeCommand
<1>26. CASE Tick
  BY <1>26 DEF Tick, Older
<1> QED
  BY <1>1, <1>2, <1>3, <1>4, <1>5, <1>6, <1>7, <1>8, <1>9, <1>10, <1>11, <1>12, <1>13, <1>14, <1>15, <1>16, <1>17, <1>18, <1>19, <1>20, <1>21, <1>22, <1>23, <1>24, <1>25, <1>26 DEF Next, ThreadStep, PeerStep, StopStep

(* IInv holds of every state of every behaviour.                           *)
LEMMA Invariance == Spec => []IInv
<1>1. ASSUME Init
      PROVE  IInv
  <2>1. age \in [{"sent", "heartbeat", "read"} -> 0 .. MaxAge]
    BY <1>1, ConnectorAssumption DEF Init
  <2>2. TypeOK
    BY <1>1, <2>1, ConnectorAssumption DEF Init, TypeOK
  <2>3. ThreadsInv /\ ConnectionInv /\ HeartbeatInv
    BY <1>1 DEF Init, ThreadsInv, ConnectionInv, HeartbeatInv, InLoop
  <2> QED
    BY <2>2, <2>3 DEF IInv
<1>2. IInv /\ [Next]_vars => IInv'
  <2>1. CASE Next
    BY <2>1, TypeStep, ThreadsStep, ConnectionStep, HeartbeatStep DEF IInv
  <2>2. CASE UNCHANGED vars
    BY <2>2 DEF IInv, TypeOK, ThreadsInv, ConnectionInv, HeartbeatInv, InLoop,
         vars, flags, heartbeat
  <2> QED
    BY <2>1, <2>2
<1> QED
  BY <1>1, <1>2, PTL DEF Spec

(* The adapter's own thread reads from the connection it made: close(),    *)
(* called by another thread, resets m_connection only after connect() has  *)
(* ended.  The state keeps its types.                                      *)
THEOREM ConnectionCorrect == Spec => []ReadsItsConnection
<1>1. IInv => ReadsItsConnection
  BY DEF IInv, ConnectionInv, ReadsItsConnection, TypeOK, InLoop
<1> QED
  BY <1>1, Invariance, PTL

(* The agent hears connected() and disconnected() in turn, whichever       *)
(* thread closes the connection.                                           *)
THEOREM AnnouncementsCorrect == Spec => []AnnouncedInTurn
<1>1. IInv => AnnouncedInTurn
  BY DEF IInv, TypeOK, ThreadsInv, ConnectionInv, AnnouncedInTurn, InLoop
<1> QED
  BY <1>1, Invariance, PTL

(* No read sleeps past the next PING, and a peer that has been silent for  *)
(* more than three periods has been given up.                              *)
THEOREM HeartbeatsCorrect == Spec => []HeartbeatsOnTime
<1>1. IInv => HeartbeatsOnTime
  <2> SUFFICES ASSUME IInv, pc = "blocked", m_heartbeats
               PROVE  /\ age.sent <= m_heartbeatFrequency
                      /\ age.heartbeat <= 3 * m_heartbeatFrequency
    BY DEF HeartbeatsOnTime
  <2> QED
    BY ConnectorAssumption DEF IInv, TypeOK, HeartbeatInv
<1> QED
  BY <1>1, Invariance, PTL
=============================================================================
