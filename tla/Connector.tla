------------------------------ MODULE Connector ------------------------------
(***************************************************************************)
(* The connection of an adapter (connector.cpp) and the thread that keeps  *)
(* it up (Adapter::thread), against another thread that stops the adapter  *)
(* (Adapter::stop, called by Agent::clear) and a request that sends the    *)
(* adapter a command (sendCommand, called by Agent::handlePut).            *)
(*                                                                         *)
(* Both threads call close().  Its body runs under m_connectionMutex and   *)
(* is one step, except that it may wait on m_connectionClosed, which       *)
(* releases the mutex.  connect() sets m_connected and m_connectActive     *)
(* without the mutex, so these are steps of their own.                     *)
(*                                                                         *)
(* Time is counted in ticks since an event.  It passes while the thread    *)
(* dials, sleeps or blocks in a read that has not timed out; what the      *)
(* thread does between two reads takes no time.  Ages stop at MaxAge.      *)
(***************************************************************************)
EXTENDS Naturals

CONSTANTS
  Frequencies,    \* heartbeat frequencies a PONG can announce, in ticks
  LegacyTimeout,  \* m_legacyTimeout, in ticks
  HeartbeatFreq,  \* HEARTBEAT_FREQ, the frequency before the first PONG
  MaxAge          \* bound: ages are not told apart from here on

ASSUME ConnectorAssumption ==
  /\ Frequencies \subseteq Nat \ {0}
  /\ LegacyTimeout \in Nat \ {0}
  /\ HeartbeatFreq \in Nat \ {0}
  /\ MaxAge \in Nat
  /\ LegacyTimeout <= MaxAge
  /\ \A f \in Frequencies : 3 * f < MaxAge

VARIABLES
  m_running,             \* of the adapter
  m_connected,
  m_connectActive,
  connection,            \* m_connection: "none", "open" or "shutdown"
  m_heartbeats,
  m_heartbeatFrequency,
  timeout,               \* of the present read
  pc,                    \* where the adapter's thread is
  stopper,               \* where the stopping thread is
  command,               \* "writing" if sendCommand holds m_commandLock
  age,                   \* ticks since m_lastSent, m_lastHeartbeat and the
                         \* beginning of the read
  available              \* the agent has been told connected(), not disconnected()

flags     == <<m_running, m_connected, m_connectActive>>
heartbeat == <<m_heartbeats, m_heartbeatFrequency, timeout>>
vars      == <<flags, connection, heartbeat, pc, stopper, command, age, available>>

Older(n) == IF n < MaxAge THEN n + 1 ELSE MaxAge

-----------------------------------------------------------------------------
Init ==
  /\ m_running = TRUE
  /\ m_connected = FALSE
  /\ m_connectActive = FALSE
  /\ connection = "none"
  /\ m_heartbeats = FALSE
  /\ m_heartbeatFrequency = HeartbeatFreq
  /\ timeout = LegacyTimeout
  /\ pc = "top"
  /\ stopper = "running"
  /\ command = "none"
  /\ age = [sent |-> 0, heartbeat |-> 0, read |-> 0]
  /\ available = FALSE

(* Adapter::thread: connect() and, whatever happened, close(); then sleep. *)
Top ==
  /\ pc = "top"
  /\ IF m_running
       THEN /\ pc' = "dialing"
            /\ m_connected' = FALSE
            /\ m_connectActive' = TRUE
            /\ UNCHANGED m_running
       ELSE pc' = "done" /\ UNCHANGED flags
  /\ UNCHANGED <<connection, heartbeat, stopper, age, available, command>>

Dial ==
  /\ pc = "dialing"
  /\ \/ /\ pc' = "greeting"
        /\ connection' = "open"
        /\ m_heartbeats' = FALSE
     \/ /\ pc' = "leaving"
        /\ UNCHANGED <<connection, m_heartbeats>>
  /\ UNCHANGED <<flags, m_heartbeatFrequency, timeout, stopper, age, available, command>>

(* The first PING; without it close() is called, to no effect, since       *)
(* m_connected is not set yet.                                             *)
Greet ==
  /\ pc = "greeting"
  /\ \/ pc' = "announced" /\ available' = TRUE
     \/ pc' = "leaving" /\ UNCHANGED available
  /\ UNCHANGED <<flags, connection, heartbeat, stopper, age, command>>

Enter ==
  /\ pc = "announced"
  /\ pc' = "reading"
  /\ m_connected' = TRUE
  /\ age' = [sent |-> 0, heartbeat |-> 0, read |-> 0]
  /\ UNCHANGED <<m_running, m_connectActive, connection, heartbeat, stopper, available, command>>

(* The top of the read loop.                                               *)
BeginRead ==
  /\ pc = "reading"
  /\ IF m_connected
       THEN /\ pc' = "blocked"
            /\ timeout' = IF ~ m_heartbeats THEN LegacyTimeout
                          ELSE IF age.sent > m_heartbeatFrequency THEN 1
                          ELSE m_heartbeatFrequency - age.sent
            /\ age' = [age EXCEPT !.read = 0]
       ELSE /\ pc' = "exit"
            /\ UNCHANGED <<timeout, age>>
  /\ UNCHANGED <<flags, connection, m_heartbeats, m_heartbeatFrequency, stopper, available, command>>

(* What a read returns: nothing because the connection was closed, lines,  *)
(* nothing in time, or an error.                                           *)
ReadClosed ==
  /\ pc = "blocked"
  /\ ~ m_connected
  /\ pc' = "exit"
  /\ UNCHANGED <<flags, connection, heartbeat, stopper, age, available, command>>

ReadData ==
  /\ pc = "blocked"
  /\ m_connected
  /\ pc' = "parsing"
  /\ UNCHANGED <<flags, connection, heartbeat, stopper, age, available, command>>

(* parseBuffer takes any number of lines.  The first PONG with a valid     *)
(* frequency starts the heartbeats, the later ones count; other lines      *)
(* leave the connection alone.                                             *)
startHeartbeats(frequency) ==
  /\ m_heartbeats' = TRUE
  /\ m_heartbeatFrequency' = frequency
  /\ UNCHANGED age

ParsePong(frequency) ==
  /\ pc = "parsing"
  /\ IF m_heartbeats
       THEN /\ age' = [age EXCEPT !.heartbeat = 0]
            /\ UNCHANGED <<m_heartbeats, m_heartbeatFrequency>>
       ELSE startHeartbeats(frequency)
  /\ UNCHANGED <<flags, connection, timeout, pc, stopper, available, command>>

(* A command for an unknown device throws; connect() catches it.           *)
ParseUnknownDevice ==
  /\ pc = "parsing"
  /\ pc' = "leaving"
  /\ UNCHANGED <<flags, connection, heartbeat, stopper, age, available, command>>

Parsed ==
  /\ pc = "parsing"
  /\ pc' = "checking"
  /\ UNCHANGED <<flags, connection, heartbeat, stopper, age, available, command>>

ReadTimeout ==
  /\ pc = "blocked"
  /\ m_connected
  /\ age.read >= timeout
  /\ pc' = IF m_heartbeats THEN "checking" ELSE "exit"
  /\ UNCHANGED <<flags, connection, heartbeat, stopper, age, available, command>>

ReadError ==
  /\ pc = "blocked"
  /\ m_connected
  /\ pc' = "exit"
  /\ UNCHANGED <<flags, connection, heartbeat, stopper, age, available, command>>

(* After each read: give up, send the next PING, or go on.                 *)
HeartbeatLost_Lenient == age.heartbeat > 3 * m_heartbeatFrequency

HeartbeatLost == age.heartbeat > 2 * m_heartbeatFrequency

PingDue == age.sent >= m_heartbeatFrequency

CheckHeartbeats ==
  /\ pc = "checking"
  /\ \/ /\ m_heartbeats /\ HeartbeatLost
        /\ pc' = "exit"
        /\ UNCHANGED age
     \/ /\ m_heartbeats /\ ~ HeartbeatLost /\ PingDue
        /\ command = "none"
        /\ \/ pc' = "reading" /\ age' = [age EXCEPT !.sent = 0]
           \/ pc' = "exit" /\ UNCHANGED age
     \/ /\ m_heartbeats => ~ HeartbeatLost /\ ~ PingDue
        /\ pc' = "reading"
        /\ UNCHANGED age
  /\ UNCHANGED <<flags, connection, heartbeat, stopper, available, command>>

Exit ==
  /\ pc = "exit"
  /\ pc' = "closing"
  /\ m_connectActive' = FALSE
  /\ UNCHANGED <<m_running, m_connected, connection, heartbeat, stopper, age, available, command>>

(* close(), called by the adapter's thread from connect() and after it.  A *)
(* thread that waited for itself here would never go on.                   *)
Shut ==
  IF m_connected /\ connection # "none"
    THEN /\ ~ m_connectActive
         /\ m_connected' = FALSE
         /\ connection' = "none"
         /\ available' = FALSE
    ELSE UNCHANGED <<m_connected, connection, available>>

close ==
  /\ pc = "closing"
  /\ pc' = "leaving"
  /\ Shut
  /\ UNCHANGED <<m_running, m_connectActive, heartbeat, stopper, age, command>>

(* ~AutoSignal                                                             *)
Leave_Silently ==
  /\ pc = "leaving"
  /\ pc' = "left"
  /\ m_connectActive' = FALSE
  /\ UNCHANGED <<m_running, m_connected, connection, heartbeat, stopper, age, available, command>>

Leave ==
  /\ pc = "leaving"
  /\ pc' = "left"
  /\ m_connectActive' = FALSE
  /\ stopper' = IF stopper = "waiting" THEN "woken" ELSE stopper
  /\ UNCHANGED <<m_running, m_connected, connection, heartbeat, age, available, command>>

closeAgain_Dropped ==
  /\ pc = "left"
  /\ pc' = "closed"
  /\ UNCHANGED <<flags, connection, heartbeat, stopper, age, available, command>>

closeAgain ==
  /\ pc = "left"
  /\ pc' = "closed"
  /\ Shut
  /\ UNCHANGED <<m_running, m_connectActive, heartbeat, stopper, age, command>>

Sleep ==
  /\ pc = "closed"
  /\ pc' = IF m_running THEN "sleeping" ELSE "done"
  /\ UNCHANGED <<flags, connection, heartbeat, stopper, age, available, command>>

Reconnect ==
  /\ pc = "sleeping"
  /\ pc' = "top"
  /\ UNCHANGED <<flags, connection, heartbeat, stopper, age, available, command>>

-----------------------------------------------------------------------------
(* Adapter::stop: close() and wait for the thread.                         *)
stop ==
  /\ stopper = "running"
  /\ stopper' = "closing"
  /\ m_running' = FALSE
  /\ UNCHANGED <<m_connected, m_connectActive, connection, heartbeat, pc, age, available, command>>

stopClose_NoWait ==
  /\ stopper = "closing"
  /\ stopper' = "joining"
  /\ IF m_connected /\ connection # "none"
       THEN /\ m_connected' = FALSE
            /\ connection' = "none"
            /\ available' = FALSE
       ELSE UNCHANGED <<m_connected, connection, available>>
  /\ UNCHANGED <<m_running, m_connectActive, heartbeat, pc, age, command>>

stopClose ==
  /\ stopper = "closing"
  /\ IF m_connected /\ connection # "none"
       THEN /\ m_connected' = FALSE
            /\ IF m_connectActive
                 THEN /\ stopper' = "waiting"
                      /\ connection' = "shutdown"
                      /\ UNCHANGED available
                 ELSE /\ stopper' = "joining"
                      /\ connection' = "none"
                      /\ available' = FALSE
       ELSE stopper' = "joining" /\ UNCHANGED <<m_connected, connection, available>>
  /\ UNCHANGED <<m_running, m_connectActive, heartbeat, pc, age, command>>

stopResume ==
  /\ stopper = "woken"
  /\ stopper' = "joining"
  /\ connection' = "none"
  /\ available' = FALSE
  /\ UNCHANGED <<flags, heartbeat, pc, age, command>>

stopJoin ==
  /\ stopper = "joining"
  /\ pc = "done"
  /\ stopper' = "stopped"
  /\ UNCHANGED <<flags, connection, heartbeat, pc, age, available, command>>

(* sendCommand holds m_commandLock, which close() does not take, from the  *)
(* look at m_connected to the write.  The PING above takes it too.         *)
sendCommand ==
  /\ command = "none"
  /\ m_connected
  /\ command' = "writing"
  /\ UNCHANGED <<flags, connection, heartbeat, pc, stopper, age, available>>

writeCommand ==
  /\ command = "writing"
  /\ command' = "none"
  /\ UNCHANGED <<flags, connection, heartbeat, pc, stopper, age, available>>

Tick ==
  /\ \/ pc \in {"dialing", "sleeping"}
     \/ pc = "blocked" /\ age.read < timeout
  /\ age' = [k \in DOMAIN age |-> Older(age[k])]
  /\ UNCHANGED <<flags, connection, heartbeat, pc, stopper, available, command>>

-----------------------------------------------------------------------------
(* What the thread does by itself, and what the other side decides.        *)
ThreadStep ==
  \/ Top \/ Dial \/ Greet \/ Enter
  \/ BeginRead \/ ReadClosed \/ Parsed \/ ReadTimeout \/ CheckHeartbeats
  \/ Exit \/ close \/ Leave \/ closeAgain \/ Sleep \/ Reconnect

PeerStep ==
  \/ ReadData
  \/ \E f \in Frequencies : ParsePong(f)
  \/ ParseUnknownDevice
  \/ ReadError

StopStep == stopClose \/ stopResume \/ stopJoin

Next == ThreadStep \/ PeerStep \/ stop \/ StopStep \/ sendCommand \/ writeCommand \/ Tick

Spec == Init /\ [][Next]_vars

(* Threads run, and time passes; the peer and the ones who stop the        *)
(* adapter or send it a command need not do anything.                      *)
FairSpec ==
  /\ Spec
  /\ WF_vars(ThreadStep) /\ WF_vars(StopStep) /\ WF_vars(writeCommand) /\ SF_vars(Tick)

-----------------------------------------------------------------------------
(* Type invariant.  A read never waits for zero ticks.                     *)
TypeOK ==
  /\ m_running \in BOOLEAN
  /\ m_connected \in BOOLEAN
  /\ m_connectActive \in BOOLEAN
  /\ connection \in {"none", "open", "shutdown"}
  /\ m_heartbeats \in BOOLEAN
  /\ m_heartbeatFrequency \in Nat \ {0}
  /\ timeout \in Nat \ {0}
  /\ pc \in {"top", "dialing", "greeting", "announced", "reading", "blocked", "parsing",
             "checking", "exit", "closing", "leaving", "left", "closed", "sleeping", "done"}
  /\ stopper \in {"running", "closing", "waiting", "woken", "joining", "stopped"}
  /\ command \in {"none", "writing"}
  /\ age \in [{"sent", "heartbeat", "read"} -> 0 .. MaxAge]
  /\ available \in BOOLEAN

InLoop == pc \in {"reading", "blocked", "parsing", "checking"}

(* The state is well typed, and connect() reads from the connection it     *)
(* made: nobody else resets m_connection under it, and one that is shut    *)
(* down is still there, since the close() that did so waits for connect()  *)
(* to end.  It is about the adapter's own thread only; a request's thread  *)
(* has no such promise (CommandHasConnection).                             *)
ReadsItsConnection ==
  /\ TypeOK
  /\ pc \in {"greeting", "announced"} => connection = "open"
  /\ InLoop => connection = "open" \/ (connection = "shutdown" /\ stopper = "waiting")

(* The connection that sendCommand found connected is there when it        *)
(* writes.  The code does not have this property: close() takes            *)
(* m_connectionMutex and not m_commandLock.                                *)
CommandHasConnection == command = "writing" => connection # "none"

(* The agent hears connected() and disconnected() in turn: what was        *)
(* announced is taken back before the next attempt, and exactly once,      *)
(* whichever thread closes the connection.                                 *)
AnnouncedInTurn ==
  /\ InLoop => available
  /\ pc \in {"top", "dialing", "greeting", "sleeping"} => ~ available
  /\ stopper = "stopped" => ~ available

(* With heartbeats, a PING is never late, and a peer that falls silent is  *)
(* given up after at most three periods: a read never sleeps past the next *)
(* PING.                                                                   *)
HeartbeatsOnTime ==
  pc = "blocked" /\ m_heartbeats =>
    /\ age.sent <= m_heartbeatFrequency
    /\ age.heartbeat <= 3 * m_heartbeatFrequency

(* A thread that waits in close() is woken: the signal cannot come before  *)
(* the wait, because both take the mutex.                                  *)
CloseCompletes == (stopper = "waiting") ~> (stopper = "stopped")

(* stop() ends ("Will stop threaded object gracefully").                   *)
StopCompletes == (stopper = "closing") ~> (stopper = "stopped")
-----------------------------------------------------------------------------
(* The inductive invariant behind the first three properties.              *)

(* Who may be where: m_connectActive while the thread is between Top and   *)
(* Exit, and the stopper waiting only for a thread that Leave still awaits.*)
ThreadsInv ==
  /\ pc \in {"dialing", "greeting", "announced", "exit"} \/ InLoop => m_connectActive
  /\ pc \in {"top", "closing", "left", "closed", "sleeping", "done"} => ~ m_connectActive
  /\ stopper # "running" => ~ m_running
  /\ stopper = "waiting" => InLoop \/ pc \in {"exit", "closing", "leaving"}
  /\ stopper = "woken" => pc \in {"left", "closed", "done"}
  /\ stopper = "stopped" => pc = "done"

(* What the agent was told and the connection agree: one is announced that *)
(* is connected, or about to be, or that a stopper has shut down and will  *)
(* take back.                                                              *)
ConnectionInv ==
  /\ m_connected =>
       /\ available /\ connection = "open"
       /\ InLoop \/ pc \in {"exit", "closing", "leaving", "left"}
  /\ InLoop \/ pc = "exit" => m_connected \/ stopper = "waiting"
  /\ stopper \in {"waiting", "woken"} => ~ m_connected /\ available /\ connection = "shutdown"
  /\ pc = "announced" => available
  /\ pc \in {"greeting", "announced"} => connection = "open"
  /\ available => pc = "announced" \/ m_connected \/ stopper \in {"waiting", "woken"}

(* A read ends when the next PING is due, and began before a heartbeat was *)
(* lost.                                                                   *)
HeartbeatInv ==
  /\ m_heartbeats => m_heartbeatFrequency \in Frequencies
  /\ pc \in {"greeting", "announced"} => ~ m_heartbeats
  /\ pc = "reading" /\ m_heartbeats =>
       /\ age.sent < m_heartbeatFrequency
       /\ age.heartbeat <= 2 * m_heartbeatFrequency
  /\ pc = "blocked" /\ m_heartbeats =>
       /\ age.read <= timeout /\ age.read <= age.sent
       /\ age.sent + timeout = m_heartbeatFrequency + age.read
       /\ age.heartbeat <= 2 * m_heartbeatFrequency + age.read

IInv == TypeOK /\ ThreadsInv /\ ConnectionInv /\ HeartbeatInv
=============================================================================
