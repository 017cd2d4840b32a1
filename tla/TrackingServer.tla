--------------------------- MODULE TrackingServer ---------------------------
(***************************************************************************)
(* The threads of the server and the locks they share: one thread per       *)
(* connected agent (log_and_storeRSSIFromAgent), the HTTP thread that        *)
(* answers position queries, and the main thread, which accepts connections *)
(* and normally takes SIGINT.  What a record does to the beacons is module  *)
(* BeaconStore; here it matters only which locks it takes on the way.       *)
(***************************************************************************)
EXTENDS Integers, FiniteSets

CONSTANTS
  Agent,       \* agents, each with the thread of its connection
  Main, Http,  \* the other two threads
  Free,        \* the owner of a lock nobody holds
  Record       \* what an agent may send, a subset of RecordKinds

Thread == Agent \cup {Main, Http}

\* keepalive and garbage are told apart by their length (lines 267-275); the
\* others are what a batch of records can lead to in get_pos_for_beacon:
\* no position, a position, a position that completes a batch, and an agent
\* that is not in the configuration.
RecordKinds ==
  {"keepalive", "garbage", "unplaced", "placed", "publish", "unknown"}

ASSUME ThreadAssumption ==
  /\ Main # Http /\ Main \notin Agent /\ Http \notin Agent
  /\ Free \notin Thread
  /\ Record \subseteq RecordKinds

\* logger->lock, list->lock, position_list->lock, logger_for_position->lock
\* and agent_list->lock.
Lock == {"logger", "list", "pos", "pos_logger", "agents"}

NoMessage == "none"

VARIABLES
  pc,         \* pc[t]: where thread t is
  lock,       \* lock[l]: the thread that holds l, or Free
  message,    \* message[a]: what the agent's thread is working on
  awaiting,   \* the agents that have sent something and wait for the 'z'
  listed,     \* the agents in agent_list
  cancelled,  \* the threads pthread_cancel was called on
  freed,      \* the objects the handler has freed
  exited      \* exit(0) was reached

vars == <<pc, lock, message, awaiting, listed, cancelled, freed, exited>>

Init ==
  /\ pc = [t \in Thread |-> CASE t = Main -> "accept"
                              [] t = Http -> "poll"
                              [] OTHER    -> "none"]
  /\ lock = [l \in Lock |-> Free]
  /\ message = [a \in Agent |-> NoMessage]
  /\ awaiting = {} /\ listed = {} /\ cancelled = {} /\ freed = {}
  /\ exited = FALSE

Goto(t, from, to) == /\ ~ exited
                     /\ pc[t] = from
                     /\ pc' = [pc EXCEPT ![t] = to]

\* A default mutex: it is taken when free, by anyone, and waited for
\* otherwise, also by its own holder.
Acquire(t, l) == lock[l] = Free /\ lock' = [lock EXCEPT ![l] = t]

\* pthread_mutex_unlock on a default mutex does not ask who holds it.
Unlock(l) == lock' = [lock EXCEPT ![l] = Free]

-----------------------------------------------------------------------------
(* An agent's connection *)

\* accept and agent_thread_init.
Accept(a) ==
  /\ pc[Main] = "accept"
  /\ Goto(a, "none", "add")
  /\ UNCHANGED <<lock, message, awaiting, listed, cancelled, freed, exited>>

LockToAdd(a) ==
  /\ Goto(a, "add", "adding") /\ Acquire(a, "agents")
  /\ UNCHANGED <<message, awaiting, listed, cancelled, freed, exited>>

\* The rest of add_new_agent_connection.
Add(a) ==
  /\ Goto(a, "adding", "read") /\ Unlock("agents")
  /\ listed' = listed \cup {a}
  /\ UNCHANGED <<message, awaiting, cancelled, freed, exited>>

\* The agent sends k, which it does only with the last answer in hand, and
\* read returns it.
Receive(a, k) ==
  /\ Goto(a, "read", CASE k = "keepalive" -> "ack"
                       [] k = "garbage"   -> "read"
                       [] OTHER           -> "lock_logger")
  /\ a \notin awaiting /\ a \notin cancelled
  /\ awaiting' = awaiting \cup {a}
  /\ message' = [message EXCEPT ![a] = k]
  /\ UNCHANGED <<lock, listed, cancelled, freed, exited>>

LockLogger(a) ==
  /\ Goto(a, "lock_logger", "log") /\ Acquire(a, "logger")
  /\ UNCHANGED <<message, awaiting, listed, cancelled, freed, exited>>

\* Slip: the log keeps its lock.
LogKeepsLock(a) ==
  /\ Goto(a, "log", "lock_list")
  /\ UNCHANGED <<lock, message, awaiting, listed, cancelled, freed, exited>>

\* Two writes to the log, and its unlock.
Log(a) ==
  /\ Goto(a, "log", "lock_list") /\ Unlock("logger")
  /\ UNCHANGED <<message, awaiting, listed, cancelled, freed, exited>>

LockList(a) ==
  /\ Goto(a, "lock_list", "store") /\ Acquire(a, "list")
  /\ UNCHANGED <<message, awaiting, listed, cancelled, freed, exited>>

\* Slip: on the way to a publication the lock of the beacons is given back.
StoreUnlocksList(a) ==
  /\ Goto(a, "store", CASE message[a] = "unplaced" -> "stored"
                        [] message[a] = "placed"   -> "lock_pos_logger"
                        [] message[a] = "publish"  -> "publish"
                        [] message[a] = "unknown"  -> "h_lock_logger")
  /\ IF message[a] = "publish" THEN Unlock("list") ELSE UNCHANGED lock
  /\ UNCHANGED <<message, awaiting, listed, cancelled, freed, exited>>

\* store_rssi_from_agent, up to the next lock it touches.  On the way to a
\* publication add_pos unlocks position_list->lock, where it should lock it
\* (Rssi_Queue.h:340); for an unknown agent a look-up raises SIGINT, whose
\* handler runs on this very thread.
Store(a) ==
  /\ Goto(a, "store", CASE message[a] = "unplaced" -> "stored"
                        [] message[a] = "placed"   -> "lock_pos_logger"
                        [] message[a] = "publish"  -> "publish"
                        [] message[a] = "unknown"  -> "h_lock_logger")
  /\ IF message[a] = "publish" THEN Unlock("pos") ELSE UNCHANGED lock
  /\ UNCHANGED <<message, awaiting, listed, cancelled, freed, exited>>

\* add_pos_to_list, and the unlock after it.
Publish(a) ==
  /\ Goto(a, "publish", "lock_pos_logger") /\ Unlock("pos")
  /\ UNCHANGED <<message, awaiting, listed, cancelled, freed, exited>>

LockPosLogger(a) ==
  /\ Goto(a, "lock_pos_logger", "log_pos") /\ Acquire(a, "pos_logger")
  /\ UNCHANGED <<message, awaiting, listed, cancelled, freed, exited>>

LogPos(a) ==
  /\ Goto(a, "log_pos", "stored") /\ Unlock("pos_logger")
  /\ UNCHANGED <<message, awaiting, listed, cancelled, freed, exited>>

\* Slip: the beacons keep their lock.
UnlockListForgotten(a) ==
  /\ Goto(a, "stored", "ack")
  /\ UNCHANGED <<lock, message, awaiting, listed, cancelled, freed, exited>>

UnlockList(a) ==
  /\ Goto(a, "stored", "ack") /\ Unlock("list")
  /\ UNCHANGED <<message, awaiting, listed, cancelled, freed, exited>>

\* The 'z' that confirms the arrival.
Ack(a) ==
  /\ Goto(a, "ack", "read")
  /\ awaiting' = awaiting \ {a}
  /\ message' = [message EXCEPT ![a] = NoMessage]
  /\ UNCHANGED <<lock, listed, cancelled, freed, exited>>

\* The agent closes the connection.
Close(a) ==
  /\ Goto(a, "read", "remove")
  /\ a \notin cancelled
  /\ awaiting' = awaiting \ {a}
  /\ message' = [message EXCEPT ![a] = NoMessage]
  /\ UNCHANGED <<lock, listed, cancelled, freed, exited>>

LockToRemove(a) ==
  /\ Goto(a, "remove", "removing") /\ Acquire(a, "agents")
  /\ UNCHANGED <<message, awaiting, listed, cancelled, freed, exited>>

\* The rest of remove_agent_connection; the agent may connect again.
Remove(a) ==
  /\ Goto(a, "removing", "none") /\ Unlock("agents")
  /\ listed' = listed \ {a}
  /\ UNCHANGED <<message, awaiting, cancelled, freed, exited>>

-----------------------------------------------------------------------------
(* The HTTP thread: get_pos_by_mac *)

\* A client asks for the position of a beacon.
Request ==
  /\ Goto(Http, "poll", "lock_pos") /\ Http \notin cancelled
  /\ UNCHANGED <<lock, message, awaiting, listed, cancelled, freed, exited>>

LockPositions ==
  /\ Goto(Http, "lock_pos", "reading") /\ Acquire(Http, "pos")
  /\ UNCHANGED <<message, awaiting, listed, cancelled, freed, exited>>

Answer ==
  /\ Goto(Http, "reading", "poll") /\ Unlock("pos")
  /\ UNCHANGED <<message, awaiting, listed, cancelled, freed, exited>>

-----------------------------------------------------------------------------
(* SIGINT_Handler, on the thread t that took the signal *)

\* ^C.  It goes to the main thread, which waits in accept.
Interrupt ==
  /\ Goto(Main, "accept", "h_lock_logger")
  /\ UNCHANGED <<lock, message, awaiting, listed, cancelled, freed, exited>>

HandlerLocks(t) ==
  /\ \/ Goto(t, "h_lock_logger", "h_lock_list") /\ Acquire(t, "logger")
     \/ Goto(t, "h_lock_list", "h_lock_pos") /\ Acquire(t, "list")
     \/ Goto(t, "h_lock_pos", "h_cancel") /\ Acquire(t, "pos")
  /\ UNCHANGED <<message, awaiting, listed, cancelled, freed, exited>>

\* Slip: the handler cancels the thread it runs on, too.
HandlerCancelsItself(t) ==
  /\ Goto(t, "h_cancel", "h_unlock_logger")
  /\ cancelled' = cancelled \cup {Http, t} \cup listed
  /\ listed' = {}
  /\ freed' = freed \cup {"agents"}
  /\ UNCHANGED <<lock, message, awaiting, exited>>

\* pthread_cancel of the HTTP thread, and free_agent_list: every agent in the
\* list has its socket closed and its thread cancelled.
HandlerCancels(t) ==
  /\ Goto(t, "h_cancel", "h_unlock_logger")
  /\ cancelled' = cancelled \cup {Http} \cup listed
  /\ listed' = {}
  /\ freed' = freed \cup {"agents"}
  /\ UNCHANGED <<lock, message, awaiting, exited>>

HandlerUnlocks(t) ==
  /\ \/ Goto(t, "h_unlock_logger", "h_unlock_list") /\ Unlock("logger")
     \/ Goto(t, "h_unlock_list", "h_unlock_pos") /\ Unlock("list")
     \/ Goto(t, "h_unlock_pos", "h_free_loggers") /\ Unlock("pos")
  /\ UNCHANGED <<message, awaiting, listed, cancelled, freed, exited>>

HandlerFrees(t) ==
  /\ \/ /\ Goto(t, "h_free_loggers", "h_free_list")
        /\ freed' = freed \cup {"logger", "pos_logger"}
     \/ Goto(t, "h_free_list", "h_free_pos") /\ freed' = freed \cup {"list"}
     \/ Goto(t, "h_free_pos", "h_exit") /\ freed' = freed \cup {"pos"}
  /\ UNCHANGED <<lock, message, awaiting, listed, cancelled, exited>>

Exit(t) ==
  /\ Goto(t, "h_exit", "h_exit")
  /\ exited' = TRUE
  /\ UNCHANGED <<lock, message, awaiting, listed, cancelled, freed>>

\* A cancelled thread ends at its next cancellation point: a read or a write, a
\* write to a log that fills its buffer, and every printf, since stdout is
\* unbuffered.  Its locks stay taken.
CancellationPoints ==
  {"read", "log", "store", "publish", "lock_pos_logger", "log_pos", "stored", "ack",
   "remove", "removing", "poll", "reading"}

Die(t) ==
  /\ t \in cancelled
  /\ \E p \in CancellationPoints : Goto(t, p, "dead")
  /\ UNCHANGED <<lock, message, awaiting, listed, cancelled, freed, exited>>

-----------------------------------------------------------------------------

\* What the thread of an agent does without its agent's help.
AgentStep(a) ==
  \/ LockToAdd(a) \/ Add(a)
  \/ LockLogger(a) \/ Log(a) \/ LockList(a) \/ Store(a) \/ Publish(a)
  \/ LockPosLogger(a) \/ LogPos(a) \/ UnlockList(a) \/ Ack(a)
  \/ LockToRemove(a) \/ Remove(a)

HttpStep == LockPositions \/ Answer

HandlerStep(t) ==
  HandlerLocks(t) \/ HandlerCancels(t) \/ HandlerUnlocks(t) \/ HandlerFrees(t) \/ Exit(t)

Environment ==
  \/ \E a \in Agent : Accept(a) \/ Close(a) \/ \E k \in Record : Receive(a, k)
  \/ Request
  \/ Interrupt

Next ==
  \/ \E a \in Agent : AgentStep(a)
  \/ \E t \in Agent \cup {Main} : HandlerStep(t)
  \/ HttpStep
  \/ \E t \in Agent \cup {Http} : Die(t)
  \/ Environment

\* The scheduler runs every thread that is able to run again and again, so a
\* thread waiting for a lock that is free again and again gets it.  Agents
\* and clients owe nothing, and no thread has to meet its cancellation.
Spec ==
  /\ Init /\ [][Next]_vars
  /\ \A a \in Agent : SF_vars(AgentStep(a) \/ HandlerStep(a))
  /\ SF_vars(HandlerStep(Main))
  /\ SF_vars(HttpStep)

-----------------------------------------------------------------------------
(* Properties *)

AgentPcs ==
  {"none", "add", "adding", "read", "lock_logger", "log", "lock_list", "store",
   "publish", "lock_pos_logger", "log_pos", "stored", "ack", "remove",
   "removing", "dead"}

HandlerPcs ==
  {"h_lock_logger", "h_lock_list", "h_lock_pos", "h_cancel", "h_unlock_logger",
   "h_unlock_list", "h_unlock_pos", "h_free_loggers", "h_free_list",
   "h_free_pos", "h_exit"}

\* Every thread is somewhere in its own code.
TypeOK ==
  /\ \A a \in Agent : pc[a] \in AgentPcs \cup HandlerPcs
  /\ pc[Main] \in {"accept"} \cup HandlerPcs
  /\ pc[Http] \in {"poll", "lock_pos", "reading", "dead"}
  /\ lock \in [Lock -> Thread \cup {Free}]
  /\ message \in [Agent -> RecordKinds \cup {NoMessage}]
  /\ awaiting \subseteq Agent /\ listed \subseteq Agent
  /\ cancelled \subseteq Agent \cup {Http}
  /\ freed \subseteq {"logger", "pos_logger", "list", "pos", "agents"}
  /\ exited \in BOOLEAN

InHandler(t) == pc[t] \in HandlerPcs

\* Where a thread is inside the section a lock is meant to protect: the
\* handler's free_agent_list changes the list of agents, too.
Section(l) ==
  CASE l = "logger"     -> {"log", "h_lock_list", "h_lock_pos", "h_cancel",
                            "h_unlock_logger"}
    [] l = "list"       -> {"store", "publish", "lock_pos_logger", "log_pos", "stored",
                            "h_lock_pos", "h_cancel", "h_unlock_logger",
                            "h_unlock_list"}
    [] l = "pos_logger" -> {"log_pos"}
    [] l = "agents"     -> {"adding", "removing", "h_cancel"}
    [] l = "pos"        -> {"reading", "publish", "h_cancel", "h_unlock_logger",
                            "h_unlock_list", "h_unlock_pos"}

\* An agent's thread that runs the handler got there from the section of list.
Raising(t) == t \in Agent /\ pc[t] \in {"h_lock_logger", "h_lock_list"}

Inside(l) == {t \in Thread : pc[t] \in Section(l) \/ (l = "list" /\ Raising(t))}

\* Those of them that asked the lock: the handler does not ask the one of the
\* list of agents.
Admitted(l) == {t \in Inside(l) : ~ (l = "agents" /\ InHandler(t))}

\* One thread at a time writes the log, uses the beacons, and writes the
\* position log, the signal handler included: from the moment it has the locks
\* of log and beacons until it gives them back, no agent's thread is in either.
\* And among the agents' threads one at a time changes the list of agents.
\* (Nothing keeps the handler out of that list, which it walks and frees, and
\* position_list->lock keeps nobody out, see LockedOut.)
SectionsExclude ==
  \A l \in Lock \ {"pos"} : Cardinality(Admitted(l)) <= 1

\* A look-up has raised SIGINT on an agent's thread.
Raised == \E a \in Agent : InHandler(a)

\* ^C stops the process, whatever the agents and clients were doing, unless a
\* look-up raised SIGINT before.
ShutdownCompletes == InHandler(Main) ~> (exited \/ Raised)

\* An agent that sent a message gets its 'z', or is heard closing the
\* connection, as long as the process is not stopped.  Only garbage (fewer
\* than 18 bytes) leaves it waiting.
EveryMessageConfirmed ==
  \A a \in Agent :
    a \in awaiting ~> \/ a \notin awaiting
                      \/ message[a] = "garbage"
                      \/ InHandler(Main) \/ Raised

\* "just exit the program if there is something wrong" (calc.h:109): a look-up
\* that fails stops the process, without anybody's help.
FailedLookUpExits == [](~ InHandler(Main)) => (Raised ~> exited)

\* "lock everything to prevent I/O's from other threads.." (server.c:170):
\* with all three locks taken, no other thread touches the log, the beacons
\* or the positions.
LockedOut ==
  \A t \in Thread : pc[t] = "h_cancel" =>
    \A l \in {"logger", "list", "pos"} : Inside(l) \subseteq {t}

\* The same promise, later: no other thread writes to a log or uses a list the
\* handler has freed.
NoUseOfFreed ==
  \A t \in Thread : InHandler(t) /\ ~ exited =>
    \A l \in freed \ {"agents"} : Inside(l) \subseteq {t}
=============================================================================
