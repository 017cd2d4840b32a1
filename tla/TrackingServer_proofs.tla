----------------------- MODULE TrackingServer_proofs -----------------------
(***************************************************************************)
(* Proofs about TrackingServer, for every set of agents and every kind of   *)
(* message: the state keeps its shape, and four of the five locks do what   *)
(* they are there for.  (position_list->lock does not: see the run          *)
(* LockedOut.)                                                              *)
(***************************************************************************)
EXTENDS TrackingServer, FiniteSetTheorems, TLAPS

Pcs == AgentPcs \cup HandlerPcs \cup {"accept", "poll", "lock_pos", "reading"}

\* The kinds of message that reach the locks.
Data == {"unplaced", "placed", "publish", "unknown"}

\* While an agent's thread stores something, it is something to store.
StoresData ==
  \A a \in Agent : pc[a] \in {"lock_logger", "log", "lock_list", "store"} =>
    message[a] \in Data

\* Whoever was admitted to a section holds its lock.  With the types this is
\* inductive, which SectionsExclude alone is not: it says nothing of the owner.
Holds ==
  \A l \in Lock \ {"pos"} : \A t \in Admitted(l) : lock[l] = t

IInv ==
  /\ TypeOK /\ pc \in [Thread -> Pcs]
  /\ StoresData
  /\ Holds

-----------------------------------------------------------------------------
(* What a step does to one thread *)

\* Where a thread may be.
Allowed(t) ==
  IF t = Main THEN {"accept"} \cup HandlerPcs
  ELSE IF t = Http THEN {"poll", "lock_pos", "reading", "dead"}
  ELSE AgentPcs \cup HandlerPcs

\* The locks a thread must hold at p, position_list->lock apart.
Owes(t, p) ==
  {l \in Lock \ {"pos"} :
     \/ p \in Section(l) /\ ~ (l = "agents" /\ p \in HandlerPcs)
     \/ l = "list" /\ t \in Agent /\ p \in {"h_lock_logger", "h_lock_list"}}

DataPcs == {"lock_logger", "log", "lock_list", "store"}

\* Every step moves one thread.  It is safe if the thread holds what it owes
\* at its new place: because it owed it before, or has just acquired it; and
\* what it gives back it owed and owes no longer.
LEMMA ThreadStep ==
  ASSUME IInv, NEW t \in Thread, NEW from, NEW to \in Allowed(t), Goto(t, from, to),
         \/ lock' = lock /\ Owes(t, to) \subseteq Owes(t, from)
         \/ \E l \in Lock : Acquire(t, l) /\ Owes(t, to) \subseteq Owes(t, from) \cup {l}
         \/ \E l \in Lock : /\ Unlock(l) /\ l \in Owes(t, from) \cup {"pos"}
                            /\ Owes(t, to) \subseteq Owes(t, from) \ {l},
         message' \in [Agent -> RecordKinds \cup {NoMessage}],
         \A u \in Agent : u # t => message'[u] = message[u],
         t \in Agent /\ to \in DataPcs => message'[t] \in Data,
         awaiting' \subseteq Agent, listed' \subseteq Agent,
         cancelled' \subseteq Agent \cup {Http},
         freed' \subseteq {"logger", "pos_logger", "list", "pos", "agents"},
         exited' \in BOOLEAN
  PROVE  IInv'
<1>1. /\ pc \in [Thread -> Pcs] /\ lock \in [Lock -> Thread \cup {Free}]
      /\ \A u \in Thread : pc[u] \in Allowed(u)
  BY ThreadAssumption DEF IInv, TypeOK, Thread, Allowed
<1>2. /\ pc[t] = from /\ pc'[t] = to /\ to \in Pcs
      /\ \A u \in Thread : u # t => pc'[u] = pc[u]
      /\ pc' \in [Thread -> Pcs]
  <2>1. to \in Pcs
    BY DEF Allowed, Pcs, AgentPcs
  <2> QED BY <1>1, <2>1 DEF Goto
<1>3. \A u \in Thread : pc'[u] \in Allowed(u)
  BY <1>1, <1>2
<1>4. \A l \in Lock \ {"pos"}, u \in Thread : u \in Admitted(l) <=> l \in Owes(u, pc[u])
  BY DEF Admitted, Inside, InHandler, Owes, Raising, HandlerPcs
<1>5. \A l \in Lock \ {"pos"}, u \in Thread : u \in Admitted(l)' <=> l \in Owes(u, pc'[u])
  BY DEF Admitted, Inside, InHandler, Owes, Raising, HandlerPcs
<1>6. \A u \in Thread : \A l \in Owes(u, pc[u]) : lock[l] = u
  BY <1>4 DEF IInv, Holds, Owes
<1> DEFINE Kept ==
             /\ lock' \in [Lock -> Thread \cup {Free}]
             /\ \A l \in Lock \ {"pos"} :
                  lock'[l] = lock[l] \/ lock[l] = Free \/ lock[l] = t
             /\ \A l \in Owes(t, to) : lock'[l] = t
<1>7. Kept
  <2>1. CASE lock' = lock /\ Owes(t, to) \subseteq Owes(t, from)
    BY <1>1, <1>2, <1>6, <2>1
  <2>2. ASSUME NEW l \in Lock, Acquire(t, l), Owes(t, to) \subseteq Owes(t, from) \cup {l}
        PROVE  Kept
    <3>1. lock[l] = Free /\ lock' = [lock EXCEPT ![l] = t]
      BY <2>2 DEF Acquire
    <3>2. \A k \in Owes(t, to) : k \in Lock
      BY DEF Owes
    <3> QED BY <1>1, <1>2, <1>6, <2>2, <3>1, <3>2
  <2>3. ASSUME NEW l \in Lock, Unlock(l), l \in Owes(t, from) \cup {"pos"},
               Owes(t, to) \subseteq Owes(t, from) \ {l}
        PROVE  Kept
    <3>1. lock' = [lock EXCEPT ![l] = Free]
      BY <2>3 DEF Unlock
    <3>2. \A k \in Owes(t, to) : k \in Lock
      BY DEF Owes
    <3> QED BY <1>1, <1>2, <1>6, <2>3, <3>1, <3>2
  <2> QED BY <2>1, <2>2, <2>3
<1>8. Holds'
  <2> SUFFICES ASSUME NEW l \in Lock \ {"pos"}, NEW u \in Thread, u \in Admitted(l)'
               PROVE  lock'[l] = u
    BY DEF Holds, Admitted, Inside
  <2>1. CASE u = t
    BY <1>2, <1>5, <1>7, <2>1
  <2>2. CASE u # t
    <3>1. pc'[u] = pc[u] /\ l \in Owes(u, pc[u])
      BY <1>2, <1>5, <2>2
    <3>2. lock[l] = u
      BY <1>6, <3>1
    <3> QED BY <1>7, <2>2, <3>2, ThreadAssumption
  <2> QED BY <2>1, <2>2
<1>9. StoresData'
  <2> SUFFICES ASSUME NEW a \in Agent, pc'[a] \in DataPcs PROVE message'[a] \in Data
    BY DEF StoresData, DataPcs
  <2>1. CASE a = t
    BY <1>2, <2>1
  <2>2. CASE a # t
    BY <1>2, <2>2 DEF IInv, StoresData, DataPcs, Thread
  <2> QED BY <2>1, <2>2
<1>10. TypeOK'
  <2>1. /\ \A a \in Agent : pc'[a] \in AgentPcs \cup HandlerPcs
        /\ pc'[Main] \in {"accept"} \cup HandlerPcs
        /\ pc'[Http] \in {"poll", "lock_pos", "reading", "dead"}
    BY <1>3, ThreadAssumption DEF Allowed, Thread
  <2> QED BY <1>7, <2>1 DEF TypeOK
<1> QED BY <1>2, <1>8, <1>9, <1>10 DEF IInv

LEMMA IInvInit == Init => IInv
<1> SUFFICES ASSUME Init PROVE IInv
  OBVIOUS
<1>1. /\ pc[Main] = "accept" /\ pc[Http] = "poll"
      /\ \A a \in Agent : pc[a] = "none"
      /\ pc \in [Thread -> Pcs]
  BY ThreadAssumption DEF Init, Thread, Pcs, AgentPcs
<1>2. TypeOK
  BY <1>1 DEF Init, TypeOK, AgentPcs, Lock, Thread, RecordKinds
<1>3. StoresData
  BY <1>1 DEF StoresData
<1>4. Holds
  <2> SUFFICES ASSUME NEW l \in Lock \ {"pos"}, NEW t \in Admitted(l) PROVE FALSE
    BY DEF Holds
  <2>1. pc[t] \in {"accept", "poll", "none"}
    BY <1>1 DEF Admitted, Inside, Thread
  <2> QED BY <2>1 DEF Admitted, Inside, Section, Raising, Lock
<1> QED BY <1>1, <1>2, <1>3, <1>4 DEF IInv

\* What every place owes.
LEMMA OwesTable ==
  ASSUME NEW t \in Thread
  PROVE  /\ \A p \in {"none", "add", "read", "lock_logger", "lock_list", "ack", "remove",
                      "dead", "accept", "poll", "lock_pos", "reading", "h_unlock_pos",
                      "h_free_loggers", "h_free_list", "h_free_pos", "h_exit"} :
              Owes(t, p) = {}
         /\ \A p \in {"adding", "removing"} : Owes(t, p) = {"agents"}
         /\ \A p \in {"store", "publish", "lock_pos_logger", "stored", "h_unlock_list"} :
              Owes(t, p) = {"list"}
         /\ \A p \in {"h_lock_pos", "h_cancel", "h_unlock_logger"} :
              Owes(t, p) = {"logger", "list"}
         /\ Owes(t, "log") = {"logger"}
         /\ Owes(t, "log_pos") = {"list", "pos_logger"}
         /\ Owes(t, "h_lock_logger") = IF t \in Agent THEN {"list"} ELSE {}
         /\ Owes(t, "h_lock_list") = IF t \in Agent THEN {"logger", "list"} ELSE {"logger"}
BY DEF Owes, Section, Lock, HandlerPcs

\* The places of the threads.
LEMMA AllowedTable ==
  /\ \A a \in Agent : a \in Thread /\ Allowed(a) = AgentPcs \cup HandlerPcs
  /\ Main \in Thread /\ Allowed(Main) = {"accept"} \cup HandlerPcs
  /\ Http \in Thread /\ Allowed(Http) = {"poll", "lock_pos", "reading", "dead"}
BY ThreadAssumption DEF Thread, Allowed

\* What TypeOK says of everything but places and locks.
LEMMA Books ==
  ASSUME IInv
  PROVE  /\ message \in [Agent -> RecordKinds \cup {NoMessage}]
         /\ awaiting \subseteq Agent /\ listed \subseteq Agent
         /\ cancelled \subseteq Agent \cup {Http}
         /\ freed \subseteq {"logger", "pos_logger", "list", "pos", "agents"}
         /\ exited \in BOOLEAN
         /\ \A a \in Agent : pc[a] \in DataPcs => message[a] \in Data
BY DEF IInv, TypeOK, StoresData, DataPcs

\* A step that only moves one thread and takes or gives a lock.
LEMMA PlainStep ==
  ASSUME IInv, NEW t \in Thread, NEW from, NEW to \in Allowed(t), Goto(t, from, to),
         \/ lock' = lock /\ Owes(t, to) \subseteq Owes(t, from)
         \/ \E l \in Lock : Acquire(t, l) /\ Owes(t, to) \subseteq Owes(t, from) \cup {l}
         \/ \E l \in Lock : /\ Unlock(l) /\ l \in Owes(t, from) \cup {"pos"}
                            /\ Owes(t, to) \subseteq Owes(t, from) \ {l},
         to \in DataPcs => from \in DataPcs,
         UNCHANGED <<message, awaiting>>,
         listed' \subseteq Agent,
         cancelled' \subseteq Agent \cup {Http},
         freed' \subseteq {"logger", "pos_logger", "list", "pos", "agents"},
         exited' \in BOOLEAN
  PROVE  IInv'
<1>1. t \in Agent /\ to \in DataPcs => message'[t] \in Data
  <2>1. pc[t] = from
    BY DEF Goto
  <2> QED BY <2>1, Books
<1> QED BY <1>1, Books, ThreadStep


\* The thread of an agent keeps the invariant.
LEMMA IInvAgent == ASSUME IInv, NEW a \in Agent, AgentStep(a) PROVE IInv'
<1>1. a \in Thread /\ Allowed(a) = AgentPcs \cup HandlerPcs
  BY AllowedTable
<1>2. CASE LockToAdd(a)
  <2>1. Goto(a, "add", "adding") /\ Acquire(a, "agents")
    BY <1>2 DEF LockToAdd
  <2>2. Owes(a, "adding") \subseteq Owes(a, "add") \cup {"agents"}
    BY <1>1, OwesTable
  <2> QED BY <1>1, <1>2, <2>1, <2>2, Books, PlainStep
        DEF LockToAdd, Lock, AgentPcs, DataPcs
<1>3. CASE Add(a)
  <2>1. Goto(a, "adding", "read") /\ Unlock("agents")
    BY <1>3 DEF Add
  <2>2. /\ "agents" \in Owes(a, "adding")
        /\ Owes(a, "read") \subseteq Owes(a, "adding") \ {"agents"}
    BY <1>1, OwesTable
  <2> QED BY <1>1, <1>3, <2>1, <2>2, Books, PlainStep
        DEF Add, Lock, AgentPcs, DataPcs
<1>4. CASE LockLogger(a)
  <2>1. Goto(a, "lock_logger", "log") /\ Acquire(a, "logger")
    BY <1>4 DEF LockLogger
  <2>2. Owes(a, "log") \subseteq Owes(a, "lock_logger") \cup {"logger"}
    BY <1>1, OwesTable
  <2> QED BY <1>1, <1>4, <2>1, <2>2, Books, PlainStep
        DEF LockLogger, Lock, AgentPcs, DataPcs
<1>5. CASE Log(a)
  <2>1. Goto(a, "log", "lock_list") /\ Unlock("logger")
    BY <1>5 DEF Log
  <2>2. /\ "logger" \in Owes(a, "log")
        /\ Owes(a, "lock_list") \subseteq Owes(a, "log") \ {"logger"}
    BY <1>1, OwesTable
  <2> QED BY <1>1, <1>5, <2>1, <2>2, Books, PlainStep
        DEF Log, Lock, AgentPcs, DataPcs
<1>6. CASE LockList(a)
  <2>1. Goto(a, "lock_list", "store") /\ Acquire(a, "list")
    BY <1>6 DEF LockList
  <2>2. Owes(a, "store") \subseteq Owes(a, "lock_list") \cup {"list"}
    BY <1>1, OwesTable
  <2> QED BY <1>1, <1>6, <2>1, <2>2, Books, PlainStep
        DEF LockList, Lock, AgentPcs, DataPcs
<1>7. CASE Publish(a)
  <2>1. Goto(a, "publish", "lock_pos_logger") /\ Unlock("pos")
    BY <1>7 DEF Publish
  <2>2. Owes(a, "lock_pos_logger") \subseteq Owes(a, "publish") \ {"pos"}
    BY <1>1, OwesTable DEF Owes
  <2> QED BY <1>1, <1>7, <2>1, <2>2, Books, PlainStep
        DEF Publish, Lock, AgentPcs, DataPcs
<1>8. CASE LockPosLogger(a)
  <2>1. Goto(a, "lock_pos_logger", "log_pos") /\ Acquire(a, "pos_logger")
    BY <1>8 DEF LockPosLogger
  <2>2. Owes(a, "log_pos") \subseteq Owes(a, "lock_pos_logger") \cup {"pos_logger"}
    BY <1>1, OwesTable
  <2> QED BY <1>1, <1>8, <2>1, <2>2, Books, PlainStep
        DEF LockPosLogger, Lock, AgentPcs, DataPcs
<1>9. CASE LogPos(a)
  <2>1. Goto(a, "log_pos", "stored") /\ Unlock("pos_logger")
    BY <1>9 DEF LogPos
  <2>2. /\ "pos_logger" \in Owes(a, "log_pos")
        /\ Owes(a, "stored") \subseteq Owes(a, "log_pos") \ {"pos_logger"}
    BY <1>1, OwesTable
  <2> QED BY <1>1, <1>9, <2>1, <2>2, Books, PlainStep
        DEF LogPos, Lock, AgentPcs, DataPcs
<1>10. CASE UnlockList(a)
  <2>1. Goto(a, "stored", "ack") /\ Unlock("list")
    BY <1>10 DEF UnlockList
  <2>2. /\ "list" \in Owes(a, "stored")
        /\ Owes(a, "ack") \subseteq Owes(a, "stored") \ {"list"}
    BY <1>1, OwesTable
  <2> QED BY <1>1, <1>10, <2>1, <2>2, Books, PlainStep
        DEF UnlockList, Lock, AgentPcs, DataPcs
<1>11. CASE LockToRemove(a)
  <2>1. Goto(a, "remove", "removing") /\ Acquire(a, "agents")
    BY <1>11 DEF LockToRemove
  <2>2. Owes(a, "removing") \subseteq Owes(a, "remove") \cup {"agents"}
    BY <1>1, OwesTable
  <2> QED BY <1>1, <1>11, <2>1, <2>2, Books, PlainStep
        DEF LockToRemove, Lock, AgentPcs, DataPcs
<1>12. CASE Remove(a)
  <2>1. Goto(a, "removing", "none") /\ Unlock("agents")
    BY <1>12 DEF Remove
  <2>2. /\ "agents" \in Owes(a, "removing")
        /\ Owes(a, "none") \subseteq Owes(a, "removing") \ {"agents"}
    BY <1>1, OwesTable
  <2> QED BY <1>1, <1>12, <2>1, <2>2, Books, PlainStep
        DEF Remove, Lock, AgentPcs, DataPcs
<1>13. CASE Store(a)
  <2>1. pc[a] = "store" /\ message[a] \in Data
    BY <1>13, Books DEF Store, Goto, DataPcs
  <2>2. CASE message[a] = "unplaced"
    <3>1. Goto(a, "store", "stored") /\ lock' = lock
      BY <1>13, <2>2 DEF Store
    <3>2. Owes(a, "stored") \subseteq Owes(a, "store")
      BY <1>1, OwesTable
    <3> QED BY <1>1, <1>13, <3>1, <3>2, Books, PlainStep DEF Store, AgentPcs, DataPcs
  <2>3. CASE message[a] = "placed"
    <3>1. Goto(a, "store", "lock_pos_logger") /\ lock' = lock
      BY <1>13, <2>3 DEF Store
    <3>2. Owes(a, "lock_pos_logger") \subseteq Owes(a, "store")
      BY <1>1, OwesTable
    <3> QED BY <1>1, <1>13, <3>1, <3>2, Books, PlainStep DEF Store, AgentPcs, DataPcs
  <2>4. CASE message[a] = "publish"
    <3>1. Goto(a, "store", "publish") /\ Unlock("pos")
      BY <1>13, <2>4 DEF Store
    <3>2. Owes(a, "publish") \subseteq Owes(a, "store") \ {"pos"}
      BY <1>1, OwesTable DEF Owes
    <3> QED BY <1>1, <1>13, <3>1, <3>2, Books, PlainStep DEF Store, Lock, AgentPcs, DataPcs
  <2>5. CASE message[a] = "unknown"
    <3>1. Goto(a, "store", "h_lock_logger") /\ lock' = lock
      BY <1>13, <2>5 DEF Store
    <3>2. Owes(a, "h_lock_logger") \subseteq Owes(a, "store")
      BY <1>1, OwesTable
    <3> QED BY <1>1, <1>13, <3>1, <3>2, Books, PlainStep DEF Store, HandlerPcs, DataPcs
  <2> QED BY <2>1, <2>2, <2>3, <2>4, <2>5 DEF Data
<1>14. CASE Ack(a)
  <2>1. Goto(a, "ack", "read") /\ lock' = lock
    BY <1>14 DEF Ack
  <2>2. Owes(a, "read") \subseteq Owes(a, "ack")
    BY <1>1, OwesTable
  <2>3. /\ message' = [message EXCEPT ![a] = NoMessage]
        /\ awaiting' = awaiting \ {a}
        /\ UNCHANGED <<listed, cancelled, freed, exited>>
    BY <1>14 DEF Ack
  <2> QED BY <1>1, <2>1, <2>2, <2>3, Books, ThreadStep DEF AgentPcs, DataPcs
<1> QED BY <1>2, <1>3, <1>4, <1>5, <1>6, <1>7, <1>8, <1>9, <1>10, <1>11, <1>12, <1>13, <1>14 DEF AgentStep

\* The HTTP thread keeps it.
LEMMA IInvHttp == ASSUME IInv, HttpStep \/ Request PROVE IInv'
<1>1. Http \in Thread /\ Allowed(Http) = {"poll", "lock_pos", "reading", "dead"}
  BY AllowedTable
<1>2. CASE LockPositions
  <2>1. Goto(Http, "lock_pos", "reading") /\ Acquire(Http, "pos")
    BY <1>2 DEF LockPositions
  <2>2. Owes(Http, "reading") \subseteq Owes(Http, "lock_pos") \cup {"pos"}
    BY <1>1, OwesTable
  <2> QED BY <1>1, <1>2, <2>1, <2>2, Books, PlainStep
        DEF LockPositions, Lock, DataPcs
<1>3. CASE Answer
  <2>1. Goto(Http, "reading", "poll") /\ Unlock("pos")
    BY <1>3 DEF Answer
  <2>2. Owes(Http, "poll") \subseteq Owes(Http, "reading") \ {"pos"}
    BY <1>1, OwesTable DEF Owes
  <2> QED BY <1>1, <1>3, <2>1, <2>2, Books, PlainStep
        DEF Answer, Lock, DataPcs
<1>4. CASE Request
  <2>1. Goto(Http, "poll", "lock_pos") /\ lock' = lock
    BY <1>4 DEF Request
  <2>2. Owes(Http, "lock_pos") \subseteq Owes(Http, "poll")
    BY <1>1, OwesTable
  <2> QED BY <1>1, <1>4, <2>1, <2>2, Books, PlainStep
        DEF Request, Lock, DataPcs
<1> QED BY <1>2, <1>3, <1>4 DEF HttpStep

\* The handler keeps it, whichever thread it runs on.
LEMMA IInvHandler ==
  ASSUME IInv, NEW t \in Agent \cup {Main}, HandlerStep(t) PROVE IInv'
<1>1. t \in Thread /\ HandlerPcs \subseteq Allowed(t)
  BY AllowedTable
<1>2. UNCHANGED <<message, awaiting>> /\ listed' \subseteq Agent
  BY Books DEF HandlerStep, HandlerLocks, HandlerCancels, HandlerUnlocks, HandlerFrees, Exit
<1>3. /\ cancelled' \subseteq Agent \cup {Http} /\ exited' \in BOOLEAN
      /\ freed' \subseteq {"logger", "pos_logger", "list", "pos", "agents"}
  BY Books DEF HandlerStep, HandlerLocks, HandlerCancels, HandlerUnlocks, HandlerFrees, Exit
<1>4. CASE Goto(t, "h_lock_logger", "h_lock_list") /\ Acquire(t, "logger")
  <2>1. Owes(t, "h_lock_list") \subseteq Owes(t, "h_lock_logger") \cup {"logger"}
    BY <1>1, OwesTable
  <2> QED BY <1>1, <1>2, <1>3, <1>4, <2>1, PlainStep DEF Lock, HandlerPcs, DataPcs
<1>5. CASE Goto(t, "h_lock_list", "h_lock_pos") /\ Acquire(t, "list")
  <2>1. Owes(t, "h_lock_pos") \subseteq Owes(t, "h_lock_list") \cup {"list"}
    BY <1>1, OwesTable
  <2> QED BY <1>1, <1>2, <1>3, <1>5, <2>1, PlainStep DEF Lock, HandlerPcs, DataPcs
<1>6. CASE Goto(t, "h_lock_pos", "h_cancel") /\ Acquire(t, "pos")
  <2>1. Owes(t, "h_cancel") \subseteq Owes(t, "h_lock_pos") \cup {"pos"}
    BY <1>1, OwesTable
  <2> QED BY <1>1, <1>2, <1>3, <1>6, <2>1, PlainStep DEF Lock, HandlerPcs, DataPcs
<1>7. CASE Goto(t, "h_cancel", "h_unlock_logger") /\ lock' = lock
  <2>1. Owes(t, "h_unlock_logger") \subseteq Owes(t, "h_cancel")
    BY <1>1, OwesTable
  <2> QED BY <1>1, <1>2, <1>3, <1>7, <2>1, PlainStep DEF Lock, HandlerPcs, DataPcs
<1>8. CASE Goto(t, "h_unlock_logger", "h_unlock_list") /\ Unlock("logger")
  <2>1. "logger" \in Owes(t, "h_unlock_logger") /\ Owes(t, "h_unlock_list") \subseteq Owes(t, "h_unlock_logger") \ {"logger"}
    BY <1>1, OwesTable
  <2> QED BY <1>1, <1>2, <1>3, <1>8, <2>1, PlainStep DEF Lock, HandlerPcs, DataPcs
<1>9. CASE Goto(t, "h_unlock_list", "h_unlock_pos") /\ Unlock("list")
  <2>1. "list" \in Owes(t, "h_unlock_list") /\ Owes(t, "h_unlock_pos") \subseteq Owes(t, "h_unlock_list") \ {"list"}
    BY <1>1, OwesTable
  <2> QED BY <1>1, <1>2, <1>3, <1>9, <2>1, PlainStep DEF Lock, HandlerPcs, DataPcs
<1>10. CASE Goto(t, "h_unlock_pos", "h_free_loggers") /\ Unlock("pos")
  <2>1. Owes(t, "h_free_loggers") \subseteq Owes(t, "h_unlock_pos") \ {"pos"}
    BY <1>1, OwesTable DEF Owes
  <2> QED BY <1>1, <1>2, <1>3, <1>10, <2>1, PlainStep DEF Lock, HandlerPcs, DataPcs
<1>11. CASE Goto(t, "h_free_loggers", "h_free_list") /\ lock' = lock
  <2>1. Owes(t, "h_free_list") \subseteq Owes(t, "h_free_loggers")
    BY <1>1, OwesTable
  <2> QED BY <1>1, <1>2, <1>3, <1>11, <2>1, PlainStep DEF Lock, HandlerPcs, DataPcs
<1>12. CASE Goto(t, "h_free_list", "h_free_pos") /\ lock' = lock
  <2>1. Owes(t, "h_free_pos") \subseteq Owes(t, "h_free_list")
    BY <1>1, OwesTable
  <2> QED BY <1>1, <1>2, <1>3, <1>12, <2>1, PlainStep DEF Lock, HandlerPcs, DataPcs
<1>13. CASE Goto(t, "h_free_pos", "h_exit") /\ lock' = lock
  <2>1. Owes(t, "h_exit") \subseteq Owes(t, "h_free_pos")
    BY <1>1, OwesTable
  <2> QED BY <1>1, <1>2, <1>3, <1>13, <2>1, PlainStep DEF Lock, HandlerPcs, DataPcs
<1>14. CASE Goto(t, "h_exit", "h_exit") /\ lock' = lock
  <2>1. Owes(t, "h_exit") \subseteq Owes(t, "h_exit")
    BY <1>1, OwesTable
  <2> QED BY <1>1, <1>2, <1>3, <1>14, <2>1, PlainStep DEF Lock, HandlerPcs, DataPcs
<1> QED BY <1>4, <1>5, <1>6, <1>7, <1>8, <1>9, <1>10, <1>11, <1>12, <1>13, <1>14
     DEF HandlerStep, HandlerLocks, HandlerCancels, HandlerUnlocks, HandlerFrees, Exit

\* A cancelled thread leaves its locks as they are, and owes nothing.
LEMMA IInvDie == ASSUME IInv, NEW t \in Agent \cup {Http}, Die(t) PROVE IInv'
<1>1. t \in Thread /\ "dead" \in Allowed(t)
  BY AllowedTable DEF AgentPcs
<1>2. PICK p : Goto(t, p, "dead")
  BY DEF Die
<1>3. Owes(t, "dead") \subseteq Owes(t, p)
  BY <1>1, OwesTable
<1>4. UNCHANGED <<lock, message, awaiting, listed, cancelled, freed, exited>>
  BY DEF Die
<1> QED BY <1>1, <1>2, <1>3, <1>4, Books, PlainStep DEF DataPcs

\* Agents, clients and ^C keep it.
LEMMA IInvEnvironment == ASSUME IInv, Environment PROVE IInv'
<1>1. ASSUME NEW a \in Agent, Accept(a) PROVE IInv'
  <2>1. Goto(a, "none", "add") /\ lock' = lock
    BY <1>1 DEF Accept
  <2>2. Owes(a, "add") \subseteq Owes(a, "none")
    BY AllowedTable, OwesTable
  <2> QED BY <1>1, <2>1, <2>2, AllowedTable, Books, PlainStep DEF Accept, AgentPcs, DataPcs
<1>2. ASSUME NEW a \in Agent, Close(a) PROVE IInv'
  <2>1. Goto(a, "read", "remove") /\ lock' = lock
    BY <1>2 DEF Close
  <2>2. Owes(a, "remove") \subseteq Owes(a, "read")
    BY AllowedTable, OwesTable
  <2>3. /\ message' = [message EXCEPT ![a] = NoMessage]
        /\ awaiting' = awaiting \ {a}
        /\ UNCHANGED <<listed, cancelled, freed, exited>>
    BY <1>2 DEF Close
  <2> QED BY <2>1, <2>2, <2>3, AllowedTable, Books, ThreadStep DEF AgentPcs, DataPcs
<1>3. ASSUME NEW a \in Agent, NEW k \in Record, Receive(a, k) PROVE IInv'
  <2>1. /\ message' = [message EXCEPT ![a] = k] /\ awaiting' = awaiting \cup {a}
        /\ UNCHANGED <<lock, listed, cancelled, freed, exited>>
    BY <1>3 DEF Receive
  <2>2. k \in RecordKinds
    BY ThreadAssumption
  <2>3. PICK to \in {"ack", "read", "lock_logger"} :
          Goto(a, "read", to) /\ (to = "lock_logger" => k \in Data)
    BY <1>3, <2>2 DEF Receive, RecordKinds, Data
  <2>4. Owes(a, to) \subseteq Owes(a, "read")
    BY AllowedTable, OwesTable
  <2>5. to \in AgentPcs /\ (to \in DataPcs => to = "lock_logger")
    BY DEF AgentPcs, DataPcs
  <2>6. /\ message' \in [Agent -> RecordKinds \cup {NoMessage}]
        /\ message'[a] = k /\ \A u \in Agent : u # a => message'[u] = message[u]
    BY <2>1, <2>2, Books
  <2> QED BY <2>1, <2>3, <2>4, <2>5, <2>6, AllowedTable, Books, ThreadStep
<1>4. CASE Interrupt
  <2>1. Goto(Main, "accept", "h_lock_logger") /\ lock' = lock
    BY <1>4 DEF Interrupt
  <2>2. Owes(Main, "h_lock_logger") \subseteq Owes(Main, "accept")
    BY AllowedTable, OwesTable, ThreadAssumption
  <2> QED BY <1>4, <2>1, <2>2, AllowedTable, Books, PlainStep
        DEF Interrupt, HandlerPcs, DataPcs
<1> QED BY <1>1, <1>2, <1>3, <1>4, IInvHttp DEF Environment

LEMMA IInvStep == IInv /\ [Next]_vars => IInv'
<1> SUFFICES ASSUME IInv, [Next]_vars PROVE IInv'
  OBVIOUS
<1>1. ASSUME NEW a \in Agent, AgentStep(a) PROVE IInv'
  BY <1>1, IInvAgent
<1>2. ASSUME NEW t \in Agent \cup {Main}, HandlerStep(t) PROVE IInv'
  BY <1>2, IInvHandler
<1>3. CASE HttpStep
  BY <1>3, IInvHttp
<1>4. ASSUME NEW t \in Agent \cup {Http}, Die(t) PROVE IInv'
  BY <1>4, IInvDie
<1>5. CASE Environment
  BY <1>5, IInvEnvironment
<1>6. CASE UNCHANGED vars
  <2>1. /\ pc' = pc /\ lock' = lock /\ message' = message /\ awaiting' = awaiting
        /\ listed' = listed /\ cancelled' = cancelled /\ freed' = freed
        /\ exited' = exited
    BY <1>6 DEF vars
  <2>2. TypeOK' /\ (pc \in [Thread -> Pcs])' /\ StoresData'
    BY <2>1 DEF IInv, TypeOK, StoresData
  <2>3. Holds'
    BY <2>1 DEF IInv, Holds, Admitted, Inside, InHandler, Raising
  <2> QED BY <2>2, <2>3 DEF IInv
<1> QED BY <1>1, <1>2, <1>3, <1>4, <1>5, <1>6 DEF Next

-----------------------------------------------------------------------------
(* Theorems *)

\* The invariant holds throughout.
THEOREM Invariance == Spec => []IInv
BY IInvInit, IInvStep, PTL DEF Spec

\* Every thread is somewhere in its own code, for every set of agents.
THEOREM TypeCorrect == Spec => []TypeOK
<1>1. IInv => TypeOK
  BY DEF IInv
<1> QED BY <1>1, Invariance, PTL

\* However many agents are connected, one thread at a time is in the section of
\* the lock of the log, of the beacons and of the position log, and the handler
\* is alone in those of log and beacons from server.c:172 to its unlocks.  Of
\* the list of agents this holds for the agents' threads among themselves.
THEOREM SectionsAreExclusive == Spec => []SectionsExclude
<1>1. IInv => SectionsExclude
  <2> SUFFICES ASSUME IInv, NEW l \in Lock \ {"pos"}
               PROVE  Cardinality(Admitted(l)) <= 1
    BY DEF SectionsExclude
  <2>1. Admitted(l) \in SUBSET {lock[l]}
    BY DEF IInv, Holds
  <2>2. IsFiniteSet({lock[l]}) /\ Cardinality({lock[l]}) = 1
    BY FS_Singleton
  <2> QED BY <2>1, <2>2, FS_Subset
<1> QED BY <1>1, Invariance, PTL
=============================================================================
