---------------------------- MODULE Connections ----------------------------
(***************************************************************************)
(* The connections of the agents at the level of the heap: the chain of     *)
(* agent_t in agent_list, the threads that serve them, the argument they    *)
(* are started with, and the query that walks the chain without its lock.   *)
(* add_new_agent_connection and remove_agent_connection are one step each,  *)
(* since they hold agent_list->lock from their first access to their last.  *)
(* A thread may be so slow to start that agent_thread_init has returned      *)
(* before it reads its argument there; late says whether one was, since      *)
(* little is true of the list from then on.                                  *)
(***************************************************************************)
EXTENDS Integers, Sequences, FiniteSets

CONSTANTS
  Conn,       \* connections, by descriptor; the server closes none of them
              \* before it exits, so accept returns each of them once
  NoConn,     \* no connection, and a descriptor that is not open
  Asked,      \* the macs agent_status may be asked about
  MacOf,      \* MacOf[c]: what the agent at the other end of c announces
  NoMac       \* what memory reads as that no agent's mac was written to:
              \* the empty string of fresh memory, so two of them match

Mac == {MacOf[c] : c \in Conn}

ASSUME ConnectionAssumption ==
  /\ IsFiniteSet(Conn) /\ NoConn \notin Conn /\ NoMac \notin Mac
  /\ Asked \subseteq Mac

\* malloc puts an agent_t where one was freed, or where none has been yet.
Address == 1..Cardinality(Conn)
Null == 0

VARIABLES
  head, tail, size,  \* agent_list
  node,      \* node[p]: what is at p, for every p that was ever allocated
  init,      \* the connection whose agent_thread_init is running
  argument,  \* albl.agent, in the stack frame of agent_thread_init
  late,      \* history: whether an agent_thread_init has returned before the
             \* thread it started had taken its argument
  pc,        \* pc[c]: where the thread started for c is
  agent,     \* agent[c]: the local variable of that thread
  reading,   \* reading[c]: the descriptor it last gave to read
  closed,    \* the connections whose agent has gone
  asked,     \* the mac an agent_status query is about
  curr,      \* where check_status is on the chain
  seen       \* history: whether asked was on at some moment of the query

list == <<head, tail, size>>
query == <<asked, curr>>
vars == <<list, node, init, argument, late, pc, agent, reading, closed, query, seen>>

Init ==
  /\ head = Null /\ tail = Null /\ size = 0
  /\ node = <<>>
  /\ init = NoConn /\ argument = Null /\ late = FALSE
  /\ pc = [c \in Conn |-> "none"]
  /\ agent = [c \in Conn |-> Null]
  /\ reading = [c \in Conn |-> NoConn]
  /\ closed = {}
  /\ asked = NoMac /\ curr = Null /\ seen = FALSE

Goto(c, from, to) == pc[c] = from /\ pc' = [pc EXCEPT ![c] = to]

\* place[n]: the node n steps from the head, or Null past the end.
place ==
  LET at[n \in 0..Cardinality(Address)] ==
        IF n = 0 THEN head
        ELSE IF at[n - 1] = Null THEN Null
        ELSE node[at[n - 1]].next
  IN  at

Listed == {place[n] : n \in DOMAIN place} \ {Null}

-----------------------------------------------------------------------------
(* Starting a thread *)

NewAgent(mac, fd) == [used |-> TRUE, next |-> Null, mac |-> mac, con_fd |-> fd]

\* accept and agent_thread_init, which leaves the mac as malloc found it:
\* one that was there before, or something else.
Accept(c) ==
  /\ init = NoConn
  /\ Goto(c, "none", "start")
  /\ \/ /\ node' = Append(node, NewAgent(NoMac, c))
        /\ argument' = Len(node')
     \/ \E p \in DOMAIN node : \E m \in {node[p].mac, NoMac} :
          /\ ~ node[p].used
          /\ node' = [node EXCEPT ![p] = NewAgent(m, c)]
          /\ argument' = p
  /\ init' = c
  /\ UNCHANGED <<list, late, agent, reading, closed>>

\* agent_thread_init returns.  Its frame is dead, and what a late thread finds
\* in it is the last value agent_thread_init wrote there.  It is kept here as
\* long as a thread has yet to look.
Return ==
  /\ init # NoConn
  /\ init' = NoConn /\ late' = (late \/ pc[init] = "start")
  /\ argument' = IF \E c \in Conn : pc[c] = "start" THEN argument ELSE Null
  /\ UNCHANGED <<list, node, pc, agent, reading, closed>>

\* The thread takes its argument.
Start(c) ==
  /\ Goto(c, "start", "add")
  /\ agent' = [agent EXCEPT ![c] = argument]
  /\ UNCHANGED <<list, node, init, argument, late, reading, closed>>

\* Slip: the first agent is not counted.
GrownByLater == IF head = Null THEN size ELSE size + 1

Grown == IF head = Null THEN 1 ELSE size + 1

\* add_new_agent_connection, and the call of read that follows.
Add(c) ==
  /\ Goto(c, "add", "serve")
  /\ LET p     == agent[c]
         ended == [node EXCEPT ![p].next = Null]
     IN  /\ \/ head = Null /\ head' = p /\ node' = ended
            \/ head # Null /\ UNCHANGED head /\ node' = [ended EXCEPT ![tail].next = p]
         /\ tail' = p /\ size' = Grown
         /\ reading' = [reading EXCEPT ![c] = node[p].con_fd]
  /\ UNCHANGED <<init, argument, late, agent, closed>>

-----------------------------------------------------------------------------
(* Serving an agent *)

\* read returns a message, a keep-alive with the agent's mac or a batch; the
\* next read asks the agent_t again for the descriptor.
Serve(c) ==
  /\ Goto(c, "serve", "serve")
  /\ reading[c] \in Conn \ closed
  /\ \/ node' = [node EXCEPT ![agent[c]].mac = MacOf[reading[c]]]
     \/ UNCHANGED node
  /\ reading' = [reading EXCEPT ![c] = node[agent[c]].con_fd]
  /\ UNCHANGED <<list, init, argument, late, agent, closed>>

\* The agent closes its end.
Close(c) ==
  /\ pc[c] # "none"
  /\ closed' = closed \cup {c}
  /\ UNCHANGED <<list, node, init, argument, late, pc, agent, reading>>

\* read returns 0, or -1 when the descriptor is not open.
Disconnect(c) ==
  /\ Goto(c, "serve", "remove")
  /\ reading[c] \in closed \cup {NoConn}
  /\ UNCHANGED <<list, node, init, argument, late, agent, reading, closed>>

-----------------------------------------------------------------------------
(* remove_agent_connection, with the mac in the thread's agent_t *)

\* The nodes with the thread's mac, by their distance from the head.
Matches(c) ==
  {n \in DOMAIN place : place[n] # Null /\ node[place[n]].mac = node[agent[c]].mac}

FirstMatch(c) == CHOOSE n \in Matches(c) : \A k \in Matches(c) : n <= k

\* Slip: what is unlinked is not freed.
FreeNothing(p, heap) == node' = heap

\* Slip: the pointer has moved on to the next node when the memory is freed.
FreeNext(p, heap) ==
  node' = IF heap[p].next = Null THEN heap ELSE [heap EXCEPT ![heap[p].next].used = FALSE]

\* free_agent.  The memory keeps its mac and its next; where con_fd was, the
\* allocator may put a value of its own.
Free(p, heap) ==
  \E fd \in {heap[p].con_fd, NoConn} :
    node' = [heap EXCEPT ![p].used = FALSE, ![p].con_fd = fd]

\* Slip: the tail stays where it was.
TailKept(found, prev) == tail

TailWithout(found, prev) == IF found # head /\ found = tail THEN prev ELSE tail

\* The branches for the head, the tail and the middle.
RemoveFrom(n) ==
  LET found == place[n]
      prev  == place[n - 1]
  IN  /\ size' = size - 1 /\ tail' = TailWithout(found, prev)
      /\ \/ found = head /\ head' = node[head].next /\ Free(found, node)
         \/ /\ found # head /\ UNCHANGED head
            /\ Free(found, [node EXCEPT ![prev].next =
                          IF found = tail THEN Null ELSE node[found].next])

\* Late threads may share an agent_t, whose second entry makes the chain a ring
\* that a search without a match never leaves, and whose second removal frees
\* what is free.  Nothing is said of what follows.
Breaks(c) ==
  IF Matches(c) = {}
  THEN \A n \in DOMAIN place : place[n] # Null
  ELSE ~ node[place[FirstMatch(c)]].used

Break(c) ==
  /\ Goto(c, "remove", "broken")
  /\ Breaks(c)
  /\ UNCHANGED <<list, node, init, argument, late, agent, reading, closed>>

\* The thread ends after it, and its variables with it.
Remove(c) ==
  /\ Goto(c, "remove", "done")
  /\ ~ Breaks(c)
  /\ IF Matches(c) = {} THEN UNCHANGED <<list, node>> ELSE RemoveFrom(FirstMatch(c))
  /\ agent' = [agent EXCEPT ![c] = Null]
  /\ reading' = [reading EXCEPT ![c] = NoConn]
  /\ UNCHANGED <<init, argument, late, closed>>

-----------------------------------------------------------------------------
(* agent_status over HTTP: check_status, on another thread, with no lock *)

\* The macs an answer "on" is justified for at the moment: those in the list
\* and those of agents that are connected, or whose thread has not ended yet.
\* (A thread can end while its agent is connected: the descriptor it read from
\* its agent_t, which another removal freed, was none.)
Connected(c) == pc[c] # "none" /\ (pc[c] = "done" => c \notin closed)
On == {node[p].mac : p \in Listed} \cup {MacOf[c] : c \in {d \in Conn : Connected(d)}}

\* Slip: the newest connection is looked at first.
AskTail(m) ==
  /\ asked = NoMac
  /\ asked' = m /\ curr' = tail /\ seen' = (m \in On)

Ask(m) ==
  /\ asked = NoMac
  /\ asked' = m /\ curr' = head /\ seen' = (m \in On)

\* One turn of check_status's loop; it ends with an answer, on or off.
Look ==
  /\ asked # NoMac /\ curr # Null
  /\ IF node[curr].mac = asked
     THEN asked' = NoMac /\ curr' = Null /\ seen' = FALSE
     ELSE asked' = asked /\ curr' = node[curr].next /\ seen' = seen

AnswerOff ==
  /\ asked # NoMac /\ curr = Null
  /\ asked' = NoMac /\ curr' = Null /\ seen' = FALSE

-----------------------------------------------------------------------------

\* A query that is being answered stays where it is meanwhile.
QueryWaits ==
  /\ seen' = (seen \/ (asked # NoMac /\ asked \in On'))
  /\ UNCHANGED query

Unbroken == \A c \in Conn : pc[c] # "broken"

Next ==
  \/ /\ Unbroken
     /\ Return \/ \E c \in Conn : \/ Accept(c) \/ Start(c) \/ Add(c) \/ Serve(c)
                                 \/ Close(c) \/ Disconnect(c) \/ Remove(c) \/ Break(c)
     /\ QueryWaits
  \/ /\ Unbroken
     /\ Look \/ AnswerOff \/ \E m \in Asked : Ask(m)
     /\ UNCHANGED <<list, node, init, argument, late, pc, agent, reading, closed>>

Spec == Init /\ [][Next]_vars

-----------------------------------------------------------------------------
(* Properties *)

TypeOK ==
  /\ head \in Address \cup {Null} /\ tail \in Address \cup {Null}
  /\ size \in IF late THEN Int ELSE Nat
  /\ node \in Seq([used : BOOLEAN, next : Address \cup {Null},
                  mac : Mac \cup {NoMac}, con_fd : Conn \cup {NoConn}])
  /\ Len(node) <= Cardinality(Conn)
  /\ init \in Conn \cup {NoConn} /\ argument \in Address \cup {Null}
  /\ late \in BOOLEAN
  /\ pc \in [Conn -> {"none", "start", "add", "serve", "remove", "done", "broken"}]
  /\ agent \in [Conn -> Address \cup {Null}]
  /\ reading \in [Conn -> Conn \cup {NoConn}]
  /\ closed \subseteq Conn
  /\ asked \in Mac \cup {NoMac} /\ curr \in Address \cup {Null}
  /\ seen \in BOOLEAN

\* size steps from the head the chain ends, every node on it is allocated and
\* met once, and the last one is the tail.
Consistent ==
  /\ \A n \in DOMAIN place : place[n] = Null <=> n >= size
  /\ \A n \in DOMAIN place : place[n] # Null =>
       /\ node[place[n]].used
       /\ \A m \in DOMAIN place : place[m] = place[n] => m = n
       /\ n = size - 1 => tail = place[n]

\* As long as no thread was late, add_new_agent_connection and
\* remove_agent_connection keep head, tail, the links and the counted size
\* consistent, whoever is removed from wherever.
ListIsSound == ~ late => Consistent

\* What is allocated is in the list or with the thread that is to enter it.
AllHeld ==
  {p \in DOMAIN node : node[p].used} =
    Listed \cup {agent[c]  : c \in {d \in Conn : pc[d] = "add"}}
           \cup {argument : c \in {d \in Conn : pc[d] = "start"}}

\* As long as no thread was late, no agent_t is lost, whichever node the
\* removal by mac freed in between.
NothingIsLost == ~ late => AllHeld

\* A disconnect frees no node twice and its search comes to an end, however
\* the namesakes free each other's nodes, unless some thread was late.
OnlyLateThreadsBreak ==
  \A c \in Conn : pc[c] = "broken" => late

\* check_status walks nodes that other threads unlink, free and use again
\* under its feet, yet as long as no thread was late it answers "on" only for
\* an agent that was in the list, or connected, at some moment of the query.
OnIsFounded ==
  ~ late /\ asked # NoMac /\ curr # Null /\ node[curr].mac = asked => seen

\* agent_list holds "all the agent threads" (server.c:98): a thread that
\* serves its agent has its agent_t in the list.  Refuted, no thread being late.
AllThreadsListed ==
  ~ late => \A c \in Conn : pc[c] = "serve" => agent[c] \in Listed

\* Every accepted connection gets a thread that handles it (server.c:243):
\* no two threads take the same argument.  Refuted for slow threads.
OwnArgument ==
  \A c, d \in Conn : pc[c] = "serve" /\ pc[d] = "serve" /\ agent[c] = agent[d] => c = d
=============================================================================
