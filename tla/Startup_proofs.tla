--------------------------- MODULE Startup_proofs ---------------------------
(***************************************************************************)
(* Proofs about Startup, for any configuration, command line, backlog and    *)
(* number of agents: what exists at each stage of main, whatever the agents, *)
(* ^C and the HTTP thread do meanwhile, and that an iterator stays inside    *)
(* its list.                                                                 *)
(***************************************************************************)
EXTENDS Startup, DataInduction, TLAPS

Making == {"malloc", "init"}
Running == {"output", "accept"}

\* Objects are made between "install" and "output", all five of them; the HTTP
\* thread and the agents' threads exist only behind that; and the handler is
\* past its cancellations only if the HTTP thread existed.
Progress ==
  /\ pc \in Stages
  /\ made \in 0..Objects
  /\ pc \notin Making \cup Running => made = 0
  /\ pc \in Making => made < Objects
  /\ pc \in Running => made = Objects
  /\ output # "none" => pc = "accept"
  /\ served # {} => pc = "accept"
  /\ handler = "free" => output # "none"

\* The length of the queues is sound from the moment init_blist took it.
LengthOK == q_max \in Nat /\ (made >= List => q_max > 0)

\* The two steps by which input that cannot be read breaks the process down
\* leave everything as it is, and end it.
LEMMA UnreadableEnds ==
  ReadBlank \/ LoadTooLong =>
    /\ ended = "no" /\ ended' = "crashed"
    /\ UNCHANGED <<files, option, pc, file, unread, list, entry, got, infos, settings>>
    /\ UNCHANGED <<installed, made, q_max, output, handler, bound, backlog, served>>
<1>1. CASE ReadBlank
  BY <1>1 DEF ReadBlank, At, End, input, reading, loading, built, net
<1>2. CASE LoadTooLong
  BY <1>2 DEF LoadTooLong, At, End, input, reading, loading, built, net
<1> QED
  BY <1>1, <1>2

LEMMA InitProgress == Init => Progress
BY DEF Init, Progress, Stages, Making, Running, Objects

LEMMA MainKeepsProgress == Progress /\ MainStep => Progress'
<1> SUFFICES ASSUME Progress, MainStep PROVE Progress'
  OBVIOUS
<1> USE DEF Progress, Stages, Making, Running, Objects
<1>1. CASE Bind
  BY <1>1 DEF Bind, Goto, At, input, reading, loading, built
<1>2. CASE Open
  BY <1>2 DEF Open, Goto, At, input, reading, loading, built, net
<1>3. CASE ReadLine
  BY <1>3 DEF ReadLine, Goto, At, input, reading, loading, built, net
<1>4. CASE Close
  BY <1>4 DEF Close, Goto, At, input, reading, loading, built, net
<1>5. CASE Apply
  BY <1>5 DEF Apply, Goto, At, input, reading, loading, built, net
<1>6. CASE Applied
  BY <1>6 DEF Applied, Goto, At, input, reading, loading, built, net
<1>7. CASE Arguments
  BY <1>7, Zenon DEF Arguments, Goto, At, input, reading, loading, built, net
<1>8. CASE Load
  BY <1>8 DEF Load, Goto, At, input, reading, loading, built, net
<1>9. CASE TakeField
  BY <1>9 DEF TakeField, Goto, At, input, reading, loading, built, net
<1>10. CASE Loaded
  BY <1>10 DEF Loaded, Goto, At, input, reading, loading, built, net
<1>11. CASE AllLoaded
  BY <1>11 DEF AllLoaded, Goto, At, input, reading, loading, built, net
<1>12. CASE Install
  BY <1>12 DEF Install, Goto, At, input, reading, loading, built, net
<1>13. CASE Malloc
  BY <1>13 DEF Malloc, Goto, At, input, reading, loading, built, net
<1>14. CASE MakeObject
  <2>1. pc = "init" /\ UNCHANGED <<output, handler, served>>
    BY <1>14 DEF MakeObject, Goto, At, net
  <2>2. \/ made' = made + 1 /\ pc' = IF made + 1 = 5 THEN "output" ELSE "malloc"
        \/ made' = made /\ pc' = pc
    BY <1>14 DEF MakeObject, Goto, At
  <2> QED
    BY <2>1, <2>2
<1>15. CASE StartOutput
  BY <1>15 DEF StartOutput, Goto, At, input, reading, loading, built, net
<1>16. CASE Accept
  BY <1>16 DEF Accept, Goto, At, input, reading, loading, built, net
<1>17. CASE ReadBlank \/ LoadTooLong
  BY <1>17, UnreadableEnds
<1> QED
  BY <1>1, <1>2, <1>3, <1>4, <1>5, <1>6, <1>7, <1>8, <1>9, <1>10, <1>11, <1>12, <1>13,
     <1>14, <1>15, <1>16, <1>17 DEF MainStep

LEMMA OthersKeepProgress ==
  Progress /\ (BindOutput \/ HandlerStep \/ Interrupt \/ \E a \in Agent : Connect(a))
    => Progress'
<1> SUFFICES ASSUME Progress,
                    BindOutput \/ HandlerStep \/ Interrupt \/ \E a \in Agent : Connect(a)
             PROVE  Progress'
  OBVIOUS
<1> USE DEF Progress, Stages, Making, Running
<1>1. CASE BindOutput
  BY <1>1 DEF BindOutput, built, net
<1>2. CASE HandlerLocks
  <2>1. \E o, where, next :
          HandlerLock(o, where, next) /\ next \in {"list", "pos", "cancel"}
    BY <1>2 DEF HandlerLocks
  <2>2. UNCHANGED <<pc, made, output, served>> /\ (handler' = "free" => handler = "free")
    BY <2>1 DEF HandlerLock, built, net
  <2> QED
    BY <2>2
<1>3. CASE HandlerCancels
  BY <1>3 DEF HandlerCancels, built, net
<1>4. CASE HandlerFrees
  BY <1>4 DEF HandlerFrees, built, net
<1>5. CASE Interrupt
  BY <1>5 DEF Interrupt, built, net
<1>6. CASE \E a \in Agent : Connect(a)
  BY <1>6 DEF Connect, built
<1> QED
  BY <1>1, <1>2, <1>3, <1>4, <1>5, <1>6 DEF HandlerStep

LEMMA StutterKeepsProgress == Progress /\ UNCHANGED vars => Progress'
BY DEF Progress, vars, built, net

LEMMA AlwaysProgress == Spec => []Progress
<1>1. Progress /\ [Next]_vars => Progress'
  BY MainKeepsProgress, OthersKeepProgress, StutterKeepsProgress DEF Next
<1> QED
  BY <1>1, InitProgress, PTL DEF Spec

\* Whatever agents, ^C and the HTTP thread do: no thread exists beside main's
\* before everything is loaded and every object initialised (server.c:80-131).
THEOREM ThreadsSeeEverything == Spec => []NoThreadSeesHalf
<1>1. Progress => NoThreadSeesHalf
  BY DEF Progress, NoThreadSeesHalf, Complete, Past, Running
<1> QED
  BY <1>1, AlwaysProgress, PTL

\* Whenever ^C comes: the handler gets past pthread_cancel only if main had got
\* as far as the HTTP thread (server.c:122, 176).
THEOREM EarlyInterruptsFail == Spec => []CleanExitOnlyWhenComplete
<1>1. Progress => CleanExitOnlyWhenComplete
  BY DEF Progress, CleanExitOnlyWhenComplete, Complete, Past, Running
<1> QED
  BY <1>1, AlwaysProgress, PTL
-----------------------------------------------------------------------------
(* The lists *)

ListType(S) == [items : Seq(S), size : Nat, position : Nat, counter : Nat]
GoodList(l, S) == l \in ListType(S) /\ ListOK(l)

LEMMA EmptyIsGood ==
  ASSUME NEW S
  PROVE  GoodList(EmptyList, S)
BY DEF GoodList, ListType, ListOK, EmptyList, NullPosition

LEMMA FilledIsGood ==
  ASSUME NEW S, NEW items \in Seq(S)
  PROVE  GoodList(Filled(items), S)
<1>1. Len(items) \in Nat /\ DOMAIN items = 1..Len(items)
  OBVIOUS
<1>2. items # <<>> => 1 \in DOMAIN items
  OBVIOUS
<1> QED
  BY <1>1, <1>2 DEF GoodList, ListType, ListOK, Filled, NullPosition

LEMMA AddItemIsGood ==
  ASSUME NEW S, NEW l, GoodList(l, S), NEW item \in S
  PROVE  GoodList(AddItem(l, item), S)
<1>1. l \in ListType(S) /\ ListOK(l)
  BY DEF GoodList
<1>2. l.items \in Seq(S) /\ l.size = Len(l.items) /\ l.counter \in 0..l.size
  BY <1>1 DEF ListType, ListOK
<1> DEFINE more == Append(l.items, item)
<1>3. more \in Seq(S) /\ Len(more) = l.size + 1 /\ more # <<>>
  BY <1>2, SMTT(30)
<1>4. DOMAIN more = 1..(l.size + 1) /\ l.size \in Nat
  BY <1>2, <1>3
<1>5. AddItem(l, item) = [items |-> more, size |-> l.size + 1,
                          position |-> IF l.size = 0 THEN 1 ELSE l.position,
                          counter |-> l.counter]
  BY DEF AddItem
<1>6. l.size # 0 => l.position \in 1..l.size
  <2>1. l.size # 0 => l.items # <<>> /\ DOMAIN l.items = 1..l.size
    BY <1>2
  <2> QED
    BY <1>1, <2>1 DEF ListOK
<1>7. (IF l.size = 0 THEN 1 ELSE l.position) \in DOMAIN more
  BY <1>4, <1>6
<1> HIDE DEF more
<1> QED
  BY <1>2, <1>3, <1>4, <1>5, <1>7 DEF GoodList, ListType, ListOK

LEMMA NextIsGood ==
  ASSUME NEW S, NEW l, GoodList(l, S)
  PROVE  /\ GoodList(AfterNext(l), S)
         /\ AfterNext(l).items = l.items
         /\ HasNext(l) => l.position \in DOMAIN l.items /\ NextItem(l) \in S
<1>1. /\ l \in ListType(S) /\ l.items \in Seq(S) /\ l.size = Len(l.items)
      /\ l.counter \in 0..l.size
      /\ l.position \in IF l.items = <<>> THEN {0} ELSE DOMAIN l.items
  BY DEF GoodList, ListType, ListOK, NullPosition
<1>2. DOMAIN l.items = 1..l.size /\ l.size \in Nat
  BY <1>1
<1>3. l.items # <<>> => l.size > 0
  BY <1>1
<1>4. CASE HasNext(l)
  <2>1. l.position \in 1..l.size /\ l.counter < l.size /\ l.items # <<>>
    BY <1>1, <1>2, <1>4 DEF HasNext, NullPosition
  <2>2. AfterNext(l) = [items |-> l.items, size |-> l.size,
                        position |-> IF l.position = l.size THEN 1 ELSE l.position + 1,
                        counter |-> l.counter + 1]
    BY <1>1, <1>4 DEF AfterNext, ListType
  <2>3. NextItem(l) \in S
    BY <1>1, <2>1, <1>2 DEF NextItem
  <2> QED
    BY <1>1, <1>2, <2>1, <2>2, <2>3 DEF GoodList, ListType, ListOK
<1>5. CASE ~ HasNext(l)
  <2>1. AfterNext(l) \in {l, [l EXCEPT !.counter = 0]}
    BY <1>5 DEF AfterNext
  <2>2. [l EXCEPT !.counter = 0] = [items |-> l.items, size |-> l.size,
                                    position |-> l.position, counter |-> 0]
    BY <1>1 DEF ListType
  <2>3. GoodList([l EXCEPT !.counter = 0], S)
    BY <1>1, <1>2, <2>2 DEF GoodList, ListType, ListOK, NullPosition
  <2> QED
    BY <1>5, <2>1, <2>2, <2>3
<1> QED
  BY <1>4, <1>5

-----------------------------------------------------------------------------
(* Types *)

Reads ==
  /\ files \in Configurations /\ option \in Options
  /\ file \in File
  /\ pc \in {"load", "field"} => file \in DataFile
  /\ pc = "apply" => file = "conf"
  /\ unread \in Seq(Parsed) /\ GoodList(list, Parsed)
  /\ file = "conf" => OneValueEach(unread) /\ OneValueEach(list.items)
  /\ settings \in [Known -> Int]

Loads ==
  /\ DOMAIN entry = {"key", "vals"} /\ entry.key \in Key /\ GoodList(entry.vals, Int)
  /\ got \in Seq(Int)
  /\ pc = "field" => Len(got) <= Needed(file)
  /\ infos \in [DataFile -> Seq(Parsed)]

Rest ==
  /\ installed \in BOOLEAN
  /\ q_max \in Nat /\ (made >= List => q_max > 0)
  /\ output \in {"none", "binding", "polling", "over"}
  /\ handler \in {"off", "logger", "list", "pos", "cancel", "free", "stuck"}
  /\ served \subseteq Agent /\ backlog \in Seq(Agent)
  /\ ended \in {"no", "bind_failed", "usage", "failure", "killed", "crashed", "finished"}

IInv == Progress /\ Reads /\ Loads /\ Rest

LEMMA InitTypes == Init => Reads /\ Loads /\ Rest
<1> SUFFICES ASSUME Init PROVE Reads /\ Loads /\ Rest
  OBVIOUS
<1>1. Reads
  <2>1. OneValueEach(<<>>) /\ OneValueEach(EmptyList.items)
    BY DEF OneValueEach, EmptyList
  <2> QED
    BY <2>1, EmptyIsGood, StartupAssumption DEF Init, Reads, File
<1>2. Loads
  <2>1. GoodList(EmptyList, Int)
    BY EmptyIsGood
  <2> QED
    BY <2>1, StartupAssumption DEF Init, Loads
<1>3. Rest
  <2>1. q_max \in Nat /\ ~ (made >= List)
    BY DEF Init, List
  <2>0. installed \in BOOLEAN
    BY Zenon DEF Init
  <2>2. served \subseteq Agent /\ backlog \in Seq(Agent)
    BY DEF Init
  <2>3. /\ output \in {"none", "binding", "polling", "over"}
        /\ handler \in {"off", "logger", "list", "pos", "cancel", "free", "stuck"}
        /\ ended \in {"no", "bind_failed", "usage", "failure", "killed", "crashed", "finished"}
    BY DEF Init
  <2> QED
    BY <2>0, <2>1, <2>2, <2>3 DEF Rest
<1> QED
  BY <1>1, <1>2, <1>3

\* A step that leaves the lists and settings alone.
LEMMA SameReads ==
  ASSUME Reads, UNCHANGED <<files, option, file, unread, list, settings>>,
         pc' \in {"load", "field"} => file \in DataFile,
         pc' = "apply" => file = "conf"
  PROVE  Reads'
BY DEF Reads, OneValueEach

\* A step that leaves the loading alone.
LEMMA SameLoads ==
  ASSUME Loads, UNCHANGED <<entry, got, infos>>, pc' # "field"
  PROVE  Loads'
BY DEF Loads

\* A step that leaves the threads and the network alone.
LEMMA SameRest ==
  ASSUME Rest, UNCHANGED <<installed, made, q_max, output, handler, served, backlog>>,
         ended' \in {ended, "bind_failed", "usage", "failure", "killed", "crashed", "finished"}
  PROVE  Rest'
BY DEF Rest

LEMMA OpenKeeps == IInv /\ Open => Reads' /\ Loads' /\ Rest'
<1> SUFFICES ASSUME IInv, Open PROVE Reads' /\ Loads' /\ Rest'
  OBVIOUS
<1>1. CASE files[file] = Missing
  <2>1. UNCHANGED <<files, option, file, unread, list, settings, entry, got, infos>>
    BY <1>1 DEF Open, input, loading
  <2>2. pc = "open" /\ pc' = pc
    BY <1>1 DEF Open, At
  <2>3. Rest'
    BY <1>1, SameRest DEF Open, End, IInv, built, net
  <2> QED
    BY <2>1, <2>2, <2>3, SameReads, SameLoads DEF IInv
<1>2. CASE files[file] # Missing
  <2>1. pc' = "read" /\ unread' = files[file] /\ list' = EmptyList
    BY <1>2 DEF Open, Goto
  <2>2. UNCHANGED <<files, option, file, settings, entry, got, infos>>
    BY <1>2 DEF Open, input, loading
  <2>3. files[file] \in Seq(Parsed) /\ (file = "conf" => OneValueEach(files[file]))
    BY <1>2, StartupAssumption DEF IInv, Reads
  <2>4. GoodList(EmptyList, Parsed) /\ OneValueEach(EmptyList.items)
    BY EmptyIsGood DEF OneValueEach, EmptyList
  <2>5. Reads'
    BY <2>1, <2>2, <2>3, <2>4 DEF IInv, Reads
  <2>6. Rest'
    BY <1>2, SameRest DEF Open, IInv, built, net
  <2> QED
    BY <2>1, <2>2, <2>5, <2>6, SameLoads DEF IInv
<1> QED
  BY <1>1, <1>2

LEMMA ReadLineKeeps == IInv /\ ReadLine => Reads' /\ Loads' /\ Rest'
<1> SUFFICES ASSUME IInv, ReadLine PROVE Reads' /\ Loads' /\ Rest'
  OBVIOUS
<1> DEFINE line == Head(unread)
<1>1. unread \in Seq(Parsed) /\ unread # <<>>
  BY DEF IInv, Reads, ReadLine
<1>2. line \in Parsed /\ Tail(unread) \in Seq(Parsed)
  BY <1>1
<1>3. pc' = "read" /\ unread' = Tail(unread)
  BY DEF ReadLine, Goto
<1>4. list' \in {list, AddItem(list, line)}
  BY DEF ReadLine
<1>5. GoodList(list', Parsed)
  BY <1>2, <1>4, AddItemIsGood DEF IInv, Reads
<1>6. ASSUME file = "conf"
      PROVE  OneValueEach(unread') /\ OneValueEach(list'.items)
  <2>1. OneValueEach(unread) /\ OneValueEach(list.items)
    BY <1>6 DEF IInv, Reads
  <2>2. \A n \in DOMAIN Tail(unread) : n + 1 \in DOMAIN unread /\ Tail(unread)[n] = unread[n + 1]
    BY <1>1
  <2>3. OneValueEach(unread')
    BY <2>1, <2>2, <1>3 DEF OneValueEach
  <2>4. 1 \in DOMAIN unread /\ line = unread[1]
    BY <1>1
  <2>5. list.items \in Seq(Parsed)
    BY DEF IInv, Reads, GoodList, ListType
  <2>6. \A n \in DOMAIN Append(list.items, line) :
          \/ n \in DOMAIN list.items /\ Append(list.items, line)[n] = list.items[n]
          \/ Append(list.items, line)[n] = line
    BY <2>5, <1>2
  <2>7. OneValueEach(AddItem(list, line).items)
    BY <2>1, <2>4, <2>6 DEF OneValueEach, AddItem
  <2> QED
    BY <2>1, <2>3, <2>7, <1>4
<1>7. UNCHANGED <<files, option, file, settings, entry, got, infos>>
  BY DEF ReadLine, input, loading
<1>8. Reads'
  BY <1>2, <1>3, <1>5, <1>6, <1>7 DEF IInv, Reads
<1>9. Rest'
  BY SameRest DEF ReadLine, IInv, built, net
<1> QED
  BY <1>3, <1>7, <1>8, <1>9, SameLoads DEF IInv

LEMMA ApplyKeeps == IInv /\ Apply => Reads' /\ Loads' /\ Rest'
<1> SUFFICES ASSUME IInv, Apply PROVE Reads' /\ Loads' /\ Rest'
  OBVIOUS
<1> DEFINE line == NextItem(list)
<1>1. HasNext(list) /\ pc = "apply" /\ pc' = pc /\ list' = AfterNext(list)
  BY DEF Apply, At
<1>2. /\ GoodList(list', Parsed) /\ list'.items = list.items
      /\ list.position \in DOMAIN list.items /\ line \in Parsed
  BY <1>1, NextIsGood DEF IInv, Reads
<1>3. UNCHANGED <<files, option, file, unread, entry, got, infos>>
  BY DEF Apply, input, loading
<1>4. settings' \in [Known -> Int]
  <2>1. CASE line.key \in Known /\ file = "conf"
    <3>1. Len(line.vals) = 1 /\ line.vals \in Seq(Int)
      BY <2>1, <1>2 DEF IInv, Reads, OneValueEach, NextItem, Parsed
    <3>2. line.vals[1] \in Int
      BY <3>1
    <3> QED
      BY <2>1, <3>2 DEF Apply, SetTo, IInv, Reads
  <2>2. CASE line.key \notin Known
    BY <2>2 DEF Apply, SetTo, IInv, Reads
  <2>3. file = "conf"
    BY <1>1 DEF IInv, Reads
  <2> QED
    BY <2>1, <2>2, <2>3
<1>5. Reads'
  BY <1>1, <1>2, <1>3, <1>4 DEF IInv, Reads, OneValueEach
<1>6. Rest'
  BY SameRest DEF Apply, End, IInv, built, net
<1> QED
  BY <1>1, <1>3, <1>5, <1>6, SameLoads DEF IInv

\* The steps of main that touch no list.
LEMMA PlainStepsKeep ==
  IInv /\ (Close \/ Applied \/ Install \/ Malloc \/ MakeObject \/ StartOutput \/ Accept \/ Bind)
    => Reads' /\ Loads' /\ Rest'
<1> SUFFICES ASSUME IInv,
                    Close \/ Applied \/ Install \/ Malloc \/ MakeObject \/ StartOutput
                          \/ Accept \/ Bind
             PROVE  Reads' /\ Loads' /\ Rest'
  OBVIOUS
<1>1. UNCHANGED <<files, option, file, unread, list, settings, entry, got, infos>>
  BY DEF Close, Applied, Install, Malloc, MakeObject, StartOutput, Accept, Bind,
         input, reading, loading
<1>2. /\ pc' \in {"load", "field"} => file \in DataFile
      /\ pc' = "apply" => file = "conf"
      /\ pc' # "field"
  <2>1. CASE Close
    BY <2>1 DEF Close, Goto, At, IInv, Reads, File
  <2>2. CASE MakeObject
    BY <2>2 DEF MakeObject, Goto, At
  <2>3. CASE Applied \/ Install \/ Malloc \/ StartOutput \/ Accept \/ Bind
    BY <2>3 DEF Applied, Install, Malloc, StartOutput, Accept, Bind, Goto, At
  <2> QED
    BY <2>1, <2>2, <2>3
<1>3. Rest'
  <2>1. CASE Close \/ Applied \/ Malloc \/ Bind
    BY <2>1, SameRest DEF Close, Applied, Malloc, Bind, End, IInv, built, net
  <2>2. CASE Install
    <3>1. installed' \in BOOLEAN
      BY <2>2 DEF Install
    <3>2. UNCHANGED <<made, q_max, output, handler, served, backlog, ended>>
      BY <2>2 DEF Install, net
    <3> QED
      BY <3>1, <3>2 DEF IInv, Rest
  <2>3. CASE MakeObject
    <3>1. UNCHANGED <<installed, output, handler, served, backlog>>
      BY <2>3 DEF MakeObject, net
    <3>2. ended' \in {ended, "failure"}
      BY <2>3 DEF MakeObject, End
    <3>3. /\ made \in Nat /\ q_max \in Nat /\ (made >= 4 => q_max > 0)
      BY DEF IInv, Rest, Progress, List, Objects
    <3>4. QueueLength(settings["MAL"]) \in Nat /\ QueueLength(settings["MAL"]) > 0
      BY StartupAssumption DEF IInv, Reads, QueueLength
    <3>5. \/ made' = made /\ q_max' = q_max
          \/ /\ made' = made + 1
             /\ q_max' = IF made + 1 = 4 THEN QueueLength(settings["MAL"]) ELSE q_max
      BY <2>3 DEF MakeObject, List
    <3>6. q_max' \in Nat /\ (made' >= List => q_max' > 0)
      BY <3>3, <3>4, <3>5 DEF List
    <3> QED
      BY <3>1, <3>2, <3>6 DEF IInv, Rest
  <2>4. CASE StartOutput
    <3>1. output' = "binding"
      BY <2>4 DEF StartOutput
    <3>2. UNCHANGED <<installed, made, q_max, handler, served, backlog, ended>>
      BY <2>4 DEF StartOutput, built, net
    <3> QED
      BY <3>1, <3>2 DEF IInv, Rest
  <2>5. CASE Accept
    <3>1. backlog \in Seq(Agent) /\ backlog # <<>>
      BY <2>5 DEF Accept, IInv, Rest
    <3>2. Head(backlog) \in Agent /\ Tail(backlog) \in Seq(Agent)
      BY <3>1
    <3>3. served' \subseteq Agent /\ backlog' \in Seq(Agent)
      BY <2>5, <3>2 DEF Accept, IInv, Rest
    <3>4. UNCHANGED <<installed, made, q_max, output, handler, ended>>
      BY <2>5 DEF Accept, built
    <3> QED
      BY <3>3, <3>4 DEF IInv, Rest
  <2> QED
    BY <2>1, <2>2, <2>3, <2>4, <2>5
<1> QED
  BY <1>1, <1>2, <1>3, SameReads, SameLoads DEF IInv

LEMMA ArgumentsKeep == IInv /\ Arguments => Reads' /\ Loads' /\ Rest'
<1> SUFFICES ASSUME IInv, Arguments PROVE Reads' /\ Loads' /\ Rest'
  OBVIOUS
<1>1. /\ UNCHANGED <<files, option, unread, list, entry, got, infos>> /\ file' = "agents"
      /\ UNCHANGED <<installed, made, q_max, output, handler, served, backlog>>
  BY Zenon DEF Arguments, input, loading, built, net
<1>2. option.kind \in {"none", "port", "help", "unknown"}
      /\ (option.kind = "port" => option.port \in Int)
  BY StartupAssumption DEF IInv, Reads
<1>3. pc' \in {"open", "arguments"}
  BY <1>2 DEF Arguments, Goto, At
<1>4. settings' \in {settings, [settings EXCEPT !["port"] = option.port]}
      /\ (option.kind # "port" => settings' = settings)
  BY <1>2 DEF Arguments
<1>5. settings' \in [Known -> Int]
  BY <1>2, <1>4 DEF IInv, Reads
<1>6. ended' \in {ended, "usage", "failure"}
  BY <1>2 DEF Arguments, End
<1>7. Reads'
  BY <1>1, <1>3, <1>5 DEF IInv, Reads, File, DataFile
<1> QED
  BY <1>1, <1>3, <1>6, <1>7, SameLoads, SameRest DEF IInv

LEMMA LoadKeeps == IInv /\ Load => Reads' /\ Loads' /\ Rest'
<1> SUFFICES ASSUME IInv, Load PROVE Reads' /\ Loads' /\ Rest'
  OBVIOUS
<1> DEFINE line == NextItem(list)
<1>1. /\ HasNext(list) /\ list' = AfterNext(list) /\ pc = "load" /\ pc' = "field" /\ got' = <<>>
      /\ entry' = [key |-> line.key, vals |-> Filled(line.vals)]
  BY DEF Load, More, Goto, At
<1>2. GoodList(list', Parsed) /\ list'.items = list.items /\ line \in Parsed
  BY <1>1, NextIsGood DEF IInv, Reads
<1>3. UNCHANGED <<files, option, file, unread, settings, infos>>
  BY DEF Load, input
<1>4. Reads'
  BY <1>1, <1>2, <1>3 DEF IInv, Reads, OneValueEach
<1>5. line.key \in Key /\ GoodList(Filled(line.vals), Int)
  BY <1>2, FilledIsGood DEF Parsed
<1>6. entry'.key \in Key /\ GoodList(entry'.vals, Int) /\ DOMAIN entry' = {"key", "vals"}
  BY <1>1, <1>5
<1>7. got' \in Seq(Int) /\ Len(got') = 0 /\ Needed(file) >= 0
  BY <1>1 DEF Needed
<1>8. Loads'
  BY <1>3, <1>6, <1>7 DEF IInv, Loads, Needed
<1>9. Rest'
  BY SameRest DEF Load, IInv, built, net
<1> QED
  BY <1>4, <1>8, <1>9

LEMMA TakeFieldKeeps == IInv /\ TakeField => Reads' /\ Loads' /\ Rest'
<1> SUFFICES ASSUME IInv, TakeField PROVE Reads' /\ Loads' /\ Rest'
  OBVIOUS
<1>1. /\ pc = "field" /\ pc' = pc /\ Len(got) < Needed(file)
      /\ entry' = [entry EXCEPT !.vals = AfterNext(entry.vals)]
      /\ UNCHANGED <<files, option, file, unread, list, settings, infos>>
  BY DEF TakeField, At, input, reading
<1>2. /\ GoodList(AfterNext(entry.vals), Int)
      /\ HasNext(entry.vals) => NextItem(entry.vals) \in Int
  BY NextIsGood DEF IInv, Loads
<1>3. DOMAIN entry' = {"key", "vals"} /\ entry'.key \in Key /\ GoodList(entry'.vals, Int)
  <2>1. DOMAIN entry = {"key", "vals"} /\ entry.key \in Key
    BY DEF IInv, Loads
  <2>2. DOMAIN entry' = {"key", "vals"} /\ entry'.key = entry.key
        /\ entry'.vals = AfterNext(entry.vals)
    BY <1>1, <2>1
  <2> QED
    BY <2>1, <2>2, <1>2
<1>4. got' \in Seq(Int) /\ Len(got') <= Needed(file)
  <2>1. got \in Seq(Int) /\ Needed(file) \in Nat
    BY DEF IInv, Loads, Needed
  <2>2. CASE HasNext(entry.vals)
    <3>1. got' = Append(got, NextItem(entry.vals)) /\ NextItem(entry.vals) \in Int
      BY <1>2, <2>2 DEF TakeField
    <3>2. got' \in Seq(Int) /\ Len(got') = Len(got) + 1
      BY <2>1, <3>1
    <3>3. Len(got) \in Nat
      BY <2>1
    <3> QED
      BY <1>1, <2>1, <3>2, <3>3
  <2>3. CASE ~ HasNext(entry.vals)
    BY <1>1, <2>1, <2>3 DEF TakeField
  <2> QED
    BY <2>2, <2>3
<1>5. Loads'
  BY <1>1, <1>3, <1>4 DEF IInv, Loads, Needed
<1>6. Reads'
  BY <1>1, SameReads DEF IInv, Reads
<1>7. Rest'
  BY SameRest DEF TakeField, End, IInv, built, net
<1> QED
  BY <1>5, <1>6, <1>7

LEMMA LoadedKeeps == IInv /\ (Loaded \/ AllLoaded) => Reads' /\ Loads' /\ Rest'
<1> SUFFICES ASSUME IInv, Loaded \/ AllLoaded PROVE Reads' /\ Loads' /\ Rest'
  OBVIOUS
<1>1. CASE Loaded
  <2>1. /\ pc = "field" /\ pc' = "load" /\ UNCHANGED got
        /\ entry' \in {entry, [entry EXCEPT !.vals = AfterNext(entry.vals)]}
        /\ infos' = [infos EXCEPT ![file] = Append(infos[file], [key |-> entry.key, vals |-> got])]
        /\ UNCHANGED <<files, option, file, unread, list, settings>>
    BY <1>1 DEF Loaded, Goto, At, input, reading, loading
  <2>2. file \in DataFile /\ infos[file] \in Seq(Parsed)
    BY <2>1 DEF IInv, Reads, Loads
  <2>3. [key |-> entry.key, vals |-> got] \in Parsed
    BY DEF IInv, Loads, Parsed
  <2>4. Append(infos[file], [key |-> entry.key, vals |-> got]) \in Seq(Parsed)
    BY <2>2, <2>3
  <2>5. infos' \in [DataFile -> Seq(Parsed)]
    BY <2>1, <2>4 DEF IInv, Loads
  <2>6. Loads'
    <3>1. entry'.key \in Key /\ GoodList(entry'.vals, Int) /\ DOMAIN entry' = {"key", "vals"}
      <4>1. entry.key \in Key /\ GoodList(entry.vals, Int) /\ DOMAIN entry = {"key", "vals"}
        BY DEF IInv, Loads
      <4>2. GoodList(AfterNext(entry.vals), Int)
        BY <4>1, NextIsGood
      <4> QED
        BY <2>1, <4>1, <4>2
    <3> QED
      BY <2>1, <2>5, <3>1 DEF IInv, Loads
  <2>7. Reads'
    BY <2>1, <2>2, SameReads DEF IInv
  <2>8. Rest'
    BY <1>1, SameRest DEF Loaded, IInv, built, net
  <2> QED
    BY <2>6, <2>7, <2>8
<1>2. CASE AllLoaded
  <2>1. /\ pc' \in {"install", "open"} /\ file' \in {"rooms", "beacons"}
        /\ UNCHANGED <<files, option, unread, list, settings, entry, got, infos>>
    BY <1>2 DEF AllLoaded, Goto, At, NextFile, input, loading
  <2>2. Reads'
    BY <2>1 DEF IInv, Reads, File, DataFile
  <2>3. Rest'
    BY <1>2, SameRest DEF AllLoaded, IInv, built, net
  <2> QED
    BY <2>1, <2>2, <2>3, SameLoads DEF IInv
<1> QED
  BY <1>1, <1>2

\* The HTTP thread, the handler and the agents touch neither lists nor pc.
LEMMA OthersKeepTypes ==
  IInv /\ (BindOutput \/ HandlerStep \/ Interrupt \/ \E a \in Agent : Connect(a))
    => Reads' /\ Loads' /\ Rest'
<1> SUFFICES ASSUME IInv,
                    BindOutput \/ HandlerStep \/ Interrupt \/ \E a \in Agent : Connect(a)
             PROVE  Reads' /\ Loads' /\ Rest'
  OBVIOUS
<1>1. CASE BindOutput
  <2>1. UNCHANGED <<pc, input, reading, loading, infos, settings>>
    BY <1>1 DEF BindOutput
  <2>2. UNCHANGED <<installed, made, q_max, handler, served, backlog, ended>>
    BY <1>1 DEF BindOutput, built, net
  <2>3. output' \in {"polling", "over"}
    BY <1>1 DEF BindOutput
  <2> QED
    BY <2>1, <2>2, <2>3 DEF IInv, Reads, Loads, Rest, OneValueEach, input, reading, loading
<1>2. CASE HandlerStep \/ Interrupt
  <2>1. /\ UNCHANGED <<pc, input, reading, loading, infos, settings>>
        /\ UNCHANGED <<built, output, net>>
        /\ handler' \in {handler, "logger", "list", "pos", "cancel", "free", "stuck"}
        /\ ended' \in {ended, "killed", "crashed", "finished"}
    <3>1. CASE HandlerLocks
      BY <3>1 DEF HandlerLocks, HandlerLock, End
    <3>2. CASE HandlerCancels
      BY <3>2 DEF HandlerCancels, End
    <3>3. CASE HandlerFrees
      BY <3>3 DEF HandlerFrees, End
    <3>4. CASE Interrupt
      BY <3>4 DEF Interrupt, End
    <3> QED
      BY <1>2, <3>1, <3>2, <3>3, <3>4 DEF HandlerStep
  <2>2. Reads' /\ Loads'
    BY <2>1 DEF IInv, Reads, Loads, OneValueEach, input, reading, loading
  <2>3. Rest'
    BY <2>1 DEF IInv, Rest, built, net
  <2> QED
    BY <2>2, <2>3
<1>3. CASE \E a \in Agent : Connect(a)
  <2>1. PICK a \in Agent : Connect(a)
    BY <1>3
  <2>2. UNCHANGED <<pc, input, reading, loading, infos, settings>>
    BY <2>1 DEF Connect
  <2>3. UNCHANGED <<installed, made, q_max, output, handler, served, ended>>
    BY <2>1 DEF Connect, built
  <2>4. backlog' \in Seq(Agent)
    BY <2>1 DEF Connect, IInv, Rest
  <2>5. Reads' /\ Loads'
    BY <2>2 DEF IInv, Reads, Loads, OneValueEach, input, reading, loading
  <2>6. Rest'
    BY <2>3, <2>4 DEF IInv, Rest
  <2> QED
    BY <2>5, <2>6
<1> QED
  BY <1>1, <1>2, <1>3

LEMMA AlwaysIInv == Spec => []IInv
<1>1. Init => IInv
  BY InitProgress, InitTypes DEF IInv
<1>2. IInv /\ [Next]_vars => IInv'
  <2> SUFFICES ASSUME IInv, [Next]_vars PROVE IInv'
    OBVIOUS
  <2>1. Progress'
    BY MainKeepsProgress, OthersKeepProgress, StutterKeepsProgress DEF Next, IInv
  <2>2. CASE MainStep
    <3>1. CASE ReadBlank \/ LoadTooLong
      <4>1. Reads' /\ Loads'
        BY <3>1, UnreadableEnds DEF IInv, Reads, Loads, OneValueEach
      <4>2. Rest'
        BY <3>1, UnreadableEnds DEF IInv, Rest
      <4> QED
        BY <2>1, <4>1, <4>2 DEF IInv
    <3> QED
      BY <2>2, <3>1, PlainStepsKeep, OpenKeeps, ReadLineKeeps, ApplyKeeps, ArgumentsKeep,
         LoadKeeps, TakeFieldKeeps, LoadedKeeps, <2>1 DEF MainStep, IInv
  <2>3. CASE BindOutput \/ HandlerStep \/ Interrupt \/ \E a \in Agent : Connect(a)
    BY <2>3, <2>1, OthersKeepTypes DEF IInv
  <2>4. CASE UNCHANGED vars
    <3>1. UNCHANGED <<pc, input, reading, loading, infos, settings>>
          /\ UNCHANGED <<built, output, handler, net, ended>>
      BY <2>4 DEF vars
    <3>2. Reads' /\ Loads'
      BY <3>1 DEF IInv, Reads, Loads, OneValueEach, input, reading, loading
    <3>3. Rest'
      BY <3>1 DEF IInv, Rest, built, net
    <3> QED
      BY <2>1, <3>2, <3>3 DEF IInv
  <2> QED
    BY <2>2, <2>3, <2>4 DEF Next
<1> QED
  BY <1>1, <1>2, PTL DEF Spec

\* For any input: every iterator stays inside its list, whatever lines are
\* dropped or too short, and list->q_max is positive once init_blist set it.
THEOREM TypeCorrect == Spec => []TypeOK
<1>1. IInv => TypeOK
  BY DEF IInv, Progress, Reads, Loads, Rest, GoodList, TypeOK
<1> QED
  BY <1>1, AlwaysIInv, PTL

-----------------------------------------------------------------------------
(* Where a line comes from *)

FromFile(line) == \E n \in DOMAIN files[file] : line = files[file][n]

\* While a file is read and used, what is unread and what is in the list are
\* lines of it, the list without those it drops; and as many fields were taken
\* from the line being loaded as its iterator has gone.
Sources ==
  /\ pc \in {"read", "apply", "load", "field"} =>
       /\ files[file] # Missing
       /\ \A n \in DOMAIN unread : FromFile(unread[n])
       /\ \A n \in DOMAIN list.items : FromFile(list.items[n]) /\ ~ Dropped(list.items[n])
  /\ pc = "field" /\ ended = "no" =>
       /\ entry.vals.counter = Len(got)
       /\ \E n \in DOMAIN list.items : entry.vals.items = list.items[n].vals

LEMMA SameSources ==
  ASSUME Sources, UNCHANGED <<files, file, unread, entry, got>>, list'.items = list.items,
         ended = "no" \/ UNCHANGED ended,
         \/ pc' = pc
         \/ pc' \notin {"read", "apply", "load", "field"}
         \/ pc \in {"read", "apply", "load", "field"} /\ pc' \in {"read", "apply", "load"}
  PROVE  Sources'
BY DEF Sources, FromFile, Dropped

LEMMA ReadLineSources == IInv /\ Sources /\ ReadLine => Sources'
<1> SUFFICES ASSUME IInv, Sources, ReadLine PROVE Sources'
  OBVIOUS
<1> DEFINE line == Head(unread)
<1>1. /\ pc = "read" /\ pc' = "read" /\ unread' = Tail(unread)
      /\ UNCHANGED <<files, file>>
  BY DEF ReadLine, Goto, At, input
<1>2. unread \in Seq(Parsed) /\ unread # <<>> /\ list.items \in Seq(Parsed)
  BY DEF IInv, Reads, ReadLine, GoodList, ListType
<1>3. FromFile(line)
  <2>1. 1 \in DOMAIN unread /\ line = unread[1]
    BY <1>2
  <2> QED
    BY <1>1, <2>1 DEF Sources
<1>4. \A n \in DOMAIN unread' : FromFile(unread'[n])
  <2>1. \A n \in DOMAIN Tail(unread) : n + 1 \in DOMAIN unread /\ Tail(unread)[n] = unread[n + 1]
    BY <1>2
  <2> QED
    BY <1>1, <2>1 DEF Sources
<1>5. \A n \in DOMAIN list'.items : FromFile(list'.items[n]) /\ ~ Dropped(list'.items[n])
  <2>1. CASE Dropped(line)
    BY <1>1, <2>1 DEF ReadLine, Sources
  <2>2. CASE ~ Dropped(line)
    <3>1. list'.items = Append(list.items, line)
      BY <2>2 DEF ReadLine, AddItem
    <3>2. line \in Parsed
      BY <1>2
    <3>3. \A n \in DOMAIN Append(list.items, line) :
            \/ n \in DOMAIN list.items /\ Append(list.items, line)[n] = list.items[n]
            \/ Append(list.items, line)[n] = line
      BY <1>2, <3>2
    <3> QED
      BY <1>1, <1>3, <2>2, <3>1, <3>3 DEF Sources
  <2> QED
    BY <2>1, <2>2
<1> QED
  BY <1>1, <1>4, <1>5 DEF Sources, FromFile, Dropped

LEMMA FieldSources == IInv /\ Sources /\ (Load \/ TakeField) => Sources'
<1> SUFFICES ASSUME IInv, Sources, Load \/ TakeField PROVE Sources'
  OBVIOUS
<1>1. CASE Load
  <2> DEFINE line == NextItem(list)
  <2>1. /\ pc = "load" /\ pc' = "field" /\ got' = <<>> /\ HasNext(list)
        /\ list' = AfterNext(list) /\ UNCHANGED <<files, file, unread>>
        /\ entry' = [key |-> line.key, vals |-> Filled(line.vals)]
    BY <1>1 DEF Load, More, Goto, At, input
  <2>2. list'.items = list.items /\ list.position \in DOMAIN list.items
    BY <2>1, NextIsGood DEF IInv, Reads
  <2>3. entry'.vals.counter = 0 /\ entry'.vals.items = list.items[list.position].vals
    BY <2>1 DEF Filled, NextItem
  <2>4. Len(got') = 0
    BY <2>1
  <2> QED
    BY <2>1, <2>2, <2>3, <2>4 DEF Sources, FromFile, Dropped
<1>2. CASE TakeField
  <2>1. /\ pc = "field" /\ pc' = pc /\ UNCHANGED <<files, file, unread, list>>
        /\ entry' = [entry EXCEPT !.vals = AfterNext(entry.vals)]
    BY <1>2 DEF TakeField, At, input, reading
  <2>2. GoodList(entry.vals, Int) /\ entry'.vals = AfterNext(entry.vals)
    BY <2>1 DEF IInv, Loads
  <2>3. entry'.vals.items = entry.vals.items
    BY <2>2, NextIsGood
  <2>4. CASE HasNext(entry.vals)
    <3>1. got \in Seq(Int) /\ got' = Append(got, NextItem(entry.vals)) /\ NextItem(entry.vals) \in Int
      BY <1>2, <2>2, <2>4, NextIsGood DEF TakeField, IInv, Loads
    <3>2. Len(got') = Len(got) + 1
      BY <3>1
    <3>3. entry'.vals.counter = entry.vals.counter + 1
      BY <2>2, <2>4 DEF AfterNext, GoodList, ListType
    <3>4. ended = "no"
      BY <1>2 DEF TakeField, At
    <3> QED
      BY <2>1, <2>3, <3>2, <3>3, <3>4 DEF Sources, FromFile, Dropped
  <2>5. CASE ~ HasNext(entry.vals)
    <3>1. ended' = "crashed"
      BY <1>2, <2>5 DEF TakeField, End
    <3> QED
      BY <2>1, <3>1 DEF Sources, FromFile, Dropped
  <2> QED
    BY <2>4, <2>5
<1> QED
  BY <1>1, <1>2

LEMMA SourcesInductive == IInv /\ Sources /\ [Next]_vars => Sources'
<1> SUFFICES ASSUME IInv, Sources, [Next]_vars PROVE Sources'
  OBVIOUS
<1> DEFINE used == {"read", "apply", "load", "field"}
<1>1. CASE Open
  <2>1. CASE files[file] = Missing
    <3>1. pc' = pc /\ UNCHANGED <<files, file, unread, list, entry, got>> /\ ended = "no"
      BY <1>1, <2>1 DEF Open, At, input, loading
    <3> QED
      BY <3>1, SameSources
  <2>2. CASE files[file] # Missing
    <3>1. pc' = "read" /\ unread' = files[file] /\ list' = EmptyList /\ UNCHANGED <<files, file>>
      BY <1>1, <2>2 DEF Open, Goto, input
    <3>2. DOMAIN list'.items = {}
      BY <3>1 DEF EmptyList
    <3> QED
      BY <2>2, <3>1, <3>2 DEF Sources, FromFile
  <2> QED
    BY <2>1, <2>2
<1>2. CASE ReadLine
  BY <1>2, ReadLineSources
<1>3. CASE Close \/ Applied \/ Install \/ Malloc \/ MakeObject \/ StartOutput \/ Accept \/ Bind
  <2>1. UNCHANGED <<files, file, unread, list, entry, got>>
    BY <1>3 DEF Close, Applied, Install, Malloc, MakeObject, StartOutput, Accept, Bind,
                input, reading, loading
  <2>2. /\ ended = "no"
        /\ \/ pc' = pc \/ pc' \notin used
           \/ pc \in used /\ pc' \in {"read", "apply", "load"}
    <3>1. CASE MakeObject
      BY <3>1 DEF MakeObject, Goto, At
    <3>2. CASE Close \/ Applied \/ Install \/ Malloc \/ StartOutput \/ Accept \/ Bind
      BY <3>2 DEF Close, Applied, Install, Malloc, StartOutput, Accept, Bind, Goto, At
    <3> QED
      BY <1>3, <3>1, <3>2
  <2> QED
    BY <2>1, <2>2, SameSources
<1>4. CASE Apply
  <2>1. /\ pc = "apply" /\ pc' = pc /\ UNCHANGED <<files, file, unread, entry, got>>
        /\ list' = AfterNext(list) /\ ended = "no"
    BY <1>4 DEF Apply, At, input, loading
  <2>2. list'.items = list.items
    BY <2>1, NextIsGood DEF IInv, Reads
  <2> QED
    BY <2>1, <2>2, SameSources
<1>5. CASE Arguments
  <2>1. pc' \in {"open", "arguments"}
    <3>1. option.kind \in {"none", "port", "help", "unknown"}
      BY StartupAssumption DEF IInv, Reads
    <3> QED
      BY <1>5, <3>1 DEF Arguments, Goto, At
  <2> QED
    BY <2>1 DEF Sources
<1>6. CASE Load \/ TakeField
  BY <1>6, FieldSources
<1>7. CASE Loaded
  <2>1. pc = "field" /\ pc' = "load" /\ UNCHANGED <<files, file, unread, list>>
    BY <1>7 DEF Loaded, Goto, At, input, reading
  <2> QED
    BY <2>1 DEF Sources, FromFile, Dropped
<1>8. CASE AllLoaded
  <2>1. pc' \in {"install", "open"}
    BY <1>8 DEF AllLoaded, Goto, At
  <2> QED
    BY <2>1 DEF Sources
<1>9. CASE BindOutput \/ HandlerStep \/ Interrupt \/ \E a \in Agent : Connect(a)
  <2>1. ended = "no" /\ UNCHANGED <<pc, input, reading, loading>>
    <3>1. CASE BindOutput
      BY <3>1 DEF BindOutput
    <3>2. CASE HandlerLocks
      BY <3>2 DEF HandlerLocks, HandlerLock, In
    <3>3. CASE HandlerCancels \/ HandlerFrees
      BY <3>3 DEF HandlerCancels, HandlerFrees, In
    <3>4. CASE Interrupt
      BY <3>4 DEF Interrupt
    <3>5. CASE \E a \in Agent : Connect(a)
      BY <3>5 DEF Connect
    <3> QED
      BY <1>9, <3>1, <3>2, <3>3, <3>4, <3>5 DEF HandlerStep
  <2> QED
    BY <2>1, SameSources DEF input, reading, loading
<1>10. CASE UNCHANGED vars
  <2>1. UNCHANGED <<pc, files, file, unread, list, entry, got, ended>>
    BY <1>10 DEF vars, input, reading, loading
  <2> QED
    BY <2>1, SameSources
<1>11. CASE ReadBlank \/ LoadTooLong
  BY <1>11, UnreadableEnds, SameSources
<1> QED
  BY <1>1, <1>2, <1>3, <1>4, <1>5, <1>6, <1>7, <1>8, <1>9, <1>10, <1>11 DEF Next, MainStep

\* The five steps that can break the process down, and what they show.
LEMMA BreakingSteps ==
  IInv /\ Sources /\ BreaksOnlyOnBadInput /\ [Next]_vars => BreaksOnlyOnBadInput'
<1> SUFFICES ASSUME IInv, Sources, BreaksOnlyOnBadInput, [Next]_vars, ended' = "crashed"
             PROVE  BreaksOnlyOnBadInput'
  BY DEF BreaksOnlyOnBadInput
<1>1. CASE Apply
  <2> DEFINE line == NextItem(list)
  <2>1. pc = "apply" /\ HasNext(list) /\ ended = "no" /\ UNCHANGED files
    BY <1>1 DEF Apply, At, input
  <2>2. line.key = NoKey
    BY <1>1, <2>1 DEF Apply
  <2>3. list.position \in DOMAIN list.items
    BY <2>1, NextIsGood DEF IInv, Reads
  <2>4. file = "conf" /\ files["conf"] # Missing /\ FromFile(line)
    BY <2>1, <2>3 DEF IInv, Reads, Sources, NextItem
  <2>5. Setters(NoKey) # {}
    BY <2>2, <2>4 DEF FromFile, Setters
  <2> QED
    BY <2>1, <2>4, <2>5 DEF BreaksOnlyOnBadInput, Setters
<1>2. CASE TakeField
  <2>1. pc = "field" /\ ended = "no" /\ Len(got) < Needed(file) /\ UNCHANGED files
    BY <1>2 DEF TakeField, At, input
  <2>2. ~ HasNext(entry.vals)
    BY <1>2, <2>1 DEF TakeField
  <2>3. PICK n \in DOMAIN list.items : entry.vals.items = list.items[n].vals
    BY <2>1 DEF Sources
  <2>4. Len(entry.vals.items) < Needed(file)
    <3>1. /\ entry.vals.size = Len(entry.vals.items) /\ entry.vals.counter = Len(got)
          /\ entry.vals.items \in Seq(Int)
          /\ entry.vals.position \in IF entry.vals.items = <<>> THEN {0} ELSE DOMAIN entry.vals.items
      BY <2>1 DEF IInv, Loads, GoodList, ListType, ListOK, Sources, NullPosition
    <3>2. CASE entry.vals.counter = entry.vals.size
      BY <2>1, <3>1, <3>2
    <3>3. CASE entry.vals.position = 0
      <4>1. entry.vals.items = <<>>
        BY <3>1, <3>3
      <4> QED
        BY <4>1 DEF Needed
    <3> QED
      BY <2>2, <3>2, <3>3 DEF HasNext, NullPosition
  <2>5. file \in DataFile /\ files[file] # Missing /\ FromFile(list.items[n]) /\ ~ Dropped(list.items[n])
    BY <2>1 DEF IInv, Reads, Sources
  <2>6. list.items[n].key \notin {Comment, NoKey}
    BY <2>5 DEF Dropped, DataFile
  <2>7. Short(file)
    BY <2>3, <2>4, <2>5, <2>6 DEF Short, FromFile
  <2> QED
    BY <2>1, <2>5, <2>7 DEF BreaksOnlyOnBadInput, Short
<1>3. CASE HandlerLocks \/ HandlerCancels
  <2>1. ended = "no" /\ handler # "off" /\ UNCHANGED <<pc, made, output, file, handler>>
        /\ (made < Objects \/ output = "none")
    <3>1. CASE HandlerLocks
      <4>1. PICK o \in {Logger, List, PositionList} : \E where, next :
              HandlerLock(o, where, next) /\ where \in {"logger", "list", "pos"}
        BY <3>1 DEF HandlerLocks
      <4>2. PICK where \in {"logger", "list", "pos"} : \E next : HandlerLock(o, where, next)
        BY <4>1
      <4>3. ended = "no" /\ handler = where
        BY <4>2 DEF HandlerLock, In
      <4>4. o > made /\ UNCHANGED <<pc, made, output, file, handler>>
        BY <4>2, <4>3 DEF HandlerLock, built, reading
      <4>5. made < Objects
        BY <4>4 DEF IInv, Progress, Objects, Logger, List, PositionList
      <4> QED
        BY <4>2, <4>3, <4>4, <4>5
    <3>2. CASE HandlerCancels
      BY <3>2 DEF HandlerCancels, In, built, reading
    <3> QED
      BY <1>3, <3>1, <3>2
  <2>2. ~ (Complete' /\ output' # "none") /\ handler' # "off"
    BY <2>1 DEF Complete, Objects, IInv, Progress
  <2> QED
    BY <2>2 DEF BreaksOnlyOnBadInput
<1>4. CASE UNCHANGED vars
  BY <1>4 DEF vars, input, reading, built, BreaksOnlyOnBadInput, Complete, Past, Setters, Short
<1>11. CASE ReadBlank
  <2>1. pc = "read" /\ ended = "no" /\ unread # <<>> /\ Head(unread).key = Blank /\ UNCHANGED files
    BY <1>11 DEF ReadBlank, At, input
  <2>2. unread \in Seq(Parsed) /\ file \in File
    BY DEF IInv, Reads
  <2>3. 1 \in DOMAIN unread /\ Head(unread) = unread[1]
    BY <2>1, <2>2
  <2>4. files[file] # Missing /\ FromFile(unread[1])
    BY <2>1, <2>3 DEF Sources
  <2> QED
    BY <2>1, <2>2, <2>3, <2>4 DEF BreaksOnlyOnBadInput, FromFile
<1>12. CASE LoadTooLong
  <2>1. /\ pc = "load" /\ ended = "no" /\ HasNext(list) /\ UNCHANGED files
        /\ NextItem(list).key \in TooLong[file]
    BY <1>12 DEF LoadTooLong, More, At, input
  <2>2. list.position \in DOMAIN list.items
    BY <2>1, NextIsGood DEF IInv, Reads
  <2>3. file \in DataFile /\ files[file] # Missing /\ FromFile(NextItem(list))
    BY <2>1, <2>2 DEF IInv, Reads, Sources, NextItem
  <2> QED
    BY <2>1, <2>3 DEF BreaksOnlyOnBadInput, FromFile
<1>5. ASSUME UNCHANGED ended, ended = "no" PROVE FALSE
  BY <1>5
<1>6. CASE Open \/ ReadLine \/ Close \/ Applied \/ Load \/ Loaded \/ AllLoaded
  BY <1>6 DEF Open, ReadLine, Close, Applied, Load, Loaded, AllLoaded, Goto, At, End
<1>7. CASE Bind \/ Install \/ Malloc \/ StartOutput \/ Accept
  BY <1>7 DEF Bind, Install, Malloc, StartOutput, Accept, Goto, At, End
<1>8. CASE MakeObject
  BY <1>8 DEF MakeObject, Goto, At, End
<1>9. CASE Arguments
  <2>1. option.kind \in {"none", "port", "help", "unknown"}
    BY StartupAssumption DEF IInv, Reads
  <2>2. ended = "no"
    BY <1>9, <2>1 DEF Arguments, Goto, At
  <2>3. ended' \in {ended, "usage", "failure"}
    BY <1>9, <2>1 DEF Arguments, End
  <2> QED
    BY <2>2, <2>3
<1>10. CASE BindOutput \/ HandlerFrees \/ Interrupt \/ \E a \in Agent : Connect(a)
  BY <1>10 DEF BindOutput, HandlerFrees, Interrupt, Connect, In, End
<1> QED
  BY <1>1, <1>2, <1>3, <1>4, <1>6, <1>7, <1>8, <1>9, <1>10, <1>11, <1>12
     DEF Next, MainStep, HandlerStep

\* For any input, any number of agents and any moment of ^C: the process breaks
\* down on its way up only for a line it cannot read or hold, or for ^C
\* (server.c:48-131, configure.h:152-196, param_reader.h:176-202, *Info.h).
THEOREM OnlyBadInputBreaks == Spec => []BreaksOnlyOnBadInput
<1>1. Init => Sources /\ BreaksOnlyOnBadInput
  BY DEF Init, Sources, BreaksOnlyOnBadInput
<1> QED
  BY <1>1, AlwaysIInv, SourcesInductive, BreakingSteps, PTL DEF Spec


-----------------------------------------------------------------------------
(* What the files say *)

\* The value of key k after the first n lines, each of which may set it.
SettersUpTo(lines, n, k) == {i \in 1..n : lines[i].key = k}
LastValue(lines, setters, k) ==
  IF setters = {} THEN Default[k]
  ELSE lines[CHOOSE i \in setters : \A j \in setters : j <= i].vals[1]
ValueAfter(lines, n, k) == LastValue(lines, SettersUpTo(lines, n, k), k)

\* How many lines of the file were read.
LinesRead == Len(files[file]) - Len(unread)

\* A list that was filled and is walked for the first time.
FirstRound(l) ==
  l.counter < l.size => l.position = l.counter + 1

\* While a file is read, the list holds what was kept of its beginning.
ReadingFile ==
  pc = "read" =>
    /\ files[file] # Missing
    /\ Len(unread) <= Len(files[file])
    /\ \A n \in 1..Len(unread) : unread[n] = files[file][LinesRead + n]
    /\ list.counter = 0 /\ FirstRound(list)
    /\ IF file = "conf"
       THEN \A k \in Known : ValueAfter(list.items, Len(list.items), k) =
                             ValueAfter(files["conf"], LinesRead, k)
       ELSE list.items = Kept(files[file])[LinesRead]

\* main's way through conf.ini and the command line.
Setting ==
  /\ pc = "bind" => file = "conf"
  /\ pc = "arguments" /\ ended = "no" => file = "conf"
  /\ pc \in {"bind", "open", "read"} /\ file = "conf" => settings = Default
  /\ pc = "apply" =>
       /\ FirstRound(list)
       /\ \A k \in Known :
            /\ ValueAfter(list.items, Len(list.items), k) = Configured(k)
            /\ settings[k] = ValueAfter(list.items, list.counter, k)
  /\ pc = "arguments" /\ file = "conf" => \A k \in Known : settings[k] = Configured(k)
  /\ LastSettingWins

SettingsInv == IInv /\ ReadingFile /\ Setting

\* main's way through the other files: one entry after the other is taken from
\* the list, field by field.
Filling ==
  /\ files[file] # Missing
  /\ list.items = Lines(file) /\ FirstRound(list)
  /\ Len(infos[file]) <= Len(list.items)
  /\ \A n \in 1..Len(infos[file]) : infos[file][n] = Wanted(file)[n]

Entry(line) ==
  /\ entry.key = line.key /\ entry.vals.items = line.vals
  /\ Len(got) <= Len(line.vals)
  /\ \A k \in 1..Len(got) : got[k] = line.vals[k]
  /\ entry.vals.counter = Len(got) /\ FirstRound(entry.vals)

Started(f) == file = f /\ pc \in {"load", "field"}

Loading ==
  /\ pc \in {"install", "malloc", "init", "output", "accept"} => file = "beacons"
  /\ pc \in {"load", "field"} => Filling
  /\ pc = "load" => list.counter = Len(infos[file])
  /\ pc = "field" => list.counter = Len(infos[file]) + 1
  /\ pc = "field" /\ ended = "no" => Entry(list.items[list.counter])
  /\ \A f \in DataFile : Past(f) => infos[f] = Wanted(f)
  /\ \A f \in DataFile : ~ Past(f) /\ ~ Started(f) => infos[f] = <<>>

LoadingInv == SettingsInv /\ Loading

LEMMA KeptUnfolds ==
  ASSUME NEW lines \in Seq(Parsed)
  PROVE  /\ Kept(lines) \in [0..Len(lines) -> Seq(Parsed)]
         /\ Kept(lines)[0] = <<>>
         /\ \A n \in 1..Len(lines) :
              Kept(lines)[n] = IF lines[n].key \in {Comment, NoKey} THEN Kept(lines)[n - 1]
                               ELSE Append(Kept(lines)[n - 1], lines[n])
<1> DEFINE N == Len(lines)
           S == Seq(Parsed)
           Turn(s, n) == IF lines[n].key \in {Comment, NoKey} THEN s ELSE Append(s, lines[n])
           Goal(g) == g = [n \in 0..N |-> IF n = 0 THEN <<>> ELSE Turn(g[n - 1], n)]
           step == [n \in Nat |-> [s \in S |-> IF n \in 1..N THEN Turn(s, n) ELSE s]]
<1>1. N \in Nat /\ \A n \in 1..N : lines[n] \in Parsed
  OBVIOUS
<1>2. <<>> \in S /\ step \in [Nat -> [S -> S]]
  <2>1. ASSUME NEW n \in 1..N, NEW s \in S PROVE Turn(s, n) \in S
    BY <1>1
  <2> HIDE DEF Turn, N
  <2>2. ASSUME NEW n \in Nat, NEW s \in S PROVE (IF n \in 1..N THEN Turn(s, n) ELSE s) \in S
    BY <2>1
  <2>3. <<>> \in S
    OBVIOUS
  <2> HIDE DEF S
  <2> QED
    BY <2>2, <2>3
<1>3. PICK g : Unrolls(g, 0, N, S, <<>>, step)
  <2> HIDE DEF step, S, N
  <2>1. 0 \in Nat /\ N \in Nat /\ 0 <= N
    BY <1>1
  <2> QED
    BY <1>2, <2>1, RecursionExists
<1>4. g \in [0..N -> S] /\ g[0] = <<>>
  <2> HIDE DEF step, S, N
  <2> QED
    BY <1>3 DEF Unrolls
<1>5. Goal(g)
  <2> HIDE DEF Turn, S, N
  <2>1. ASSUME NEW n \in 0..N, n # 0 PROVE g[n] = Turn(g[n - 1], n)
    <3>1. n \in (0 + 1)..N /\ n \in 1..N /\ n \in Nat /\ n - 1 \in 0..N
      BY <1>1, <2>1
    <3>2. g[n - 1] \in S /\ g[n] = step[n][g[n - 1]]
      BY <3>1, <1>3 DEF Unrolls
    <3> QED
      BY <3>1, <3>2
  <2> QED
    BY <2>1, <1>4
<1>6. Goal(Kept(lines))
  BY <1>5, <1>1 DEF Kept
<1>7. Kept(lines) = g
  <2> DEFINE T == {n \in 0..N : Kept(lines)[n] = g[n]}
  <2>1. 0 \in T
    <3> HIDE DEF Turn, S
    <3> QED
      BY <1>1, <1>4, <1>6
  <2>2. ASSUME NEW n \in 0..(N - 1), n \in T PROVE n + 1 \in T
    <3> HIDE DEF Turn, S, N
    <3>1. n + 1 \in 0..N /\ n + 1 # 0 /\ (n + 1) - 1 = n
      BY <1>1
    <3>2. Kept(lines)[n + 1] = Turn(Kept(lines)[n], n + 1)
      BY <1>6, <3>1
    <3>3. g[n + 1] = Turn(g[n], n + 1)
      BY <1>5, <3>1
    <3> QED
      BY <2>2, <3>1, <3>2, <3>3
  <2>3. 0..N \subseteq T
    <3> HIDE DEF T, N
    <3>1. 0 \in Nat /\ N \in Nat
      BY <1>1
    <3> QED
      BY <2>1, <2>2, <3>1, IntervalIsInductive
  <2> HIDE DEF Turn, S, N
  <2> QED
    BY <1>4, <1>6, <2>3
<1>8. ASSUME NEW n \in 1..N PROVE Kept(lines)[n] = Turn(Kept(lines)[n - 1], n)
  <2> HIDE DEF Turn, S
  <2>1. n \in 0..N /\ n # 0
    BY <1>1
  <2> QED
    BY <1>6, <2>1
<1> QED
  BY <1>4, <1>7, <1>8

LEMMA ValueStarts == \A lines, k : ValueAfter(lines, 0, k) = Default[k]
BY DEF ValueAfter, SettersUpTo, LastValue

LEMMA ValueGoesOn ==
  ASSUME NEW lines, NEW n \in Nat, NEW k
  PROVE  ValueAfter(lines, n + 1, k) = IF lines[n + 1].key = k THEN lines[n + 1].vals[1]
                                       ELSE ValueAfter(lines, n, k)
<1> DEFINE T == SettersUpTo(lines, n + 1, k)
<1>1. CASE lines[n + 1].key = k
  <2>1. n + 1 \in T /\ \A j \in T : j <= n + 1
    BY <1>1 DEF SettersUpTo
  <2>2. ASSUME NEW i \in T, \A j \in T : j <= i PROVE i = n + 1
    <3>1. i \in 1..(n + 1) /\ n + 1 <= i
      BY <2>1, <2>2 DEF SettersUpTo
    <3> QED
      BY <3>1
  <2> HIDE DEF T
  <2>3. (CHOOSE i \in T : \A j \in T : j <= i) = n + 1
    BY <2>1, <2>2
  <2> QED
    BY <1>1, <2>1, <2>3 DEF ValueAfter, LastValue, T
<1>2. CASE lines[n + 1].key # k
  <2>1. SettersUpTo(lines, n + 1, k) = SettersUpTo(lines, n, k)
    BY <1>2 DEF SettersUpTo
  <2>2. ValueAfter(lines, n + 1, k) = ValueAfter(lines, n, k)
    BY <2>1 DEF ValueAfter
  <2> QED
    BY <1>2, <2>2
<1> QED
  BY <1>1, <1>2

LEMMA SameValue ==
  ASSUME NEW s, NEW t, NEW n \in Nat, NEW k, \A i \in 1..n : s[i] = t[i]
  PROVE  ValueAfter(s, n, k) = ValueAfter(t, n, k)
<1>1. SettersUpTo(s, n, k) = SettersUpTo(t, n, k)
  BY DEF SettersUpTo
<1> DEFINE T == SettersUpTo(s, n, k)
<1>2. T \subseteq 1..n
  BY DEF SettersUpTo
<1>3. T # {} => (CHOOSE i \in T : \A j \in T : j <= i) \in T
  <2> SUFFICES ASSUME T # {} PROVE \E i \in T : \A j \in T : j <= i
    BY Zenon
  <2>1. T \subseteq Int /\ n \in Int /\ \A j \in T : j <= n
    BY <1>2
  <2> HIDE DEF T
  <2> QED
    BY <2>1, GreatestElement
<1> HIDE DEF T
<1>4. CASE T = {}
  BY <1>1, <1>4 DEF ValueAfter, LastValue, T
<1>5. CASE T # {}
  <2>1. PICK m : m = CHOOSE i \in T : \A j \in T : j <= i
    OBVIOUS
  <2>2. s[m] = t[m]
    BY <1>2, <1>3, <1>5, <2>1
  <2> QED
    BY <1>1, <1>5, <2>1, <2>2 DEF ValueAfter, LastValue, T
<1> QED
  BY <1>4, <1>5

LEMMA ConfiguredIsValue ==
  ASSUME NEW k, files["conf"] \in Seq(Parsed)
  PROVE  Configured(k) = ValueAfter(files["conf"], Len(files["conf"]), k)
<1>1. Setters(k) = SettersUpTo(files["conf"], Len(files["conf"]), k)
  BY DEF Setters, SettersUpTo
<1> QED
  BY <1>1 DEF Configured, ValueAfter, LastValue

-----------------------------------------------------------------------------
(* Reading a file *)

LEMMA FilesAreParsed ==
  ASSUME IInv, files[file] # Missing
  PROVE  /\ files[file] \in Seq(Parsed)
         /\ file = "conf" => OneValueEach(files["conf"])
BY StartupAssumption DEF IInv, Reads

LEMMA ListsAreGood ==
  ASSUME IInv
  PROVE  /\ list.items \in Seq(Parsed) /\ list.size = Len(list.items) /\ list.size \in Nat
         /\ list.counter \in 0..list.size
         /\ list.position \in IF list.items = <<>> THEN {0} ELSE 1..list.size
         /\ list \in ListType(Parsed)
<1>1. list \in ListType(Parsed) /\ ListOK(list)
  BY DEF IInv, Reads, GoodList
<1>2. list.items \in Seq(Parsed)
  BY <1>1 DEF ListType
<1> QED
  BY <1>1, <1>2 DEF ListType, ListOK, NullPosition

\* A call of next_param on a list that is walked for the first time.
LEMMA FirstRoundGoesOn ==
  ASSUME NEW S, NEW l, GoodList(l, S), FirstRound(l)
  PROVE  /\ HasNext(l) <=> l.counter < Len(l.items)
         /\ HasNext(l) => /\ NextItem(l) = l.items[l.counter + 1]
                          /\ AfterNext(l).counter = l.counter + 1
                          /\ FirstRound(AfterNext(l))
                          /\ AfterNext(l).items = l.items
<1>1. /\ l \in ListType(S) /\ l.items \in Seq(S) /\ l.size = Len(l.items)
      /\ l.counter \in 0..l.size /\ l.size \in Nat
      /\ l.position \in IF l.items = <<>> THEN {0} ELSE 1..l.size
  BY DEF GoodList, ListType, ListOK, NullPosition
<1>2. l.counter < l.size => l.position = l.counter + 1
  BY DEF FirstRound
<1>3. HasNext(l) <=> l.counter < l.size
  BY <1>1, <1>2 DEF HasNext, NullPosition
<1>4. ASSUME HasNext(l)
      PROVE  /\ NextItem(l) = l.items[l.counter + 1]
             /\ AfterNext(l).counter = l.counter + 1
             /\ FirstRound(AfterNext(l))
             /\ AfterNext(l).items = l.items
  <2>1. AfterNext(l) = [items |-> l.items, size |-> l.size,
                        position |-> IF l.position = l.size THEN 1 ELSE l.position + 1,
                        counter |-> l.counter + 1]
    BY <1>1, <1>4 DEF AfterNext, ListType
  <2>2. l.position = l.counter + 1
    BY <1>2, <1>3, <1>4
  <2>3. NextItem(l) = l.items[l.counter + 1]
    BY <2>2 DEF NextItem
  <2>4. l.counter + 1 < l.size =>
          (IF l.position = l.size THEN 1 ELSE l.position + 1) = (l.counter + 1) + 1
    BY <1>1, <2>2
  <2> QED
    BY <2>1, <2>3, <2>4 DEF FirstRound
<1> QED
  BY <1>1, <1>3, <1>4

LEMMA OpenReads ==
  ASSUME IInv, Open
  PROVE  ReadingFile'
<1>1. CASE files[file] = Missing
  BY <1>1 DEF Open, At, ReadingFile
<1>2. CASE files[file] # Missing
  <2>1. /\ pc' = "read" /\ unread' = files[file] /\ list' = EmptyList
        /\ files' = files /\ file' = file
    BY <1>2 DEF Open, Goto, input
  <2>2. files[file] \in Seq(Parsed) /\ Len(files[file]) \in Nat
    BY <1>2, FilesAreParsed
  <2>3. LinesRead' = 0
    BY <2>1, <2>2 DEF LinesRead
  <2>4. list'.counter = 0 /\ FirstRound(list)' /\ list'.items = <<>>
    BY <2>1 DEF EmptyList, FirstRound
  <2>5. file # "conf" => list'.items = Kept(files[file])[0]
    BY <2>2, <2>4, KeptUnfolds
  <2>6. \A k \in Known : ValueAfter(list'.items, Len(list'.items), k) = ValueAfter(files["conf"], 0, k)
    BY <2>4, ValueStarts
  <2>7. \A n \in 1..Len(unread') : unread'[n] = files[file][0 + n]
    BY <2>1
  <2> QED
    BY <1>2, <2>1, <2>2, <2>3, <2>4, <2>5, <2>6, <2>7 DEF ReadingFile
<1> QED
  BY <1>1, <1>2

LEMMA ReadLineReads ==
  ASSUME IInv, ReadingFile, ReadLine
  PROVE  ReadingFile'
<1> DEFINE m == LinesRead
           line == Head(unread)
           lines == files[file]
<1>1. /\ pc = "read" /\ pc' = "read" /\ unread # <<>> /\ unread' = Tail(unread)
      /\ list' = IF Dropped(line) THEN list ELSE AddItem(list, line)
      /\ files' = files /\ file' = file
  BY DEF ReadLine, Goto, At, input
<1>2. /\ lines \in Seq(Parsed) /\ Len(lines) \in Nat /\ unread \in Seq(Parsed)
      /\ lines # Missing
  BY <1>1, FilesAreParsed DEF ReadingFile, IInv, Reads
<1>3. /\ Len(unread) \in 1..Len(lines) /\ Len(unread') = Len(unread) - 1
      /\ \A n \in 1..Len(unread') : unread'[n] = unread[n + 1]
      /\ line = unread[1] /\ line \in Parsed
  BY <1>1, <1>2 DEF ReadingFile
<1>4. m \in Nat /\ m + 1 \in 1..Len(lines) /\ LinesRead' = m + 1
  BY <1>1, <1>2, <1>3 DEF LinesRead
<1>5. \A n \in 1..Len(unread) : unread[n] = lines[m + n]
  BY <1>1 DEF ReadingFile
<1>6. line = lines[m + 1]
  BY <1>3, <1>5
<1>7. \A n \in 1..Len(unread') : unread'[n] = lines[(m + 1) + n]
  <2> SUFFICES ASSUME NEW n \in 1..Len(unread') PROVE unread'[n] = lines[(m + 1) + n]
    OBVIOUS
  <2>1. n + 1 \in 1..Len(unread) /\ unread'[n] = unread[n + 1]
    BY <1>3
  <2>2. unread[n + 1] = lines[m + (n + 1)] /\ m + (n + 1) = (m + 1) + n
    BY <1>4, <1>5, <2>1
  <2> QED
    BY <2>1, <2>2
<1>8. /\ list.items \in Seq(Parsed) /\ list.size = Len(list.items) /\ list.size \in Nat
      /\ list.position \in IF list.items = <<>> THEN {0} ELSE 1..list.size
      /\ list \in ListType(Parsed)
      /\ list.counter = 0 /\ FirstRound(list)
  BY <1>1, ListsAreGood DEF ReadingFile
<1>9. ASSUME ~ Dropped(line)
      PROVE  /\ list'.items = Append(list.items, line)
             /\ list'.counter = 0 /\ FirstRound(list)'
  <2>1. list' = [items |-> Append(list.items, line), size |-> list.size + 1,
                 position |-> IF list.size = 0 THEN 1 ELSE list.position, counter |-> 0]
    BY <1>1, <1>8, <1>9 DEF AddItem
  <2>2. (IF list.size = 0 THEN 1 ELSE list.position) = 0 + 1
    BY <1>8 DEF FirstRound
  <2> QED
    BY <2>1, <2>2 DEF FirstRound
<1>10. list'.counter = 0 /\ FirstRound(list)'
  <2>1. Dropped(line) => list' = list
    BY <1>1
  <2> QED
    BY <1>8, <1>9, <2>1 DEF FirstRound
<1>11. CASE file = "conf"
  <2>1. Dropped(line) <=> line.key = Comment
    BY <1>11 DEF Dropped
  <2>2. ASSUME NEW k \in Known
        PROVE  ValueAfter(list'.items, Len(list'.items), k) = ValueAfter(lines, m + 1, k)
    <3>1. ValueAfter(list.items, Len(list.items), k) = ValueAfter(lines, m, k)
      BY <1>1, <1>11 DEF ReadingFile
    <3>2. ValueAfter(lines, m + 1, k) = IF line.key = k THEN line.vals[1] ELSE ValueAfter(lines, m, k)
      BY <1>4, <1>6, ValueGoesOn
    <3>3. CASE Dropped(line)
      <4>1. line.key # k /\ list' = list
        BY <1>1, <2>1, <3>3, StartupAssumption
      <4> QED
        BY <3>1, <3>2, <4>1
    <3>4. CASE ~ Dropped(line)
      <4> DEFINE items == list.items
                 more == list'.items
      <4>1. more = Append(items, line) /\ items \in Seq(Parsed) /\ line \in Parsed
        BY <1>3, <1>8, <1>9, <3>4
      <4>2. /\ Len(more) = Len(items) + 1 /\ Len(items) \in Nat
            /\ more[Len(items) + 1] = line /\ \A i \in 1..Len(items) : more[i] = items[i]
        BY <4>1
      <4> HIDE DEF items, more
      <4>3. ValueAfter(more, Len(items) + 1, k) =
              IF line.key = k THEN line.vals[1] ELSE ValueAfter(more, Len(items), k)
        <5>1. ValueAfter(more, Len(items) + 1, k) =
                IF more[Len(items) + 1].key = k THEN more[Len(items) + 1].vals[1]
                ELSE ValueAfter(more, Len(items), k)
          BY ONLY Len(items) \in Nat, ValueGoesOn
        <5> QED
          BY <4>2, <5>1
      <4>4. ValueAfter(more, Len(items), k) = ValueAfter(items, Len(items), k)
        BY <4>2, SameValue
      <4> QED
        BY <3>1, <3>2, <4>2, <4>3, <4>4 DEF items, more
    <3> QED
      BY <3>3, <3>4
  <2> QED
    BY <1>1, <1>2, <1>3, <1>4, <1>7, <1>10, <1>11, <2>2 DEF ReadingFile
<1>12. CASE file # "conf"
  <2>1. Dropped(line) <=> line.key \in {Comment, NoKey}
    BY <1>12 DEF Dropped
  <2>2. list.items = Kept(lines)[m]
    BY <1>1, <1>12 DEF ReadingFile
  <2>3. Kept(lines)[m + 1] = IF line.key \in {Comment, NoKey} THEN Kept(lines)[m]
                             ELSE Append(Kept(lines)[m], line)
    <3>1. (m + 1) - 1 = m
      BY <1>4
    <3> QED
      BY <1>2, <1>4, <1>6, <3>1, KeptUnfolds
  <2>4. list'.items = Kept(lines)[m + 1]
    BY <1>1, <1>9, <2>1, <2>2, <2>3
  <2> QED
    BY <1>1, <1>2, <1>3, <1>4, <1>7, <1>10, <1>12, <2>4 DEF ReadingFile
<1> QED
  BY <1>11, <1>12

\* The steps of the other threads, of ^C and of the agents, and those that end
\* in a breakdown.
LEMMA OtherSteps ==
  ASSUME ReadBlank \/ LoadTooLong \/ UNCHANGED vars
         \/ BindOutput \/ HandlerStep \/ Interrupt \/ \E a \in Agent : Connect(a)
  PROVE  /\ UNCHANGED <<files, option, pc, file, unread, list, entry, got, infos, settings>>
         /\ ended = "no" \/ ended' = ended
<1>1. CASE BindOutput
  BY <1>1 DEF BindOutput, input, reading, loading
<1>2. CASE HandlerStep
  BY <1>2 DEF HandlerStep, HandlerLocks, HandlerLock, HandlerCancels, HandlerFrees, In, End,
              input, reading, loading
<1>3. CASE Interrupt
  BY <1>3 DEF Interrupt, input, reading, loading
<1>4. CASE \E a \in Agent : Connect(a)
  BY <1>4 DEF Connect, input, reading, loading
<1>5. CASE UNCHANGED vars
  BY <1>5 DEF vars, input, reading, loading
<1>6. CASE ReadBlank \/ LoadTooLong
  BY <1>6, UnreadableEnds
<1> QED
  BY <1>1, <1>2, <1>3, <1>4, <1>5, <1>6

\* The steps of main that neither read a file nor set or load anything.
LEMMA LateSteps ==
  ASSUME Install \/ Malloc \/ MakeObject \/ StartOutput \/ Accept
  PROVE  /\ UNCHANGED <<files, option, file, unread, list, entry, got, infos, settings>>
         /\ pc \in {"install", "malloc", "init", "output", "accept"} /\ ended = "no"
         /\ pc' \in {"install", "malloc", "init", "output", "accept"}
<1>1. CASE Install
  BY <1>1 DEF Install, Goto, At, input, reading, loading
<1>2. CASE Malloc
  BY <1>2 DEF Malloc, Goto, At, input, reading, loading
<1>3. CASE MakeObject
  <2>1. /\ UNCHANGED <<files, option, file, unread, list, entry, got, infos, settings>>
        /\ pc = "init" /\ ended = "no"
    BY <1>3 DEF MakeObject, Goto, At, input, reading, loading
  <2>2. pc' = pc \/ pc' = IF made + 1 = Objects THEN "output" ELSE "malloc"
    BY <1>3 DEF MakeObject, Goto
  <2> QED
    BY <2>1, <2>2
<1>4. CASE StartOutput
  BY <1>4 DEF StartOutput, Goto, At, input, reading, loading
<1>5. CASE Accept
  BY <1>5 DEF Accept, Goto, At, input, reading, loading
<1> QED
  BY <1>1, <1>2, <1>3, <1>4, <1>5

LEMMA ReadingStep == IInv /\ ReadingFile /\ [Next]_vars => ReadingFile'
<1> SUFFICES ASSUME IInv, ReadingFile, [Next]_vars PROVE ReadingFile'
  OBVIOUS
<1>1. CASE Open
  BY <1>1, OpenReads
<1>2. CASE ReadLine
  BY <1>2, ReadLineReads
<1>3. CASE UNCHANGED <<files, pc, file, unread, list>>
  BY <1>3 DEF ReadingFile, LinesRead, FirstRound
<1>4. CASE pc' # "read"
  BY <1>4 DEF ReadingFile
<1>5. CASE Install \/ Malloc \/ MakeObject \/ StartOutput \/ Accept
  BY <1>4, <1>5, LateSteps
<1>6. CASE Bind \/ Close \/ Apply \/ Applied \/ Arguments \/ Load \/ TakeField \/ Loaded \/ AllLoaded
  <2>1. CASE Bind
    BY <1>4, <2>1 DEF Bind, Goto, At
  <2>2. CASE Close
    BY <1>4, <2>2 DEF Close, Goto, At
  <2>3. CASE Apply
    BY <1>4, <2>3 DEF Apply, Goto, At
  <2>4. CASE Applied
    BY <1>4, <2>4 DEF Applied, Goto, At
  <2>5. CASE Arguments
    BY <1>4, <2>5, Zenon DEF Arguments, Goto, At
  <2>6. CASE Load \/ TakeField \/ Loaded
    BY <1>4, <2>6 DEF Load, TakeField, Loaded, Goto, At
  <2>7. CASE AllLoaded
    BY <1>4, <2>7 DEF AllLoaded, Goto, At
  <2> QED
    BY <1>6, <2>1, <2>2, <2>3, <2>4, <2>5, <2>6, <2>7
<1>7. CASE ReadBlank \/ LoadTooLong \/ UNCHANGED vars
          \/ BindOutput \/ HandlerStep \/ Interrupt \/ \E a \in Agent : Connect(a)
  BY <1>3, <1>7, OtherSteps
<1> QED
  BY <1>1, <1>2, <1>5, <1>6, <1>7 DEF Next, MainStep

-----------------------------------------------------------------------------
(* Settings *)

LEMMA SettingCarried ==
  ASSUME LastSettingWins, UNCHANGED <<files, option, settings>>,
         ended = "no" \/ ended' = ended, file' # "conf" => file # "conf"
  PROVE  LastSettingWins'
<1>1. \A k \in Known : Configured(k)' = Configured(k)
  BY DEF Configured, Setters
<1> QED
  BY <1>1 DEF LastSettingWins

LEMMA CloseSets ==
  ASSUME IInv, ReadingFile, Setting, Close
  PROVE  Setting'
<1>1. /\ pc = "read" /\ pc' = (IF file = "conf" THEN "apply" ELSE "load") /\ unread = <<>>
      /\ UNCHANGED <<files, option, file, list, settings, ended>> /\ ended = "no"
  BY DEF Close, Goto, At, input, reading
<1>2. LastSettingWins'
  BY <1>1, SettingCarried DEF Setting
<1>3. CASE file # "conf"
  BY <1>1, <1>2, <1>3 DEF Setting
<1>4. CASE file = "conf"
  <2>1. files["conf"] \in Seq(Parsed) /\ LinesRead = Len(files["conf"])
    BY <1>1, <1>4, FilesAreParsed DEF ReadingFile, LinesRead
  <2>2. ASSUME NEW k \in Known
        PROVE  /\ ValueAfter(list.items, Len(list.items), k) = Configured(k)
               /\ settings[k] = ValueAfter(list.items, 0, k)
    <3>1. ValueAfter(list.items, Len(list.items), k) = ValueAfter(files["conf"], LinesRead, k)
      BY <1>1, <1>4 DEF ReadingFile
    <3>2. settings = Default
      BY <1>1, <1>4 DEF Setting
    <3> QED
      BY <2>1, <3>1, <3>2, ConfiguredIsValue, ValueStarts
  <2>3. list.counter = 0 /\ FirstRound(list)
    BY <1>1 DEF ReadingFile
  <2>4. \A k \in Known : Configured(k)' = Configured(k)
    BY <1>1 DEF Configured, Setters
  <2> QED
    BY <1>1, <1>2, <1>4, <2>2, <2>3, <2>4 DEF Setting, FirstRound
<1> QED
  BY <1>3, <1>4

LEMMA ApplySets ==
  ASSUME IInv, Setting, Apply
  PROVE  Setting'
<1> DEFINE line == NextItem(list)
<1>1. /\ pc = "apply" /\ pc' = pc /\ HasNext(list) /\ list' = AfterNext(list) /\ ended = "no"
      /\ UNCHANGED <<files, option, file>> /\ file = "conf"
      /\ settings' = IF line.key = NoKey THEN settings ELSE SetTo(line.key, line.vals[1])
  BY DEF Apply, At, input, IInv, Reads
<1>2. GoodList(list, Parsed) /\ FirstRound(list) /\ list.counter \in Nat
  BY <1>1, ListsAreGood DEF IInv, Reads, Setting
<1>3. /\ line = list.items[list.counter + 1] /\ list'.items = list.items
      /\ list'.counter = list.counter + 1 /\ FirstRound(list)'
  <2>1. FirstRound(list)' <=> FirstRound(AfterNext(list))
    BY <1>1 DEF FirstRound
  <2> QED
    BY <1>1, <1>2, <2>1, FirstRoundGoesOn
<1>4. \A k \in Known : Configured(k)' = Configured(k)
  BY <1>1 DEF Configured, Setters
<1>5. ASSUME NEW k \in Known
      PROVE  settings'[k] = ValueAfter(list'.items, list'.counter, k)
  <2>1. settings[k] = ValueAfter(list.items, list.counter, k)
    BY <1>1 DEF Setting
  <2>2. ValueAfter(list.items, list.counter + 1, k) =
          IF line.key = k THEN line.vals[1] ELSE ValueAfter(list.items, list.counter, k)
    BY <1>2, <1>3, ValueGoesOn, ZenonT(30)
  <2>3. settings \in [Known -> Int]
    BY DEF IInv, Reads
  <2>4. settings'[k] = IF line.key = k THEN line.vals[1] ELSE settings[k]
    BY <1>1, <2>3, StartupAssumption DEF SetTo
  <2> QED
    BY <1>3, <2>1, <2>2, <2>4
<1>6. LastSettingWins'
  BY <1>1 DEF LastSettingWins
<1> QED
  BY <1>1, <1>3, <1>4, <1>5, <1>6 DEF Setting

LEMMA ArgumentsSet ==
  ASSUME IInv, Setting, Arguments
  PROVE  Setting'
<1>1. /\ pc = "arguments" /\ ended = "no" /\ file = "conf" /\ file' = "agents"
      /\ UNCHANGED <<files, option>> /\ option \in Options
  <2>1. pc = "arguments" /\ ended = "no" /\ file' = "agents"
    BY Zenon DEF Arguments, Goto, At
  <2>2. UNCHANGED <<files, option>> /\ option \in Options
    BY DEF Arguments, input, IInv, Reads
  <2> QED
    BY <2>1, <2>2 DEF Setting
<1>2. /\ pc' \in {"open", "arguments"} /\ (pc' = "arguments" => ended' # "no")
      /\ \/ ended' \in {"usage", "failure"}
         \/ settings' = IF option.kind = "port" THEN [settings EXCEPT !["port"] = option.port]
                        ELSE settings
  BY <1>1, StartupAssumption DEF Arguments, Goto, At, End
<1>3. \A k \in Known : settings[k] = Configured(k) /\ Configured(k)' = Configured(k)
  BY <1>1 DEF Setting, Configured, Setters
<1>4. settings \in [Known -> Int]
  BY DEF IInv, Reads
<1>5. LastSettingWins'
  BY <1>1, <1>2, <1>3, <1>4 DEF LastSettingWins
<1> QED
  BY <1>1, <1>2, <1>5 DEF Setting

LEMMA SettingStep == SettingsInv /\ [Next]_vars => Setting'
<1> SUFFICES ASSUME IInv, ReadingFile, Setting, [Next]_vars PROVE Setting'
  BY DEF SettingsInv
<1>1. CASE Bind
  <2>1. /\ pc = "bind" /\ pc' \in {"bind", "open"} /\ ended = "no"
        /\ UNCHANGED <<files, option, file, settings>>
    BY <1>1 DEF Bind, Goto, At, input, reading
  <2>2. LastSettingWins'
    BY <2>1, SettingCarried DEF Setting
  <2> QED
    BY <2>1, <2>2 DEF Setting
<1>2. CASE Open \/ ReadLine
  <2>1. /\ pc \in {"open", "read"} /\ pc' \in {"open", "read"} /\ ended = "no"
        /\ UNCHANGED <<files, option, file, settings>>
    BY <1>2 DEF Open, ReadLine, Goto, At, input
  <2>2. LastSettingWins'
    BY <2>1, SettingCarried DEF Setting
  <2> QED
    BY <2>1, <2>2 DEF Setting
<1>3. CASE Close
  BY <1>3, CloseSets
<1>4. CASE Apply
  BY <1>4, ApplySets
<1>5. CASE Applied
  <2>1. /\ pc = "apply" /\ pc' = "arguments" /\ ~ HasNext(list) /\ ended = "no" /\ file = "conf"
        /\ UNCHANGED <<files, option, file, list, settings>>
    BY <1>5 DEF Applied, Goto, At, input, reading, IInv, Reads
  <2>2. list.counter = Len(list.items)
    <3>1. GoodList(list, Parsed) /\ FirstRound(list)
      BY <2>1 DEF IInv, Reads, Setting
    <3>2. list.counter \in 0..Len(list.items) /\ Len(list.items) \in Nat
      BY ListsAreGood
    <3> QED
      BY <2>1, <3>1, <3>2, FirstRoundGoesOn
  <2>3. LastSettingWins'
    BY <2>1, SettingCarried DEF Setting
  <2>4. \A k \in Known : Configured(k)' = Configured(k)
    BY <2>1 DEF Configured, Setters
  <2>5. \A k \in Known : settings'[k] = Configured(k)'
    BY <2>1, <2>2, <2>4 DEF Setting
  <2> QED
    BY <2>1, <2>3, <2>5 DEF Setting
<1>6. CASE Arguments
  BY <1>6, ArgumentsSet
<1>7. CASE Load \/ TakeField \/ Loaded \/ AllLoaded
  <2>1. /\ pc \in {"load", "field"} /\ ended = "no"
        /\ pc' \in {"load", "field", "install", "open"} /\ UNCHANGED <<files, option, settings>>
    BY <1>7 DEF Load, TakeField, Loaded, AllLoaded, Goto, At, input
  <2>2. file # "conf" /\ file' # "conf"
    <3>1. file # "conf"
      BY <2>1 DEF IInv, Reads, DataFile
    <3>2. file' = file \/ file' = NextFile
      BY <1>7 DEF Load, TakeField, Loaded, AllLoaded, reading
    <3> QED
      BY <3>1, <3>2 DEF NextFile
  <2>3. LastSettingWins'
    BY <2>1, <2>2, SettingCarried DEF Setting
  <2> QED
    BY <2>1, <2>2, <2>3 DEF Setting
<1>8. CASE Install \/ Malloc \/ MakeObject \/ StartOutput \/ Accept
  <2>1. LastSettingWins'
    BY <1>8, LateSteps, SettingCarried DEF Setting
  <2> QED
    BY <1>8, <2>1, LateSteps DEF Setting
<1>9. CASE ReadBlank \/ LoadTooLong \/ UNCHANGED vars
          \/ BindOutput \/ HandlerStep \/ Interrupt \/ \E a \in Agent : Connect(a)
  <2>1. /\ UNCHANGED <<files, option, pc, file, unread, list, settings>>
        /\ ended = "no" \/ ended' = ended
    BY <1>9, OtherSteps
  <2>2. LastSettingWins'
    BY <2>1, SettingCarried DEF Setting
  <2>3. \A k \in Known : Configured(k)' = Configured(k)
    BY <2>1 DEF Configured, Setters
  <2> QED
    BY <2>1, <2>2, <2>3 DEF Setting, FirstRound
<1> QED
  BY <1>1, <1>2, <1>3, <1>4, <1>5, <1>6, <1>7, <1>8, <1>9 DEF Next, MainStep

\* The settings the server runs with are the last ones of conf.ini, or those
\* compiled in, but for a port given on the command line: main, read_ini_file,
\* get_parameters and load_commandline_arg (server.c, utils/configure.h).
THEOREM SettingsAreTheLast == Spec => []LastSettingWins
<1>1. Init => ReadingFile /\ Setting
  BY DEF Init, ReadingFile, Setting, LastSettingWins
<1>2. IInv /\ ReadingFile /\ Setting /\ [Next]_vars => ReadingFile' /\ Setting'
  BY ReadingStep, SettingStep DEF SettingsInv
<1>3. Setting => LastSettingWins
  BY DEF Setting
<1> QED
  BY <1>1, <1>2, <1>3, AlwaysIInv, PTL DEF Spec

-----------------------------------------------------------------------------
(* Loading *)

LEMMA WantedIsOfFile ==
  ASSUME NEW f \in DataFile, files[f] \in Seq(Parsed)
  PROVE  /\ Lines(f) \in Seq(Parsed)
         /\ DOMAIN Wanted(f) = 1..Len(Lines(f)) /\ Len(Lines(f)) \in Nat
         /\ \A n \in 1..Len(Lines(f)) :
              Wanted(f)[n] = [key  |-> Lines(f)[n].key,
                              vals |-> [k \in 1..Needed(f) \cap DOMAIN Lines(f)[n].vals |-> Lines(f)[n].vals[k]]]
<1>1. Len(files[f]) \in 0..Len(files[f])
  OBVIOUS
<1>2. Lines(f) \in Seq(Parsed)
  BY <1>1, KeptUnfolds DEF Lines
<1>3. DOMAIN Lines(f) = 1..Len(Lines(f)) /\ Len(Lines(f)) \in Nat
  BY <1>2
<1> QED
  BY <1>2, <1>3 DEF Wanted

LEMMA WantedStays ==
  ASSUME UNCHANGED files
  PROVE  \A f \in DataFile : Lines(f)' = Lines(f) /\ Wanted(f)' = Wanted(f)
<1> SUFFICES ASSUME NEW f \in DataFile PROVE Lines(f)' = Lines(f) /\ Wanted(f)' = Wanted(f)
  OBVIOUS
<1>1. Lines(f)' = Lines(f)
  BY DEF Lines
<1> QED
  BY <1>1 DEF Wanted, Needed

\* A step that neither starts nor ends the loading of a file.
LEMMA LoadingCarried ==
  ASSUME Loading, UNCHANGED <<files, file, infos>>,
         pc \notin {"load", "field", "install", "malloc", "init", "output", "accept"},
         pc' \notin {"load", "field", "install", "malloc", "init", "output", "accept"}
  PROVE  Loading'
<1>1. \A f \in DataFile : /\ Past(f)' <=> Past(f)
                          /\ ~ Started(f) /\ ~ Started(f)'
                          /\ Wanted(f)' = Wanted(f)
  BY WantedStays DEF Past, Started
<1>2. \A f \in DataFile : (Past(f)' => infos'[f] = Wanted(f)')
                          /\ (~ Past(f)' /\ ~ Started(f)' => infos'[f] = <<>>)
  BY <1>1 DEF Loading
<1> QED
  BY <1>2 DEF Loading

LEMMA CloseLoads ==
  ASSUME LoadingInv, Close
  PROVE  Loading'
<1>1. /\ pc = "read" /\ pc' = (IF file = "conf" THEN "apply" ELSE "load") /\ unread = <<>>
      /\ UNCHANGED <<files, file, list, infos>>
  BY DEF Close, Goto, At, input, reading
<1>2. CASE file = "conf"
  BY <1>1, <1>2, LoadingCarried DEF LoadingInv
<1>3. CASE file # "conf"
  <2>1. file \in DataFile
    BY <1>3 DEF LoadingInv, SettingsInv, IInv, Reads, File
  <2>2. files[file] # Missing /\ list.items = Kept(files[file])[LinesRead]
        /\ list.counter = 0 /\ FirstRound(list)
    BY <1>1, <1>3 DEF LoadingInv, SettingsInv, ReadingFile
  <2>3. files[file] \in Seq(Parsed) /\ LinesRead = Len(files[file])
    BY <1>1, <2>2, FilesAreParsed DEF LinesRead, LoadingInv, SettingsInv
  <2>4. list.items = Lines(file)
    BY <2>2, <2>3 DEF Lines
  <2>5. ~ Past(file) /\ infos[file] = <<>>
    BY <1>1, <2>1 DEF Past, Started, DataFile, LoadingInv, Loading
  <2>6. Filling'
    <3>1. Lines(file)' = Lines(file)
      BY <1>1, <2>1 DEF Lines
    <3>2. Len(list.items) \in Nat
      BY ListsAreGood DEF LoadingInv, SettingsInv
    <3> QED
      BY <1>1, <2>2, <2>4, <2>5, <3>1, <3>2 DEF Filling, FirstRound
  <2>7. \A f \in DataFile : /\ Past(f)' <=> Past(f)
                            /\ ~ Started(f)' => ~ Started(f)
                            /\ Wanted(f)' = Wanted(f)
    BY <1>1, WantedStays DEF Past, Started
  <2>8. \A f \in DataFile : (Past(f)' => infos'[f] = Wanted(f)')
                            /\ (~ Past(f)' /\ ~ Started(f)' => infos'[f] = <<>>)
    BY <1>1, <2>7 DEF LoadingInv, Loading
  <2> QED
    BY <1>1, <1>3, <2>2, <2>5, <2>6, <2>8 DEF Loading
<1> QED
  BY <1>2, <1>3

\* While a file is loaded, no array changes but its own.
LEMMA SameFile ==
  ASSUME LoadingInv, UNCHANGED <<files, file>>, pc \in {"load", "field"}, pc' \in {"load", "field"},
         \A f \in DataFile : f # file => infos'[f] = infos[f]
  PROVE  \A f \in DataFile : (Past(f)' => infos'[f] = Wanted(f)')
                             /\ (~ Past(f)' /\ ~ Started(f)' => infos'[f] = <<>>)
<1>1. file \in DataFile /\ ~ Past(file)
  BY DEF LoadingInv, SettingsInv, IInv, Reads, Past, DataFile
<1>2. \A f \in DataFile : /\ Past(f)' <=> Past(f)
                          /\ Started(f)' <=> Started(f)
                          /\ Started(f) <=> f = file
                          /\ Wanted(f)' = Wanted(f)
  BY WantedStays DEF Past, Started
<1> QED
  BY <1>1, <1>2 DEF LoadingInv, Loading

LEMMA LoadLoads ==
  ASSUME LoadingInv, Load
  PROVE  Loading'
<1> DEFINE i == Len(infos[file])
           line == NextItem(list)
<1>1. /\ pc = "load" /\ pc' = "field" /\ HasNext(list) /\ i < list.size /\ got' = <<>>
      /\ entry' = [key |-> line.key, vals |-> Filled(line.vals)]
      /\ list' = AfterNext(list) /\ UNCHANGED <<files, file, infos>>
  BY DEF Load, More, Goto, At, input
<1>2. Filling /\ list.counter = i
  BY <1>1 DEF LoadingInv, Loading
<1>3. GoodList(list, Parsed) /\ list.items \in Seq(Parsed) /\ list.size = Len(list.items)
  BY ListsAreGood DEF LoadingInv, SettingsInv, IInv, Reads
<1>4. /\ line = list.items[i + 1] /\ list'.items = list.items
      /\ list'.counter = i + 1 /\ FirstRound(list)'
  <2>1. FirstRound(list)' <=> FirstRound(AfterNext(list))
    BY <1>1 DEF FirstRound
  <2> QED
    BY <1>1, <1>2, <1>3, <2>1, FirstRoundGoesOn DEF Filling
<1>5. file \in DataFile /\ infos[file] \in Seq(Parsed)
  BY <1>1 DEF LoadingInv, SettingsInv, IInv, Reads, Loads
<1>6. Filling'
  <2>1. Lines(file)' = Lines(file) /\ Wanted(file)' = Wanted(file)
    BY <1>1, <1>5, WantedStays
  <2> QED
    BY <1>1, <1>2, <1>4, <2>1 DEF Filling
<1>7. line \in Parsed
  BY <1>1, <1>3, NextIsGood
<1>8. \E x : Entry(x)' /\ x = list'.items[list'.counter]
  <2>1. /\ entry'.key = line.key /\ entry'.vals = Filled(line.vals)
        /\ line.vals \in Seq(Int) /\ Len(got') = 0
    BY <1>1, <1>7 DEF Parsed
  <2>2. Len(line.vals) > 0 => line.vals # <<>>
    BY <2>1
  <2>3. FirstRound(Filled(line.vals)) /\ Filled(line.vals).counter = 0 /\ Filled(line.vals).items = line.vals
    BY <2>1, <2>2 DEF Filled, FirstRound
  <2>4. Len(line.vals) \in Nat /\ 1..0 = {}
    BY <2>1
  <2>5. PICK x : x = line
    OBVIOUS
  <2>6. Entry(x)'
    <3> HIDE DEF line
    <3>1. FirstRound(entry.vals)'
      BY <2>1, <2>3 DEF FirstRound
    <3> QED
      BY <2>1, <2>3, <2>4, <2>5, <3>1 DEF Entry
  <2>7. x = list'.items[list'.counter]
    BY <1>4, <2>5
  <2> QED
    BY <2>6, <2>7
<1>9. \A f \in DataFile : (Past(f)' => infos'[f] = Wanted(f)')
                          /\ (~ Past(f)' /\ ~ Started(f)' => infos'[f] = <<>>)
  BY <1>1, SameFile
<1> QED
  BY <1>1, <1>4, <1>6, <1>8, <1>9 DEF Loading

LEMMA TakeFieldLoads ==
  ASSUME LoadingInv, TakeField
  PROVE  Loading'
<1>1. /\ pc = "field" /\ pc' = "field" /\ ended = "no" /\ Len(got) < Needed(file)
      /\ IF HasNext(entry.vals)
         THEN got' = Append(got, NextItem(entry.vals)) /\ ended' = "no"
         ELSE ended' = "crashed"
      /\ entry' = [entry EXCEPT !.vals = AfterNext(@)]
      /\ UNCHANGED <<files, file, list, infos>>
  BY DEF TakeField, At, End, input, reading
<1>2. file \in DataFile /\ Filling /\ list.counter = Len(infos[file]) + 1
  BY <1>1 DEF LoadingInv, Loading, SettingsInv, IInv, Reads
<1>3. Filling'
  <2>1. Lines(file)' = Lines(file) /\ Wanted(file)' = Wanted(file)
    BY <1>1, <1>2, WantedStays
  <2> QED
    BY <1>1, <1>2, <2>1 DEF Filling, FirstRound
<1>4. PICK x : x = list.items[list.counter]
  OBVIOUS
<1>5. Entry(x)
  BY <1>1, <1>4 DEF LoadingInv, Loading
<1>6. ASSUME ended' = "no" PROVE Entry(x)'
  <2>1. HasNext(entry.vals) /\ got' = Append(got, NextItem(entry.vals))
    BY <1>1, <1>6
  <2>2. /\ DOMAIN entry = {"key", "vals"} /\ GoodList(entry.vals, Int) /\ got \in Seq(Int)
        /\ entry.vals.counter = Len(got) /\ FirstRound(entry.vals)
        /\ entry.key = x.key /\ entry.vals.items = x.vals
        /\ \A k \in 1..Len(got) : got[k] = x.vals[k]
    BY <1>5 DEF Entry, LoadingInv, SettingsInv, IInv, Loads
  <2>3. /\ Len(got) < Len(x.vals) /\ NextItem(entry.vals) = x.vals[Len(got) + 1]
        /\ AfterNext(entry.vals).counter = Len(got) + 1 /\ AfterNext(entry.vals).items = x.vals
        /\ FirstRound(AfterNext(entry.vals))
    BY <2>1, <2>2, FirstRoundGoesOn
  <2>4. /\ entry'.key = x.key /\ entry'.vals = AfterNext(entry.vals)
    BY <1>1, <2>2
  <2>5. x.vals \in Seq(Int) /\ Len(x.vals) \in Nat
    <3>1. x.vals \in Seq(Int)
      BY <2>2 DEF GoodList, ListType
    <3> QED
      BY <3>1
  <2>6. /\ Len(got) \in Nat /\ Len(got') = Len(got) + 1
        /\ \A k \in 1..Len(got) : got'[k] = got[k]
        /\ got'[Len(got) + 1] = x.vals[Len(got) + 1]
    <3>1. NextItem(entry.vals) \in Int
      BY <2>1, <2>2, NextIsGood
    <3> QED
      BY <2>1, <2>2, <2>3, <3>1
  <2>7. \A k \in 1..Len(got') : got'[k] = x.vals[k]
    BY <2>2, <2>6
  <2>8. FirstRound(entry.vals)'
    BY <2>3, <2>4 DEF FirstRound
  <2>9. Len(got') <= Len(x.vals)
    BY <2>3, <2>5, <2>6
  <2> QED
    BY <2>3, <2>4, <2>6, <2>7, <2>8, <2>9 DEF Entry
<1>7. x = list'.items[list'.counter]
  BY <1>1, <1>4
<1>8. \A f \in DataFile : (Past(f)' => infos'[f] = Wanted(f)')
                          /\ (~ Past(f)' /\ ~ Started(f)' => infos'[f] = <<>>)
  BY <1>1, SameFile
<1> QED
  BY <1>1, <1>2, <1>3, <1>6, <1>7, <1>8 DEF Loading

\* The fields that were taken from a line are those its loader wants.
LEMMA LoadedLoads ==
  ASSUME LoadingInv, Loaded
  PROVE  Loading'
<1> DEFINE i == Len(infos[file])
<1>1. /\ pc = "field" /\ pc' = "load" /\ ended = "no" /\ Len(got) = Needed(file)
      /\ infos' = [infos EXCEPT ![file] = Append(@, [key |-> entry.key, vals |-> got])]
      /\ UNCHANGED <<files, file, list>>
  BY DEF Loaded, Goto, At, input, reading
<1>2. file \in DataFile /\ Filling /\ list.counter = i + 1
  BY <1>1 DEF LoadingInv, Loading, SettingsInv, IInv, Reads
<1>3. PICK x : x = list.items[i + 1]
  OBVIOUS
<1>4. Entry(x)
  BY <1>1, <1>2, <1>3 DEF LoadingInv, Loading
<1>5. /\ infos \in [DataFile -> Seq(Parsed)] /\ got \in Seq(Int) /\ Len(got) \in Nat
      /\ entry.key \in Key /\ GoodList(entry.vals, Int) /\ IInv
  BY DEF LoadingInv, SettingsInv, IInv, Loads
<1>6. infos[file] \in Seq(Parsed) /\ i \in Nat
  BY <1>2, <1>5
<1>7. /\ list.items = Lines(file) /\ list.items \in Seq(Parsed) /\ files[file] \in Seq(Parsed)
      /\ i + 1 \in 1..Len(list.items) /\ Len(list.items) \in Nat
  <2>1. list.items = Lines(file) /\ files[file] # Missing
    BY <1>2 DEF Filling
  <2>2. list.counter <= Len(list.items) /\ list.items \in Seq(Parsed)
    BY <1>5, ListsAreGood
  <2> QED
    BY <1>2, <1>5, <1>6, <2>1, <2>2, FilesAreParsed
<1>8. [key |-> entry.key, vals |-> got] = Wanted(file)[i + 1]
  <2>1. Wanted(file)[i + 1] = [key  |-> x.key,
                               vals |-> [k \in 1..Needed(file) \cap DOMAIN x.vals |-> x.vals[k]]]
    BY <1>2, <1>3, <1>7, WantedIsOfFile, ZenonT(30)
  <2>2. entry.key = x.key /\ entry.vals.items = x.vals /\ Len(got) <= Len(x.vals)
        /\ \A k \in 1..Len(got) : got[k] = x.vals[k]
    BY <1>4 DEF Entry
  <2>3. x.vals \in Seq(Int)
    BY <1>5, <2>2 DEF GoodList, ListType
  <2>4. 1..Needed(file) \cap DOMAIN x.vals = 1..Len(got)
    <3>1. DOMAIN x.vals = 1..Len(x.vals) /\ Len(x.vals) \in Nat
      BY <2>3
    <3> QED
      BY <1>1, <1>5, <2>2, <3>1
  <2>5. got = [k \in 1..Len(got) |-> got[k]]
    BY <1>5
  <2>6. got = [k \in 1..Len(got) |-> x.vals[k]]
    BY <2>2, <2>5
  <2> QED
    BY <2>1, <2>2, <2>4, <2>6
<1>9. /\ infos'[file] = Append(infos[file], [key |-> entry.key, vals |-> got])
      /\ [key |-> entry.key, vals |-> got] \in Parsed
      /\ \A f \in DataFile : f # file => infos'[f] = infos[f]
  BY <1>1, <1>2, <1>5 DEF Parsed
<1>10. Lines(file)' = Lines(file) /\ Wanted(file)' = Wanted(file)
  BY <1>1, <1>2, WantedStays
<1>11. Len(infos'[file]) = i + 1 /\ \A n \in 1..(i + 1) : infos'[file][n] = Wanted(file)[n]
  <2>1. \A n \in 1..i : infos[file][n] = Wanted(file)[n]
    BY <1>2 DEF Filling
  <2> HIDE DEF i
  <2>2. PICK e : e = [key |-> entry.key, vals |-> got]
    OBVIOUS
  <2>3. infos'[file] = Append(infos[file], e) /\ e \in Parsed /\ e = Wanted(file)[i + 1]
    BY <1>8, <1>9, <2>2
  <2>4. Len(infos'[file]) = i + 1 /\ infos'[file][i + 1] = e
        /\ \A n \in 1..i : infos'[file][n] = infos[file][n]
    BY <1>6, <2>3 DEF i
  <2> QED
    BY <1>6, <2>1, <2>3, <2>4
<1>12. Filling'
  BY <1>1, <1>2, <1>7, <1>10, <1>11 DEF Filling, FirstRound
<1>13. \A f \in DataFile : (Past(f)' => infos'[f] = Wanted(f)')
                           /\ (~ Past(f)' /\ ~ Started(f)' => infos'[f] = <<>>)
  BY <1>1, <1>9, SameFile
<1> QED
  BY <1>1, <1>2, <1>11, <1>12, <1>13 DEF Loading

\* When a file's iterator has come round, its array is complete.
LEMMA AllLoadedLoads ==
  ASSUME LoadingInv, AllLoaded
  PROVE  Loading'
<1> DEFINE i == Len(infos[file])
<1>1. /\ pc = "load" /\ pc' = (IF file = "beacons" THEN "install" ELSE "open")
      /\ ~ (HasNext(list) /\ i < list.size)
      /\ file' = NextFile /\ UNCHANGED <<files, infos>>
  BY DEF AllLoaded, More, Goto, At, input
<1>2. file \in DataFile /\ Filling /\ list.counter = i /\ IInv
  BY <1>1 DEF LoadingInv, Loading, SettingsInv, IInv, Reads
<1>3. /\ infos[file] \in Seq(Parsed) /\ i \in Nat
      /\ list.items = Lines(file) /\ files[file] \in Seq(Parsed)
      /\ GoodList(list, Parsed) /\ list.size = Len(list.items) /\ list.size \in Nat
  BY <1>2, ListsAreGood, FilesAreParsed DEF Filling, IInv, Loads, Reads
<1>4. i = Len(Lines(file))
  <2>1. HasNext(list) <=> i < list.size
    BY <1>2, <1>3, FirstRoundGoesOn DEF Filling
  <2>2. i <= list.size
    BY <1>2, <1>3 DEF Filling
  <2> QED
    BY <1>1, <1>3, <2>1, <2>2
<1>5. infos[file] = Wanted(file)
  <2>1. DOMAIN Wanted(file) = 1..i /\ Wanted(file) = [n \in DOMAIN Lines(file) |-> Wanted(file)[n]]
    BY <1>2, <1>3, <1>4, WantedIsOfFile DEF Wanted
  <2>2. infos[file] = [n \in 1..i |-> infos[file][n]]
    BY <1>3
  <2>3. \A n \in 1..i : infos[file][n] = Wanted(file)[n]
    BY <1>2 DEF Filling
  <2>4. DOMAIN Lines(file) = 1..i
    BY <2>1 DEF Wanted
  <2> QED
    BY <2>1, <2>2, <2>3, <2>4
<1>6. \A f \in DataFile : /\ Past(f)' <=> Past(f) \/ f = file
                          /\ ~ Started(f)' /\ (Started(f) <=> f = file)
                          /\ Wanted(f)' = Wanted(f)
  <2>1. \A f \in DataFile : Past(f)' <=> Past(f) \/ f = file
    BY <1>1, <1>2 DEF Past, NextFile, DataFile
  <2> QED
    BY <1>1, <1>2, <2>1, WantedStays DEF Started
<1>7. \A f \in DataFile : (Past(f)' => infos'[f] = Wanted(f)')
                          /\ (~ Past(f)' /\ ~ Started(f)' => infos'[f] = <<>>)
  BY <1>1, <1>5, <1>6 DEF LoadingInv, Loading
<1>8. pc' = "install" => file' = "beacons"
  BY <1>1 DEF NextFile
<1>9. pc' \in {"install", "open"}
  BY <1>1
<1> QED
  BY <1>7, <1>8, <1>9 DEF Loading

LEMMA ArgumentsLoad ==
  ASSUME LoadingInv, Arguments
  PROVE  Loading'
<1>1. pc = "arguments" /\ ended = "no" /\ file' = "agents"
  BY Zenon DEF Arguments, Goto, At
<1>2. file = "conf" /\ UNCHANGED <<files, infos>>
  BY <1>1 DEF Arguments, input, LoadingInv, SettingsInv, Setting
<1>3. pc' \in {"open", "arguments"}
  <2>1. pc' = "open" \/ pc' = pc
    BY Zenon DEF Arguments, Goto, At
  <2> QED
    BY <1>1, <2>1
<1>4. \A f \in DataFile : ~ Past(f) /\ ~ Past(f)' /\ ~ Started(f)
  BY <1>1, <1>2, <1>3 DEF Past, Started
<1>5. \A f \in DataFile : infos'[f] = <<>>
  BY <1>2, <1>4 DEF LoadingInv, Loading
<1> QED
  BY <1>3, <1>4, <1>5 DEF Loading

LEMMA LoadingStep == LoadingInv /\ [Next]_vars => Loading'
<1> SUFFICES ASSUME LoadingInv, [Next]_vars PROVE Loading'
  OBVIOUS
<1> DEFINE Quiet == {"load", "field", "install", "malloc", "init", "output", "accept"}
<1>1. CASE Bind \/ Open \/ ReadLine \/ Apply \/ Applied
  <2>1. Loading
    BY DEF LoadingInv
  <2>2. UNCHANGED <<files, file, infos>>
    BY <1>1 DEF Bind, Open, ReadLine, Apply, Applied, input, reading
  <2>3. pc \notin Quiet /\ pc' \notin Quiet
    BY <1>1 DEF Bind, Open, ReadLine, Apply, Applied, Goto, At
  <2> QED
    BY <2>1, <2>2, <2>3, LoadingCarried
<1>2. CASE Close \/ Arguments
  BY <1>2, CloseLoads, ArgumentsLoad
<1>3. CASE Load \/ TakeField \/ Loaded \/ AllLoaded
  BY <1>3, LoadLoads, TakeFieldLoads, LoadedLoads, AllLoadedLoads
<1>4. CASE Install \/ Malloc \/ MakeObject \/ StartOutput \/ Accept
  <2>1. /\ UNCHANGED <<files, file, infos>>
        /\ pc \in {"install", "malloc", "init", "output", "accept"}
        /\ pc' \in {"install", "malloc", "init", "output", "accept"}
    BY <1>4, LateSteps
  <2>2. file' = "beacons"
    BY <2>1 DEF LoadingInv, Loading
  <2>3. \A f \in DataFile : Past(f) /\ infos'[f] = Wanted(f)'
    BY <2>1, WantedStays DEF LoadingInv, Loading, Past
  <2>4. \A f \in DataFile : Past(f)'
    BY <2>1 DEF Past
  <2> QED
    BY <2>1, <2>2, <2>3, <2>4 DEF Loading
<1>5. CASE ReadBlank \/ LoadTooLong \/ UNCHANGED vars
          \/ BindOutput \/ HandlerStep \/ Interrupt \/ \E a \in Agent : Connect(a)
  <2>1. /\ UNCHANGED <<files, option, pc, file, unread, list, entry, got, infos, settings>>
        /\ ended = "no" \/ ended' = ended
    BY <1>5, OtherSteps
  <2>2. \A f \in DataFile : /\ Past(f)' <=> Past(f)
                            /\ Started(f)' <=> Started(f)
                            /\ Lines(f)' = Lines(f) /\ Wanted(f)' = Wanted(f)
    BY <2>1, WantedStays DEF Past, Started
  <2>3. pc \in {"load", "field"} => file \in DataFile
    BY DEF LoadingInv, SettingsInv, IInv, Reads
  <2>4. pc \in {"load", "field"} => Filling'
    <3> SUFFICES ASSUME pc \in {"load", "field"} PROVE Filling'
      OBVIOUS
    <3>1. Filling /\ file \in DataFile
      BY <2>3 DEF LoadingInv, Loading
    <3> QED
      BY <2>1, <2>2, <3>1 DEF Filling, FirstRound
  <2>5. PICK x : x = list.items[list.counter]
    OBVIOUS
  <2>6. pc = "field" /\ ended' = "no" => Entry(x)'
    <3> SUFFICES ASSUME pc = "field", ended' = "no" PROVE Entry(x)'
      OBVIOUS
    <3>1. Entry(x)
      BY <2>1, <2>5 DEF LoadingInv, Loading
    <3> QED
      BY <2>1, <3>1 DEF Entry, FirstRound
  <2>7. x = list'.items[list'.counter]
    BY <2>1, <2>5
  <2> QED
    BY <2>1, <2>2, <2>4, <2>6, <2>7 DEF LoadingInv, Loading
<1> QED
  BY <1>1, <1>2, <1>3, <1>4, <1>5 DEF Next, MainStep

LEMMA LoadingIsSound == LoadingInv => LoadsWholeFile
<1> SUFFICES ASSUME LoadingInv, NEW f \in DataFile
             PROVE  /\ Past(f) => infos[f] = Wanted(f)
                    /\ \A n \in DOMAIN infos[f] : n \in DOMAIN Wanted(f) /\ infos[f][n] = Wanted(f)[n]
  BY DEF LoadsWholeFile
<1>1. infos[f] \in Seq(Parsed)
  BY DEF LoadingInv, SettingsInv, IInv, Loads
<1>2. CASE Past(f)
  BY <1>2 DEF LoadingInv, Loading
<1>3. CASE ~ Past(f) /\ ~ Started(f)
  BY <1>3 DEF LoadingInv, Loading
<1>4. CASE ~ Past(f) /\ Started(f)
  <2>1. file = f /\ Filling
    BY <1>4 DEF Started, LoadingInv, Loading
  <2>2. files[f] \in Seq(Parsed)
    BY <2>1, FilesAreParsed DEF Filling, LoadingInv, SettingsInv
  <2>3. DOMAIN Wanted(f) = 1..Len(Lines(f)) /\ Len(Lines(f)) \in Nat
    BY <2>2, WantedIsOfFile
  <2>4. DOMAIN infos[f] = 1..Len(infos[f]) /\ Len(infos[f]) \in Nat
    BY <1>1
  <2> QED
    BY <1>4, <2>1, <2>3, <2>4 DEF Filling
<1> QED
  BY <1>2, <1>3, <1>4

\* Every array the server works with is its file: the loaders of agents, rooms
\* and beacons (agentInfo.h, roomInfo.h, beaconInfo.h over param_reader.h) take
\* each line that says something, once and in order, whatever the files hold.
THEOREM EveryLineIsLoaded == Spec => []LoadsWholeFile
<1>1. Init => ReadingFile /\ Setting /\ Loading
  BY DEF Init, ReadingFile, Setting, LastSettingWins, Loading, Past
<1>2. IInv /\ ReadingFile /\ Setting /\ Loading /\ [Next]_vars => ReadingFile' /\ Setting' /\ Loading'
  BY ReadingStep, SettingStep, LoadingStep DEF SettingsInv, LoadingInv
<1>3. IInv /\ ReadingFile /\ Setting /\ Loading => LoadsWholeFile
  BY LoadingIsSound DEF LoadingInv, SettingsInv
<1> QED
  BY <1>1, <1>2, <1>3, AlwaysIInv, PTL DEF Spec
=============================================================================
