------------------------------ MODULE Startup ------------------------------
(***************************************************************************)
(* What main does before the server serves (server.c): it binds its port,   *)
(* reads conf.ini and the command line, loads the agents, rooms and beacons, *)
(* installs the handler of SIGINT, allocates and initialises five objects,  *)
(* starts the HTTP thread and accepts.  Agents may connect, and ^C may come, *)
(* at any of these steps.                                                   *)
(***************************************************************************)
EXTENDS ParamList, Integers

CONSTANTS
  Agent,          \* agents that may connect
  Backlog,        \* listen's second argument, 10
  Key,            \* the keys of lines
  Known,          \* those get_parameters knows, "port" and "MAL" among them
  Default,        \* Default[k]: the value compiled in for key k
  Configurations, \* what the four files may hold
  Options,        \* what the command line may be
  Missing,        \* a file that cannot be opened
  Comment, NoKey, \* the keys of lines that are skipped, or have no separator
  Blank,          \* the key of a line that has nothing but blanks where its
                  \* key, one of its fields or all its text should be
  TooLong         \* TooLong[f]: the keys that do not fit the id of f's array

DataFile == {"agents", "rooms", "beacons"}
File == DataFile \cup {"conf"}

\* A line is what the parsers make of it: its key and its fields.
Parsed == [key : Key, vals : Seq(Int)]

\* The fields conf.ini has for a key the program knows.
OneValueEach(lines) ==
  \A n \in DOMAIN lines : lines[n].key \in Known => Len(lines[n].vals) = 1

ASSUME StartupAssumption ==
  /\ {"port", "MAL"} \subseteq Known /\ Known \subseteq Key
  /\ Default \in [Known -> Int]
  /\ Comment \in Key \ Known /\ NoKey \in Key \ Known /\ Comment # NoKey
  /\ Blank \in Key \ (Known \cup {Comment, NoKey})
  /\ TooLong \in [DataFile -> SUBSET (Key \ {Comment, NoKey, Blank})]
  /\ TooLong["beacons"] \subseteq TooLong["agents"] /\ TooLong["rooms"] = {}
  /\ \A c \in Configurations :
       /\ \A f \in File : c[f] # Missing => c[f] \in Seq(Parsed)
       /\ c["conf"] # Missing => OneValueEach(c["conf"])
  /\ \A o \in Options :
       /\ o.kind \in {"none", "port", "help", "unknown"}
       /\ o.kind = "port" => o.port \in Int

\* How many fields the loader of a file takes from each line.
Needed(f) == IF f = "beacons" THEN 1 ELSE 4

\* logger, logger_for_position, agent_list, list and position_list, in the
\* order in which main makes them.
Objects == 5
Logger == 1
List == 4
PositionList == 5

NoPort == -1

VARIABLES
  files, option,      \* the input: the files' contents, the command line
  pc,                 \* where main is, unless the handler runs on top of it
  file, unread, list, \* the file being read, its lines to come, the list made of it
  entry, got,         \* the line being loaded and the fields taken from it
  infos,              \* the arrays agent_infos, room_infos and beacon_infos
  settings,           \* the globals conf.ini and the command line set
  installed,          \* signal(SIGINT, SIGINT_Handler) was called
  made,               \* how many of the objects are initialised
  q_max,              \* list->q_max
  output,             \* the HTTP thread
  handler,            \* where SIGINT_Handler is
  bound, backlog,     \* the server's socket: its port, the connections not accepted
  served,             \* agents whose connection got a thread
  ended               \* how the process ended; "crashed" also stands for the
                      \* point from which nothing is known of it

input   == <<files, option>>
reading == <<file, unread, list>>
loading == <<entry, got>>
built   == <<installed, made, q_max>>
net     == <<bound, backlog, served>>
vars == <<input, pc, reading, loading, infos, settings, built, output, handler, net, ended>>

Init ==
  /\ files \in Configurations /\ option \in Options
  /\ pc = "bind"
  /\ file = "conf" /\ unread = <<>> /\ list = EmptyList
  /\ entry = [key |-> NoKey, vals |-> EmptyList] /\ got = <<>>
  /\ infos = [f \in DataFile |-> <<>>]
  /\ settings = Default
  /\ installed = FALSE /\ made = 0 /\ q_max = 0
  /\ output = "none" /\ handler = "off"
  /\ bound = NoPort /\ backlog = <<>> /\ served = {}
  /\ ended = "no"

\* main runs while the process does and no handler interrupts it.
At(from) == pc = from /\ handler = "off" /\ ended = "no"
Goto(from, to) == At(from) /\ pc' = to

End(how) == ended' = how

-----------------------------------------------------------------------------
(* The socket *)

\* start_server_thread: bind to the port compiled in, and listen.
Bind ==
  /\ \/ Goto("bind", "open") /\ bound' = settings["port"] /\ UNCHANGED ended
     \/ At("bind") /\ End("bind_failed") /\ UNCHANGED <<pc, bound>>
  /\ UNCHANGED <<input, reading, loading, infos, settings, built, output, handler,
                 backlog, served>>

-----------------------------------------------------------------------------
(* Reading a file into a list: read_ini_file and read_param_file *)

Open ==
  /\ IF files[file] = Missing
     THEN At("open") /\ End("failure") /\ UNCHANGED <<pc, unread, list>>
     ELSE /\ Goto("open", "read") /\ UNCHANGED ended
          /\ unread' = files[file] /\ list' = EmptyList
  /\ UNCHANGED <<input, file, loading, infos, settings, built, output, handler, net>>

\* Comments and lines of fewer than three characters are skipped.  A line
\* without a separator has no key: the parameter lists drop it, the list of
\* conf.ini takes it.
Dropped(line) == line.key = Comment \/ (line.key = NoKey /\ file # "conf")

\* Slip: a line that was dropped ends the file.
ReadLineStops ==
  /\ Goto("read", "read") /\ unread # <<>> /\ Head(unread).key # Blank
  /\ IF Dropped(Head(unread))
     THEN unread' = <<>> /\ UNCHANGED list
     ELSE unread' = Tail(unread) /\ list' = AddItem(list, Head(unread))
  /\ UNCHANGED <<input, file, loading, infos, settings, built, output, handler, net, ended>>

ReadLine ==
  /\ Goto("read", "read") /\ unread # <<>> /\ Head(unread).key # Blank
  /\ unread' = Tail(unread)
  /\ list' = IF Dropped(Head(unread)) THEN list ELSE AddItem(list, Head(unread))
  /\ UNCHANGED <<input, file, loading, infos, settings, built, output, handler, net, ended>>

\* Of a stretch of blanks trim_str leaves a negative length, for which nothing
\* is allocated and to which strncpy copies without an end.
ReadBlank ==
  /\ At("read") /\ unread # <<>> /\ Head(unread).key = Blank
  /\ End("crashed")
  /\ UNCHANGED <<input, pc, reading, loading, infos, settings, built, output, handler, net>>

Close ==
  /\ Goto("read", IF file = "conf" THEN "apply" ELSE "load") /\ unread = <<>>
  /\ UNCHANGED <<input, reading, loading, infos, settings, built, output, handler, net, ended>>

-----------------------------------------------------------------------------
(* get_parameters and load_commandline_arg *)

\* Slip: only a setting that still has its default is set.
SetToFirst(k, v) ==
  IF k \in Known /\ settings[k] = Default[k] THEN [settings EXCEPT ![k] = v] ELSE settings

SetTo(k, v) == IF k \in Known THEN [settings EXCEPT ![k] = v] ELSE settings

\* One turn of the loop over conf.ini.  The key of a line without '=' is an
\* uninitialised pointer: strcmp finds some text there, or none.
Apply ==
  /\ At("apply") /\ HasNext(list)
  /\ LET line == NextItem(list)
     IN  IF line.key = NoKey
         THEN UNCHANGED settings /\ (End("crashed") \/ UNCHANGED ended)
         ELSE settings' = SetTo(line.key, line.vals[1]) /\ UNCHANGED ended
  /\ list' = AfterNext(list)
  /\ UNCHANGED <<input, pc, file, unread, loading, infos, built, output, handler, net>>

Applied ==
  /\ Goto("apply", "arguments") /\ ~ HasNext(list)
  /\ UNCHANGED <<input, reading, loading, infos, settings, built, output, handler, net, ended>>

Arguments ==
  /\ CASE option.kind = "none" -> Goto("arguments", "open") /\ UNCHANGED <<settings, ended>>
       [] option.kind = "port" -> /\ Goto("arguments", "open") /\ UNCHANGED ended
                                  /\ settings' = [settings EXCEPT !["port"] = option.port]
       [] option.kind = "help" -> At("arguments") /\ End("usage") /\ UNCHANGED <<pc, settings>>
       [] OTHER -> At("arguments") /\ End("failure") /\ UNCHANGED <<pc, settings>>
  /\ file' = "agents"
  /\ UNCHANGED <<input, unread, list, loading, infos, built, output, handler, net>>

-----------------------------------------------------------------------------
(* load_agent_infos, load_room_infos and load_beacon_infos *)

\* The array has as many elements as the list; next_param_s is asked first.
More == HasNext(list) /\ Len(infos[file]) < list.size

Load ==
  /\ Goto("load", "field") /\ More /\ NextItem(list).key \notin TooLong[file]
  /\ entry' = [key |-> NextItem(list).key, vals |-> Filled(NextItem(list).vals)]
  /\ got' = <<>>
  /\ list' = AfterNext(list)
  /\ UNCHANGED <<input, file, unread, infos, settings, built, output, handler, net, ended>>

\* The key is copied into the id whatever its length.
LoadTooLong ==
  /\ At("load") /\ More /\ NextItem(list).key \in TooLong[file]
  /\ End("crashed")
  /\ UNCHANGED <<input, pc, reading, loading, infos, settings, built, output, handler, net>>

\* The next field is taken from next_val's answer, which is not compared with
\* NULL.
TakeField ==
  /\ At("field") /\ Len(got) < Needed(file)
  /\ IF HasNext(entry.vals)
     THEN got' = Append(got, NextItem(entry.vals)) /\ UNCHANGED ended
     ELSE End("crashed") /\ UNCHANGED got
  /\ entry' = [entry EXCEPT !.vals = AfterNext(@)]
  /\ UNCHANGED <<input, pc, reading, infos, settings, built, output, handler, net>>

\* infos[i] is complete, and i is counted up; for a beacon next_val is called
\* once more.
Loaded ==
  /\ Goto("field", "load") /\ Len(got) = Needed(file)
  /\ infos' = [infos EXCEPT ![file] = Append(@, [key |-> entry.key, vals |-> got])]
  /\ entry' = IF file = "beacons" THEN [entry EXCEPT !.vals = AfterNext(@)] ELSE entry
  /\ UNCHANGED <<input, reading, got, settings, built, output, handler, net, ended>>

NextFile == IF file = "agents" THEN "rooms" ELSE "beacons"

AllLoaded ==
  /\ Goto("load", IF file = "beacons" THEN "install" ELSE "open")
  /\ ~ More
  /\ file' = NextFile
  /\ UNCHANGED <<input, unread, list, loading, infos, settings, built, output, handler,
                 net, ended>>

-----------------------------------------------------------------------------
(* The signal handler, the objects, the HTTP thread, the connections *)

Install ==
  /\ Goto("install", "malloc")
  /\ installed' = TRUE
  /\ UNCHANGED <<input, reading, loading, infos, settings, made, q_max, output, handler,
                 net, ended>>

\* From here on the object's pointer is not NULL, and its lock not yet a lock.
Malloc ==
  /\ Goto("malloc", "init")
  /\ UNCHANGED <<input, reading, loading, infos, settings, built, output, handler, net, ended>>

\* Slip: the length is taken as it is.
QueueLengthUnchecked(n) == n

\* init_blist does not take a length that is not positive.
QueueLength(n) == IF n > 0 THEN n ELSE 5

\* Slip: the last object is left to be made later.
MakeObjectEarly ==
  /\ \/ /\ Goto("init", IF made + 1 = Objects - 1 THEN "output" ELSE "malloc")
        /\ made' = made + 1 /\ UNCHANGED ended
        /\ q_max' = IF made' = List THEN QueueLength(settings["MAL"]) ELSE q_max
     \/ At("init") /\ made < 2 /\ End("failure") /\ UNCHANGED <<pc, made, q_max>>
  /\ UNCHANGED <<input, reading, loading, infos, settings, installed, output, handler, net>>

\* The object is initialised; the files of the two logs may fail to open.
MakeObject ==
  /\ \/ /\ Goto("init", IF made + 1 = Objects THEN "output" ELSE "malloc")
        /\ made' = made + 1 /\ UNCHANGED ended
        /\ q_max' = IF made' = List THEN QueueLength(settings["MAL"]) ELSE q_max
     \/ At("init") /\ made < 2 /\ End("failure") /\ UNCHANGED <<pc, made, q_max>>
  /\ UNCHANGED <<input, reading, loading, infos, settings, installed, output, handler, net>>

StartOutput ==
  /\ Goto("output", "accept")
  /\ output' = "binding"
  /\ UNCHANGED <<input, reading, loading, infos, settings, built, handler, net, ended>>

\* accept takes the oldest connection, and agent_thread_init gives it a thread.
Accept ==
  /\ Goto("accept", "accept") /\ backlog # <<>>
  /\ backlog' = Tail(backlog)
  /\ served' = served \cup {Head(backlog)}
  /\ UNCHANGED <<input, reading, loading, infos, settings, built, output, handler, bound, ended>>

\* start_web_server on the HTTP thread: it polls, or ends when its own port
\* is taken.
BindOutput ==
  /\ output = "binding" /\ ended = "no"
  /\ output' \in {"polling", "over"}
  /\ UNCHANGED <<input, pc, reading, loading, infos, settings, built, handler, net, ended>>

-----------------------------------------------------------------------------
(* ^C *)

\* Before signal was called, SIGINT has its default effect.
Interrupt ==
  /\ handler = "off" /\ ended = "no"
  /\ IF installed THEN handler' = "logger" /\ UNCHANGED ended
                  ELSE End("killed") /\ UNCHANGED handler
  /\ UNCHANGED <<input, pc, reading, loading, infos, settings, built, output, net>>

In(where) == handler = where /\ ended = "no"

\* pthread_mutex_lock on object o.  A NULL pointer stops the process; memory
\* that malloc has just returned does so, too, or is taken for a free mutex or
\* for one that is never given up.
HandlerLock(o, where, next) ==
  /\ In(where)
  /\ \/ o <= made /\ handler' = next /\ UNCHANGED ended
     \/ o = made + 1 /\ pc = "init" /\ handler' \in {next, "stuck"} /\ UNCHANGED ended
     \/ o > made /\ End("crashed") /\ UNCHANGED handler
  /\ UNCHANGED <<input, pc, reading, loading, infos, settings, built, output, net>>

HandlerLocks ==
  \/ HandlerLock(Logger, "logger", "list")
  \/ HandlerLock(List, "list", "pos")
  \/ HandlerLock(PositionList, "pos", "cancel")

\* Slip: a thread that was never started is not cancelled.
HandlerCancelsAny ==
  /\ In("cancel")
  /\ handler' = "free" /\ UNCHANGED ended
  /\ UNCHANGED <<input, pc, reading, loading, infos, settings, built, output, net>>

\* pthread_cancel(output_thread), which is 0 until the thread was created.
HandlerCancels ==
  /\ In("cancel")
  /\ IF output = "none" THEN End("crashed") /\ UNCHANGED handler
                        ELSE handler' = "free" /\ UNCHANGED ended
  /\ UNCHANGED <<input, pc, reading, loading, infos, settings, built, output, net>>

\* Everything is freed, and exit(0).
HandlerFrees ==
  /\ In("free")
  /\ End("finished")
  /\ UNCHANGED <<input, pc, reading, loading, infos, settings, built, output, handler, net>>

-----------------------------------------------------------------------------

\* An agent connects; TCP completes one connection more than the backlog.
Connect(a) ==
  /\ ended = "no" /\ bound # NoPort
  /\ a \notin served /\ \A n \in DOMAIN backlog : backlog[n] # a
  /\ Len(backlog) <= Backlog
  /\ backlog' = Append(backlog, a)
  /\ UNCHANGED <<input, pc, reading, loading, infos, settings, built, output, handler,
                 bound, served, ended>>

MainStep ==
  \/ Bind \/ Open \/ ReadLine \/ ReadBlank \/ Close \/ Apply \/ Applied \/ Arguments
  \/ Load \/ LoadTooLong \/ TakeField \/ Loaded \/ AllLoaded
  \/ Install \/ Malloc \/ MakeObject \/ StartOutput \/ Accept

HandlerStep == HandlerLocks \/ HandlerCancels \/ HandlerFrees

Next ==
  \/ MainStep \/ BindOutput \/ HandlerStep
  \/ Interrupt \/ \E a \in Agent : Connect(a)

\* The main thread runs; nothing is assumed of agents, of ^C or of the HTTP
\* thread.
Spec == Init /\ [][Next]_vars /\ WF_vars(MainStep)

-----------------------------------------------------------------------------
(* Properties *)

Stages ==
  {"bind", "open", "read", "apply", "arguments", "load", "field", "install",
   "malloc", "init", "output", "accept"}

\* A list's iterator stays inside the list.
ListOK(l) ==
  /\ l.size = Len(l.items) /\ l.counter \in 0..l.size
  /\ l.position \in IF l.items = <<>> THEN {NullPosition} ELSE DOMAIN l.items

\* The iterators stay inside their lists, and list->q_max is what RssiQueue
\* assumes of its QMax.
TypeOK ==
  /\ pc \in Stages /\ file \in File
  /\ ListOK(list) /\ ListOK(entry.vals)
  /\ pc = "field" => Len(got) <= Needed(file)
  /\ infos \in [DataFile -> Seq(Parsed)]
  /\ settings \in [Known -> Int]
  /\ installed \in BOOLEAN /\ made \in 0..Objects
  /\ q_max \in Nat /\ (made >= List => q_max > 0)
  /\ output \in {"none", "binding", "polling", "over"}
  /\ handler \in {"off", "logger", "list", "pos", "cancel", "free", "stuck"}
  /\ served \subseteq Agent /\ backlog \in Seq(Agent)
  /\ ended \in {"no", "bind_failed", "usage", "failure", "killed", "crashed", "finished"}

\* Kept(lines)[n]: those of the first n lines that say something.
Kept(lines) ==
  LET upTo[n \in 0..Len(lines)] ==
        IF n = 0 THEN <<>>
        ELSE IF lines[n].key \in {Comment, NoKey} THEN upTo[n - 1]
        ELSE Append(upTo[n - 1], lines[n])
  IN  upTo

\* The lines of file f that say something, and what its loader wants of them.
Lines(f) == Kept(files[f])[Len(files[f])]
Wanted(f) ==
  [n \in DOMAIN Lines(f) |->
     [key  |-> Lines(f)[n].key,
      vals |-> [k \in 1..Needed(f) \cap DOMAIN Lines(f)[n].vals |-> Lines(f)[n].vals[k]]]]

\* main has gone on to what comes after file f.
Past(f) ==
  \/ pc \in {"install", "malloc", "init", "output", "accept"}
  \/ f = "agents" /\ file \in {"rooms", "beacons"}
  \/ f = "rooms" /\ file = "beacons"

\* Each array holds every line of its file, once, in the file's order, with as
\* many fields as the loader takes: no round of an iterator is cut short or
\* entered twice, although each list is walked by an iterator that wraps
\* around (configure.h, param_reader.h, *Info.h).
LoadsWholeFile ==
  \A f \in DataFile :
    /\ Past(f) => infos[f] = Wanted(f)
    /\ \A n \in DOMAIN infos[f] : n \in DOMAIN Wanted(f) /\ infos[f][n] = Wanted(f)[n]

\* The lines of conf.ini that set key k.
Setters(k) == {n \in DOMAIN files["conf"] : files["conf"][n].key = k}
Configured(k) ==
  IF Setters(k) = {} THEN Default[k]
  ELSE files["conf"][CHOOSE n \in Setters(k) : \A m \in Setters(k) : m <= n].vals[1]

\* Once main is past conf.ini and the command line, each setting has the value
\* of its last line, or its default; only -p overrides, and only the port.
LastSettingWins ==
  file # "conf" /\ ended # "usage" /\ ended # "failure" =>
    \A k \in Known :
      settings[k] = IF k = "port" /\ option.kind = "port" THEN option.port ELSE Configured(k)

Complete == made = Objects /\ \A f \in DataFile : Past(f)

\* No thread ever meets the globals half made: when the first agent's thread or
\* the HTTP thread exists, although agents may have connected since the second
\* line of main, everything is loaded and every object initialised.
NoThreadSeesHalf == output # "none" \/ served # {} => Complete

\* ^C ends in exit(0) only if main had got as far as the HTTP thread; before
\* that the handler cannot get through.
CleanExitOnlyWhenComplete ==
  handler = "free" => Complete /\ output # "none"

Short(f) == \E n \in DOMAIN files[f] :
  files[f][n].key \notin {Comment, NoKey} /\ Len(files[f][n].vals) < Needed(f)

\* The process breaks down on the way up only for an input it cannot read, or
\* for a ^C before everything is there.  It cannot read a line with a stretch
\* of blanks for a part, a line of conf.ini without '=', and a line of a
\* parameter file with too few fields or with a key longer than the id it is
\* copied to.  (Files so large that the arrays sized by them overrun the stack
\* are not considered.)
BreaksOnlyOnBadInput ==
  ended = "crashed" =>
    \/ handler # "off" /\ ~ (Complete /\ output # "none")
    \/ files["conf"] # Missing /\ Setters(NoKey) # {}
    \/ \E f \in File : files[f] # Missing /\ \E n \in DOMAIN files[f] : files[f][n].key = Blank
    \/ \E f \in DataFile :
         files[f] # Missing /\ (Short(f) \/ \E n \in DOMAIN files[f] : files[f][n].key \in TooLong[f])

\* An agent that connects while the server is still reading its files waits in
\* the backlog and is served, unless the process ends or ^C comes.
EarlyAgentsAreServed ==
  \A a \in Agent :
    (\E n \in DOMAIN backlog : backlog[n] = a) ~>
      (a \in served \/ handler # "off" \/ ended # "no")
=============================================================================
