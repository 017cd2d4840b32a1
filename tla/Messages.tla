------------------------------ MODULE Messages ------------------------------
(***************************************************************************)
(* The way of a reading from an agent into the server: the agent's table,    *)
(* its messages as one stream of bytes that TCP may deliver in pieces, the   *)
(* server's reading of the pieces by their length, its parsing of them with  *)
(* strtok, and the 'z' that lets the agent go on.  Beside it the HTTP thread *)
(* answers queries, also with strtok, whose hidden position the two share.   *)
(*                                                                          *)
(* Bytes are counted, not spelled out.  The locks are module TrackingServer, *)
(* what a stored record leads to is BeaconStore, and how an agent's mac is   *)
(* used is Connections.                                                      *)
(***************************************************************************)
EXTENDS AgentTable, FiniteSets, FiniteSetsExt

CONSTANTS
  Beacon,        \* what the agent may hear
  Url,           \* what clients ask: records with a path, and the lengths of
                 \* the parts that follow it, each behind a '/'
  MaxMessages,   \* bound: messages the agent sends
  Piece, MaxCuts \* bounds: lengths of short reads, and how many there may be

ASSUME MessagesAssumption ==
  /\ IsFiniteSet(Beacon)
  /\ \A u \in Url : /\ u.path \in {"tag", "agent_status", "other", "none"}
                    /\ u.parts \in Seq(Nat \ {0})
  /\ Piece \subseteq Nat \ {0} /\ MaxCuts \in Nat /\ MaxMessages \in Nat

\* "mac|n", and for each record a newline and "mac|rssi|time", with an rssi of
\* four characters, the longest an int8_t has.
HeaderLength == 17 + 1 + 1
RecordLength == 17 + 1 + 4 + 1 + 15
MessageLength(records) == HeaderLength + records * (1 + RecordLength)

\* What is left of a record in which str_split still finds three fields, and
\* the shortest text in which it could find any.
ReadableLength == 17 + 1 + 4 + 1 + 1
ThreeFields == 1 + 1 + 1 + 1 + 1

\* Slip: no room for the 0 behind a line.
LineBufferShort == RecordLength

\* buf[39] of store_rssi_from_agent.
LineBuffer == 39

\* id[32] of the query.
IdBuffer == 32

ReadBuffer == 1024

VARIABLES
  table, waiting,       \* the agent: its table, and whether it waits for a reply
  stream, cut, replies, \* the connection: messages not read to the end, bytes of
                        \* the first that were read, replies on their way back
  pc, lines, own,       \* the agent's thread, the lines of its buffer, and whether
                        \* the buffer begins with the agent's mac
  mac,                  \* agent->mac: unset, or first of the agent's bytes
  save,                 \* strtok's hidden position: whose text, and the lengths of
                        \* the lines of the agent, or parts of the URL, left there
  http,                 \* the HTTP thread
  stranger,             \* a reading was filed under a text that is no agent's mac
  broken,               \* what overran its buffer, or was NULL: nothing is known then
  sent, unfiled,        \* histories: messages sent, records of them not filed
  told, lost,           \* histories: beacons whose present reading was sent; whether
                        \* one that was due was replaced before it was sent
  cuts, crossed         \* histories: how many reads ended inside the stream;
                        \* whether a thread was given the other's text

agentvars == <<table, waiting, sent, told, lost>>
tcp == <<stream, cut, replies, cuts>>
threadvars == <<pc, lines, own, mac>>
vars == <<agentvars, tcp, threadvars, http, save, stranger, broken, unfiled, crossed>>

Nowhere == [of |-> "nobody", lines |-> <<>>]

Init ==
  /\ table = <<>> /\ waiting = FALSE
  /\ stream = <<>> /\ cut = 0 /\ replies = 0
  /\ pc = "read" /\ lines = <<>> /\ own = FALSE /\ mac = "unset"
  /\ save = Nowhere
  /\ http = "poll"
  /\ stranger = FALSE /\ broken = "no"
  /\ sent = 0 /\ unfiled = 0 /\ told = {} /\ lost = FALSE
  /\ cuts = 0 /\ crossed = FALSE

-----------------------------------------------------------------------------
(* The agent *)

Hold(nodes, b) == {n \in DOMAIN nodes : nodes[n].mac = b}

\* A reading of b arrives, stronger than the one held or not: insert, and
\* send_message if a message came of it.
Hear(b, stronger) ==
  /\ ~ waiting /\ sent < MaxMessages /\ broken = "no"
  /\ \E late \in BOOLEAN : table' = Inserted(table, b, late)
  /\ LET m == MessageOf(table, b)
         reported == told \cup m
     IN  /\ told' = IF \E n \in Hold(table, b) : Replaced(table[n], stronger)
                    THEN reported \ {b} ELSE reported
         /\ lost' = (lost \/ \E n \in Hold(table, b) : table[n].due /\ b \notin reported)
         /\ IF m = {}
            THEN UNCHANGED <<stream, waiting, sent, unfiled>>
            ELSE /\ stream' = Append(stream, Cardinality(m))
                 /\ waiting' = TRUE
                 /\ sent' = sent + 1
                 /\ unfiled' = unfiled + Cardinality(m)
  /\ UNCHANGED <<cut, replies, cuts, threadvars, http, save, stranger, broken, crossed>>

\* A tenth of a second has passed for a beacon.  It shows when the agent next
\* looks at its table, so that the tenths that pass while it waits may be put
\* after the reply.
Elapse(n) ==
  /\ ~ waiting /\ sent < MaxMessages /\ broken = "no" /\ ~ table[n].due
  /\ table' = [table EXCEPT ![n].due = TRUE]
  /\ UNCHANGED <<waiting, sent, told, lost, tcp, threadvars, http, save, stranger, broken,
                 unfiled, crossed>>

\* The agent's blocking read takes all that has arrived.
TakeReply ==
  /\ waiting /\ replies > 0 /\ broken = "no"
  /\ waiting' = FALSE
  /\ replies' = 0
  /\ UNCHANGED <<table, sent, told, lost, stream, cut, cuts, threadvars, http, save,
                 stranger, broken, unfiled, crossed>>

-----------------------------------------------------------------------------
(* The stream *)

\* Begins[m]: where message m of the stream begins; the last entry is the end.
Begins ==
  LET begins[m \in 1..(Len(stream) + 1)] ==
        IF m = 1 THEN 0 ELSE begins[m - 1] + MessageLength(stream[m - 1])
  IN  begins

Available == Begins[Len(stream) + 1] - cut

\* The newline before record r of message m, and the end of the line behind it.
\* No newline ends a message: its last record runs on into the next header.
Newline(m, r) == Begins[m] + HeaderLength + (r - 1) * (1 + RecordLength)
LineEnd(m, r) ==
  IF r < stream[m] THEN Newline(m, r + 1)
  ELSE Begins[m + 1] + IF m < Len(stream) THEN HeaderLength ELSE 0

\* The lengths of the lines of message m that strtok finds behind the first
\* token of the piece from..to - 1, and those of all messages.
LinesIn(m, from, to) ==
  LET found[r \in 0..stream[m]] ==
        IF r = 0 THEN <<>>
        ELSE IF from < Newline(m, r) /\ Newline(m, r) + 1 < to
             THEN Append(found[r - 1], Min({to, LineEnd(m, r)}) - Newline(m, r) - 1)
             ELSE found[r - 1]
  IN  found[stream[m]]

LinesOf(from, to) ==
  LET all[m \in 0..Len(stream)] ==
        IF m = 0 THEN <<>> ELSE all[m - 1] \o LinesIn(m, from, to)
  IN  all[Len(stream)]

\* The first message that is not read to its end when to bytes were.
FirstLeft(to) == CHOOSE m \in 1..(Len(stream) + 1) :
                   /\ Begins[m] <= to
                   /\ m <= Len(stream) => to < Begins[m + 1]

-----------------------------------------------------------------------------
(* The agent's thread: log_and_storeRSSIFromAgent and store_rssi_from_agent *)

\* Slips: a batch with one record counts as a keep-alive; keep-alives are
\* taken for garbage.
KindLong(length) == CASE length > 18 /\ length < 63 -> "keepalive"
                      [] length < 18 -> "garbage"
                      [] OTHER -> "batch"
KindShort(length) == IF length < 36 THEN "garbage" ELSE "batch"

Kind(length) == CASE length > 18 /\ length < 36 -> "keepalive"
                  [] length < 18 -> "garbage"
                  [] OTHER -> "batch"

\* read returns length bytes, and the length says what they are.
Read(length) ==
  /\ pc = "read" /\ stream # <<>> /\ broken = "no"
  /\ length <= Min({Available, ReadBuffer})
  /\ LET to == cut + length
         left == FirstLeft(to)
     IN  /\ stream' = SubSeq(stream, left, Len(stream))
         /\ cut' = to - Begins[left]
         /\ lines' = IF Kind(length) = "batch" THEN LinesOf(cut, to) ELSE <<>>
         /\ own' = (Kind(length) = "batch" /\ cut = 0)
         /\ mac' = IF Kind(length) # "keepalive" THEN mac
                   ELSE IF cut = 0 THEN "own" ELSE "other"
  /\ cuts' = IF length < Available THEN cuts + 1 ELSE cuts
  /\ pc' = CASE Kind(length) = "keepalive" -> "ack"
             [] Kind(length) = "garbage"   -> "read"
             [] Kind(length) = "batch"     -> "first"
  /\ UNCHANGED <<agentvars, replies, http, save, stranger, broken, unfiled, crossed>>

\* TCP delivers everything that was sent, or one of the shorter lengths.
ReadSome ==
  \/ Read(Min({Available, ReadBuffer}))
  \/ cuts < MaxCuts /\ \E length \in Piece : length < Available /\ Read(length)

\* strtok(msg, "\n"): the first line, with the agent's mac, is set aside.
FirstLine ==
  /\ pc = "first" /\ broken = "no"
  /\ pc' = "next"
  /\ save' = [of |-> "agent", lines |-> lines]
  /\ lines' = <<>>
  /\ UNCHANGED <<agentvars, tcp, own, mac, http, stranger, broken, unfiled,
                 crossed>>

\* Nothing is left at the hidden position.
Exhausted == save.lines = <<>>

\* The text there is not the one that was left: url[100] went with the query,
\* or another message was read into the agent's buffer.
Overwritten ==
  \/ save.of = "http" /\ http = "poll"
  \/ save.of = "agent" /\ pc # "next"

\* The text from the hidden position to the end, separators included.
TextLength(ls) ==
  LET length[n \in 0..Len(ls)] == IF n = 0 THEN -1 ELSE length[n - 1] + 1 + ls[n]
  IN  length[Len(ls)]

\* The lengths of what strtok(NULL, ...) may give its user: the next line or
\* part of the user's own text; all of the other's, in which the separator does
\* not occur; anything of a text that was overwritten.
Found(user) ==
  CASE Overwritten -> {0, LineBuffer - 1, LineBuffer}
    [] ~ Overwritten /\ save.of = user /\ ~ Exhausted -> {Head(save.lines)}
    [] OTHER -> {TextLength(save.lines)}

After(user) ==
  [save EXCEPT !.lines = IF save.of = user /\ ~ Exhausted THEN Tail(@) ELSE <<>>]

\* str_split finds three fields, and add_rssi_to_blist files them.  A reading
\* filed under a text nobody registered can make a look-up fail, then or later
\* (BeaconStore).
StoreReading ==
  /\ stranger' = (stranger \/ ~ own)
  /\ pc' \in IF stranger' THEN {"next", "raised"} ELSE {"next"}
  /\ UNCHANGED broken

\* strtok(NULL, "\n") and what is done with the line, whosever it is.  What is
\* left of a URL may have three fields or not.
NextLine ==
  /\ pc = "next" /\ (~ Exhausted \/ Overwritten) /\ broken = "no"
  /\ \E length \in Found("agent") :
       \/ /\ length >= LineBuffer
          /\ broken' = "line" /\ UNCHANGED <<pc, stranger, unfiled>>
       \/ /\ save.of = "agent" /\ length \in ReadableLength..(LineBuffer - 1)
          /\ StoreReading
          /\ unfiled' = IF own THEN unfiled - 1 ELSE unfiled
       \/ /\ save.of # "agent" /\ length \in ThreeFields..(LineBuffer - 1)
          /\ StoreReading /\ UNCHANGED unfiled
       \/ /\ length < IF save.of = "agent" THEN ReadableLength ELSE LineBuffer
          /\ UNCHANGED <<pc, stranger, broken, unfiled>>
  /\ save' = After("agent")
  /\ crossed' = (crossed \/ save.of # "agent")
  /\ UNCHANGED <<agentvars, tcp, lines, own, mac, http>>

\* strtok returns NULL.
LastLine ==
  /\ pc = "next" /\ (Exhausted \/ Overwritten) /\ broken = "no"
  /\ pc' = "ack"
  /\ own' = FALSE
  /\ crossed' = (crossed \/ save.of # "agent")
  /\ UNCHANGED <<agentvars, tcp, lines, mac, http, save, stranger, broken,
                 unfiled>>

\* The 'z'.
Ack ==
  /\ pc = "ack" /\ broken = "no"
  /\ pc' = "read"
  /\ replies' = replies + 1
  /\ UNCHANGED <<agentvars, stream, cut, cuts, lines, own, mac, http, save,
                 stranger, broken, unfiled, crossed>>

-----------------------------------------------------------------------------
(* The HTTP thread: get_beacon_name_from_url *)

\* A request, and strtok(part, "/").  Of a path of nothing but '/' it returns
\* NULL, and strcmp is given it; a path that is neither of the two known is
\* not answered.
SplitPath(u) ==
  /\ http = "poll" /\ broken = "no"
  /\ save' = [of |-> "http", lines |-> u.parts]
  /\ broken' = IF u.path = "none" THEN "url" ELSE "no"
  /\ http' = IF u.path \in {"tag", "agent_status"} THEN "id" ELSE "poll"
  /\ UNCHANGED <<agentvars, tcp, threadvars, stranger, unfiled, crossed>>

\* strtok(NULL, "/"), the copy to id[32], and the answer.  The lines of an agent
\* are no id.  (What is looked up under the id is in RssiFeed and Connections,
\* its locks in TrackingServer.)
SplitId ==
  /\ http = "id" /\ broken = "no"
  /\ \E length \in Found("http") :
       broken' = IF length < IdBuffer THEN "no" ELSE IF save.of = "http" THEN "url" ELSE "id"
  /\ save' = After("http")
  /\ http' = "poll"
  /\ crossed' = (crossed \/ save.of # "http")
  /\ UNCHANGED <<agentvars, tcp, threadvars, stranger, unfiled>>

-----------------------------------------------------------------------------

ThreadStep == ReadSome \/ FirstLine \/ NextLine \/ LastLine \/ Ack
HttpStep == SplitId \/ \E u \in Url : SplitPath(u)

Next ==
  \/ \E b \in Beacon, stronger \in BOOLEAN : Hear(b, stronger)
  \/ \E n \in DOMAIN table : Elapse(n)
  \/ TakeReply
  \/ ThreadStep \/ HttpStep

\* The agent's thread runs, and so does the agent while it waits for a reply.
\* Neither beacons nor clients owe anything, and nothing is claimed of the
\* HTTP thread.
Spec == Init /\ [][Next]_vars /\ WF_vars(ThreadStep) /\ WF_vars(TakeReply)

-----------------------------------------------------------------------------
(* Properties *)

TypeOK ==
  /\ \A n \in DOMAIN table :
       /\ table[n].mac \in Beacon
       /\ table[n].flag => table[n].due
       /\ Cardinality(Hold(table, table[n].mac)) = 1
  /\ waiting \in BOOLEAN /\ replies \in Nat /\ cuts \in Nat
  /\ stream \in Seq(1..Cardinality(Beacon))
  /\ cut \in Nat /\ (stream = <<>> => cut = 0)
  /\ stream # <<>> => cut < MessageLength(stream[1])
  /\ pc \in {"read", "first", "next", "ack", "raised"}
  /\ mac \in {"unset", "own", "other"}
  /\ save.of \in {"nobody", "agent", "http"} /\ save.lines \in Seq(Int)
  /\ broken \in {"no", "line", "id", "url"}
  /\ http \in {"poll", "id"}
  /\ told \subseteq Beacon
  /\ sent \in 0..MaxMessages /\ unfiled \in Nat
  /\ {own, stranger, crossed, lost} \subseteq BOOLEAN

\* 'z' confirms "the data arrival" (agentHandler.h:243): an agent that goes on
\* has every record it sent in the beacons' queues, under its own mac, as long
\* as TCP cut none of its messages and no query took over strtok's position.
ConfirmedIsFiled ==
  ~ waiting /\ cuts = 0 /\ ~ crossed /\ broken = "no" => unfiled = 0

\* A reading is filed under another text than its agent's mac only after a
\* message came in pieces: from then on the agent may be a message ahead, and two
\* messages lie in one buffer without a newline between them.  Only then, or when
\* the two users of strtok cross, does a line overrun buf[39]; and only when they
\* cross do lines overrun id[32].
TroubleHasACause ==
  /\ stranger => cuts > 0
  /\ broken = "line" => cuts > 0 \/ crossed
  /\ broken = "id" => crossed

\* A reading is replaced unsent only within the tenth of a second it is held
\* back for, by a stronger one (insert, blist.h:174-191): one that is due is in a
\* message before it goes.
NoReadingLostUnsent == ~ lost

\* The protocol has no retry: an agent that waits is answered, also when its
\* message came in three pieces, since not all of them can be shorter than the
\* 18 bytes that pass for garbage (of four pieces they can).  Not so when the
\* threads cross in strtok: queries that come often enough put the rest of a
\* URL where the parsing goes on, so that it never meets an end.
AgentIsAnswered ==
  waiting ~> (~ waiting \/ broken # "no" \/ pc = "raised" \/ crossed \/ cuts > 2)
=============================================================================
