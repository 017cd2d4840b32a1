-------------------------- MODULE Messages_proofs --------------------------
(***************************************************************************)
(* Proofs about Messages, for any number of beacons and messages, any pieces *)
(* and any queries: the agent's table gives no reading away unsent, a record *)
(* is filed at most once, what is confirmed was filed unless a read was      *)
(* short or the threads crossed, and the overruns have no other cause.       *)
(***************************************************************************)
EXTENDS Messages, DataInduction, FiniteSetTheorems, SequenceTheorems, TLAPS

\* What insert and its flags keep up: a node that is flagged is due, and its
\* present reading was in a message.  NoReadingLostUnsent alone is not
\* inductive, since it says nothing of the flags.
FlaggedWasSent(nodes, sentBeacons) ==
  \A n \in DOMAIN nodes : nodes[n].flag => nodes[n].due /\ nodes[n].mac \in sentBeacons

Node == [mac : Beacon, due : BOOLEAN, flag : BOOLEAN]

IInv ==
  /\ table \in Seq(Node)
  /\ FlaggedWasSent(table, told)
  /\ ~ lost

LEMMA InsertedTable ==
  ASSUME NEW nodes \in Seq(Node), NEW b \in Beacon, NEW late \in BOOLEAN
  PROVE  Inserted(nodes, b, late) \in Seq(Node)
<1> DEFINE passed == [n \in DOMAIN nodes |-> IF nodes[n].mac = b
                                            THEN Heard(nodes[n], late)
                                            ELSE Passed(nodes[n])]
<1>1. \A n \in DOMAIN nodes : nodes[n] \in Node
  OBVIOUS
<1>2. \A node \in Node : Heard(node, late) \in Node /\ Passed(node) \in Node
  BY DEF Heard, Passed, Node
<1>3. DOMAIN nodes = 1..Len(nodes) /\ Len(nodes) \in Nat
  OBVIOUS
<1>4. \A n \in 1..Len(nodes) : passed[n] \in Node
  BY <1>1, <1>2, <1>3
<1>5. passed \in Seq(Node)
  BY <1>3, <1>4
<1>6. NewNode(b) \in Node
  BY DEF NewNode, Node
<1> QED
  BY <1>5, <1>6 DEF Inserted

\* The nodes of the new table: each is an old one, heard or passed, or new.
LEMMA InsertedNodes ==
  ASSUME NEW nodes \in Seq(Node), NEW b \in Beacon, NEW late \in BOOLEAN,
         NEW k \in DOMAIN Inserted(nodes, b, late)
  PROVE  LET node == Inserted(nodes, b, late)[k]
         IN  \/ node = NewNode(b)
             \/ \E n \in DOMAIN nodes :
                  \/ nodes[n].mac = b /\ node = Heard(nodes[n], late)
                  \/ nodes[n].mac # b /\ node = Passed(nodes[n])
<1> DEFINE passed == [n \in DOMAIN nodes |-> IF nodes[n].mac = b
                                            THEN Heard(nodes[n], late)
                                            ELSE Passed(nodes[n])]
<1>1. DOMAIN nodes = 1..Len(nodes) /\ Len(nodes) \in Nat
  OBVIOUS
<1>2. passed \in Seq({passed[n] : n \in DOMAIN nodes}) /\ Len(passed) = Len(nodes)
  BY <1>1
<1>3. CASE Inserted(nodes, b, late) = passed
  BY <1>1, <1>3
<1>4. CASE Inserted(nodes, b, late) = Append(passed, NewNode(b))
  <2>1. k \in 1..(Len(nodes) + 1)
    BY <1>1, <1>2, <1>4
  <2>2. CASE k = Len(nodes) + 1
    BY <1>2, <1>4, <2>2
  <2>3. CASE k \in 1..Len(nodes)
    <3>1. Inserted(nodes, b, late)[k] = passed[k]
      BY <1>2, <1>4, <2>3
    <3> QED
      BY <1>1, <2>3, <3>1
  <2> QED
    BY <2>1, <2>2, <2>3, <1>1
<1> QED
  BY <1>3, <1>4 DEF Inserted

LEMMA InitHolds == Init => IInv
BY DEF Init, IInv, FlaggedWasSent

LEMMA HearKeeps ==
  ASSUME IInv, NEW b \in Beacon, NEW stronger \in BOOLEAN, Hear(b, stronger)
  PROVE  IInv'
<1> DEFINE reported == told \cup MessageOf(table, b)
<1>1. PICK late \in BOOLEAN : table' = Inserted(table, b, late)
  BY DEF Hear
<1>2. table' \in Seq(Node)
  BY <1>1, InsertedTable DEF IInv
<1>3. told' \in {reported, reported \ {b}}
  BY DEF Hear
<1>4. \A n \in DOMAIN table : table[n] \in Node
  BY DEF IInv
<1>5. ASSUME NEW n \in DOMAIN table, table[n].due
      PROVE  table[n].mac \in reported
  <2>1. CASE table[n].flag
    BY <2>1 DEF IInv, FlaggedWasSent
  <2>2. CASE ~ table[n].flag
    BY <1>5, <2>2 DEF MessageOf, Reported
  <2> QED
    BY <2>1, <2>2
<1>6. ~ lost'
  <2>1. \A n \in Hold(table, b) : ~ (table[n].due /\ b \notin reported)
    BY <1>5 DEF Hold
  <2> QED
    BY <2>1 DEF Hear, IInv
<1>7. FlaggedWasSent(table', told')
  <2> SUFFICES ASSUME NEW k \in DOMAIN table', table'[k].flag
               PROVE  table'[k].due /\ table'[k].mac \in told'
    BY DEF FlaggedWasSent
  <2>1. \/ table'[k] = NewNode(b)
        \/ \E n \in DOMAIN table :
             \/ table[n].mac = b /\ table'[k] = Heard(table[n], late)
             \/ table[n].mac # b /\ table'[k] = Passed(table[n])
    BY <1>1, InsertedNodes DEF IInv
  <2>2. table'[k] # NewNode(b)
    BY DEF NewNode
  <2>3. ASSUME NEW n \in DOMAIN table, table[n].mac = b, table'[k] = Heard(table[n], late)
        PROVE  FALSE
    <3>1. table[n].flag => table[n].due
      BY DEF IInv, FlaggedWasSent
    <3> QED
      BY <2>3, <3>1, <1>4 DEF Heard, Node
  <2>4. ASSUME NEW n \in DOMAIN table, table[n].mac # b, table'[k] = Passed(table[n])
        PROVE  table'[k].due /\ table'[k].mac \in told'
    <3>1. table[n].flag => table[n].due
      BY DEF IInv, FlaggedWasSent
    <3>2. table[n].due /\ table'[k].due /\ table'[k].mac = table[n].mac
      BY <2>4, <3>1, <1>4 DEF Passed, Node
    <3> QED
      BY <2>4, <3>2, <1>5, <1>3
  <2> QED
    BY <2>1, <2>2, <2>3, <2>4
<1> QED
  BY <1>2, <1>6, <1>7 DEF IInv

LEMMA ElapseKeeps ==
  ASSUME IInv, NEW n \in DOMAIN table, Elapse(n)
  PROVE  IInv'
<1>1. table' = [table EXCEPT ![n].due = TRUE] /\ told' = told /\ lost' = lost
  BY DEF Elapse
<1>2. table[n] \in Node /\ [table[n] EXCEPT !.due = TRUE] \in Node
  <2>1. table[n] \in Node
    BY DEF IInv
  <2> QED
    BY <2>1 DEF Node
<1>3. table' \in Seq(Node)
  <2>1. table \in Seq(Node)
    BY DEF IInv
  <2> QED
    BY <1>1, <1>2, <2>1
<1>4. \A k \in DOMAIN table : table'[k].mac = table[k].mac /\ table'[k].flag = table[k].flag
                            /\ (table[k].due => table'[k].due)
  BY <1>1, <1>2 DEF IInv, Node
<1>5. DOMAIN table' = DOMAIN table
  BY <1>1
<1>6. FlaggedWasSent(table', told')
  BY <1>1, <1>4, <1>5 DEF IInv, FlaggedWasSent
<1> QED
  BY <1>1, <1>3, <1>6 DEF IInv

LEMMA NextKeeps == IInv /\ [Next]_vars => IInv'
<1> SUFFICES ASSUME IInv, [Next]_vars PROVE IInv'
  OBVIOUS
<1>1. ASSUME NEW b \in Beacon, NEW stronger \in BOOLEAN, Hear(b, stronger) PROVE IInv'
  BY <1>1, HearKeeps
<1>2. ASSUME NEW n \in DOMAIN table, Elapse(n) PROVE IInv'
  BY <1>2, ElapseKeeps
<1>3. ASSUME UNCHANGED <<table, told, lost>> PROVE IInv'
  BY <1>3 DEF IInv
<1>4. CASE TakeReply
  BY <1>4, <1>3 DEF TakeReply
<1>5. CASE ThreadStep
  BY <1>5, <1>3 DEF ThreadStep, ReadSome, Read, FirstLine, NextLine, LastLine, Ack, agentvars
<1>6. CASE HttpStep
  BY <1>6, <1>3 DEF HttpStep, SplitId, SplitPath, agentvars
<1>7. CASE UNCHANGED vars
  BY <1>7, <1>3 DEF vars, agentvars
<1> QED
  BY <1>1, <1>2, <1>4, <1>5, <1>6, <1>7 DEF Next

\* Whatever is heard, and however the server answers: insert (blist.h:145-217)
\* replaces no reading that is due before it was in a message.
THEOREM NothingLostUnsent == Spec => []NoReadingLostUnsent
<1>1. IInv => NoReadingLostUnsent
  BY DEF IInv, NoReadingLostUnsent
<1> QED
  BY <1>1, InitHolds, NextKeeps, PTL DEF Spec

-----------------------------------------------------------------------------
(* What the stream holds, and what became of it *)

\* The records of the first n messages.
Records(s) ==
  LET upTo[n \in 0..Len(s)] == IF n = 0 THEN 0 ELSE upTo[n - 1] + s[n]
  IN  upTo

\* The records that may still be filed from the stream: not those of a message
\* whose header was read already.
Unread == Records(stream)[Len(stream)] - IF cut = 0 THEN 0 ELSE stream[1]

\* Those that may be filed from the buffer.
Pending == IF own /\ pc = "first" THEN Len(lines)
           ELSE IF own /\ pc = "next" /\ save.of = "agent" THEN Len(save.lines)
           ELSE 0

Typed ==
  /\ \A j, k \in DOMAIN table : table[j].mac = table[k].mac => j = k
  /\ waiting \in BOOLEAN /\ replies \in Nat /\ cuts \in Nat
  /\ stream \in Seq(1..Cardinality(Beacon))
  /\ cut \in Nat /\ (stream = <<>> => cut = 0)
  /\ stream # <<>> => cut < MessageLength(stream[1])
  /\ pc \in {"read", "first", "next", "ack", "raised"}
  /\ lines \in Seq(Int) /\ own \in BOOLEAN
  /\ mac \in {"unset", "own", "other"}
  /\ save = [of |-> save.of, lines |-> save.lines]
  /\ save.of \in {"nobody", "agent", "http"} /\ save.lines \in Seq(Int)
  /\ broken \in {"no", "line", "id", "url"}
  /\ http \in {"poll", "id"}
  /\ told \subseteq Beacon
  /\ sent \in 0..MaxMessages /\ unfiled \in Int
  /\ stranger \in BOOLEAN /\ crossed \in BOOLEAN /\ lost \in BOOLEAN

\* No record is filed twice.
Counted == unfiled >= Unread + Pending

WholeLines == Seq({RecordLength})

\* As long as no read was short, agent and thread take turns: one message is
\* in the stream, in the thread's hands, or confirmed and on its way back.
Lockstep ==
  /\ cut = 0 /\ ~ stranger
  /\ lines \in WholeLines /\ (save.of = "agent" => save.lines \in WholeLines)
  /\ pc # "raised"
  /\ pc \in {"first", "next"} => own
  /\ \/ ~ waiting /\ stream = <<>> /\ replies = 0 /\ pc = "read"
     \/ waiting /\ Len(stream) = 1 /\ replies = 0 /\ pc = "read"
     \/ waiting /\ stream = <<>> /\ replies = 0 /\ pc # "read"
     \/ waiting /\ stream = <<>> /\ replies = 1 /\ pc = "read"

\* And as long as no query took over strtok's position, its unfiled records
\* are the ones still to be seen there.
Accounted ==
  /\ pc = "read" => unfiled = IF stream = <<>> THEN 0 ELSE stream[1]
  /\ pc = "first" => unfiled = Len(lines)
  /\ pc = "next" => \/ save.of = "http"
                    \/ save.of = "agent" /\ unfiled = Len(save.lines)
  /\ pc = "ack" => unfiled = 0

Dealings ==
  /\ Typed /\ Counted
  /\ cuts = 0 => Lockstep
  /\ cuts = 0 /\ ~ crossed /\ broken = "no" => Accounted
  /\ broken = "line" => cuts > 0 \/ crossed
  /\ broken = "id" => crossed

MessagesInv == IInv /\ Dealings

-----------------------------------------------------------------------------
(* What the recursive definitions mean *)

LEMMA MinOfTwo ==
  ASSUME NEW a \in Int, NEW b \in Int
  PROVE  Min({a, b}) = IF a <= b THEN a ELSE b
BY DEF Min

LEMMA RecordsUnfolds ==
  ASSUME NEW s \in Seq(Nat)
  PROVE  /\ Records(s) \in [0..Len(s) -> Nat]
         /\ Records(s)[0] = 0
         /\ \A n \in 1..Len(s) : Records(s)[n] = Records(s)[n - 1] + s[n]
<1> DEFINE N == Len(s)
           Goal(g) == g = [n \in 0..N |-> IF n = 0 THEN 0 ELSE g[n - 1] + s[n]]
           S == Nat
           step == [n \in Nat |-> [k \in Nat |-> IF n \in 1..N THEN k + s[n] ELSE k]]
<1>1. N \in Nat /\ 0 \in Nat /\ 0 <= N /\ \A n \in 1..N : s[n] \in Nat
  OBVIOUS
<1>2. step \in [Nat -> [Nat -> Nat]]
  BY <1>1
<1>3. \A n \in 1..N, k \in Nat : step[n][k] = k + s[n]
  BY <1>1
<1> HIDE DEF step, N
<1>4. PICK g : Unrolls(g, 0, N, S, 0, step)
  BY <1>1, <1>2, RecursionExists
<1>5. Goal(g)
  <2>1. g \in [0..N -> Nat] /\ g[0] = 0 /\ \A n \in 1..N : g[n] = step[n][g[n - 1]]
    BY <1>1, <1>4, 0 + 1 = 1 DEF Unrolls
  <2>2. ASSUME NEW n \in 0..N, n # 0 PROVE g[n] = g[n - 1] + s[n]
    <3>1. n \in 1..N /\ n - 1 \in 0..N
      BY <1>1, <2>2
    <3> QED
      BY <1>3, <2>1, <3>1
  <2> QED
    BY <2>1, <2>2
<1>6. Goal(Records(s))
  BY <1>5 DEF Records, N
<1>7. Unrolls(Records(s), 0, N, S, 0, step)
  <2> DEFINE f == Records(s)
  <2>1. f = [n \in 0..N |-> f[n]] /\ f[0] = 0
    BY <1>1, <1>6
  <2>2. ASSUME NEW n \in (0 + 1)..N, f[n - 1] \in Nat PROVE f[n] = step[n][f[n - 1]]
    <3>1. n \in 1..N /\ n \in 0..N /\ n # 0
      BY <1>1
    <3>2. f[n] = f[n - 1] + s[n]
      BY <1>6, <3>1
    <3> QED
      BY <1>3, <2>2, <3>1, <3>2
  <2> HIDE DEF f
  <2>3. Unrolls(f, 0, N, S, 0, step)
    BY <1>1, <1>2, <2>1, <2>2, RecursionMeans
  <2> QED
    BY <2>3 DEF f
<1>8. /\ Records(s) \in [0..N -> Nat] /\ Records(s)[0] = 0
      /\ \A n \in 1..N : Records(s)[n] = step[n][Records(s)[n - 1]]
  BY <1>1, <1>7, 0 + 1 = 1 DEF Unrolls
<1>9. ASSUME NEW n \in 1..N PROVE Records(s)[n] = Records(s)[n - 1] + s[n]
  <2>1. n - 1 \in 0..N
    BY <1>1
  <2>2. Records(s)[n - 1] \in Nat
    BY <1>8, <2>1
  <2> QED
    BY <1>3, <1>8, <2>2
<1> QED
  BY <1>8, <1>9 DEF N

LEMMA BeginsUnfolds ==
  ASSUME stream \in Seq(Nat)
  PROVE  /\ Begins \in [1..(Len(stream) + 1) -> Nat]
         /\ Begins[1] = 0
         /\ \A m \in 1..Len(stream) : Begins[m + 1] = Begins[m] + MessageLength(stream[m])
<1> DEFINE N == Len(stream) + 1
           Turn(k, m) == k + MessageLength(stream[m - 1])
           Goal(g) == g = [m \in 1..N |-> IF m = 1 THEN 0 ELSE Turn(g[m - 1], m)]
           S == Nat
           step == [m \in Nat |-> [k \in Nat |-> IF m \in 2..N THEN Turn(k, m) ELSE k]]
<1>1. N \in Nat /\ 1 <= N /\ \A m \in 2..N : MessageLength(stream[m - 1]) \in Nat
  BY DEF MessageLength, HeaderLength, RecordLength
<1>2. step \in [Nat -> [Nat -> Nat]]
  BY <1>1
<1>3. \A m \in 2..N, k \in Nat : step[m][k] = Turn(k, m)
  BY <1>1
<1> HIDE DEF step, N, Turn
<1>4. PICK g : Unrolls(g, 1, N, S, 0, step)
  BY <1>1, <1>2, RecursionExists
<1>5. Goal(g)
  <2>1. g \in [1..N -> Nat] /\ g[1] = 0 /\ \A n \in 2..N : g[n] = step[n][g[n - 1]]
    BY <1>1, <1>4 DEF Unrolls
  <2>2. ASSUME NEW n \in 1..N, n # 1 PROVE g[n] = Turn(g[n - 1], n)
    <3>1. n \in 2..N /\ n - 1 \in 1..N
      BY <1>1, <2>2
    <3> QED
      BY <1>3, <2>1, <3>1
  <2> QED
    BY <2>1, <2>2
<1>6. Goal(Begins)
  BY <1>5 DEF Begins, N, Turn
<1>7. Unrolls(Begins, 1, N, S, 0, step)
  <2> DEFINE f == Begins
  <2>1. f = [n \in 1..N |-> f[n]] /\ f[1] = 0
    BY <1>1, <1>6
  <2>2. ASSUME NEW n \in (1 + 1)..N, f[n - 1] \in Nat PROVE f[n] = step[n][f[n - 1]]
    <3>1. n \in 2..N /\ n \in 1..N /\ n # 1
      BY <1>1
    <3>2. f[n] = Turn(f[n - 1], n)
      BY <1>6, <3>1
    <3> QED
      BY <1>3, <2>2, <3>1, <3>2
  <2> HIDE DEF f
  <2>3. Unrolls(f, 1, N, S, 0, step)
    BY <1>1, <1>2, <2>1, <2>2, RecursionMeans
  <2> QED
    BY <2>3 DEF f
<1>8. /\ Begins \in [1..N -> Nat] /\ Begins[1] = 0
      /\ \A n \in 2..N : Begins[n] = Turn(Begins[n - 1], n)
  <2>1. /\ Begins \in [1..N -> Nat] /\ Begins[1] = 0
        /\ \A n \in 2..N : Begins[n] = step[n][Begins[n - 1]]
    BY <1>1, <1>7 DEF Unrolls
  <2>2. ASSUME NEW n \in 2..N PROVE Begins[n] = Turn(Begins[n - 1], n)
    <3>1. n - 1 \in 1..N
      BY <1>1
    <3>2. Begins[n - 1] \in Nat
      BY <2>1, <3>1
    <3>3. Begins[n] = step[n][Begins[n - 1]]
      BY <2>1
    <3> QED
      BY <1>3, <3>2, <3>3
  <2> QED
    BY <2>1, <2>2
<1>9. ASSUME NEW m \in 1..Len(stream)
      PROVE  Begins[m + 1] = Begins[m] + MessageLength(stream[m])
  <2>1. m + 1 \in 2..N /\ (m + 1) - 1 = m
    BY DEF N
  <2> QED
    BY <1>8, <2>1 DEF Turn
<1> QED
  BY <1>8, <1>9 DEF N

\* One line of a message: its place in the stream, and what strtok makes of it.
Taken(m, r, from, to) == from < Newline(m, r) /\ Newline(m, r) + 1 < to
LineLength(m, r, to) == Min({to, LineEnd(m, r)}) - Newline(m, r) - 1

LEMMA PlacesTyped ==
  ASSUME stream \in Seq(Nat), NEW m \in 1..Len(stream), NEW r \in Int, NEW to \in Int
  PROVE  Newline(m, r) \in Int /\ LineEnd(m, r) \in Int /\ LineLength(m, r, to) \in Int
<1>1. Begins[m] \in Nat /\ Begins[m + 1] \in Nat /\ Len(stream) \in Nat /\ stream[m] \in Nat
  <2>1. /\ Len(stream) \in Nat /\ stream[m] \in Nat
        /\ m \in 1..(Len(stream) + 1) /\ m + 1 \in 1..(Len(stream) + 1)
    OBVIOUS
  <2>2. Begins \in [1..(Len(stream) + 1) -> Nat]
    BY BeginsUnfolds
  <2> QED
    BY <2>1, <2>2
<1>2. Newline(m, r) \in Int /\ Newline(m, r + 1) \in Int
  BY <1>1, SMTT(30) DEF Newline, HeaderLength, RecordLength
<1>3. LineEnd(m, r) \in Int
  BY <1>1, <1>2, SMTT(30) DEF LineEnd, HeaderLength
<1>4. LineLength(m, r, to) \in Int
  <2>1. Min({to, LineEnd(m, r)}) \in Int
    BY <1>3, MinOfTwo
  <2> QED
    BY <1>2, <2>1 DEF LineLength
<1> QED
  BY <1>2, <1>3, <1>4

LEMMA LinesInUnfolds ==
  ASSUME stream \in Seq(Nat), NEW m \in 1..Len(stream), NEW from \in Int, NEW to \in Int
  PROVE  \E found \in [0..stream[m] -> Seq(Int)] :
           /\ found[0] = <<>>
           /\ \A r \in 1..stream[m] :
                found[r] = IF Taken(m, r, from, to)
                           THEN Append(found[r - 1], LineLength(m, r, to))
                           ELSE found[r - 1]
           /\ LinesIn(m, from, to) = found[stream[m]]
<1> DEFINE N == stream[m]
           S == Seq(Int)
           Turn(s, r) == IF Taken(m, r, from, to) THEN Append(s, LineLength(m, r, to)) ELSE s
           Goal(g) == g = [r \in 0..N |-> IF r = 0 THEN <<>> ELSE Turn(g[r - 1], r)]
           step == [r \in Nat |-> [s \in S |-> IF r \in 1..N THEN Turn(s, r) ELSE s]]
<1>1. N \in Nat /\ 0 \in Nat /\ 0 <= N /\ <<>> \in S
  OBVIOUS
<1>2. ASSUME NEW r \in 1..N, NEW s \in S PROVE Turn(s, r) \in S
  <2>1. LineLength(m, r, to) \in Int
    BY PlacesTyped, r \in Int
  <2> QED
    BY <2>1
<1> HIDE DEF N, S, Turn
<1>3. step \in [Nat -> [S -> S]]
  BY <1>2
<1>4. \A r \in 1..N, s \in S : step[r][s] = Turn(s, r)
  BY <1>1
<1> HIDE DEF step
<1>5. PICK g : Unrolls(g, 0, N, S, <<>>, step)
  BY <1>1, <1>3, RecursionExists
<1>6. Goal(g)
  <2>1. g \in [0..N -> S] /\ g[0] = <<>> /\ \A r \in 1..N : g[r] = step[r][g[r - 1]]
    BY <1>1, <1>5, 0 + 1 = 1 DEF Unrolls
  <2>2. ASSUME NEW r \in 0..N, r # 0 PROVE g[r] = Turn(g[r - 1], r)
    <3>1. r \in 1..N /\ r - 1 \in 0..N
      BY <1>1, <2>2
    <3> QED
      BY <1>4, <2>1, <3>1
  <2> QED
    BY <2>1, <2>2
<1>7. PICK f : Goal(f) /\ LinesIn(m, from, to) = f[N]
  BY <1>6 DEF LinesIn, N, Turn, Taken, LineLength
<1>8. Unrolls(f, 0, N, S, <<>>, step)
  <2>1. f = [r \in 0..N |-> f[r]] /\ f[0] = <<>>
    BY <1>1, <1>7
  <2>2. ASSUME NEW r \in (0 + 1)..N, f[r - 1] \in S PROVE f[r] = step[r][f[r - 1]]
    <3>1. r \in 1..N /\ r \in 0..N /\ r # 0
      BY <1>1
    <3>2. f[r] = Turn(f[r - 1], r)
      BY <1>7, <3>1
    <3> QED
      BY <1>4, <2>2, <3>1, <3>2
  <2> QED
    BY <1>1, <1>3, <2>1, <2>2, RecursionMeans
<1>9. /\ f \in [0..N -> S] /\ f[0] = <<>>
      /\ \A r \in 1..N : f[r] = step[r][f[r - 1]]
  BY <1>1, <1>8, 0 + 1 = 1 DEF Unrolls
<1>10. ASSUME NEW r \in 1..N PROVE f[r] = Turn(f[r - 1], r)
  <2>1. r - 1 \in 0..N
    BY <1>1
  <2>2. f[r - 1] \in S
    BY <1>9, <2>1
  <2> QED
    BY <1>4, <1>9, <2>2
<1> QED
  BY <1>7, <1>9, <1>10 DEF N, S, Turn

LEMMA LinesInTyped ==
  ASSUME stream \in Seq(Nat), NEW m \in 1..Len(stream), NEW from \in Int, NEW to \in Int
  PROVE  LinesIn(m, from, to) \in Seq(Int)
<1>1. stream[m] \in 0..stream[m]
  OBVIOUS
<1>2. PICK found \in [0..stream[m] -> Seq(Int)] : LinesIn(m, from, to) = found[stream[m]]
  BY LinesInUnfolds, ZenonT(30)
<1> QED
  BY <1>1, <1>2

LEMMA LinesOfUnfolds ==
  ASSUME stream \in Seq(Nat), NEW from \in Int, NEW to \in Int
  PROVE  \E all \in [0..Len(stream) -> Seq(Int)] :
           /\ all[0] = <<>>
           /\ \A m \in 1..Len(stream) : all[m] = all[m - 1] \o LinesIn(m, from, to)
           /\ LinesOf(from, to) = all[Len(stream)]
<1> DEFINE N == Len(stream)
           S == Seq(Int)
           Turn(s, m) == s \o LinesIn(m, from, to)
           Goal(g) == g = [m \in 0..N |-> IF m = 0 THEN <<>> ELSE Turn(g[m - 1], m)]
           step == [m \in Nat |-> [s \in S |-> IF m \in 1..N THEN Turn(s, m) ELSE s]]
<1>1. N \in Nat /\ 0 \in Nat /\ 0 <= N /\ <<>> \in S
  OBVIOUS
<1>2. ASSUME NEW m \in 1..N, NEW s \in S PROVE Turn(s, m) \in S
  <2>1. LinesIn(m, from, to) \in S
    BY LinesInTyped
  <2> QED
    BY <2>1
<1> HIDE DEF N, S, Turn
<1>3. step \in [Nat -> [S -> S]]
  BY <1>2
<1>4. \A m \in 1..N, s \in S : step[m][s] = Turn(s, m)
  BY <1>1
<1> HIDE DEF step
<1>5. PICK g : Unrolls(g, 0, N, S, <<>>, step)
  BY <1>1, <1>3, RecursionExists
<1>6. Goal(g)
  <2>1. g \in [0..N -> S] /\ g[0] = <<>> /\ \A m \in 1..N : g[m] = step[m][g[m - 1]]
    BY <1>1, <1>5, 0 + 1 = 1 DEF Unrolls
  <2>2. ASSUME NEW m \in 0..N, m # 0 PROVE g[m] = Turn(g[m - 1], m)
    <3>1. m \in 1..N /\ m - 1 \in 0..N
      BY <1>1, <2>2
    <3> QED
      BY <1>4, <2>1, <3>1
  <2> QED
    BY <2>1, <2>2
<1>7. PICK f : Goal(f) /\ LinesOf(from, to) = f[N]
  BY <1>6 DEF LinesOf, N, Turn
<1>8. Unrolls(f, 0, N, S, <<>>, step)
  <2>1. f = [m \in 0..N |-> f[m]] /\ f[0] = <<>>
    BY <1>1, <1>7
  <2>2. ASSUME NEW m \in (0 + 1)..N, f[m - 1] \in S PROVE f[m] = step[m][f[m - 1]]
    <3>1. m \in 1..N /\ m \in 0..N /\ m # 0
      BY <1>1
    <3>2. f[m] = Turn(f[m - 1], m)
      BY <1>7, <3>1
    <3> QED
      BY <1>4, <2>2, <3>1, <3>2
  <2> QED
    BY <1>1, <1>3, <2>1, <2>2, RecursionMeans
<1>9. /\ f \in [0..N -> S] /\ f[0] = <<>>
      /\ \A m \in 1..N : f[m] = step[m][f[m - 1]]
  BY <1>1, <1>8, 0 + 1 = 1 DEF Unrolls
<1>10. ASSUME NEW m \in 1..N PROVE f[m] = Turn(f[m - 1], m)
  <2>1. m - 1 \in 0..N
    BY <1>1
  <2>2. f[m - 1] \in S
    BY <1>9, <2>1
  <2> QED
    BY <1>4, <1>9, <2>2
<1> QED
  BY <1>7, <1>9, <1>10 DEF N, S, Turn

-----------------------------------------------------------------------------
(* Counting lines and records *)

LEMMA BeginsGrow ==
  ASSUME stream \in Seq(Nat), NEW j \in 1..(Len(stream) + 1), NEW k \in j..(Len(stream) + 1)
  PROVE  Begins[j] <= Begins[k]
<1> DEFINE N == Len(stream) + 1
           T == {n \in j..N : Begins[j] <= Begins[n]}
<1>1. /\ N \in Nat /\ Begins \in [1..N -> Nat]
      /\ \A m \in 1..(N - 1) : MessageLength(stream[m]) \in Nat
      /\ \A m \in 1..(N - 1) : Begins[m + 1] = Begins[m] + MessageLength(stream[m])
  <2>1. N \in Nat /\ N - 1 = Len(stream) /\ \A m \in 1..(N - 1) : stream[m] \in Nat
    OBVIOUS
  <2> QED
    BY <2>1, BeginsUnfolds, SMTT(30) DEF MessageLength, HeaderLength, RecordLength
<1> HIDE DEF N
<1>2. j \in Nat /\ j \in T
  <2>1. j \in 1..N /\ j \in j..N
    BY <1>1 DEF N
  <2>2. Begins[j] \in Nat
    BY <1>1, <2>1
  <2> QED
    BY <2>1, <2>2
<1>3. ASSUME NEW n \in j..(N - 1), n \in T PROVE n + 1 \in T
  <2>1. n \in 1..(N - 1) /\ n + 1 \in j..N /\ n \in 1..N /\ j \in 1..N
    BY <1>1 DEF N
  <2>2. n + 1 \in 1..N
    BY <1>1, <2>1
  <2>3. Begins[n] \in Nat /\ Begins[j] \in Nat /\ Begins[n + 1] \in Nat
    BY <1>1, <2>1, <2>2
  <2>4. /\ MessageLength(stream[n]) \in Nat
        /\ Begins[n + 1] = Begins[n] + MessageLength(stream[n])
    BY <1>1, <2>1
  <2>5. Begins[n + 1] >= Begins[n]
    BY <2>3, <2>4
  <2> QED
    BY <1>3, <2>1, <2>3, <2>5
<1>4. j..N \subseteq T
  <2> HIDE DEF T
  <2> QED
    BY <1>1, <1>2, <1>3, IntervalIsInductive
<1> QED
  BY <1>4 DEF N

\* A message gives no more lines than it has records, and none to a piece that
\* ends before it.
LEMMA LinesInCounted ==
  ASSUME stream \in Seq(Nat), NEW m \in 1..Len(stream), NEW from \in Int, NEW to \in Int
  PROVE  /\ Len(LinesIn(m, from, to)) <= stream[m]
         /\ to <= Begins[m] => Len(LinesIn(m, from, to)) = 0
<1>1. PICK found \in [0..stream[m] -> Seq(Int)] :
        /\ found[0] = <<>>
        /\ \A r \in 1..stream[m] :
             found[r] = IF Taken(m, r, from, to)
                        THEN Append(found[r - 1], LineLength(m, r, to))
                        ELSE found[r - 1]
        /\ LinesIn(m, from, to) = found[stream[m]]
  BY LinesInUnfolds
<1> DEFINE N == stream[m]
           T == {r \in 0..N : /\ Len(found[r]) <= r
                              /\ to <= Begins[m] => Len(found[r]) = 0}
<1>2. N \in Nat /\ Begins[m] \in Nat
  <2>1. m \in 1..(Len(stream) + 1) /\ N \in Nat
    OBVIOUS
  <2>2. Begins \in [1..(Len(stream) + 1) -> Nat]
    BY BeginsUnfolds
  <2> QED
    BY <2>1, <2>2
<1> HIDE DEF N
<1>3. 0 \in T
  BY <1>1, <1>2
<1>4. ASSUME NEW r \in 0..(N - 1), r \in T PROVE r + 1 \in T
  <2>1. r + 1 \in 0..N /\ r + 1 \in 1..N /\ (r + 1) - 1 = r /\ r \in 0..N
    BY <1>2
  <2>2. found[r] \in Seq(Int) /\ Len(found[r]) \in Nat
    <3>1. r \in 0..stream[m]
      BY <2>1 DEF N
    <3>2. found[r] \in Seq(Int)
      BY <3>1
    <3> QED
      BY <3>2
  <2>3. LineLength(m, r + 1, to) \in Int
    BY PlacesTyped, r + 1 \in Int
  <2>4. Len(Append(found[r], LineLength(m, r + 1, to))) = Len(found[r]) + 1
    BY <2>2, <2>3
  <2>5. found[r + 1] = IF Taken(m, r + 1, from, to)
                       THEN Append(found[r], LineLength(m, r + 1, to)) ELSE found[r]
    BY <1>1, <2>1 DEF N
  <2>6. to <= Begins[m] => ~ Taken(m, r + 1, from, to)
    BY <1>2 DEF Taken, Newline, HeaderLength, RecordLength
  <2>7. Len(found[r + 1]) \in {Len(found[r]), Len(found[r]) + 1}
    BY <2>4, <2>5
  <2>8. to <= Begins[m] => found[r + 1] = found[r]
    BY <2>5, <2>6
  <2>9. Len(found[r]) <= r /\ (to <= Begins[m] => Len(found[r]) = 0)
    BY <1>4
  <2>10. Len(found[r + 1]) <= r + 1
    <3>1. r \in Nat
      BY <1>2
    <3> QED
      BY <2>2, <2>7, <2>9, <3>1, SMTT(30)
  <2>11. to <= Begins[m] => Len(found[r + 1]) = 0
    BY <2>8, <2>9
  <2> QED
    BY <2>1, <2>10, <2>11
<1>5. 0..N \subseteq T
  <2> HIDE DEF T
  <2> QED
    BY <1>2, <1>3, <1>4, IntervalIsInductive
<1>6. N \in T
  <2> HIDE DEF T
  <2> QED
    BY <1>2, <1>5
<1> QED
  BY <1>1, <1>6 DEF N

\* The lines of a piece that ends before message last + 1.
LEMMA LinesOfCounted ==
  ASSUME stream \in Seq(Nat), NEW from \in Int, NEW to \in Int, NEW last \in 0..Len(stream),
         last < Len(stream) => to <= Begins[last + 1]
  PROVE  Len(LinesOf(from, to)) <= Records(stream)[last]
<1>1. PICK all \in [0..Len(stream) -> Seq(Int)] :
        /\ all[0] = <<>>
        /\ \A m \in 1..Len(stream) : all[m] = all[m - 1] \o LinesIn(m, from, to)
        /\ LinesOf(from, to) = all[Len(stream)]
  BY LinesOfUnfolds
<1> DEFINE N == Len(stream)
           R == Records(stream)
           T == {m \in 0..N : Len(all[m]) <= IF m <= last THEN R[m] ELSE R[last]}
<1>2. /\ N \in Nat /\ last \in 0..N /\ R \in [0..N -> Nat] /\ R[0] = 0
      /\ \A m \in 1..N : R[m] = R[m - 1] + stream[m] /\ stream[m] \in Nat
  <2>1. N \in Nat /\ \A m \in 1..N : stream[m] \in Nat
    OBVIOUS
  <2> QED
    BY <2>1, RecordsUnfolds
<1> HIDE DEF N, R
<1>3. 0 \in T
  BY <1>1, <1>2
<1>4. ASSUME NEW k \in 0..(N - 1), k \in T PROVE k + 1 \in T
  <2> DEFINE m == k + 1
             L == LinesIn(m, from, to)
  <2>1. m \in 1..N /\ m \in 0..N /\ k \in 0..N /\ m - 1 = k
    BY <1>2
  <2>2. all[m] = all[k] \o L /\ L \in Seq(Int) /\ all[k] \in Seq(Int)
    BY <1>1, <2>1, LinesInTyped DEF N
  <2>3. Len(L) <= stream[m] /\ (to <= Begins[m] => Len(L) = 0)
    BY <2>1, LinesInCounted DEF N
  <2>4. R[m] = R[k] + stream[m] /\ R[m] \in Nat /\ R[k] \in Nat /\ stream[m] \in Nat
        /\ R[last] \in Nat
    BY <1>2, <2>1
  <2>5. k >= last => to <= Begins[m]
    <3> SUFFICES ASSUME k >= last PROVE to <= Begins[m]
      OBVIOUS
    <3>1. /\ last + 1 \in 1..(Len(stream) + 1) /\ m \in (last + 1)..(Len(stream) + 1)
          /\ m \in 1..(Len(stream) + 1) /\ last < Len(stream)
      BY <1>2, <2>1 DEF N
    <3> HIDE DEF m
    <3>2. Begins[last + 1] <= Begins[m]
      BY <3>1, BeginsGrow
    <3>3. Begins[last + 1] \in Nat /\ Begins[m] \in Nat
      BY <3>1, BeginsUnfolds
    <3> QED
      BY <3>1, <3>2, <3>3
  <2> HIDE DEF L
  <2>6. Len(all[m]) = Len(all[k]) + Len(L) /\ Len(all[k]) \in Nat /\ Len(L) \in Nat
    BY <2>2
  <2>7. CASE k >= last
    <3>1. Len(L) = 0
      BY <2>3, <2>5, <2>7
    <3>2. Len(all[k]) <= R[last]
      BY <1>2, <1>4, <2>7
    <3> QED
      BY <1>2, <2>1, <2>4, <2>6, <2>7, <3>1, <3>2
  <2>8. CASE k < last
    <3>1. Len(all[k]) <= R[k] /\ m <= last
      BY <1>2, <1>4, <2>8
    <3> QED
      BY <2>1, <2>3, <2>4, <2>6, <3>1, SMTT(30)
  <2> QED
    BY <1>2, <2>7, <2>8
<1>5. 0..N \subseteq T
  <2> HIDE DEF T
  <2> QED
    BY <1>2, <1>3, <1>4, IntervalIsInductive
<1>6. N \in T
  <2> HIDE DEF T
  <2> QED
    BY <1>2, <1>5
<1>7. Len(all[N]) <= R[last]
  BY <1>2, <1>6
<1> QED
  BY <1>1, <1>7 DEF N, R

\* The position up to which the stream was read is in exactly one message, or
\* at the end.
LEMMA FirstLeftIs ==
  ASSUME stream \in Seq(Nat), NEW to \in Nat, to <= Begins[Len(stream) + 1]
  PROVE  /\ FirstLeft(to) \in 1..(Len(stream) + 1)
         /\ Begins[FirstLeft(to)] <= to
         /\ FirstLeft(to) <= Len(stream) => to < Begins[FirstLeft(to) + 1]
<1> DEFINE N == Len(stream)
           T == {m \in 1..(N + 1) : Begins[m] <= to}
<1>1. N \in Nat /\ Begins \in [1..(N + 1) -> Nat] /\ Begins[1] = 0
  BY BeginsUnfolds
<1> HIDE DEF N
<1>2. 1 \in T /\ T \subseteq Int /\ N + 1 \in Int /\ \A m \in T : m <= N + 1
  BY <1>1
<1>3. PICK left \in T : \A k \in T : k <= left
  <2> HIDE DEF T
  <2> QED
    BY <1>2, GreatestElement
<1>4. left <= N => to < Begins[left + 1]
  <2> SUFFICES ASSUME left <= N PROVE to < Begins[left + 1]
    OBVIOUS
  <2>1. left + 1 \in 1..(N + 1) /\ left + 1 \notin T
    BY <1>1, <1>3
  <2> QED
    BY <1>1, <2>1
<1> QED
  BY <1>3, <1>4 DEF FirstLeft, N

LEMMA FirstIsCounted ==
  ASSUME NEW s \in Seq(Nat), NEW last \in 1..Len(s)
  PROVE  s[1] <= Records(s)[last]
<1> DEFINE N == Len(s)
           R == Records(s)
           T == {n \in 1..N : s[1] <= R[n]}
<1>1. N \in Nat /\ last \in 1..N /\ \A n \in 1..N : s[n] \in Nat
  OBVIOUS
<1>2. R \in [0..N -> Nat] /\ R[0] = 0 /\ \A n \in 1..N : R[n] = R[n - 1] + s[n]
  BY RecordsUnfolds
<1> HIDE DEF N, R
<1>3. 1 \in T
  <2>1. 1 \in 1..N /\ 1 - 1 = 0
    BY <1>1
  <2>2. R[1] = s[1] /\ s[1] \in Nat
    BY <1>1, <1>2, <2>1
  <2> QED
    BY <2>1, <2>2
<1>4. ASSUME NEW n \in 1..(N - 1), n \in T PROVE n + 1 \in T
  <2>1. n + 1 \in 1..N /\ (n + 1) - 1 = n /\ n \in 0..N /\ 1 \in 1..N
    BY <1>1
  <2>2. R[n + 1] = R[n] + s[n + 1]
    BY <1>2, <2>1
  <2>3. R[n] \in Nat /\ s[n + 1] \in Nat /\ s[1] \in Nat
    BY <1>1, <1>2, <2>1
  <2> QED
    BY <1>4, <2>1, <2>2, <2>3
<1>5. 1..N \subseteq T
  <2> HIDE DEF T
  <2> QED
    BY <1>1, <1>3, <1>4, IntervalIsInductive
<1> QED
  BY <1>1, <1>5 DEF N, R

LEMMA RecordsOfAppend ==
  ASSUME NEW s \in Seq(Nat), NEW k \in Nat
  PROVE  Records(Append(s, k))[Len(s) + 1] = Records(s)[Len(s)] + k
<1> DEFINE N == Len(s)
           t == Append(s, k)
           R == Records(s)
           Q == Records(t)
           T == {n \in 0..N : Q[n] = R[n]}
<1>1. /\ N \in Nat /\ t \in Seq(Nat) /\ Len(t) = N + 1 /\ t[N + 1] = k
      /\ \A n \in 1..N : t[n] = s[n]
  OBVIOUS
<1>2. /\ R[0] = 0 /\ \A n \in 1..N : R[n] = R[n - 1] + s[n]
      /\ R \in [0..N -> Nat]
  BY RecordsUnfolds
<1>3. Q[0] = 0 /\ \A n \in 1..(N + 1) : Q[n] = Q[n - 1] + t[n]
  <2> HIDE DEF t, N
  <2> QED
    BY <1>1, RecordsUnfolds
<1> HIDE DEF N, t, R, Q
<1>4. 0 \in T
  BY <1>1, <1>2, <1>3
<1>5. ASSUME NEW n \in 0..(N - 1), n \in T PROVE n + 1 \in T
  <2>1. n + 1 \in 1..N /\ n + 1 \in 1..(N + 1) /\ n + 1 \in 0..N /\ (n + 1) - 1 = n
    BY <1>1
  <2>2. Q[n + 1] = Q[n] + t[n + 1] /\ R[n + 1] = R[n] + s[n + 1]
    BY <1>2, <1>3, <2>1
  <2>3. t[n + 1] = s[n + 1] /\ Q[n] = R[n]
    BY <1>1, <1>5, <2>1
  <2> QED
    BY <2>1, <2>2, <2>3
<1>6. 0..N \subseteq T
  <2> HIDE DEF T
  <2> QED
    BY <1>1, <1>4, <1>5, IntervalIsInductive
<1>7. Q[N] = R[N]
  <2>1. N \in 0..N
    BY <1>1
  <2> QED
    BY <1>6, <2>1
<1>8. Q[N + 1] = Q[(N + 1) - 1] + t[N + 1] /\ (N + 1) - 1 = N
  BY <1>1, <1>3
<1> QED
  BY <1>1, <1>7, <1>8 DEF N, t, R, Q

LEMMA RecordsOfRest ==
  ASSUME NEW s \in Seq(Nat), NEW left \in 1..(Len(s) + 1)
  PROVE  LET rest == SubSeq(s, left, Len(s))
         IN  Records(rest)[Len(rest)] = Records(s)[Len(s)] - Records(s)[left - 1]
<1> DEFINE N == Len(s)
           t == SubSeq(s, left, N)
           M == N + 1 - left
           R == Records(s)
           Q == Records(t)
           T == {n \in 0..M : Q[n] = R[left - 1 + n] - R[left - 1]}
<1>1. /\ N \in Nat /\ M \in Nat /\ t \in Seq(Nat) /\ Len(t) = M
      /\ \A n \in 1..M : t[n] = s[left - 1 + n]
  OBVIOUS
<1>2. /\ R \in [0..N -> Nat] /\ \A n \in 1..N : R[n] = R[n - 1] + s[n]
  BY RecordsUnfolds
<1>3. Q[0] = 0 /\ \A n \in 1..M : Q[n] = Q[n - 1] + t[n]
  <2> HIDE DEF t, N, M
  <2> QED
    BY <1>1, RecordsUnfolds
<1>4. left \in Int /\ left <= N + 1 /\ left >= 1 /\ M = N + 1 - left /\ \A n \in 1..N : s[n] \in Nat
  OBVIOUS
<1> HIDE DEF N, t, R, Q, M
<1>5. 0 \in T
  <2>1. left - 1 + 0 = left - 1 /\ left - 1 \in 0..N
    BY <1>1, <1>4
  <2>2. R[left - 1] \in Nat
    BY <1>2, <2>1
  <2> QED
    BY <1>1, <1>3, <2>1, <2>2
<1>6. ASSUME NEW n \in 0..(M - 1), n \in T PROVE n + 1 \in T
  <2>1. /\ n + 1 \in 1..M /\ n + 1 \in 0..M /\ (n + 1) - 1 = n
        /\ left - 1 + (n + 1) \in 1..N /\ (left - 1 + (n + 1)) - 1 = left - 1 + n
        /\ left - 1 + n \in 0..N /\ left - 1 \in 0..N
    BY <1>1, <1>4
  <2>2. Q[n + 1] = Q[n] + s[left - 1 + (n + 1)]
    BY <1>1, <1>3, <2>1
  <2>3. R[left - 1 + (n + 1)] = R[left - 1 + n] + s[left - 1 + (n + 1)]
    BY <1>2, <2>1
  <2>4. /\ R[left - 1 + n] \in Nat /\ R[left - 1] \in Nat /\ s[left - 1 + (n + 1)] \in Nat
    BY <1>2, <1>4, <2>1
  <2> QED
    BY <1>6, <2>1, <2>2, <2>3, <2>4, SMTT(30)
<1>7. 0..M \subseteq T
  <2> HIDE DEF T
  <2> QED
    BY <1>1, <1>5, <1>6, IntervalIsInductive
<1>8. Q[M] = R[left - 1 + M] - R[left - 1] /\ left - 1 + M = N
  <2>1. M \in 0..M /\ left - 1 + M = N
    BY <1>1, <1>4
  <2> QED
    BY <1>7, <2>1
<1> QED
  BY <1>1, <1>8 DEF N, t, R, Q

\* A message that is read whole is a batch, and every one of its records a
\* line that fits into its buffer.
LEMMA WholeMessage ==
  ASSUME stream \in Seq(Nat), Len(stream) = 1, stream[1] >= 1
  PROVE  /\ Kind(MessageLength(stream[1])) = "batch"
         /\ LinesOf(0, MessageLength(stream[1])) \in WholeLines
         /\ Len(LinesOf(0, MessageLength(stream[1]))) = stream[1]
<1> DEFINE k == stream[1]
           to == MessageLength(k)
<1>1. k \in Nat /\ k >= 1 /\ 1 \in 1..Len(stream) /\ Len(stream) \in Nat
  <2>1. 1 \in 1..Len(stream) /\ Len(stream) \in Nat
    OBVIOUS
  <2>2. stream[1] \in Nat
    BY <2>1, ElementOfSeq
  <2> QED
    BY <2>1, <2>2
<1>2. to = 19 + 39 * k /\ to \in Int /\ 0 \in Int
  BY <1>1 DEF MessageLength, HeaderLength, RecordLength
<1>3. Kind(to) = "batch"
  BY <1>1, <1>2 DEF Kind
<1>4. Begins[1] = 0 /\ Begins[2] = to
  <2>1. Begins[1] = 0 /\ Begins[1 + 1] = Begins[1] + MessageLength(stream[1])
    BY <1>1, BeginsUnfolds
  <2> QED
    BY <1>2, <2>1
<1> HIDE DEF k, to
<1>5. ASSUME NEW r \in 1..k PROVE Taken(1, r, 0, to) /\ LineLength(1, r, to) = RecordLength
  <2>1. Newline(1, r) = 19 + (r - 1) * 39 /\ Newline(1, r + 1) = 19 + r * 39
    BY <1>1, <1>4 DEF Newline, HeaderLength, RecordLength
  <2>2. LineEnd(1, r) = 19 + r * 39
    <3>1. CASE r < k
      BY <2>1, <3>1 DEF LineEnd, k
    <3>2. CASE r = k
      BY <1>1, <1>2, <1>4, <3>2 DEF LineEnd, k
    <3> QED
      BY <1>1, <3>1, <3>2
  <2>3. 19 + r * 39 <= to /\ 19 + r * 39 \in Int /\ 19 + (r - 1) * 39 = 19 + r * 39 - 39
    BY <1>1, <1>2
  <2>4. Min({to, LineEnd(1, r)}) = 19 + r * 39
    BY <1>2, <2>2, <2>3, MinOfTwo
  <2>5. LineLength(1, r, to) = RecordLength
    BY <2>1, <2>3, <2>4 DEF LineLength, RecordLength
  <2>6. Taken(1, r, 0, to)
    BY <1>1, <1>2, <2>1, <2>3 DEF Taken
  <2> QED
    BY <2>5, <2>6
<1>6. LinesIn(1, 0, to) \in WholeLines /\ Len(LinesIn(1, 0, to)) = k
  <2>1. PICK found \in [0..k -> Seq(Int)] :
          /\ found[0] = <<>>
          /\ \A r \in 1..k : found[r] = IF Taken(1, r, 0, to)
                                        THEN Append(found[r - 1], LineLength(1, r, to))
                                        ELSE found[r - 1]
          /\ LinesIn(1, 0, to) = found[k]
    BY <1>1, <1>2, LinesInUnfolds, ZenonT(30) DEF k
  <2> DEFINE T == {r \in 0..k : found[r] \in WholeLines /\ Len(found[r]) = r}
  <2>2. 0 \in T
    <3>1. <<>> \in WholeLines /\ Len(<<>>) = 0
      BY DEF WholeLines
    <3> QED
      BY <1>1, <2>1, <3>1
  <2>3. ASSUME NEW r \in 0..(k - 1), r \in T PROVE r + 1 \in T
    <3>1. r + 1 \in 1..k /\ r + 1 \in 0..k /\ (r + 1) - 1 = r
      BY <1>1
    <3>2. found[r + 1] = Append(found[r], RecordLength)
      BY <1>5, <2>1, <3>1
    <3>3. found[r] \in WholeLines /\ Len(found[r]) = r
      BY <2>3
    <3>4. Append(found[r], RecordLength) \in WholeLines /\ Len(Append(found[r], RecordLength)) = r + 1
      BY <3>3 DEF WholeLines
    <3> QED
      BY <3>1, <3>2, <3>4
  <2>4. 0..k \subseteq T
    <3> HIDE DEF T
    <3> QED
      BY <1>1, <2>2, <2>3, IntervalIsInductive
  <2> QED
    BY <1>1, <2>1, <2>4
<1>7. LinesOf(0, to) = LinesIn(1, 0, to)
  <2>1. PICK all \in [0..Len(stream) -> Seq(Int)] :
          /\ all[0] = <<>>
          /\ \A m \in 1..Len(stream) : all[m] = all[m - 1] \o LinesIn(m, 0, to)
          /\ LinesOf(0, to) = all[Len(stream)]
    BY <1>2, LinesOfUnfolds
  <2>2. all[1] = <<>> \o LinesIn(1, 0, to) /\ LinesOf(0, to) = all[1]
    <3>1. 1 - 1 = 0
      OBVIOUS
    <3> QED
      BY <1>1, <2>1, <3>1
  <2>3. <<>> \o LinesIn(1, 0, to) = LinesIn(1, 0, to)
    BY <1>6 DEF WholeLines
  <2> QED
    BY <2>1, <2>2, <2>3
<1> QED
  BY <1>3, <1>6, <1>7 DEF k, to

-----------------------------------------------------------------------------
(* Each step keeps the dealings of agent, thread and queries in order *)

\* insert keeps one node per beacon.
LEMMA InsertedUnique ==
  ASSUME NEW nodes \in Seq(Node), NEW b \in Beacon, NEW late \in BOOLEAN,
         \A j, k \in DOMAIN nodes : nodes[j].mac = nodes[k].mac => j = k
  PROVE  LET filled == Inserted(nodes, b, late)
         IN  \A j, k \in DOMAIN filled : filled[j].mac = filled[k].mac => j = k
<1> DEFINE N == Len(nodes)
           passed == [n \in 1..N |-> IF nodes[n].mac = b THEN Heard(nodes[n], late)
                                     ELSE Passed(nodes[n])]
<1>1. DOMAIN nodes = 1..N /\ N \in Nat /\ \A n \in 1..N : nodes[n] \in Node
  OBVIOUS
<1>2. \A node \in Node : Heard(node, late).mac = node.mac /\ Passed(node).mac = node.mac
  BY DEF Heard, Passed, Node
<1>3. \A n \in 1..N : passed[n].mac = nodes[n].mac
  BY <1>1, <1>2
<1>4. DOMAIN passed = 1..N /\ passed \in Seq({passed[n] : n \in 1..N}) /\ Len(passed) = N
  BY <1>1
<1>5. CASE \E n \in 1..N : nodes[n].mac = b
  <2>1. Inserted(nodes, b, late) = passed
    BY <1>1, <1>5 DEF Inserted
  <2> HIDE DEF passed
  <2> QED
    BY <1>1, <1>3, <1>4, <2>1
<1>6. CASE \A n \in 1..N : nodes[n].mac # b
  <2>1. Inserted(nodes, b, late) = Append(passed, NewNode(b))
    BY <1>1, <1>6 DEF Inserted
  <2> DEFINE filled == Append(passed, NewNode(b))
             S == {passed[n] : n \in 1..N} \cup {NewNode(b)}
  <2>2. passed \in Seq(S) /\ NewNode(b) \in S
    BY <1>1
  <2> HIDE DEF passed, S
  <2>3. /\ DOMAIN filled = 1..(N + 1)
        /\ \A n \in 1..N : filled[n] = passed[n]
        /\ filled[N + 1] = NewNode(b)
    BY <1>1, <1>4, <2>2
  <2> HIDE DEF filled
  <2>4. \A n \in 1..N : filled[n].mac = nodes[n].mac /\ filled[n].mac # b
    BY <1>3, <1>6, <2>3
  <2>5. filled[N + 1].mac = b
    BY <2>3 DEF NewNode
  <2>6. ASSUME NEW j \in DOMAIN filled, NEW k \in DOMAIN filled, filled[j].mac = filled[k].mac
        PROVE  j = k
    <3>1. j \in 1..N \/ j = N + 1
      BY <1>1, <2>3
    <3>2. k \in 1..N \/ k = N + 1
      BY <1>1, <2>3
    <3> QED
      BY <1>1, <2>4, <2>5, <2>6, <3>1, <3>2
  <2> QED
    BY <2>1, <2>6 DEF filled
<1> QED
  BY <1>1, <1>5, <1>6

LEMMA StreamTyped ==
  ASSUME Typed
  PROVE  /\ stream \in Seq(Nat) /\ Cardinality(Beacon) \in Nat /\ Len(stream) \in Nat
         /\ \A n \in 1..Len(stream) : stream[n] \in 1..Cardinality(Beacon)
<1> DEFINE S == 1..Cardinality(Beacon)
<1>1. Cardinality(Beacon) \in Nat
  BY MessagesAssumption, FS_CardinalityType
<1>2. S \subseteq Nat /\ stream \in Seq(S)
  BY <1>1 DEF Typed
<1> HIDE DEF S
<1>3. stream \in Seq(Nat) /\ Len(stream) \in Nat /\ \A n \in 1..Len(stream) : stream[n] \in S
  <2>1. Len(stream) \in Nat /\ stream \in [1..Len(stream) -> S]
    BY <1>2
  <2>2. stream \in [1..Len(stream) -> Nat]
    BY <1>2, <2>1
  <2> QED
    BY <2>1, <2>2
<1> QED
  BY <1>1, <1>3 DEF S

\* What send_message reports: some of the beacons that are.
LEMMA MessageCounted ==
  ASSUME IInv, NEW b \in Beacon
  PROVE  LET m == MessageOf(table, b)
         IN  /\ m \subseteq Beacon /\ Cardinality(m) \in 0..Cardinality(Beacon)
             /\ m # {} => Cardinality(m) \in 1..Cardinality(Beacon)
             /\ Cardinality(Beacon) \in Nat
<1> DEFINE m == MessageOf(table, b)
<1>1. m \subseteq Beacon
  <2>1. \A n \in DOMAIN table : table[n] \in Node
    BY DEF IInv
  <2>2. \A n \in DOMAIN table : table[n].mac \in Beacon
    BY <2>1 DEF Node
  <2> QED
    BY <2>2 DEF MessageOf
<1>2. IsFiniteSet(Beacon)
  BY MessagesAssumption
<1> HIDE DEF m
<1>3. IsFiniteSet(m) /\ Cardinality(m) <= Cardinality(Beacon)
  BY <1>1, <1>2, FS_Subset
<1>4. Cardinality(m) \in Nat /\ Cardinality(Beacon) \in Nat
  BY <1>2, <1>3, FS_CardinalityType
<1>5. m # {} => Cardinality(m) # 0
  BY <1>3, FS_EmptySet
<1>6. /\ Cardinality(m) \in 0..Cardinality(Beacon)
      /\ m # {} => Cardinality(m) \in 1..Cardinality(Beacon)
  BY <1>3, <1>4, <1>5
<1> QED
  BY <1>1, <1>4, <1>6 DEF m

LEMMA InitDeals == Init => Dealings
<1> SUFFICES ASSUME Init PROVE Dealings
  OBVIOUS
<1>1. Typed
  <2>1. /\ table = <<>> /\ stream = <<>> /\ cut = 0 /\ replies = 0 /\ cuts = 0
        /\ lines = <<>> /\ save.lines = <<>> /\ sent = 0 /\ unfiled = 0 /\ told = {}
        /\ MaxMessages \in Nat /\ save.of = "nobody"
    BY MessagesAssumption DEF Init, Nowhere
  <2>2. <<>> \in Seq(Int) /\ <<>> \in Seq(1..Cardinality(Beacon)) /\ DOMAIN <<>> = {}
    OBVIOUS
  <2>3. /\ waiting \in BOOLEAN /\ own \in BOOLEAN /\ stranger \in BOOLEAN /\ crossed \in BOOLEAN
        /\ lost \in BOOLEAN
    BY Zenon DEF Init
  <2>4. save = [of |-> save.of, lines |-> save.lines]
    BY DEF Init, Nowhere
  <2>5. pc = "read" /\ mac = "unset" /\ broken = "no" /\ http = "poll"
    BY DEF Init
  <2> QED
    BY <2>1, <2>2, <2>3, <2>4, <2>5 DEF Typed
<1>2. Counted
  <2>1. Records(<<>>)[Len(<<>>)] = 0
    <3>1. <<>> \in Seq(Nat) /\ Len(<<>>) = 0
      OBVIOUS
    <3> QED
      BY <3>1, RecordsUnfolds
  <2>2. Unread = 0 /\ Pending = 0
    BY <2>1 DEF Init, Unread, Pending
  <2> QED
    BY <2>2 DEF Init, Counted
<1>3. Lockstep
  BY DEF Init, Lockstep, WholeLines, Nowhere
<1>4. Accounted
  BY DEF Init, Accounted
<1> QED
  BY <1>1, <1>2, <1>3, <1>4 DEF Init, Dealings

LEMMA HearDeals ==
  ASSUME IInv, Dealings, NEW b \in Beacon, NEW stronger \in BOOLEAN, Hear(b, stronger)
  PROVE  Dealings'
<1> DEFINE m == MessageOf(table, b)
           k == Cardinality(m)
<1>1. /\ ~ waiting /\ sent < MaxMessages /\ broken = "no"
      /\ UNCHANGED <<cut, replies, cuts, pc, lines, own, mac, http, save, stranger, broken, crossed>>
      /\ told' \in {told \cup m, (told \cup m) \ {b}}
      /\ m = {} => UNCHANGED <<stream, waiting, sent, unfiled>>
      /\ m # {} => /\ stream' = Append(stream, k) /\ waiting' = TRUE
                   /\ sent' = sent + 1 /\ unfiled' = unfiled + k
  BY DEF Hear, threadvars
<1>2. PICK late \in BOOLEAN : table' = Inserted(table, b, late)
  BY DEF Hear
<1>3. /\ m \subseteq Beacon /\ k \in 0..Cardinality(Beacon)
      /\ m # {} => k \in 1..Cardinality(Beacon)
      /\ Cardinality(Beacon) \in Nat
  BY MessageCounted
<1> HIDE DEF m, k
<1>4. /\ stream \in Seq(1..Cardinality(Beacon)) /\ stream \in Seq(Nat)
  BY StreamTyped DEF Dealings, Typed
<1>5. /\ stream' \in Seq(1..Cardinality(Beacon))
      /\ stream # <<>> => stream' # <<>> /\ stream'[1] = stream[1]
      /\ m # {} => /\ Len(stream') = Len(stream) + 1
                   /\ stream' # <<>>
                   /\ stream = <<>> => stream'[1] = k
  <2> DEFINE S == 1..Cardinality(Beacon)
  <2>1. stream \in Seq(S) /\ (m # {} => k \in S)
    BY <1>3, <1>4
  <2> HIDE DEF S
  <2>2. CASE m = {}
    BY <1>1, <2>1, <2>2 DEF S
  <2>3. CASE m # {}
    <3>1. /\ stream' = Append(stream, k) /\ k \in S /\ Len(stream) \in Nat
          /\ stream # <<>> => 1 \in 1..Len(stream)
          /\ stream = <<>> => Len(stream) = 0
      BY <1>1, <2>1, <2>3
    <3>2. /\ stream' \in Seq(S) /\ Len(stream') = Len(stream) + 1
          /\ \A n \in 1..Len(stream) : stream'[n] = stream[n]
          /\ stream'[Len(stream) + 1] = k
      BY <2>1, <3>1
    <3>3. stream' # <<>>
      BY <3>1, <3>2
    <3>4. stream = <<>> => stream'[1] = k
      <4> SUFFICES ASSUME stream = <<>> PROVE stream'[1] = k
        OBVIOUS
      <4>1. Len(stream) + 1 = 1
        BY <3>1
      <4> QED
        BY <3>2, <4>1
    <3> QED
      BY <3>1, <3>2, <3>3, <3>4, <2>3 DEF S
  <2> QED
    BY <2>2, <2>3
<1>6. Typed'
  <2>1. \A i, j \in DOMAIN table' : table'[i].mac = table'[j].mac => i = j
    <3>1. table \in Seq(Node) /\ \A i, j \in DOMAIN table : table[i].mac = table[j].mac => i = j
      BY DEF IInv, Dealings, Typed
    <3> QED
      BY <1>2, <3>1, InsertedUnique
  <2>2. told' \subseteq Beacon
    BY <1>1, <1>3 DEF Dealings, Typed
  <2>3. cut' \in Nat /\ (stream' = <<>> => cut' = 0) /\ (stream' # <<>> => cut' < MessageLength(stream'[1]))
    <3>1. CASE stream # <<>>
      BY <1>1, <1>5, <3>1 DEF Dealings, Typed
    <3>2. CASE stream = <<>> /\ m # {}
      <4>1. cut = 0 /\ k \in Nat /\ stream'[1] = k
        BY <1>3, <1>5, <3>2 DEF Dealings, Typed
      <4> QED
        BY <1>1, <1>5, <3>2, <4>1 DEF MessageLength, HeaderLength, RecordLength
    <3>3. CASE stream = <<>> /\ m = {}
      BY <1>1, <3>3 DEF Dealings, Typed
    <3> QED
      BY <3>1, <3>2, <3>3
  <2>4. waiting' \in BOOLEAN /\ sent' \in 0..MaxMessages /\ unfiled' \in Int
    <3>1. sent \in 0..MaxMessages /\ unfiled \in Int /\ MaxMessages \in Nat /\ k \in Nat
      BY <1>3, MessagesAssumption DEF Dealings, Typed
    <3>2. waiting \in BOOLEAN
      BY DEF Dealings, Typed
    <3>3. waiting' \in BOOLEAN
      BY <1>1, <3>2, Zenon
    <3>4. sent' \in {sent, sent + 1} /\ unfiled' \in {unfiled, unfiled + k}
      BY <1>1
    <3>5. sent' \in 0..MaxMessages
      BY <1>1, <3>1, <3>4
    <3> QED
      BY <3>1, <3>3, <3>4, <3>5
  <2>5. lost' \in BOOLEAN
    <3>1. lost' = (lost \/ \E n \in Hold(table, b) : table[n].due /\ b \notin told \cup MessageOf(table, b))
      BY DEF Hear
    <3> QED
      BY <3>1, Zenon
  <2> QED
    BY <1>1, <1>5, <2>1, <2>2, <2>3, <2>4, <2>5 DEF Dealings, Typed
<1>7. Counted'
  <2>1. Pending' = Pending
    BY <1>1 DEF Pending
  <2>2. CASE m = {}
    <3>1. Unread' = Unread
      BY <1>1, <2>2 DEF Unread
    <3> QED
      BY <1>1, <2>1, <2>2, <3>1 DEF Dealings, Counted
  <2>3. CASE m # {}
    <3>1. Records(stream')[Len(stream')] = Records(stream)[Len(stream)] + k
      <4>1. Records(Append(stream, k))[Len(stream) + 1] = Records(stream)[Len(stream)] + k
        BY <1>3, <1>4, RecordsOfAppend
      <4> QED
        BY <1>1, <1>5, <2>3, <4>1
    <3>2. Records(stream)[Len(stream)] \in Nat
      BY <1>4, RecordsUnfolds
    <3>3. cut # 0 => stream # <<>> /\ stream'[1] = stream[1] /\ stream[1] \in Nat
      BY <1>4, <1>5 DEF Dealings, Typed
    <3>4. Unread' = Unread + k /\ Unread \in Int
      BY <1>1, <1>3, <3>1, <3>2, <3>3 DEF Unread
    <3>5. Pending \in Int
      BY DEF Pending, Dealings, Typed
    <3> QED
      BY <1>1, <1>3, <2>1, <2>3, <3>4, <3>5, SMTT(30) DEF Dealings, Counted, Typed
  <2> QED
    BY <2>2, <2>3
<1>8. cuts' = 0 => Lockstep'
  <2> SUFFICES ASSUME cuts' = 0 PROVE Lockstep'
    OBVIOUS
  <2>1. Lockstep /\ stream = <<>> /\ replies = 0 /\ pc = "read"
    BY <1>1 DEF Dealings, Lockstep
  <2>2. CASE m = {}
    BY <1>1, <2>1, <2>2 DEF Lockstep
  <2>3. CASE m # {}
    <3>1. Len(stream') = 1
      BY <1>5, <2>1, <2>3
    <3> QED
      BY <1>1, <2>1, <2>3, <3>1 DEF Lockstep
  <2> QED
    BY <2>2, <2>3
<1>9. cuts' = 0 /\ ~ crossed' /\ broken' = "no" => Accounted'
  <2> SUFFICES ASSUME cuts' = 0, ~ crossed', broken' = "no" PROVE Accounted'
    OBVIOUS
  <2>1. Lockstep /\ Accounted /\ stream = <<>> /\ pc = "read"
    BY <1>1 DEF Dealings, Lockstep
  <2>2. unfiled = 0
    BY <2>1 DEF Accounted
  <2>3. CASE m = {}
    BY <1>1, <2>1, <2>3 DEF Accounted
  <2>4. CASE m # {}
    BY <1>1, <1>3, <1>5, <2>1, <2>2, <2>4 DEF Accounted
  <2> QED
    BY <2>3, <2>4
<1> QED
  BY <1>1, <1>6, <1>7, <1>8, <1>9 DEF Dealings

LEMMA PendingTyped == Typed => Pending \in Nat /\ Unread \in Int
<1> SUFFICES ASSUME Typed PROVE Pending \in Nat /\ Unread \in Int
  OBVIOUS
<1>1. Pending \in Nat
  <2>1. Len(lines) \in Nat /\ Len(save.lines) \in Nat
    BY DEF Typed
  <2> QED
    BY <2>1 DEF Pending
<1>2. Unread \in Int
  <2>1. Records(stream)[Len(stream)] \in Nat
    BY StreamTyped, RecordsUnfolds
  <2>2. cut # 0 => stream[1] \in Nat
    <3> SUFFICES ASSUME cut # 0 PROVE stream[1] \in Nat
      OBVIOUS
    <3>1. stream # <<>>
      BY DEF Typed
    <3>2. 1 \in 1..Len(stream)
      BY <3>1, StreamTyped
    <3> QED
      BY <3>2, StreamTyped
  <2> QED
    BY <2>1, <2>2 DEF Unread
<1> QED
  BY <1>1, <1>2

LEMMA ElapseDeals ==
  ASSUME IInv, Dealings, NEW n \in DOMAIN table, Elapse(n)
  PROVE  Dealings'
<1>1. table' = [table EXCEPT ![n].due = TRUE]
  BY DEF Elapse
<1>2. UNCHANGED <<waiting, sent, told, lost, tcp, threadvars, http, save, stranger, broken, unfiled, crossed>>
  BY DEF Elapse
<1>3. \A j, k \in DOMAIN table' : table'[j].mac = table'[k].mac => j = k
  <2>1. \A j \in DOMAIN table : table[j] \in Node
    BY DEF IInv
  <2>2. DOMAIN table' = DOMAIN table /\ \A j \in DOMAIN table : table'[j].mac = table[j].mac
    BY <1>1, <2>1 DEF Node
  <2> QED
    BY <2>2 DEF Dealings, Typed
<1>4. Typed'
  BY <1>2, <1>3 DEF Dealings, Typed, tcp, threadvars
<1>5. Counted' /\ (Lockstep' <=> Lockstep) /\ (Accounted' <=> Accounted)
  BY <1>2 DEF Dealings, Counted, Unread, Pending, Lockstep, Accounted, tcp, threadvars
<1> QED
  BY <1>2, <1>4, <1>5 DEF Dealings, tcp

LEMMA TakeReplyDeals ==
  ASSUME Dealings, TakeReply
  PROVE  Dealings'
<1>1. /\ waiting /\ replies > 0 /\ broken = "no" /\ ~ waiting' /\ waiting' = FALSE /\ replies' = 0
      /\ UNCHANGED <<table, sent, told, lost, stream, cut, cuts, threadvars, http, save, stranger,
                     broken, unfiled, crossed>>
  BY DEF TakeReply
<1>2. Typed'
  <2>1. waiting' \in BOOLEAN
    BY <1>1, Zenon
  <2> QED
    BY <1>1, <2>1 DEF Dealings, Typed, threadvars
<1>3. Counted' /\ (Accounted' <=> Accounted)
  BY <1>1 DEF Dealings, Counted, Unread, Pending, Accounted, threadvars
<1>4. Lockstep => Lockstep'
  BY <1>1 DEF Lockstep, threadvars
<1> QED
  BY <1>1, <1>2, <1>3, <1>4 DEF Dealings

LEMMA FirstLineDeals ==
  ASSUME Dealings, FirstLine
  PROVE  Dealings'
<1>1. /\ pc = "first" /\ broken = "no" /\ pc' = "next"
      /\ save' = [of |-> "agent", lines |-> lines] /\ lines' = <<>>
      /\ UNCHANGED <<agentvars, tcp, own, mac, http, stranger, broken, unfiled, crossed>>
  BY DEF FirstLine
<1>2. save'.of = "agent" /\ save'.lines = lines
  BY <1>1
<1>3. Typed'
  <2>1. <<>> \in Seq(Int) /\ save' = [of |-> save'.of, lines |-> save'.lines]
    BY <1>1
  <2> QED
    BY <1>1, <1>2, <2>1 DEF Dealings, Typed, agentvars, tcp
<1>4. Counted'
  <2>1. Pending' = Pending
    BY <1>1, <1>2 DEF Pending
  <2>2. Unread' = Unread
    BY <1>1 DEF Unread, tcp
  <2> QED
    BY <1>1, <2>1, <2>2 DEF Dealings, Counted
<1>5. Lockstep => Lockstep'
  <2>1. <<>> \in WholeLines
    BY DEF WholeLines
  <2> QED
    BY <1>1, <1>2, <2>1 DEF Lockstep, agentvars, tcp
<1>6. Accounted => Accounted'
  BY <1>1, <1>2 DEF Accounted
<1> QED
  BY <1>1, <1>3, <1>4, <1>5, <1>6 DEF Dealings, tcp

LEMMA LastLineDeals ==
  ASSUME Dealings, LastLine
  PROVE  Dealings'
<1>1. /\ pc = "next" /\ broken = "no" /\ pc' = "ack"
      /\ save.of = "agent" => save.lines = <<>>
      /\ own' = FALSE /\ crossed' = (crossed \/ save.of # "agent")
      /\ UNCHANGED <<agentvars, tcp, lines, mac, http, save, stranger, broken, unfiled>>
  BY DEF LastLine, Exhausted, Overwritten
<1>2. Typed'
  <2>1. own' \in BOOLEAN
    BY <1>1
  <2>2. crossed' \in BOOLEAN
    BY <1>1, Zenon
  <2> QED
    BY <1>1, <2>1, <2>2 DEF Dealings, Typed, agentvars, tcp
<1>3. Counted'
  <2>1. Pending' = 0 /\ Unread' = Unread
    BY <1>1 DEF Pending, Unread, tcp
  <2> QED
    BY <1>1, <2>1, PendingTyped DEF Dealings, Counted, Typed
<1>4. Lockstep => Lockstep'
  BY <1>1 DEF Lockstep, agentvars, tcp
<1>5. Accounted /\ ~ crossed' => Accounted'
  BY <1>1 DEF Accounted
<1> QED
  BY <1>1, <1>2, <1>3, <1>4, <1>5 DEF Dealings, tcp

LEMMA AckDeals ==
  ASSUME Dealings, Ack
  PROVE  Dealings'
<1>1. /\ pc = "ack" /\ broken = "no" /\ pc' = "read" /\ replies' = replies + 1
      /\ UNCHANGED <<agentvars, stream, cut, cuts, lines, own, mac, http, save, stranger,
                     broken, unfiled, crossed>>
  BY DEF Ack
<1>2. Typed'
  BY <1>1, SMTT(30) DEF Dealings, Typed, agentvars
<1>3. Counted'
  BY <1>1 DEF Dealings, Counted, Pending, Unread
<1>4. Lockstep => Lockstep'
  BY <1>1 DEF Lockstep, agentvars
<1>5. cuts = 0 /\ Accounted => Accounted'
  BY <1>1 DEF Dealings, Lockstep, Accounted
<1> QED
  BY <1>1, <1>2, <1>3, <1>4, <1>5 DEF Dealings

LEMMA SplitPathDeals ==
  ASSUME Dealings, NEW u \in Url, SplitPath(u)
  PROVE  Dealings'
<1>1. /\ http = "poll" /\ broken = "no"
      /\ save' = [of |-> "http", lines |-> u.parts]
      /\ broken' \in {"url", "no"} /\ http' \in {"id", "poll"}
      /\ UNCHANGED <<agentvars, tcp, threadvars, stranger, unfiled, crossed>>
  BY DEF SplitPath
<1>2. save'.of = "http" /\ save'.lines \in Seq(Int) /\ save' = [of |-> save'.of, lines |-> save'.lines]
  <2>1. u.parts \in Seq(Nat \ {0})
    BY MessagesAssumption
  <2>2. u.parts \in Seq(Int)
    BY <2>1
  <2> QED
    BY <1>1, <2>2
<1>3. Typed'
  BY <1>1, <1>2 DEF Dealings, Typed, agentvars, tcp, threadvars
<1>4. Counted'
  <2>1. Pending' = Pending \/ Pending' = 0
    BY <1>1, <1>2 DEF Pending, threadvars
  <2>2. Unread' = Unread
    BY <1>1 DEF Unread, tcp
  <2> QED
    BY <1>1, <2>1, <2>2, PendingTyped DEF Dealings, Counted, Typed
<1>5. Lockstep => Lockstep'
  BY <1>1, <1>2 DEF Lockstep, agentvars, tcp, threadvars
<1>6. Accounted => Accounted'
  BY <1>1, <1>2 DEF Accounted, threadvars, tcp
<1> QED
  BY <1>1, <1>3, <1>4, <1>5, <1>6 DEF Dealings, tcp

\* What strtok leaves: the rest of the user's own text, or nothing.
LEMMA AfterIs ==
  ASSUME Typed, NEW user
  PROVE  /\ After(user) = [of |-> After(user).of, lines |-> After(user).lines]
         /\ After(user).of = save.of
         /\ After(user).lines =
              IF save.of = user /\ save.lines # <<>> THEN Tail(save.lines) ELSE <<>>
         /\ After(user).lines \in Seq(Int)
<1> DEFINE rest == IF save.of = user /\ save.lines # <<>> THEN Tail(save.lines) ELSE <<>>
<1>1. save = [of |-> save.of, lines |-> save.lines] /\ save.lines \in Seq(Int)
  BY DEF Typed
<1>2. After(user) = [save EXCEPT !.lines = rest]
  BY DEF After, Exhausted
<1>3. rest \in Seq(Int)
  BY <1>1
<1> HIDE DEF rest
<1>4. After(user) = [of |-> save.of, lines |-> rest]
  BY <1>1, <1>2
<1> QED
  BY <1>3, <1>4 DEF rest

LEMMA SplitIdDeals ==
  ASSUME Dealings, SplitId
  PROVE  Dealings'
<1>1. /\ http = "id" /\ broken = "no" /\ save' = After("http")
      /\ http' = "poll" /\ crossed' = (crossed \/ save.of # "http")
      /\ UNCHANGED <<agentvars, tcp, threadvars, stranger, unfiled>>
  BY DEF SplitId
<1>2. /\ broken' \in {"id", "url", "no"}
      /\ broken' = "id" => save.of # "http"
  BY Zenon DEF SplitId
<1>3. /\ save'.of = save.of /\ save' = [of |-> save'.of, lines |-> save'.lines]
      /\ save'.lines \in Seq(Int) /\ (save.of = "agent" => save'.lines = <<>>)
  BY <1>1, AfterIs DEF Dealings
<1>4. Typed'
  <2>1. crossed' \in BOOLEAN
    BY <1>1, Zenon
  <2> QED
    BY <1>1, <1>2, <1>3, <2>1 DEF Dealings, Typed, agentvars, tcp, threadvars
<1>5. Counted'
  <2>1. Pending' = Pending \/ Pending' = 0
    BY <1>1, <1>3 DEF Pending, threadvars
  <2>2. Unread' = Unread
    BY <1>1 DEF Unread, tcp
  <2> QED
    BY <1>1, <2>1, <2>2, PendingTyped DEF Dealings, Counted, Typed
<1>6. Lockstep => Lockstep'
  <2>1. <<>> \in WholeLines
    BY DEF WholeLines
  <2> QED
    BY <1>1, <1>3, <2>1 DEF Lockstep, agentvars, tcp, threadvars
<1>7. Accounted /\ ~ crossed' => Accounted'
  BY <1>1, <1>3 DEF Accounted, threadvars, tcp
<1> QED
  BY <1>1, <1>2, <1>4, <1>5, <1>6, <1>7 DEF Dealings, tcp

\* A line of the agent's own.
LEMMA OwnLineDeals ==
  ASSUME Dealings, NextLine, save.of = "agent"
  PROVE  Dealings'
<1> DEFINE length == Head(save.lines)
<1>1. /\ pc = "next" /\ broken = "no" /\ save.lines # <<>> /\ crossed' = crossed
      /\ UNCHANGED <<agentvars, tcp, lines, own, mac, http>>
  <2>1. pc = "next" /\ (~ Exhausted \/ Overwritten) /\ crossed' = (crossed \/ save.of # "agent")
        /\ broken = "no" /\ UNCHANGED <<agentvars, tcp, lines, own, mac, http>>
    BY DEF NextLine
  <2>2. crossed \in BOOLEAN /\ crossed' \in BOOLEAN
    BY <2>1, Zenon DEF Dealings, Typed
  <2> QED
    BY <2>1, <2>2 DEF Exhausted, Overwritten
<1>2. \/ length >= LineBuffer /\ broken' = "line" /\ UNCHANGED <<pc, stranger, unfiled>>
      \/ /\ length \in ReadableLength..(LineBuffer - 1) /\ broken' = broken
         /\ stranger' = (stranger \/ ~ own)
         /\ unfiled' = IF own THEN unfiled - 1 ELSE unfiled
         /\ pc' \in IF stranger' THEN {"next", "raised"} ELSE {"next"}
      \/ length < ReadableLength /\ UNCHANGED <<pc, stranger, broken, unfiled>>
  <2>1. Found("agent") = {length}
    BY <1>1 DEF Found, Overwritten, Exhausted
  <2> HIDE DEF length
  <2> QED
    BY <2>1 DEF NextLine, StoreReading
<1> HIDE DEF length
<1>3. /\ save'.of = "agent" /\ save'.lines = Tail(save.lines)
      /\ save' = [of |-> save'.of, lines |-> save'.lines]
  <2>1. save' = After("agent")
    BY DEF NextLine
  <2> QED
    BY <1>1, <2>1, AfterIs DEF Dealings
<1>4. /\ Tail(save.lines) \in Seq(Int) /\ Len(save.lines) \in Nat \ {0}
      /\ Len(Tail(save.lines)) = Len(save.lines) - 1
  <2>1. save.lines \in Seq(Int)
    BY DEF Dealings, Typed
  <2> QED
    BY <1>1, <2>1
<1>5. Typed'
  <2>1. stranger' \in BOOLEAN
    <3>1. stranger \in BOOLEAN
      BY DEF Dealings, Typed
    <3> QED
      BY <1>2, <3>1, Zenon
  <2>2. pc' \in {"next", "raised"} /\ unfiled' \in Int /\ broken' \in {"no", "line"}
    BY <1>1, <1>2 DEF Dealings, Typed
  <2> QED
    BY <1>1, <1>3, <1>4, <2>1, <2>2 DEF Dealings, Typed, agentvars, tcp
<1>6. Counted'
  <2>1. Unread' = Unread /\ Unread \in Int /\ unfiled \in Int
    BY <1>1, PendingTyped DEF Unread, tcp, Dealings, Typed
  <2>2. Pending = IF own THEN Len(save.lines) ELSE 0
    BY <1>1 DEF Pending
  <2>3. Pending' = IF own /\ pc' = "next" THEN Len(save.lines) - 1 ELSE 0
    <3>1. pc' # "first" /\ own' = own
      BY <1>1, <1>2
    <3> QED
      BY <1>3, <1>4, <3>1 DEF Pending
  <2>4. unfiled' >= IF own THEN unfiled - 1 ELSE unfiled
    BY <1>2, <2>1
  <2>5. unfiled >= Unread + Pending
    BY DEF Dealings, Counted
  <2>6. unfiled' \in Int
    BY <1>5 DEF Typed
  <2> QED
    BY <1>4, <2>1, <2>2, <2>3, <2>4, <2>5, <2>6 DEF Counted
<1>7. ASSUME Lockstep
      PROVE  /\ length = RecordLength /\ own /\ ~ stranger /\ ~ stranger' /\ broken' = broken
             /\ pc' = "next" /\ unfiled' = unfiled - 1 /\ Tail(save.lines) \in WholeLines
  <2>1. save.lines \in WholeLines /\ own /\ ~ stranger
    BY <1>1, <1>7 DEF Lockstep
  <2>2. length = RecordLength /\ Tail(save.lines) \in WholeLines
    BY <1>1, <2>1 DEF WholeLines, length
  <2>3. ~ (length >= LineBuffer) /\ ~ (length < ReadableLength)
    BY <2>2 DEF LineBuffer, ReadableLength, RecordLength
  <2>4. stranger' = (stranger \/ ~ own)
    BY <1>2, <2>3
  <2>5. ~ stranger'
    BY <2>1, <2>4
  <2> QED
    BY <1>2, <2>1, <2>2, <2>3, <2>5
<1>8. Lockstep => Lockstep'
  BY <1>1, <1>3, <1>7 DEF Lockstep, agentvars, tcp
<1>9. cuts = 0 /\ Accounted => Accounted'
  <2> SUFFICES ASSUME cuts = 0, Accounted PROVE Accounted'
    OBVIOUS
  <2>1. pc' = "next" /\ unfiled' = unfiled - 1
    BY <1>7 DEF Dealings
  <2>2. unfiled = Len(save.lines)
    BY <1>1 DEF Accounted
  <2> QED
    BY <1>3, <1>4, <2>1, <2>2 DEF Accounted
<1>10. /\ broken' = "id" => FALSE
       /\ broken' = "line" => cuts > 0
  <2>1. broken' \in {"no", "line"} /\ cuts \in Nat
    BY <1>1, <1>2 DEF Dealings, Typed
  <2>2. cuts = 0 => broken' = "no"
    BY <1>1, <1>7 DEF Dealings
  <2> QED
    BY <2>1, <2>2
<1>11. cuts' = cuts
  BY <1>1 DEF tcp
<1> QED
  BY <1>1, <1>5, <1>6, <1>8, <1>9, <1>10, <1>11 DEF Dealings

\* What is left of a URL, taken for a line.
LEMMA ForeignLineDeals ==
  ASSUME Dealings, NextLine, save.of # "agent"
  PROVE  Dealings'
<1>1. /\ pc = "next" /\ broken = "no" /\ crossed' = TRUE /\ save' = After("agent")
      /\ UNCHANGED <<agentvars, tcp, lines, own, mac, http>>
  BY DEF NextLine
<1>2. /\ unfiled' = unfiled /\ broken' \in {"line", broken}
      /\ \/ UNCHANGED <<pc, stranger>>
         \/ /\ stranger' = (stranger \/ ~ own)
            /\ pc' \in IF stranger' THEN {"next", "raised"} ELSE {"next"}
  BY DEF NextLine, StoreReading
<1>3. /\ save'.of = save.of /\ save' = [of |-> save'.of, lines |-> save'.lines]
      /\ save'.lines \in Seq(Int)
  BY <1>1, AfterIs DEF Dealings
<1>4. Typed'
  <2>1. stranger' \in BOOLEAN
    <3>1. stranger \in BOOLEAN
      BY DEF Dealings, Typed
    <3> QED
      BY <1>2, <3>1, Zenon
  <2>2. pc' \in {"next", "raised"} /\ broken' \in {"no", "line"}
    BY <1>1, <1>2
  <2> QED
    BY <1>1, <1>2, <1>3, <2>1, <2>2 DEF Dealings, Typed, agentvars, tcp
<1>5. Counted'
  <2>1. Unread' = Unread
    BY <1>1 DEF Unread, tcp
  <2>2. Pending = 0 /\ Pending' = 0
    <3>1. pc' # "first"
      BY <1>1, <1>2
    <3> QED
      BY <1>1, <1>3, <3>1 DEF Pending
  <2> QED
    BY <1>2, <2>1, <2>2 DEF Dealings, Counted
<1>6. Lockstep => Lockstep'
  <2> SUFFICES ASSUME Lockstep PROVE Lockstep'
    OBVIOUS
  <2>1. own /\ ~ stranger
    BY <1>1 DEF Lockstep
  <2>2. ~ stranger'
    BY <1>2, <2>1
  <2>3. pc' = "next"
    BY <1>1, <1>2, <2>2
  <2> QED
    BY <1>1, <1>3, <2>1, <2>2, <2>3 DEF Lockstep, agentvars, tcp
<1>7. broken' # "id"
  BY <1>1, <1>2
<1> QED
  BY <1>1, <1>4, <1>5, <1>6, <1>7 DEF Dealings, tcp

LEMMA NextLineDeals ==
  ASSUME Dealings, NextLine
  PROVE  Dealings'
BY OwnLineDeals, ForeignLineDeals

\* A read of length bytes: what is left of the stream, and what it counts.
LEMMA ReadDeals ==
  ASSUME Dealings, NEW length \in Nat, length <= Available, Read(length)
  PROVE  Dealings'
<1> DEFINE N == Len(stream)
           R == Records(stream)
           to == cut + length
           left == FirstLeft(to)
<1>1. /\ pc = "read" /\ stream # <<>> /\ broken = "no"
      /\ stream' = SubSeq(stream, left, N)
      /\ cut' = to - Begins[left]
      /\ lines' = IF Kind(length) = "batch" THEN LinesOf(cut, to) ELSE <<>>
      /\ own' = (Kind(length) = "batch" /\ cut = 0)
      /\ mac' \in {mac, "own", "other"}
      /\ cuts' = IF length < Available THEN cuts + 1 ELSE cuts
      /\ pc' = CASE Kind(length) = "keepalive" -> "ack"
                 [] Kind(length) = "garbage"   -> "read"
                 [] Kind(length) = "batch"     -> "first"
      /\ UNCHANGED <<agentvars, replies, http, save, stranger, broken, unfiled, crossed>>
  BY DEF Read
<1>2. /\ stream \in Seq(Nat) /\ N \in Nat \ {0} /\ Cardinality(Beacon) \in Nat
      /\ \A n \in 1..N : stream[n] \in 1..Cardinality(Beacon)
      /\ cut \in Nat /\ to \in Nat
  <2>1. Typed
    BY DEF Dealings
  <2>2. cut \in Nat
    BY <2>1 DEF Typed
  <2>3. /\ stream \in Seq(Nat) /\ N \in Nat /\ Cardinality(Beacon) \in Nat
        /\ \A n \in 1..N : stream[n] \in 1..Cardinality(Beacon)
    BY <2>1, StreamTyped
  <2>4. N # 0
    BY <1>1, <2>3
  <2> QED
    BY <2>2, <2>3, <2>4
<1>3. /\ Begins \in [1..(N + 1) -> Nat] /\ Begins[1] = 0
      /\ \A m \in 1..N : Begins[m + 1] = Begins[m] + MessageLength(stream[m])
  BY <1>2, BeginsUnfolds
<1>4. to <= Begins[N + 1]
  <2>1. N + 1 \in 1..(N + 1)
    BY <1>2
  <2>2. Begins[N + 1] \in Nat
    BY <1>3, <2>1
  <2> QED
    BY <1>2, <2>2 DEF Available
<1>5. /\ left \in 1..(N + 1) /\ Begins[left] <= to
      /\ left <= N => to < Begins[left + 1]
  BY <1>2, <1>4, FirstLeftIs
<1>6. R \in [0..N -> Nat] /\ R[0] = 0 /\ \A n \in 1..N : R[n] = R[n - 1] + stream[n]
  BY <1>2, RecordsUnfolds
<1>7. Records(stream')[Len(stream')] = R[N] - R[left - 1]
  BY <1>1, <1>2, <1>5, RecordsOfRest
<1>8. Kind(length) \in {"keepalive", "garbage", "batch"}
  BY DEF Kind
<1>9. own' => Len(lines') = Len(LinesOf(0, to)) /\ cut = 0 /\ pc' = "first"
  BY <1>1
<1>10. ~ own' => Pending' = 0
  BY DEF Pending
<1>11. lines' \in Seq(Int)
  <2>1. PICK all \in [0..N -> Seq(Int)] : LinesOf(cut, to) = all[N]
    BY <1>2, LinesOfUnfolds, cut \in Int, to \in Int
  <2>2. all[N] \in Seq(Int) /\ <<>> \in Seq(Int)
    BY <1>2
  <2> QED
    BY <1>1, <2>1, <2>2
<1> HIDE DEF N, R, to, left
<1>12. /\ stream' \in Seq(1..Cardinality(Beacon)) /\ Len(stream') = N + 1 - left
       /\ stream' = <<>> <=> left = N + 1
       /\ left <= N => stream'[1] = stream[left]
  <2> DEFINE S == 1..Cardinality(Beacon)
  <2>1. stream \in Seq(S) /\ left \in 1..(N + 1) /\ N = Len(stream)
    BY <1>5 DEF Dealings, Typed, N
  <2> HIDE DEF S
  <2>2. SubSeq(stream, left, N) \in Seq(S) /\ Len(SubSeq(stream, left, N)) = N + 1 - left
    BY <2>1
  <2>3. left <= N => SubSeq(stream, left, N)[1] = stream[left]
    BY <1>2, <2>1
  <2>4. SubSeq(stream, left, N) = <<>> <=> left = N + 1
    <3> DEFINE rest == SubSeq(stream, left, N)
    <3>1. rest \in Seq(S) /\ Len(rest) = N + 1 - left
      BY <2>2
    <3> HIDE DEF rest
    <3>2. rest = <<>> <=> Len(rest) = 0
      BY <3>1
    <3>3. left \in Int /\ N \in Int
      BY <1>2, <2>1
    <3>4. N + 1 - left = 0 <=> left = N + 1
      BY <3>3
    <3> QED
      BY <3>1, <3>2, <3>4 DEF rest
  <2> QED
    BY <1>1, <2>2, <2>3, <2>4 DEF S
<1>13. /\ cut' \in Nat /\ (left = N + 1 => cut' = 0)
       /\ left <= N => cut' < MessageLength(stream[left])
  <2>1. Begins[left] \in Nat
    BY <1>3, <1>5
  <2>2. cut' = to - Begins[left]
    BY <1>1
  <2>3. cut' \in Nat
    BY <1>2, <1>5, <2>1, <2>2
  <2>4. left = N + 1 => cut' = 0
    <3>1. left = N + 1 => to = Begins[left]
      BY <1>2, <1>4, <1>5, <2>1
    <3> QED
      BY <1>2, <2>2, <3>1
  <2>5. left <= N => cut' < MessageLength(stream[left])
    <3> SUFFICES ASSUME left <= N PROVE cut' < MessageLength(stream[left])
      OBVIOUS
    <3>1. left \in 1..N /\ stream[left] \in Nat
      BY <1>2, <1>5
    <3>2. Begins[left + 1] = Begins[left] + MessageLength(stream[left])
      BY <1>3, <3>1
    <3>3. MessageLength(stream[left]) \in Nat
      BY <3>1 DEF MessageLength, HeaderLength, RecordLength
    <3> QED
      BY <1>2, <1>5, <2>1, <2>2, <3>2, <3>3
  <2> QED
    BY <2>3, <2>4, <2>5
<1>14. Typed'
  <2>1. own' \in BOOLEAN
    BY <1>1, Zenon
  <2>2. pc' \in {"read", "first", "next", "ack", "raised"} /\ mac' \in {"unset", "own", "other"}
    BY <1>1, <1>8 DEF Dealings, Typed
  <2>3. cuts' \in Nat
    BY <1>1 DEF Dealings, Typed
  <2>4. (stream' = <<>> => cut' = 0) /\ (stream' # <<>> => cut' < MessageLength(stream'[1]))
    BY <1>2, <1>5, <1>12, <1>13
  <2> QED
    BY <1>1, <1>11, <1>12, <1>13, <2>1, <2>2, <2>3, <2>4 DEF Dealings, Typed, agentvars
<1>15. /\ R[N] \in Nat /\ R[left - 1] \in Nat
       /\ left <= N => R[left] = R[left - 1] + stream[left] /\ stream[left] \in Nat
  <2>1. N \in 0..N /\ left - 1 \in 0..N /\ (left <= N => left \in 1..N)
    BY <1>2, <1>5
  <2> QED
    BY <1>2, <1>6, <2>1, SMTT(30)
<1>16. Unread' = R[N] - R[left - 1] - IF cut' = 0 THEN 0 ELSE stream[left]
  <2>1. cut' # 0 => stream'[1] = stream[left]
    BY <1>2, <1>5, <1>12, <1>13
  <2> QED
    BY <1>7, <2>1 DEF Unread
<1>17. Unread = R[N] - IF cut = 0 THEN 0 ELSE stream[1]
  BY DEF Unread, R, N
<1>18. unfiled \in Int /\ unfiled' = unfiled /\ unfiled >= Unread
  <2>1. Pending = 0
    BY <1>1 DEF Pending
  <2> QED
    BY <1>1, <2>1, PendingTyped DEF Dealings, Typed, Counted
<1>19. Counted'
  <2>1. CASE own'
    <3> DEFINE last == IF cut' = 0 THEN left - 1 ELSE left
    <3>1. cut' # 0 => left <= N
      BY <1>2, <1>5, <1>13
    <3>2. last \in 0..N
      BY <1>2, <1>5, <3>1
    <3>3. last < N => to <= Begins[last + 1]
      <4> SUFFICES ASSUME last < N PROVE to <= Begins[last + 1]
        OBVIOUS
      <4>1. CASE cut' = 0
        <5>1. Begins[left] \in Nat /\ last + 1 = left
          BY <1>3, <1>5, <4>1
        <5> QED
          BY <1>1, <1>2, <4>1, <5>1
      <4>2. CASE cut' # 0
        <5>1. left \in 1..N /\ left + 1 \in 1..(N + 1) /\ last = left
          BY <1>2, <1>5, <3>1, <4>2
        <5>2. Begins[left + 1] \in Nat
          BY <1>3, <5>1
        <5> QED
          BY <1>2, <1>5, <5>1, <5>2
      <4> QED
        BY <4>1, <4>2
    <3> HIDE DEF last
    <3>4. Len(LinesOf(0, to)) <= R[last]
      <4>1. /\ 0 \in Int /\ to \in Int /\ last \in 0..Len(stream)
            /\ last < Len(stream) => to <= Begins[last + 1]
        BY <1>2, <3>2, <3>3 DEF N
      <4> QED
        BY <1>2, <4>1, LinesOfCounted DEF R
    <3>5. Pending' = Len(LinesOf(0, to)) /\ Pending' \in Nat
      <4>1. Pending' = Len(lines')
        BY <1>9, <2>1 DEF Pending
      <4>2. Len(lines') \in Nat
        BY <1>11
      <4> QED
        BY <1>9, <2>1, <4>1, <4>2
    <3>6. Unread' = R[N] - R[last]
      <4>1. CASE cut' = 0
        BY <1>15, <1>16, <4>1 DEF last
      <4>2. CASE cut' # 0
        BY <1>15, <1>16, <3>1, <4>2 DEF last
      <4> QED
        BY <4>1, <4>2
    <3>7. R[last] \in Nat
      BY <1>6, <3>2
    <3>8. Unread = R[N]
      BY <1>9, <1>15, <1>17, <2>1
    <3> QED
      BY <1>15, <1>18, <3>4, <3>5, <3>6, <3>7, <3>8 DEF Counted
  <2>2. CASE ~ own'
    <3>1. Unread' <= Unread
      <4>1. CASE cut = 0
        <5>1. Unread = R[N]
          BY <1>15, <1>17, <4>1
        <5>2. Unread' <= R[N]
          <6>1. CASE cut' = 0
            BY <1>15, <1>16, <6>1
          <6>2. CASE cut' # 0
            <7>1. left <= N
              BY <1>2, <1>5, <1>13, <6>2
            <7>2. Unread' = R[N] - R[left - 1] - stream[left] /\ stream[left] \in Nat
              BY <1>15, <1>16, <6>2, <7>1
            <7> QED
              BY <1>15, <7>2
          <6> QED
            BY <6>1, <6>2
        <5> QED
          BY <5>1, <5>2
      <4>2. CASE cut # 0 /\ left = 1
        <5>1. cut' = to
          BY <1>1, <1>2, <1>3, <4>2
        <5>2. cut' # 0 /\ R[left - 1] = 0 /\ left <= N
          BY <1>2, <1>6, <4>2, <5>1 DEF to
        <5> QED
          BY <1>15, <1>16, <1>17, <4>2, <5>2
      <4>3. CASE cut # 0 /\ left # 1
        <5>1. stream[1] \in Nat
          BY <1>2
        <5>2. stream[1] <= R[left - 1]
          <6>1. left - 1 \in 1..N
            BY <1>2, <1>5, <4>3
          <6> QED
            BY <1>2, <6>1, FirstIsCounted DEF R, N
        <5>3. cut' # 0 => left <= N
          BY <1>2, <1>5, <1>13
        <5> QED
          BY <1>15, <1>16, <1>17, <4>3, <5>1, <5>2, <5>3
      <4> QED
        BY <4>1, <4>2, <4>3
    <3>2. Unread' \in Int /\ Unread \in Int
      <4>1. cut' # 0 => left <= N
        BY <1>2, <1>5, <1>13
      <4> QED
        BY <1>15, <1>16, <4>1, PendingTyped DEF Dealings
    <3>3. Pending' = 0
      BY <1>10, <2>2
    <3>4. unfiled' \in Int /\ unfiled' >= Unread
      BY <1>18
    <3>5. unfiled' >= Unread' + 0
      <4>1. \A u, w, f \in Int : w <= u /\ f >= u => f >= w + 0
        OBVIOUS
      <4> QED
        BY <3>1, <3>2, <3>4, <4>1
    <3>6. unfiled' >= Unread' + Pending'
      BY <3>3, <3>5
    <3> QED
      BY <3>6 DEF Counted
  <2> QED
    BY <2>1, <2>2
<1>20. ASSUME cuts' = 0
       PROVE  Lockstep' /\ (Accounted => Accounted')
  <2>1. cuts = 0 /\ length = Available
    <3>1. cuts \in Nat
      BY DEF Dealings, Typed
    <3>2. Available \in Int
      <4>1. N + 1 \in 1..(N + 1)
        BY <1>2
      <4>2. Begins[N + 1] \in Nat
        BY <1>3, <4>1
      <4> QED
        BY <1>2, <4>2 DEF Available, N
    <3> QED
      BY <1>1, <1>20, <3>1, <3>2
  <2>2. Lockstep
    BY <2>1 DEF Dealings
  <2>3. cut = 0 /\ waiting /\ N = 1 /\ replies = 0
    <3>1. stream # <<>>
      BY <1>1
    <3> QED
      BY <2>2, <3>1 DEF Lockstep, N
  <2>4. Begins[2] = MessageLength(stream[1]) /\ stream[1] \in Nat /\ stream[1] >= 1
    <3>1. 1 \in 1..N /\ 1 + 1 = 2
      BY <2>3
    <3>2. Begins[1 + 1] = Begins[1] + MessageLength(stream[1])
      BY <1>3, <3>1
    <3>3. stream[1] \in Nat /\ stream[1] >= 1
      BY <1>2, <3>1
    <3>4. MessageLength(stream[1]) \in Nat
      BY <3>3 DEF MessageLength, HeaderLength, RecordLength
    <3> QED
      BY <1>3, <3>1, <3>2, <3>3, <3>4
  <2>5. length = MessageLength(stream[1]) /\ to = length
    <3>1. Available = Begins[2] - 0
      BY <2>3 DEF Available, N
    <3>2. MessageLength(stream[1]) \in Nat
      BY <2>4 DEF MessageLength, HeaderLength, RecordLength
    <3> QED
      BY <2>1, <2>3, <2>4, <3>1, <3>2 DEF to
  <2>6. left = 2
    <3>1. left # 1
      BY <1>5, <2>3, <2>4, <2>5
    <3> QED
      BY <1>5, <2>3, <3>1
  <2>7. stream' = <<>> /\ cut' = 0
    BY <1>12, <1>13, <2>3, <2>6
  <2>8. /\ Kind(length) = "batch" /\ LinesOf(0, to) \in WholeLines
        /\ Len(LinesOf(0, to)) = stream[1]
    BY <1>2, <2>3, <2>4, <2>5, WholeMessage DEF N
  <2>9. lines' = LinesOf(0, to) /\ own' /\ pc' = "first"
    BY <1>1, <2>3, <2>8
  <2>10. Lockstep'
    BY <1>1, <2>2, <2>3, <2>7, <2>8, <2>9 DEF Lockstep, agentvars
  <2>11. Accounted => Accounted'
    <3> SUFFICES ASSUME Accounted PROVE Accounted'
      OBVIOUS
    <3>1. unfiled = stream[1]
      BY <1>1 DEF Accounted
    <3> QED
      BY <1>18, <2>8, <2>9, <3>1 DEF Accounted
  <2> QED
    BY <2>10, <2>11
<1>21. cuts' = 0 => cuts = 0
  BY <1>1 DEF Dealings, Typed
<1> QED
  BY <1>1, <1>14, <1>19, <1>20, <1>21 DEF Dealings

LEMMA ReadSomeDeals ==
  ASSUME Dealings, ReadSome
  PROVE  Dealings'
<1>1. ASSUME stream # <<>> PROVE Available \in Nat
  <2>1. Typed
    BY DEF Dealings
  <2>2. /\ stream \in Seq(Nat) /\ Len(stream) \in Nat \ {0} /\ cut \in Nat
        /\ cut < MessageLength(stream[1])
    <3>1. stream \in Seq(Nat)
      BY <2>1, StreamTyped
    <3> QED
      BY <1>1, <2>1, <3>1 DEF Typed
  <2>3. 1 \in 1..Len(stream) /\ 2 \in 1..(Len(stream) + 1) /\ Len(stream) + 1 \in 2..(Len(stream) + 1)
    BY <2>2
  <2>4. Begins[1] = 0 /\ Begins[1 + 1] = Begins[1] + MessageLength(stream[1])
    BY <2>2, <2>3, BeginsUnfolds
  <2>5. Begins[2] <= Begins[Len(stream) + 1]
    BY <2>2, <2>3, BeginsGrow
  <2>6. Begins \in [1..(Len(stream) + 1) -> Nat]
    BY <2>2, BeginsUnfolds
  <2>7. Begins[Len(stream) + 1] \in Nat /\ MessageLength(stream[1]) \in Nat
    <3>1. Len(stream) + 1 \in 1..(Len(stream) + 1) /\ stream[1] \in Nat
      BY <2>2
    <3> QED
      BY <2>6, <3>1 DEF MessageLength, HeaderLength, RecordLength
  <2>8. Begins[2] = MessageLength(stream[1])
    BY <2>4, <2>7
  <2>9. cut <= Begins[Len(stream) + 1]
    BY <2>2, <2>5, <2>7, <2>8
  <2> QED
    BY <2>2, <2>7, <2>9 DEF Available
<1>2. CASE Read(Min({Available, ReadBuffer}))
  <2>1. stream # <<>>
    BY <1>2 DEF Read
  <2>2. /\ Min({Available, ReadBuffer}) \in Nat
        /\ Min({Available, ReadBuffer}) <= Available
    BY <1>1, <2>1, MinOfTwo DEF ReadBuffer
  <2> QED
    BY <1>2, <2>2, ReadDeals
<1>3. CASE \E length \in Piece : length < Available /\ Read(length)
  <2>1. PICK length \in Piece : length < Available /\ Read(length)
    BY <1>3
  <2>2. stream # <<>> /\ length \in Nat
    BY <2>1, MessagesAssumption DEF Read
  <2>3. length <= Available
    BY <1>1, <2>1, <2>2
  <2> QED
    BY <2>1, <2>2, <2>3, ReadDeals
<1> QED
  BY <1>2, <1>3 DEF ReadSome

LEMMA NextDeals == MessagesInv /\ [Next]_vars => MessagesInv'
<1> SUFFICES ASSUME MessagesInv, [Next]_vars PROVE MessagesInv'
  OBVIOUS
<1>1. IInv /\ Dealings /\ IInv'
  BY NextKeeps DEF MessagesInv
<1>2. Dealings'
  <2>1. ASSUME NEW b \in Beacon, NEW stronger \in BOOLEAN, Hear(b, stronger) PROVE Dealings'
    BY <1>1, <2>1, HearDeals
  <2>2. ASSUME NEW n \in DOMAIN table, Elapse(n) PROVE Dealings'
    BY <1>1, <2>2, ElapseDeals
  <2>3. CASE TakeReply
    BY <1>1, <2>3, TakeReplyDeals
  <2>4. CASE ThreadStep
    BY <1>1, <2>4, ReadSomeDeals, FirstLineDeals, NextLineDeals, LastLineDeals, AckDeals
    DEF ThreadStep
  <2>5. CASE HttpStep
    BY <1>1, <2>5, SplitIdDeals, SplitPathDeals DEF HttpStep
  <2>6. CASE UNCHANGED vars
    BY <1>1, <2>6 DEF vars, agentvars, tcp, threadvars, Dealings, Typed, Counted, Unread,
                      Pending, Lockstep, Accounted
  <2> QED
    BY <2>1, <2>2, <2>3, <2>4, <2>5, <2>6 DEF Next
<1> QED
  BY <1>1, <1>2 DEF MessagesInv

LEMMA MessagesInvariant == Spec => []MessagesInv
<1>1. Init => MessagesInv
  BY InitHolds, InitDeals DEF MessagesInv
<1> QED
  BY <1>1, NextDeals, PTL DEF Spec

\* The agent's table has one node per beacon, the position in the stream is
\* within a message, what strtok holds is an agent's text, and no record is
\* filed twice: whatever pieces come and however the threads cross.
THEOREM TypeCorrect == Spec => []TypeOK
<1>1. MessagesInv => TypeOK
  <2> SUFFICES ASSUME IInv, Typed, Counted PROVE TypeOK
    BY DEF MessagesInv, Dealings
  <2>1. ASSUME NEW n \in DOMAIN table
        PROVE  /\ table[n].mac \in Beacon /\ (table[n].flag => table[n].due)
               /\ Cardinality(Hold(table, table[n].mac)) = 1
    <3>1. table[n] \in Node /\ (table[n].flag => table[n].due)
      BY DEF IInv, FlaggedWasSent
    <3>2. Hold(table, table[n].mac) = {n}
      BY DEF Hold, Typed
    <3>3. Cardinality({n}) = 1
      BY FS_Singleton
    <3> QED
      BY <3>1, <3>2, <3>3 DEF Node
  <2>2. unfiled \in Nat
    <3>1. /\ stream \in Seq(Nat) /\ Len(stream) \in Nat
          /\ \A n \in 1..Len(stream) : stream[n] \in Nat
      BY StreamTyped
    <3>2. /\ Records(stream) \in [0..Len(stream) -> Nat] /\ Records(stream)[0] = 0
          /\ \A n \in 1..Len(stream) : Records(stream)[n] = Records(stream)[n - 1] + stream[n]
      BY <3>1, RecordsUnfolds
    <3>3. Unread \in Nat
      <4> DEFINE R == Records(stream)
                 N == Len(stream)
      <4>1. R[N] \in Nat
        BY <3>1, <3>2
      <4>2. CASE cut = 0
        BY <4>1, <4>2 DEF Unread
      <4>3. CASE cut # 0
        <5>1. stream # <<>>
          BY <4>3 DEF Typed
        <5>2. N \in 1..N /\ stream[1] \in Nat
          BY <3>1, <5>1
        <5>3. stream[1] <= R[N]
          BY <3>1, <5>2, FirstIsCounted
        <5> QED
          BY <4>1, <4>3, <5>2, <5>3 DEF Unread
      <4> QED
        BY <4>2, <4>3
    <3>4. Pending \in Nat
      BY PendingTyped
    <3>5. unfiled \in Int /\ unfiled >= Unread + Pending
      BY DEF Typed, Counted
    <3> QED
      BY <3>3, <3>4, <3>5
  <2> QED
    BY <2>1, <2>2 DEF Typed, TypeOK
<1> QED
  BY <1>1, MessagesInvariant, PTL

\* 'z' confirms "the data arrival" (agentHandler.h:243): without a short read
\* and without a query between the calls of strtok, an agent that goes on has
\* all its records filed, however many messages and records they are.
THEOREM ConfirmedRecordsAreFiled == Spec => []ConfirmedIsFiled
<1>1. MessagesInv => ConfirmedIsFiled
  <2> SUFFICES ASSUME MessagesInv, ~ waiting, cuts = 0, ~ crossed, broken = "no"
               PROVE  unfiled = 0
    BY DEF ConfirmedIsFiled
  <2>1. Lockstep /\ Accounted
    BY DEF MessagesInv, Dealings
  <2> QED
    BY <2>1 DEF Lockstep, Accounted
<1> QED
  BY <1>1, MessagesInvariant, PTL

\* A strange mac needs a short read; a line that overruns its buffer a short
\* read, or a query between two calls of strtok; lines that overrun the buffer
\* of an id need such a query (store_rssi_from_agent, get_beacon_name_from_url).
THEOREM TroubleIsCaused == Spec => []TroubleHasACause
<1>1. MessagesInv => TroubleHasACause
  <2> SUFFICES ASSUME MessagesInv PROVE TroubleHasACause
    OBVIOUS
  <2>1. cuts = 0 => ~ stranger
    BY DEF MessagesInv, Dealings, Lockstep
  <2>2. (broken = "id" => crossed) /\ (broken = "line" => cuts > 0 \/ crossed)
    BY DEF MessagesInv, Dealings
  <2>3. cuts \in Nat
    BY DEF MessagesInv, Dealings, Typed
  <2> QED
    BY <2>1, <2>2, <2>3 DEF TroubleHasACause
<1> QED
  BY <1>1, MessagesInvariant, PTL
=============================================================================
